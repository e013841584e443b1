---------------------------- MODULE OnboardingProofs ----------------------------
(***************************************************************************)
(* Invariance proofs for Onboarding, for every set of requests, names and  *)
(* addresses.                                                              *)
(*                                                                         *)
(* The properties speak of committed rows; what makes them inductive is    *)
(* what they say of the rows a request has flushed: that no other          *)
(* transaction can commit the same name or address before it, nor delete   *)
(* the organization they refer to, and that a first-run request goes on    *)
(* only if nobody who had ended before it has left a user.                 *)
(***************************************************************************)
EXTENDS Onboarding, TLAPS

Ops == {"none", "first-run", "seed", "create", "delete", "scan", "import"}

\* Where a request has flushed neither a user nor a site.
Early == {"idle", "count users", "insert org", "insert user", "find admin", "delete", "ping",
          "answer"} \cup Over

Pcs == Early \cup {"find site", "find assets", "insert assets", "insert alerts", "commit"}

OrgRow == [id : Request, name : Org]
UserRow == [email : Email, org : Request \cup {Null}, by : Request]

Session ==
  [op : Ops, pc : Pcs, name : Org \cup {Null}, email : Email \cup {Null},
   org : Request \cup {Null}, new : SUBSET OrgRow, user : SUBSET UserRow, site : SUBSET Site,
   scan : SUBSET [id : Request, status : {"running", "completed"}, up : BOOLEAN],
   seen : SUBSET Site]

Shapes ==
  /\ orgs \subseteq OrgRow /\ users \subseteq UserRow /\ sites \subseteq Site
  /\ session \in [Request -> Session]
  /\ ended \in [Request -> SUBSET Request]

\* Committed rows refer to committed organizations.
Referential ==
  /\ \A u \in users : u.org \in OrgIds \cup {Null}
  /\ \A x \in sites : x.org \in OrgIds

\* Which request has which step.
Sequenced(s) ==
  /\ s.pc = "count users" => s.op = "first-run" /\ s.org = Null
  /\ s.pc \in {"find admin", "find site", "find assets", "insert assets", "insert alerts"}
       => s.op = "seed"
  /\ s.pc \in {"insert user", "commit"} => s.op \in {"first-run", "seed"}
  /\ s.pc = "insert org" => s.op \in {"first-run", "seed", "create"} /\ s.org = Null
  /\ s.pc = "ping" => s.op = "scan"
  /\ s.op = "delete" => s.pc \in {"delete"} \cup Over
  /\ s.pc \in {"count users", "insert org"} => s.name \in Org
  /\ s.op \in {"first-run", "seed"} /\ s.pc \notin Over => s.email \in Email
  /\ s.op # "none" <=> s.pc # "idle"

\* The session's own site, if it has flushed one.
OwnSite(r, s) == {x \in s.site : x.id = r}

\* What a request has flushed, and that the organization it needs cannot go away.
Flushed(r, s) ==
  /\ s.new = IF s.org = r THEN {[id |-> r, name |-> s.name]} ELSE {}
  /\ s.user \subseteq {[email |-> s.email, org |-> s.org, by |-> r]}
  /\ s.pc \in Early => s.user = {} /\ s.site = {}
  /\ s.pc \in Over \cup {"idle"} => s.org = Null
  /\ s.pc # "find assets" => \A x \in s.site : x.id = r /\ x.org = s.org
  /\ s.pc = "find assets" => OwnSite(r, s) = {}
  /\ s.user # {} \/ OwnSite(r, s) # {} => s.org \in OrgIds \cup {r}

\* An organization is not committed without an administrator.
Administered(r, s) ==
  /\ s.op = "first-run" /\ s.pc = "commit" => s.user # {}
  /\ s.op = "seed" /\ s.pc \in Pcs \ Early
       => s.user # {} \/ \E u \in users : u.email = SeedAdmin

\* Unique indexes, over what is committed and what is flushed.
UniqueNames ==
  /\ \A o, p \in orgs : o.name = p.name => o = p
  /\ \A r \in Request : \A o \in session[r].new : \A p \in orgs : p.name # o.name
  /\ \A r \in Request, q \in Request :
       r # q => \A o \in session[r].new : \A p \in session[q].new : o.name # p.name

UniqueEmails ==
  /\ \A u, v \in users : u.email = v.email => u = v
  /\ \A r \in Request : \A u \in session[r].user : \A v \in users : u.email # v.email
  /\ \A r \in Request, q \in Request :
       r # q => \A u \in session[r].user : \A v \in session[q].user : u.email # v.email

\* Only a request that has succeeded leaves rows, and a first-run leaves its user.
Inserted ==
  /\ \A r \in Request : session[r].pc # "ok" => InsertedBy(r) = {}
  /\ \A r \in Request : session[r].op = "first-run" /\ session[r].pc = "ok"
       => \E u \in users : u.by = r
  /\ \A o \in orgs : \E u \in users : u.by = o.id \/ u.email = SeedAdmin

EndedOver == \A r \in Request : \A q \in ended[r] : session[q].pc \in Over

\* A first-run request past its check: nobody who had ended before it has left a user.
LookedFirst(r, s) ==
  s.op = "first-run" /\ s.pc \in {"insert org", "insert user", "commit", "ok"}
    => \A u \in users : u.by \notin ended[r]

AttachedUnlessDeleted == deleted # TRUE => \A u \in users : Attached(u)

IInv ==
  /\ Shapes /\ Referential
  /\ \A r \in Request :
       /\ Sequenced(session[r]) /\ Flushed(r, session[r]) /\ Administered(r, session[r])
       /\ LookedFirst(r, session[r])
  /\ UniqueNames /\ UniqueEmails /\ Inserted /\ EndedOver /\ AttachedUnlessDeleted

-----------------------------------------------------------------------------
(* Steps that change one session and no table.                             *)

LEMMA FreshFacts ==
  /\ Fresh \in Session
  /\ Fresh.op = "none" /\ Fresh.pc = "idle" /\ Fresh.org = Null /\ Fresh.new = {}
  /\ Fresh.user = {} /\ Fresh.site = {} /\ Fresh.name = Null /\ Fresh.email = Null
  /\ Null \notin Request
  BY OnboardingAssumption DEF Fresh, Session, Ops, Pcs, Early

LEMMA InvInit == Init => IInv
<1> SUFFICES ASSUME Init PROVE IInv
    OBVIOUS
<1>1. \A r \in Request : session[r] = Fresh /\ ended[r] = {}
  BY DEF Init
<1>2. orgs = {} /\ users = {} /\ sites = {}
  BY DEF Init
<1>3. Shapes
  BY <1>2, FreshFacts DEF Init, Shapes
<1>4. ASSUME NEW r \in Request
      PROVE  /\ Sequenced(Fresh) /\ Flushed(r, Fresh) /\ Administered(r, Fresh)
             /\ LookedFirst(r, Fresh)
  BY FreshFacts DEF Sequenced, Flushed, Administered, LookedFirst, OwnSite, Early, Over
<1>5. UniqueNames /\ UniqueEmails
  BY <1>1, <1>2, FreshFacts DEF UniqueNames, UniqueEmails
<1>6. Inserted /\ EndedOver
  BY <1>1, <1>2, FreshFacts DEF Inserted, EndedOver, InsertedBy
<1> QED
  BY <1>1, <1>2, <1>3, <1>4, <1>5, <1>6 DEF IInv, Referential, AttachedUnlessDeleted

LEMMA RowStep ==
  ASSUME IInv, NEW r \in Request, NEW s \in Session, NEW over \in SUBSET Request,
         session[r].pc \notin Over,
         Sequenced(s), Flushed(r, s), Administered(r, s),
         s.op = "first-run" => s.pc # "ok",
         s.op = "first-run" /\ s.pc \in {"insert org", "insert user", "commit"}
           => \A u \in users : u.by \notin over,
         \A q \in over : session[q].pc \in Over,
         \A o \in s.new :
           /\ \A p \in orgs : p.name # o.name
           /\ \A q \in Request \ {r} : \A p \in session[q].new : p.name # o.name,
         \A u \in s.user :
           /\ \A v \in users : v.email # u.email
           /\ \A q \in Request \ {r} : \A v \in session[q].user : v.email # u.email,
         session' = [session EXCEPT ![r] = s], ended' = [ended EXCEPT ![r] = over],
         UNCHANGED <<tables, deleted>>
  PROVE  IInv'
<1>0. /\ Shapes /\ Referential /\ UniqueNames /\ UniqueEmails /\ Inserted /\ EndedOver
      /\ AttachedUnlessDeleted
      /\ \A q \in Request : /\ Sequenced(session[q]) /\ Flushed(q, session[q])
                            /\ Administered(q, session[q]) /\ LookedFirst(q, session[q])
  BY DEF IInv
<1>1. orgs' = orgs /\ users' = users /\ sites' = sites /\ deleted' = deleted
  BY DEF tables
<1>2. /\ \A q \in Request : session'[q] = IF q = r THEN s ELSE session[q]
      /\ \A q \in Request : ended'[q] = IF q = r THEN over ELSE ended[q]
      /\ session' \in [Request -> Session] /\ ended' \in [Request -> SUBSET Request]
  BY <1>0 DEF Shapes
<1>3. Shapes' /\ Referential'
  BY <1>0, <1>1, <1>2 DEF Shapes, Referential, OrgIds
<1>4. OrgIds' = OrgIds
  BY <1>1 DEF OrgIds
<1>5. ASSUME NEW q \in Request
      PROVE  /\ Sequenced(session[q])' /\ Flushed(q, session[q])'
             /\ Administered(q, session[q])' /\ LookedFirst(q, session[q])'
  <2>1. /\ Sequenced(session'[q]) /\ Flushed(q, session'[q]) /\ Administered(q, session'[q])
    BY <1>0, <1>2
  <2>2. /\ session'[q].op = "first-run"
        /\ session'[q].pc \in {"insert org", "insert user", "commit", "ok"}
        => \A u \in users : u.by \notin ended'[q]
    <3>1. CASE q = r
      BY <3>1, <1>2
    <3>2. CASE q # r
      <4>1. session'[q] = session[q] /\ ended'[q] = ended[q] /\ LookedFirst(q, session[q])
        BY <3>2, <1>0, <1>2
      <4> QED
        BY <4>1 DEF LookedFirst
    <3> QED
      BY <3>1, <3>2
  <2>3. Sequenced(session[q])' /\ Administered(q, session[q])' /\ LookedFirst(q, session[q])'
    BY <2>1, <2>2, <1>1 DEF Sequenced, Administered, LookedFirst
  <2>4. Flushed(q, session[q])'
    BY <2>1, <1>4 DEF Flushed, OwnSite
  <2> QED
    BY <2>3, <2>4
<1>6. UniqueNames'
  <2>1. \A o, p \in orgs' : o.name = p.name => o = p
    BY <1>0, <1>1 DEF UniqueNames
  <2>2. \A z \in Request : \A o \in session'[z].new : \A p \in orgs' : p.name # o.name
    BY <1>0, <1>1, <1>2 DEF UniqueNames
  <2>3. ASSUME NEW z \in Request, NEW q \in Request, z # q,
               NEW o \in session'[z].new, NEW p \in session'[q].new
        PROVE  o.name # p.name
    <3>1. CASE z = r
      <4>1. q \in Request \ {r} /\ o \in s.new /\ p \in session[q].new
        BY <2>3, <3>1, <1>2
      <4> QED
        BY <4>1
    <3>2. CASE q = r
      <4>1. z \in Request \ {r} /\ p \in s.new /\ o \in session[z].new
        BY <2>3, <3>2, <1>2
      <4> QED
        BY <4>1
    <3>3. CASE z # r /\ q # r
      <4>1. o \in session[z].new /\ p \in session[q].new
        BY <2>3, <3>3, <1>2
      <4> QED
        BY <4>1, <2>3, <1>0 DEF UniqueNames
    <3> QED
      BY <3>1, <3>2, <3>3
  <2> QED
    BY <2>1, <2>2, <2>3 DEF UniqueNames
<1>7. UniqueEmails'
  <2>1. \A u, v \in users' : u.email = v.email => u = v
    BY <1>0, <1>1 DEF UniqueEmails
  <2>2. ASSUME NEW z \in Request, NEW u \in session'[z].user, NEW v \in users'
        PROVE  u.email # v.email
    <3>1. CASE z = r
      <4>1. u \in s.user /\ v \in users
        BY <3>1, <1>1, <1>2
      <4> QED
        BY <4>1
    <3>2. CASE z # r
      BY <3>2, <1>0, <1>1, <1>2, ZenonT(40) DEF UniqueEmails
    <3> QED
      BY <3>1, <3>2
  <2>3. ASSUME NEW z \in Request, NEW q \in Request, z # q,
               NEW u \in session'[z].user, NEW v \in session'[q].user
        PROVE  u.email # v.email
    <3>1. CASE z = r
      <4>1. q \in Request \ {r} /\ u \in s.user /\ v \in session[q].user
        BY <2>3, <3>1, <1>2
      <4> QED
        BY <4>1
    <3>2. CASE q = r
      <4>1. z \in Request \ {r} /\ v \in s.user /\ u \in session[z].user
        BY <2>3, <3>2, <1>2
      <4> QED
        BY <4>1
    <3>3. CASE z # r /\ q # r
      <4>1. u \in session[z].user /\ v \in session[q].user
        BY <2>3, <3>3, <1>2
      <4> QED
        BY <4>1, <2>3, <1>0 DEF UniqueEmails
    <3> QED
      BY <3>1, <3>2, <3>3
  <2> QED
    BY <2>1, <2>2, <2>3 DEF UniqueEmails
<1>8. Inserted'
  <2>1. \A q \in Request : InsertedBy(q)' = InsertedBy(q)
    BY <1>0, <1>1 DEF InsertedBy
  <2>2. \A q \in Request : session'[q].pc # "ok" => InsertedBy(q)' = {}
    <3>1. \A q \in Request : session'[q].pc # "ok" => session[q].pc # "ok"
      BY <1>2 DEF Over
    <3> QED
      BY <1>0, <2>1, <3>1 DEF Inserted
  <2>3. \A q \in Request : session'[q].op = "first-run" /\ session'[q].pc = "ok"
          => \E u \in users' : u.by = q
    BY <1>0, <1>1, <1>2 DEF Inserted
  <2>4. \A o \in orgs' : \E u \in users' : u.by = o.id \/ u.email = SeedAdmin
    BY <1>0, <1>1 DEF Inserted
  <2> QED
    BY <2>2, <2>3, <2>4 DEF Inserted
<1>9. EndedOver'
  <2>1. \A q \in Request : session[q].pc \in Over => session'[q] = session[q]
    BY <1>2
  <2>2. ASSUME NEW z \in Request, NEW q \in ended'[z] PROVE session'[q].pc \in Over
    <3>1. q \in Request /\ session[q].pc \in Over
      BY <1>0, <1>2 DEF EndedOver
    <3> QED
      BY <3>1, <2>1
  <2> QED
    BY <2>2 DEF EndedOver
<1>10. AttachedUnlessDeleted'
  BY <1>0, <1>1 DEF AttachedUnlessDeleted, Attached
<1> QED
  BY <1>3, <1>5, <1>6, <1>7, <1>8, <1>9, <1>10 DEF IInv

LEMMA Running ==
  ASSUME IInv, NEW r \in Request
  PROVE  /\ session[r] \in Session /\ ended[r] \in SUBSET Request
         /\ Sequenced(session[r]) /\ Flushed(r, session[r]) /\ Administered(r, session[r])
         /\ LookedFirst(r, session[r])
         /\ \A q \in ended[r] : session[q].pc \in Over
  BY DEF IInv, Shapes, EndedOver

\* A running request goes on, with what it had flushed or with free names and addresses.
LEMMA GoStep ==
  ASSUME IInv, NEW r \in Request, NEW s \in Session, Go(r, s),
         session[r].pc \notin Over,
         Sequenced(s), Flushed(r, s), Administered(r, s),
         s.op = "first-run" => s.pc # "ok",
         LookedFirst(r, s),
         \A o \in s.new \ session[r].new :
           NameIsFree(r, o.name) /\ \A p \in orgs : p.name # o.name,
         \A u \in s.user \ session[r].user :
           EmailIsFree(r, u.email) /\ \A v \in users : v.email # u.email
  PROVE  IInv'
<1>1. \A o \in s.new :
        /\ \A p \in orgs : p.name # o.name
        /\ \A q \in Request \ {r} : \A p \in session[q].new : p.name # o.name
  BY DEF IInv, UniqueNames, NameIsFree
<1>2. \A u \in s.user :
        /\ \A v \in users : v.email # u.email
        /\ \A q \in Request \ {r} : \A v \in session[q].user : v.email # u.email
  BY DEF IInv, UniqueEmails, EmailIsFree
<1>3. ended' = [ended EXCEPT ![r] = ended[r]]
  BY DEF Go, IInv, Shapes
<1>4. s.op = "first-run" /\ s.pc \in {"insert org", "insert user", "commit"}
           => \A u \in users : u.by \notin ended[r]
  BY DEF LookedFirst
<1> QED
  BY <1>1, <1>2, <1>3, <1>4, Running, RowStep DEF Go

\* A request ends without a commit: what it flushed is gone.
LEMMA EndStep ==
  ASSUME IInv, NEW r \in Request, NEW pc \in {"refused", "error"}, End(r, pc),
         session[r].pc \notin Over \cup {"idle"}
  PROVE  IInv'
<1> DEFINE s == [Fresh EXCEPT !.op = session[r].op, !.pc = pc]
<1>1. session[r] \in Session /\ session[r].op \in Ops /\ session[r].op # "none"
  BY Running DEF Session, Sequenced
<1>2. s \in Session
  BY <1>1, FreshFacts DEF Session, Pcs, Early, Over
<1>3. /\ s.pc = pc /\ s.op = session[r].op /\ s.org = Null /\ s.new = {} /\ s.user = {}
      /\ s.site = {}
  BY FreshFacts, <1>1 DEF Fresh
<1>4. Go(r, s)
  BY DEF End, Go
<1> HIDE DEF s
<1>5. Sequenced(s) /\ Administered(r, s) /\ LookedFirst(r, s)
  BY <1>1, <1>3 DEF Sequenced, Administered, LookedFirst, Early, Over
<1>6. Flushed(r, s)
  BY <1>3, FreshFacts DEF Flushed, OwnSite
<1> QED
  BY <1>1, <1>2, <1>3, <1>4, <1>5, <1>6, GoStep

\* A request begins, having flushed nothing.
LEMMA BeginStep ==
  ASSUME IInv, NEW r \in Request, NEW s \in Session, Begin(r, s),
         s.new = {}, s.user = {}, s.site = {}, s.pc \in Early, s.org # r,
         s.pc \in Over \cup {"idle"} => s.org = Null, Sequenced(s),
         s.op = "first-run" => s.pc \notin {"insert org", "insert user", "ok"}
  PROVE  IInv'
<1> DEFINE over == {q \in Request : session[q].pc \in Over}
<1>1. /\ session' = [session EXCEPT ![r] = s] /\ ended' = [ended EXCEPT ![r] = over]
      /\ UNCHANGED <<tables, deleted>> /\ session[r].pc \notin Over
  BY DEF Begin, Over
<1>2. Flushed(r, s) /\ Administered(r, s)
  BY DEF Flushed, OwnSite, Administered, Early, Over
<1>3. s.op = "first-run" => s.pc \notin {"insert org", "insert user", "commit"}
  BY DEF Early, Over
<1>4. over \in SUBSET Request /\ \A q \in over : session[q].pc \in Over
  OBVIOUS
<1> HIDE DEF over
<1> QED
  BY <1>1, <1>2, <1>3, <1>4, RowStep

LEMMA NoRowYet ==
  ASSUME IInv, NEW r \in Request, session[r].pc # "ok"
  PROVE  r \notin OrgIds
<1>1. InsertedBy(r) = {}
  BY DEF IInv, Inserted
<1> QED
  BY <1>1 DEF InsertedBy, OrgIds

LEMMA OrgIdTypes == IInv => OrgIds \subseteq Request
  BY DEF IInv, Shapes, OrgIds, OrgRow

LEMMA FirstRunStep ==
  ASSUME IInv, NEW r \in Request, NEW name \in Org, NEW email \in Email, FirstRun(r, name, email)
  PROVE  IInv'
<1> DEFINE s == [Fresh EXCEPT !.op = "first-run", !.name = name, !.email = email,
                              !.pc = IF orgs # {} THEN "refused" ELSE "count users"]
<1>1. s \in Session
  BY FreshFacts DEF Session, Ops, Pcs, Early, Over
<1>2. /\ s.op = "first-run" /\ s.pc \in {"refused", "count users"} /\ s.org = Null
      /\ s.name = name /\ s.email = email /\ s.new = {} /\ s.user = {} /\ s.site = {}
  BY FreshFacts DEF Fresh
<1>3. Begin(r, s)
  BY DEF FirstRun
<1> HIDE DEF s
<1>4. Sequenced(s) /\ s.pc \in Early
  BY <1>2 DEF Sequenced, Early, Over
<1> QED
  BY <1>1, <1>2, <1>3, <1>4, FreshFacts, BeginStep

LEMMA SeedStep == ASSUME IInv, NEW r \in Request, Seed(r) PROVE IInv'
<1> DEFINE found == {o \in orgs : o.name = AcmeCorp}
           s0 == [Fresh EXCEPT !.op = "seed", !.name = AcmeCorp, !.email = SeedAdmin]
           s1 == [s0 EXCEPT !.pc = "insert org"]
           s2 == [s0 EXCEPT !.pc = "find admin", !.org = (CHOOSE o \in found : TRUE).id]
<1>1. /\ s0 \in Session /\ s0.op = "seed" /\ s0.org = Null
      /\ s0.name \in Org /\ s0.email \in Email
      /\ s0.new = {} /\ s0.user = {} /\ s0.site = {}
  BY FreshFacts, OnboardingAssumption DEF Fresh, Session, Ops, Pcs, Early, Over
<1> HIDE DEF s0
<1>2. CASE found = {}
  <2>1. s1 \in Session
    BY <1>1 DEF Session, Pcs, Early
  <2>2. /\ s1.op = "seed" /\ s1.pc = "insert org" /\ s1.org = Null
        /\ s1.name \in Org /\ s1.email \in Email
        /\ s1.new = {} /\ s1.user = {} /\ s1.site = {}
    BY <1>1 DEF Session
  <2>3. Begin(r, s1)
    BY <1>2 DEF Seed, s0
  <2> HIDE DEF s1
  <2>4. Sequenced(s1) /\ s1.pc \in Early
    BY <2>2 DEF Sequenced, Early, Over
  <2> QED
    BY <2>1, <2>2, <2>3, <2>4, FreshFacts, BeginStep
<1>3. CASE found # {}
  <2> DEFINE id == (CHOOSE o \in found : TRUE).id
  <2>1. id \in OrgIds
    <3>1. (CHOOSE o \in found : TRUE) \in found
      BY <1>3
    <3> QED
      BY <3>1 DEF OrgIds
  <2>2. session[r].pc = "idle"
    BY <1>3 DEF Seed, Begin
  <2>3. id \in Request /\ id # r
    BY <2>1, <2>2, OrgIdTypes, NoRowYet
  <2>4. Begin(r, s2)
    BY <1>3 DEF Seed, s0
  <2> HIDE DEF id
  <2>5. s2 = [s0 EXCEPT !.pc = "find admin", !.org = id]
    BY DEF id
  <2> HIDE DEF s2, found
  <2>6. s2 \in Session
    BY <1>1, <2>3, <2>5 DEF Session, Pcs, Early
  <2>7. /\ s2.op = "seed" /\ s2.pc = "find admin" /\ s2.org = id /\ s2.email \in Email
        /\ s2.new = {} /\ s2.user = {} /\ s2.site = {}
    BY <1>1, <2>5 DEF Session
  <2>8. Sequenced(s2) /\ s2.pc \in Early /\ s2.pc \notin Over \cup {"idle"}
    BY <2>7 DEF Sequenced, Early, Over
  <2> QED
    BY <2>3, <2>4, <2>6, <2>7, <2>8, BeginStep
<1> QED
  BY <1>2, <1>3

LEMMA CreateStep ==
  ASSUME IInv, NEW r \in Request, NEW name \in Org, CreateOrganization(r, name)
  PROVE  IInv'
<1> DEFINE s == [Fresh EXCEPT !.op = "create", !.name = name, !.pc = "insert org"]
<1>1. s \in Session
  BY FreshFacts DEF Session, Ops, Pcs, Early, Over
<1>2. /\ s.op = "create" /\ s.pc = "insert org" /\ s.org = Null /\ s.name = name
      /\ s.new = {} /\ s.user = {} /\ s.site = {}
  BY FreshFacts DEF Fresh
<1>3. Begin(r, s)
  BY DEF CreateOrganization
<1> HIDE DEF s
<1>4. Sequenced(s) /\ s.pc \in Early
  BY <1>2 DEF Sequenced, Early, Over
<1> QED
  BY <1>1, <1>2, <1>3, <1>4, FreshFacts, BeginStep

LEMMA LoadStep ==
  ASSUME IInv, NEW r \in Request, NEW id \in Request, LoadOrganization(r, id)
  PROVE  IInv'
<1> DEFINE loaded == {x \in sites : x.org = id}
           s == [Fresh EXCEPT !.op = "delete", !.pc = "delete", !.org = id, !.seen = loaded]
<1>1. loaded \in SUBSET Site
  BY DEF IInv, Shapes
<1>2. Begin(r, s)
  BY DEF LoadOrganization
<1>3. id # r
  BY NoRowYet DEF LoadOrganization, Begin, Member
<1> HIDE DEF loaded
<1>4. s \in Session
  BY <1>1, FreshFacts DEF Session, Ops, Pcs, Early, Over
<1>5. /\ s.op = "delete" /\ s.pc = "delete" /\ s.org = id
      /\ s.new = {} /\ s.user = {} /\ s.site = {}
  BY FreshFacts DEF Fresh
<1> HIDE DEF s
<1>6. Sequenced(s) /\ s.pc \in Early /\ s.pc \notin Over \cup {"idle"}
  BY <1>5 DEF Sequenced, Early, Over
<1> QED
  BY <1>2, <1>3, <1>4, <1>5, <1>6, BeginStep

LEMMA ScanStep == ASSUME IInv, NEW r \in Request, Scan(r) PROVE IInv'
<1> DEFINE row == {[id |-> r, status |-> "running", up |-> FALSE]}
           s == [Fresh EXCEPT !.op = "scan", !.pc = "ping", !.scan = row]
<1>1. row \in SUBSET [id : Request, status : {"running", "completed"}, up : BOOLEAN]
  OBVIOUS
<1>2. Begin(r, s)
  BY DEF Scan
<1> HIDE DEF row
<1>3. s \in Session
  BY <1>1, FreshFacts DEF Session, Ops, Pcs, Early, Over
<1>4. /\ s.op = "scan" /\ s.pc = "ping" /\ s.org = Null
      /\ s.new = {} /\ s.user = {} /\ s.site = {}
  BY FreshFacts DEF Fresh
<1> HIDE DEF s
<1>5. Sequenced(s) /\ s.pc \in Early
  BY <1>4 DEF Sequenced, Early, Over
<1> QED
  BY <1>2, <1>3, <1>4, <1>5, FreshFacts, BeginStep

LEMMA ImportStep == ASSUME IInv, NEW r \in Request, Import(r) PROVE IInv'
<1> DEFINE s == [Fresh EXCEPT !.op = "import", !.pc =
                   IF \E x \in scans : x.status = "completed" THEN "ok" ELSE "refused"]
<1>1. s \in Session
  BY FreshFacts, ZenonT(40) DEF Session, Ops, Pcs, Early, Over
<1>2. /\ s.op = "import" /\ s.pc \in {"ok", "refused"} /\ s.org = Null
      /\ s.new = {} /\ s.user = {} /\ s.site = {}
  BY FreshFacts DEF Fresh
<1>3. Begin(r, s)
  BY DEF Import
<1> HIDE DEF s
<1>4. Sequenced(s) /\ s.pc \in Early
  BY <1>2 DEF Sequenced, Early, Over
<1> QED
  BY <1>1, <1>2, <1>3, <1>4, FreshFacts, BeginStep

-----------------------------------------------------------------------------
(* Steps of a running request.                                             *)

LEMMA CountUsersStep == ASSUME IInv, NEW r \in Request, CountUsers(r) PROVE IInv'
<1> DEFINE s == session[r]
           t == [s EXCEPT !.pc = "insert org"]
<1>1. /\ s \in Session /\ s.pc = "count users" /\ s.op = "first-run" /\ s.org = Null
      /\ s.name \in Org /\ s.email \in Email
      /\ s.user = {} /\ s.site = {} /\ Flushed(r, s)
  BY Running DEF CountUsers, Sequenced, Flushed, Early, Over
<1>2. CASE users # {}
  BY <1>1, <1>2, EndStep DEF CountUsers, Over
<1>3. CASE users = {}
  <2>1. t \in Session
    BY <1>1 DEF Session, Pcs, Early
  <2>2. /\ t.op = "first-run" /\ t.pc = "insert org" /\ t.org = Null /\ t.new = s.new
        /\ t.user = {} /\ t.site = {} /\ t.name = s.name /\ t.email = s.email
    BY <1>1 DEF Session
  <2>3. Go(r, t) /\ s.pc \notin Over
    BY <1>1, <1>3 DEF CountUsers, Over
  <2> HIDE DEF t, s
  <2>4. Sequenced(t) /\ LookedFirst(r, t)
    BY <1>1, <1>3, <2>2 DEF Sequenced, LookedFirst, Over
  <2>5. Flushed(r, t) /\ Administered(r, t)
    BY <1>1, <2>2, FreshFacts DEF Flushed, Administered, OwnSite, Early, Over
  <2> QED
    BY <2>1, <2>2, <2>3, <2>4, <2>5, GoStep DEF s
<1> QED
  BY <1>2, <1>3

LEMMA InsertOrgStep == ASSUME IInv, NEW r \in Request, InsertOrg(r) PROVE IInv'
<1> DEFINE s == session[r]
           row == [id |-> r, name |-> s.name]
           t == [s EXCEPT !.pc = After(s.op), !.org = r, !.new = {row}]
<1>1. /\ s \in Session /\ s.pc = "insert org" /\ s.op \in {"first-run", "seed", "create"}
      /\ s.user = {} /\ s.site = {} /\ LookedFirst(r, s)
      /\ s.name \in Org /\ (s.op \in {"first-run", "seed"} => s.email \in Email)
  BY Running DEF InsertOrg, Sequenced, Flushed, Early, Over
<1>2. CASE \E o \in orgs : o.name = s.name
  BY <1>1, <1>2, EndStep DEF InsertOrg, Over
<1>3. CASE ~\E o \in orgs : o.name = s.name
  <2>1. row \in OrgRow
    BY <1>1 DEF OrgRow
  <2>2. t \in Session
    BY <1>1, <2>1, ZenonT(40) DEF Session, Pcs, Early, After
  <2>3. /\ t.op = s.op /\ t.pc = After(s.op) /\ t.org = r /\ t.new = {row}
        /\ t.user = {} /\ t.site = {} /\ t.name = s.name /\ t.email = s.email
    BY <1>1 DEF Session
  <2>4. Go(r, t) /\ s.pc \notin Over /\ NameIsFree(r, s.name)
    BY <1>1, <1>3 DEF InsertOrg, Over
  <2>5. row.name = s.name
    OBVIOUS
  <2>6. t.op = "first-run" => t.pc = "insert user"
    BY <2>3 DEF After
  <2>7. LookedFirst(r, t)
    BY <1>1, <2>3 DEF LookedFirst
  <2> HIDE DEF t, s
  <2>8. Sequenced(t) /\ Administered(r, t)
    BY <1>1, <2>3 DEF Sequenced, Administered, After, Early, Over
  <2>9. Flushed(r, t)
    BY <1>1, <2>3 DEF Flushed, OwnSite, After, Early, Over
  <2> QED
    BY <1>1, <1>3, <2>2, <2>3, <2>4, <2>5, <2>6, <2>7, <2>8, <2>9, GoStep DEF s
<1> QED
  BY <1>2, <1>3

LEMMA InsertUserStep == ASSUME IInv, NEW r \in Request, InsertUser(r) PROVE IInv'
<1> DEFINE s == session[r]
           row == [email |-> s.email, org |-> s.org, by |-> r]
           t == [s EXCEPT !.pc = IF s.op = "seed" THEN "find site" ELSE "commit",
                          !.user = {row}]
<1>1. /\ s \in Session /\ s.pc = "insert user" /\ s.op \in {"first-run", "seed"}
      /\ s.user = {} /\ s.site = {} /\ LookedFirst(r, s) /\ Flushed(r, s)
      /\ s.email \in Email
  BY Running DEF InsertUser, Sequenced, Flushed, Early, Over
<1>2. CASE (\E u \in users : u.email = s.email) \/ s.org \notin OrgIds \cup {r}
  BY <1>1, <1>2, EndStep DEF InsertUser, Over
<1>3. CASE ~((\E u \in users : u.email = s.email) \/ s.org \notin OrgIds \cup {r})
  <2>1. row \in UserRow
    BY <1>1, <1>3, OrgIdTypes DEF UserRow
  <2>2. t \in Session
    BY <1>1, <2>1, ZenonT(40) DEF Session, Pcs, Early
  <2>3. /\ t.op = s.op /\ t.pc = IF s.op = "seed" THEN "find site" ELSE "commit"
        /\ t.org = s.org /\ t.new = s.new /\ t.user = {row} /\ t.site = {}
        /\ t.name = s.name /\ t.email = s.email
    BY <1>1 DEF Session
  <2>4. Go(r, t) /\ s.pc \notin Over /\ EmailIsFree(r, s.email)
    BY <1>1, <1>3 DEF InsertUser, Over
  <2>5. row.email = s.email
    OBVIOUS
  <2>6. LookedFirst(r, t)
    BY <1>1, <2>3 DEF LookedFirst
  <2> HIDE DEF t, s
  <2>7. Sequenced(t) /\ Administered(r, t)
    BY <1>1, <2>3 DEF Sequenced, Administered, Early, Over
  <2>8. Flushed(r, t)
    BY <1>1, <1>3, <2>3 DEF Flushed, OwnSite, Early, Over
  <2> QED
    BY <1>1, <1>3, <2>2, <2>3, <2>4, <2>5, <2>6, <2>7, <2>8, GoStep DEF s
<1> QED
  BY <1>2, <1>3

\* A step of the seed that flushes no organization and no user.
LEMMA SeedGoesOn ==
  ASSUME IInv, NEW r \in Request, NEW t \in Session, Go(r, t),
         session[r].op = "seed", session[r].pc \notin Over,
         t.op = "seed", t.pc \in {"find site", "find assets", "insert assets", "insert alerts",
                                  "commit", "insert user"},
         t.new = session[r].new, t.user = session[r].user, t.org = session[r].org,
         t.name = session[r].name, t.email = session[r].email,
         t.pc = "insert user" => t.user = {} /\ t.site = {},
         t.pc # "insert user" => t.user # {} \/ \E u \in users : u.email = SeedAdmin,
         t.pc # "find assets" => \A x \in t.site : x.id = r /\ x.org = t.org,
         t.pc = "find assets" => OwnSite(r, t) = {},
         OwnSite(r, t) # {} => t.org \in OrgIds \cup {r}
  PROVE  IInv'
<1>1. Flushed(r, session[r]) /\ session[r].email \in Email
  BY Running DEF Sequenced
<1>2. Flushed(r, t)
  BY <1>1 DEF Flushed, Early, Over
<1>3. Sequenced(t) /\ Administered(r, t) /\ LookedFirst(r, t)
  BY <1>1 DEF Sequenced, Administered, LookedFirst, Early, Over
<1> QED
  BY <1>2, <1>3, GoStep

LEMMA FindAdminStep == ASSUME IInv, NEW r \in Request, FindAdmin(r) PROVE IInv'
<1> DEFINE s == session[r]
           t == [s EXCEPT !.pc =
                   IF \E u \in users : u.email = SeedAdmin THEN "find site" ELSE "insert user"]
<1>1. /\ s \in Session /\ s.pc = "find admin" /\ s.op = "seed" /\ s.user = {} /\ s.site = {}
  BY Running DEF FindAdmin, Sequenced, Flushed, Early
<1>2. t \in Session /\ Go(r, t) /\ s.pc \notin Over
  <2>1. [s EXCEPT !.pc = "find site"] \in Session /\ [s EXCEPT !.pc = "insert user"] \in Session
    BY <1>1 DEF Session, Pcs, Early
  <2>2. t \in Session
    BY <2>1
  <2>3. Go(r, t)
    BY DEF FindAdmin
  <2> QED
    BY <1>1, <2>2, <2>3 DEF Over
<1>3. /\ t.op = "seed" /\ t.user = {} /\ t.site = {} /\ t.new = s.new /\ t.user = s.user
      /\ t.org = s.org /\ t.name = s.name /\ t.email = s.email
      /\ t.pc = IF \E u \in users : u.email = SeedAdmin THEN "find site" ELSE "insert user"
  BY <1>1 DEF Session
<1>4. OwnSite(r, t) = {}
  BY <1>3 DEF OwnSite
<1> HIDE DEF t
<1> QED
  BY <1>1, <1>2, <1>3, <1>4, SeedGoesOn

LEMMA FindSiteStep == ASSUME IInv, NEW r \in Request, FindSite(r) PROVE IInv'
<1> DEFINE s == session[r]
           found == {x \in sites : x.hq}
           row == [id |-> r, org |-> s.org, hq |-> TRUE, assets |-> FALSE, demo |-> FALSE]
           t1 == [s EXCEPT !.pc = "find assets", !.site = found]
           t2 == [s EXCEPT !.pc = "insert assets", !.site = {row}]
<1>1. /\ s \in Session /\ s.pc = "find site" /\ s.op = "seed" /\ s.pc \notin Over \cup {"idle"}
      /\ s.user # {} \/ \E u \in users : u.email = SeedAdmin
  BY Running DEF FindSite, Sequenced, Administered, Pcs, Early, Over
<1>2. CASE End(r, "error")
  BY <1>1, <1>2, EndStep
<1>3. CASE Go(r, t1)
  <2>1. found \subseteq Site /\ found \subseteq sites
    BY DEF IInv, Shapes
  <2>2. {x \in sites : x.id = r} = {}
    BY <1>1 DEF IInv, Inserted, InsertedBy, Over
  <2>3. {x \in found : x.id = r} = {}
    BY <2>1, <2>2
  <2> HIDE DEF found
  <2>4. t1 \in Session
    BY <1>1, <2>1 DEF Session, Pcs, Early
  <2>5. /\ t1.op = "seed" /\ t1.pc = "find assets" /\ t1.site = found /\ t1.new = s.new
        /\ t1.user = s.user /\ t1.org = s.org /\ t1.name = s.name /\ t1.email = s.email
    BY <1>1 DEF Session
  <2>6. OwnSite(r, t1) = {}
    BY <2>3, <2>5 DEF OwnSite
  <2> HIDE DEF t1
  <2> QED
    BY <1>1, <1>3, <2>4, <2>5, <2>6, SeedGoesOn
<1>4. CASE s.org \in OrgIds \cup {r} /\ Go(r, t2)
  <2>1. s.org \in Request
    BY <1>4, OrgIdTypes
  <2>2. row \in Site /\ row.id = r /\ row.org = s.org
    BY <2>1 DEF Site
  <2> HIDE DEF row
  <2>3. t2 \in Session
    BY <1>1, <2>2 DEF Session, Pcs, Early
  <2>4. /\ t2.op = "seed" /\ t2.pc = "insert assets" /\ t2.site = {row} /\ t2.new = s.new
        /\ t2.user = s.user /\ t2.org = s.org /\ t2.name = s.name /\ t2.email = s.email
    BY <1>1 DEF Session
  <2> HIDE DEF t2
  <2> QED
    BY <1>1, <1>4, <2>2, <2>3, <2>4, SeedGoesOn
<1>5. End(r, "error") \/ Go(r, t1) \/ (s.org \in OrgIds \cup {r} /\ Go(r, t2))
  BY DEF FindSite
<1> QED
  BY <1>2, <1>3, <1>4, <1>5

LEMMA FindAssetsStep == ASSUME IInv, NEW r \in Request, FindAssets(r) PROVE IInv'
<1> DEFINE s == session[r]
           t == [s EXCEPT !.pc = "commit", !.site = {}]
<1>1. /\ s \in Session /\ s.pc = "find assets" /\ s.op = "seed" /\ s.pc \notin Over \cup {"idle"}
      /\ s.user # {} \/ \E u \in users : u.email = SeedAdmin
  BY Running DEF FindAssets, Sequenced, Administered, Pcs, Early, Over
<1>2. CASE End(r, "error")
  BY <1>1, <1>2, EndStep
<1>3. CASE Go(r, t)
  <2>1. t \in Session
    BY <1>1 DEF Session, Pcs, Early
  <2>2. /\ t.op = "seed" /\ t.pc = "commit" /\ t.site = {} /\ t.new = s.new
        /\ t.user = s.user /\ t.org = s.org /\ t.name = s.name /\ t.email = s.email
    BY <1>1 DEF Session
  <2>3. OwnSite(r, t) = {}
    BY <2>2 DEF OwnSite
  <2> HIDE DEF t
  <2> QED
    BY <1>1, <1>3, <2>1, <2>2, <2>3, SeedGoesOn
<1> QED
  BY <1>2, <1>3 DEF FindAssets

LEMMA InsertAssetsStep == ASSUME IInv, NEW r \in Request, InsertAssets(r) PROVE IInv'
<1> DEFINE s == session[r]
           rows == {[x EXCEPT !.assets = TRUE, !.demo = TRUE] : x \in s.site}
           t == [s EXCEPT !.pc = "insert alerts", !.site = rows]
<1>1. /\ s \in Session /\ s.pc = "insert assets" /\ s.op = "seed" /\ s.pc \notin Over \cup {"idle"}
      /\ s.user # {} \/ \E u \in users : u.email = SeedAdmin
      /\ Flushed(r, s)
  BY Running DEF InsertAssets, Sequenced, Administered, Pcs, Early, Over
<1>2. CASE End(r, "error")
  BY <1>1, <1>2, EndStep
<1>3. CASE Go(r, t)
  <2>1. s.site \subseteq Site /\ \A x \in s.site : x.id = r /\ x.org = s.org
    BY <1>1 DEF Session, Flushed
  <2>2. ASSUME NEW y \in rows PROVE y \in Site /\ y.id = r /\ y.org = s.org
    <3>1. PICK x \in s.site : y = [x EXCEPT !.assets = TRUE, !.demo = TRUE]
      OBVIOUS
    <3> QED
      BY <3>1, <2>1 DEF Site
  <2>3. rows # {} => OwnSite(r, s) # {}
    BY <2>1 DEF OwnSite
  <2>4. OwnSite(r, s) # {} => s.org \in OrgIds \cup {r}
    BY <1>1 DEF Flushed
  <2> HIDE DEF rows
  <2>5. t \in Session
    BY <1>1, <2>2 DEF Session, Pcs, Early
  <2>6. /\ t.op = "seed" /\ t.pc = "insert alerts" /\ t.site = rows /\ t.new = s.new
        /\ t.user = s.user /\ t.org = s.org /\ t.name = s.name /\ t.email = s.email
    BY <1>1 DEF Session
  <2> HIDE DEF t
  <2>7. OwnSite(r, t) # {} => rows # {}
    BY <2>6 DEF OwnSite
  <2> QED
    BY <1>1, <1>3, <2>2, <2>3, <2>4, <2>5, <2>6, <2>7, SeedGoesOn
<1> QED
  BY <1>2, <1>3 DEF InsertAssets

LEMMA InsertAlertsStep == ASSUME IInv, NEW r \in Request, InsertAlerts(r) PROVE IInv'
<1> DEFINE s == session[r]
           t == [s EXCEPT !.pc = "commit"]
<1>1. /\ s \in Session /\ s.pc = "insert alerts" /\ s.op = "seed" /\ s.pc \notin Over \cup {"idle"}
      /\ s.user # {} \/ \E u \in users : u.email = SeedAdmin
      /\ Flushed(r, s) /\ Go(r, t)
  BY Running DEF InsertAlerts, Sequenced, Administered, Pcs, Early, Over
<1>2. t \in Session
  BY <1>1 DEF Session, Pcs, Early
<1>3. /\ t.op = "seed" /\ t.pc = "commit" /\ t.site = s.site /\ t.new = s.new
      /\ t.user = s.user /\ t.org = s.org /\ t.name = s.name /\ t.email = s.email
  BY <1>1 DEF Session
<1> HIDE DEF t
<1>4. /\ OwnSite(r, t) = OwnSite(r, s)
      /\ OwnSite(r, s) # {} => s.org \in OrgIds \cup {r}
      /\ \A x \in s.site : x.id = r /\ x.org = s.org
  BY <1>1, <1>3 DEF OwnSite, Flushed
<1> QED
  BY <1>1, <1>2, <1>3, <1>4, SeedGoesOn

LEMMA ProbeStep == ASSUME IInv, NEW r \in Request, Probe(r) PROVE IInv'
<1> DEFINE s == session[r]
           row(up) == [id |-> r, status |-> "completed", up |-> up]
           t(up) == [s EXCEPT !.pc = "answer", !.scan = {row(up)}]
<1>1. PICK up \in BOOLEAN : Go(r, t(up))
  BY DEF Probe
<1>2. /\ s \in Session /\ s.pc = "ping" /\ s.op = "scan" /\ s.pc \notin Over
      /\ s.user = {} /\ s.site = {} /\ Flushed(r, s)
  BY Running DEF Probe, Sequenced, Flushed, Early, Over
<1>3. {row(up)} \in SUBSET [id : Request, status : {"running", "completed"}, up : BOOLEAN]
  OBVIOUS
<1> HIDE DEF row
<1>4. t(up) \in Session
  BY <1>2, <1>3 DEF Session, Pcs, Early
<1>5. /\ t(up).op = "scan" /\ t(up).pc = "answer" /\ t(up).org = s.org /\ t(up).new = s.new
      /\ t(up).user = {} /\ t(up).site = {} /\ t(up).name = s.name
  BY <1>2 DEF Session
<1> HIDE DEF t, s
<1>6. Sequenced(t(up)) /\ Administered(r, t(up)) /\ LookedFirst(r, t(up))
  BY <1>5 DEF Sequenced, Administered, LookedFirst, Over
<1>7. Flushed(r, t(up))
  BY <1>2, <1>5 DEF Flushed, OwnSite, Early, Over
<1> QED
  BY <1>1, <1>2, <1>4, <1>5, <1>6, <1>7, GoStep DEF s

LEMMA CrashStep == ASSUME IInv, NEW r \in Request, Crash(r) \/ AnswerUnserializable(r) PROVE IInv'
  BY EndStep DEF Crash, AnswerUnserializable, Over

-----------------------------------------------------------------------------
(* Steps that change the tables.                                           *)

LEMMA Parts ==
  ASSUME IInv
  PROVE  /\ Shapes /\ Referential /\ UniqueNames /\ UniqueEmails /\ Inserted /\ EndedOver
         /\ AttachedUnlessDeleted
  BY DEF IInv

LEMMA SitesStep ==
  ASSUME IInv, NEW rows \in SUBSET Site, ChangeSites(rows),
         \A x \in rows : x.org \in OrgIds /\ (x.id \in Extra \/ \E y \in sites : y.id = x.id)
  PROVE  IInv'
<1>1. /\ orgs' = orgs /\ users' = users /\ sites' = rows /\ session' = session
      /\ ended' = ended /\ deleted' = deleted
  BY DEF ChangeSites
<1>2. OrgIds' = OrgIds
  BY <1>1 DEF OrgIds
<1>3. Shapes' /\ Referential'
  BY <1>1, <1>2, Parts DEF Shapes, Referential
<1>4. ASSUME NEW q \in Request
      PROVE  /\ Sequenced(session[q])' /\ Flushed(q, session[q])'
             /\ Administered(q, session[q])' /\ LookedFirst(q, session[q])'
  <2>1. /\ Sequenced(session[q]) /\ Flushed(q, session[q])
        /\ Administered(q, session[q]) /\ LookedFirst(q, session[q])
    BY Running
  <2> QED
    BY <2>1, <1>1, <1>2, ZenonT(40) DEF Sequenced, Administered, LookedFirst, Flushed, OwnSite
<1>5. UniqueNames' /\ UniqueEmails'
  BY <1>1, Parts DEF UniqueNames, UniqueEmails
<1>6. Inserted'
  <2>1. ASSUME NEW q \in Request, session'[q].pc # "ok" PROVE InsertedBy(q)' = {}
    <3>1. InsertedBy(q) = {}
      BY <2>1, <1>1, Parts DEF Inserted
    <3>2. q \notin Extra /\ \A x \in sites : x.id # q
      BY <3>1, OnboardingAssumption DEF InsertedBy
    <3>3. {x \in rows : x.id = q} = {}
      BY <3>2
    <3> QED
      BY <3>1, <3>3, <1>1 DEF InsertedBy
  <2> QED
    BY <2>1, <1>1, Parts DEF Inserted
<1>7. EndedOver' /\ AttachedUnlessDeleted'
  BY <1>1, Parts DEF EndedOver, AttachedUnlessDeleted, Attached
<1> QED
  BY <1>3, <1>4, <1>5, <1>6, <1>7 DEF IInv

LEMMA SiteSteps ==
  ASSUME IInv,
         \/ \E id \in Extra, org \in Request, hq \in BOOLEAN : CreateSite(id, org, hq)
         \/ \E x \in sites : RenameSite(x) \/ ChangeAssets(x) \/ DeleteSite(x)
  PROVE  IInv'
<1>1. sites \subseteq Site /\ \A x \in sites : x.org \in OrgIds
  BY Parts DEF Shapes, Referential
<1>2. ASSUME NEW id \in Extra, NEW org \in Request, NEW hq \in BOOLEAN, CreateSite(id, org, hq)
      PROVE  IInv'
  <2> DEFINE row == [id |-> id, org |-> org, hq |-> hq, assets |-> FALSE, demo |-> FALSE]
             rows == sites \cup {row}
  <2>1. row \in Site /\ row.org = org /\ row.id = id
    BY DEF Site
  <2>2. org \in OrgIds /\ ChangeSites(rows)
    BY <1>2 DEF CreateSite, Member
  <2> HIDE DEF row
  <2>3. rows \in SUBSET Site
    BY <1>1, <2>1
  <2>4. \A x \in rows : x.org \in OrgIds /\ (x.id \in Extra \/ \E y \in sites : y.id = x.id)
    BY <1>1, <2>1, <2>2
  <2> QED
    BY <2>2, <2>3, <2>4, SitesStep
<1>3. ASSUME NEW x \in sites, RenameSite(x) \/ ChangeAssets(x) PROVE IInv'
  <2>1. PICK row \in {[x EXCEPT !.hq = ~@], [x EXCEPT !.assets = ~@]} :
               ChangeSites((sites \ {x}) \cup {row})
    BY <1>3 DEF RenameSite, ChangeAssets
  <2> DEFINE rows == (sites \ {x}) \cup {row}
  <2>2. row \in Site /\ row.org = x.org /\ row.id = x.id
    <3>1. x \in Site
      BY <1>1
    <3> QED
      BY <2>1, <3>1 DEF Site
  <2>3. rows \in SUBSET Site
    BY <1>1, <2>2
  <2>4. \A y \in rows : y.org \in OrgIds /\ (y.id \in Extra \/ \E z \in sites : z.id = y.id)
    BY <1>1, <2>2
  <2> QED
    BY <2>1, <2>3, <2>4, SitesStep
<1>4. ASSUME NEW x \in sites, DeleteSite(x) PROVE IInv'
  <2>1. ChangeSites(sites \ {x})
    BY <1>4 DEF DeleteSite
  <2> QED
    BY <1>1, <2>1, SitesStep
<1> QED
  BY <1>2, <1>3, <1>4

LEMMA CommitStep == ASSUME IInv, NEW r \in Request, Commit(r) PROVE IInv'
<1> DEFINE s == session[r]
           t == [Fresh EXCEPT !.op = s.op, !.pc = "ok"]
<1>1. /\ s \in Session /\ s.pc = "commit" /\ s.op \in {"first-run", "seed"}
      /\ Flushed(r, s) /\ Administered(r, s) /\ LookedFirst(r, s)
  BY Running DEF Commit, Sequenced
<1>2. /\ orgs' = orgs \cup s.new /\ users' = users \cup s.user /\ sites' = sites \cup s.site
      /\ session' = [session EXCEPT ![r] = t] /\ deleted' = deleted /\ ended' = ended
  BY DEF Commit
<1>3. /\ t \in Session /\ t.op = s.op /\ t.pc = "ok" /\ t.org = Null /\ t.new = {}
      /\ t.user = {} /\ t.site = {}
  BY <1>1, FreshFacts DEF Fresh, Session, Ops, Pcs, Early, Over
<1> HIDE DEF t
<1>4. /\ \A q \in Request : session'[q] = IF q = r THEN t ELSE session[q]
      /\ session' \in [Request -> Session]
  BY <1>2, <1>3, Parts DEF Shapes
<1>5. /\ \A o \in s.new : o = [id |-> r, name |-> s.name] /\ o.id = r
      /\ \A u \in s.user : u = [email |-> s.email, org |-> s.org, by |-> r]
                           /\ u.by = r /\ u.org = s.org
      /\ \A x \in s.site : x.id = r /\ x.org = s.org
      /\ s.new \subseteq OrgRow /\ s.user \subseteq UserRow /\ s.site \subseteq Site
  BY <1>1 DEF Flushed, Session
<1>6. s.user # {} \/ s.site # {} => s.org \in OrgIds \cup {r}
  BY <1>1, <1>5 DEF Flushed, OwnSite
<1>7. OrgIds \subseteq OrgIds' /\ (s.org = r => r \in OrgIds')
  <2>1. s.org = r => s.new = {[id |-> r, name |-> s.name]}
    BY <1>1 DEF Flushed
  <2> QED
    BY <2>1, <1>2 DEF OrgIds
<1>8. \A z \in Request : r \notin ended[z]
  BY <1>1, Running DEF Over
<1> HIDE DEF s
<1>9. Shapes'
  BY <1>2, <1>4, <1>5, Parts DEF Shapes
<1>10. Referential'
  <2>1. \A u \in s.user : u.org \in OrgIds'
    BY <1>5, <1>6, <1>7
  <2>2. \A x \in s.site : x.org \in OrgIds'
    BY <1>5, <1>6, <1>7
  <2> QED
    BY <2>1, <2>2, <1>2, <1>7, Parts DEF Referential
<1>11. ASSUME NEW q \in Request
       PROVE  /\ Sequenced(session[q])' /\ Flushed(q, session[q])'
              /\ Administered(q, session[q])' /\ LookedFirst(q, session[q])'
  <2>1. CASE q = r
    <3>1. session'[q] = t /\ ended'[q] = ended[q]
      BY <2>1, <1>2, <1>4
    <3>2. Sequenced(session[q])' /\ Flushed(q, session[q])' /\ Administered(q, session[q])'
      BY <3>1, <1>1, <1>3, FreshFacts
         DEF Sequenced, Flushed, OwnSite, Administered, Early, Over
    <3>3. s.op = "first-run" => \A u \in users' : u.by \notin ended[r]
      BY <1>1, <1>2, <1>5, <1>8 DEF LookedFirst
    <3> QED
      BY <2>1, <3>1, <3>2, <3>3, <1>3 DEF LookedFirst
  <2>2. CASE q # r
    <3>1. session'[q] = session[q] /\ ended'[q] = ended[q]
      BY <2>2, <1>2, <1>4
    <3>2. /\ Sequenced(session[q]) /\ Flushed(q, session[q])
          /\ Administered(q, session[q]) /\ LookedFirst(q, session[q])
      BY Running
    <3>3. Sequenced(session[q])' /\ Administered(q, session[q])'
      BY <3>1, <3>2, <1>2 DEF Sequenced, Administered
    <3>4. Flushed(q, session[q])'
      BY <3>1, <3>2, <1>7 DEF Flushed, OwnSite
    <3>5. LookedFirst(q, session[q])'
      BY <3>1, <3>2, <1>2, <1>5, <1>8 DEF LookedFirst
    <3> QED
      BY <3>3, <3>4, <3>5
  <2> QED
    BY <2>1, <2>2
<1>12. UniqueNames'
  <2>1. \A o \in s.new, p \in orgs : o.name # p.name
    BY Parts DEF UniqueNames, s
  <2>2. \A o, p \in orgs' : o.name = p.name => o = p
    BY <2>1, <1>2, <1>5, Parts DEF UniqueNames
  <2>3. ASSUME NEW z \in Request, NEW o \in session'[z].new PROVE z # r /\ o \in session[z].new
    BY <2>3, <1>3, <1>4
  <2>4. ASSUME NEW z \in Request, NEW o \in session'[z].new, NEW p \in orgs'
        PROVE  p.name # o.name
    <3>1. z # r /\ o \in session[z].new
      BY <2>3
    <3>2. CASE p \in orgs
      BY <3>1, <3>2, Parts DEF UniqueNames
    <3>3. CASE p \in s.new
      BY <3>1, <3>3, Parts DEF UniqueNames, s
    <3> QED
      BY <3>2, <3>3, <1>2
  <2>5. ASSUME NEW z \in Request, NEW q \in Request, z # q,
               NEW o \in session'[z].new, NEW p \in session'[q].new
        PROVE  o.name # p.name
    <3>1. o \in session[z].new /\ p \in session[q].new
      BY <2>3
    <3> QED
      BY <2>5, <3>1, Parts DEF UniqueNames
  <2> QED
    BY <2>2, <2>4, <2>5 DEF UniqueNames
<1>13. UniqueEmails'
  <2>1. \A u \in s.user, v \in users : u.email # v.email
    BY Parts DEF UniqueEmails, s
  <2>2. \A u, v \in users' : u.email = v.email => u = v
    BY <2>1, <1>2, <1>5, Parts DEF UniqueEmails
  <2>3. ASSUME NEW z \in Request, NEW u \in session'[z].user PROVE z # r /\ u \in session[z].user
    BY <2>3, <1>3, <1>4
  <2>4. ASSUME NEW z \in Request, NEW u \in session'[z].user, NEW v \in users'
        PROVE  u.email # v.email
    <3>1. z # r /\ u \in session[z].user
      BY <2>3
    <3>2. CASE v \in users
      BY <3>1, <3>2, Parts DEF UniqueEmails
    <3>3. CASE v \in s.user
      BY <3>1, <3>3, Parts DEF UniqueEmails, s
    <3> QED
      BY <3>2, <3>3, <1>2
  <2>5. ASSUME NEW z \in Request, NEW q \in Request, z # q,
               NEW u \in session'[z].user, NEW v \in session'[q].user
        PROVE  u.email # v.email
    <3>1. u \in session[z].user /\ v \in session[q].user
      BY <2>3
    <3> QED
      BY <2>5, <3>1, Parts DEF UniqueEmails
  <2> QED
    BY <2>2, <2>4, <2>5 DEF UniqueEmails
<1>14. Inserted'
  <2>1. ASSUME NEW z \in Request, session'[z].pc # "ok" PROVE InsertedBy(z)' = {}
    <3>1. z # r /\ session[z].pc # "ok"
      BY <2>1, <1>3, <1>4
    <3>2. InsertedBy(z) = {}
      BY <3>1, Parts DEF Inserted
    <3>3. InsertedBy(z)' = InsertedBy(z)
      BY <3>1, <1>2, <1>5 DEF InsertedBy
    <3> QED
      BY <3>2, <3>3
  <2>2. ASSUME NEW z \in Request, session'[z].op = "first-run", session'[z].pc = "ok"
        PROVE  \E u \in users' : u.by = z
    <3>1. CASE z = r
      BY <2>2, <3>1, <1>1, <1>2, <1>3, <1>4, <1>5 DEF Administered
    <3>2. CASE z # r
      BY <2>2, <3>2, <1>2, <1>4, Parts DEF Inserted
    <3> QED
      BY <3>1, <3>2
  <2>3. ASSUME NEW o \in orgs' PROVE \E u \in users' : u.by = o.id \/ u.email = SeedAdmin
    <3>1. CASE o \in orgs
      BY <3>1, <1>2, Parts DEF Inserted
    <3>2. CASE o \in s.new
      <4>1. o.id = r
        BY <3>2, <1>5
      <4>2. s.user # {} \/ \E u \in users : u.email = SeedAdmin
        BY <1>1 DEF Administered, Pcs, Early, Over
      <4> QED
        BY <4>1, <4>2, <1>2, <1>5
    <3> QED
      BY <3>1, <3>2, <1>2
  <2> QED
    BY <2>1, <2>2, <2>3 DEF Inserted
<1>15. EndedOver'
  <2>1. ASSUME NEW z \in Request, NEW q \in ended'[z] PROVE session'[q].pc \in Over
    <3>1. q \in Request /\ session[q].pc \in Over /\ q # r
      BY <1>2, <1>8, Running, Parts DEF EndedOver, Shapes
    <3> QED
      BY <3>1, <1>4
  <2> QED
    BY <2>1 DEF EndedOver
<1>16. AttachedUnlessDeleted'
  <2>1. \A u \in s.user : u.org # Null
    BY <1>5, <1>6, OrgIdTypes, FreshFacts
  <2> QED
    BY <2>1, <1>2, Parts DEF AttachedUnlessDeleted, Attached
<1> QED
  BY <1>9, <1>10, <1>11, <1>12, <1>13, <1>14, <1>15, <1>16 DEF IInv

\* The rows that others have flushed for the organization keep it from being deleted.
LEMMA DeleteStep == ASSUME IInv, NEW r \in Request, DeleteOrganization(r) PROVE IInv'
<1> DEFINE s == session[r]
           t == [Fresh EXCEPT !.op = "delete", !.pc = "ok"]
           cut(u) == IF u.org = s.org THEN [u EXCEPT !.org = Null] ELSE u
<1>1. /\ s \in Session /\ s.pc = "delete" /\ ~Referred(r) /\ s.pc \notin Over \cup {"idle"}
  BY Running DEF DeleteOrganization, Over
<1>2. CASE End(r, "error")
  BY <1>1, <1>2, EndStep
<1>3. CASE ~End(r, "error")
  <2>1. /\ orgs' = {o \in orgs : o.id # s.org} /\ sites' = {x \in sites : x.org # s.org}
        /\ users' = {cut(u) : u \in users}
        /\ session' = [session EXCEPT ![r] = t] /\ deleted' = TRUE /\ ended' = ended
    BY <1>3 DEF DeleteOrganization
  <2>2. /\ t \in Session /\ t.op = "delete" /\ t.pc = "ok" /\ t.org = Null /\ t.new = {}
        /\ t.user = {} /\ t.site = {}
    BY FreshFacts DEF Fresh, Session, Ops, Pcs, Early, Over
  <2> HIDE DEF t
  <2>3. /\ \A q \in Request : session'[q] = IF q = r THEN t ELSE session[q]
        /\ session' \in [Request -> Session]
    BY <2>1, <2>2, Parts DEF Shapes
  <2>4. \A u \in users : /\ cut(u) \in UserRow /\ cut(u).by = u.by /\ cut(u).email = u.email
                         /\ cut(u).org = IF u.org = s.org THEN Null ELSE u.org
    <3> SUFFICES ASSUME NEW u \in users
                 PROVE  /\ cut(u) \in UserRow /\ cut(u).by = u.by /\ cut(u).email = u.email
                        /\ cut(u).org = IF u.org = s.org THEN Null ELSE u.org
        OBVIOUS
    <3>1. u \in UserRow
      BY Parts DEF Shapes
    <3> QED
      BY <3>1 DEF UserRow
  <2> HIDE DEF cut
  <2>5. OrgIds' = OrgIds \ {s.org}
    BY <2>1 DEF OrgIds
  <2>6. /\ \A u \in users : \E v \in users' : v.by = u.by /\ v.email = u.email
        /\ \A v \in users' : \E u \in users : v = cut(u)
    BY <2>1, <2>4
  <2> HIDE DEF s
  <2>7. Shapes' /\ Referential'
    <3>1. \A v \in users' : v \in UserRow /\ v.org \in OrgIds' \cup {Null}
      BY <2>4, <2>5, <2>6, Parts DEF Referential
    <3>2. \A x \in sites' : x.org \in OrgIds'
      BY <2>1, <2>5, Parts DEF Referential
    <3> QED
      BY <3>1, <3>2, <2>1, <2>3, Parts DEF Shapes, Referential
  <2>8. ASSUME NEW q \in Request
        PROVE  /\ Sequenced(session[q])' /\ Flushed(q, session[q])'
               /\ Administered(q, session[q])' /\ LookedFirst(q, session[q])'
    <3>1. CASE q = r
      <4>1. session'[q] = t
        BY <3>1, <2>3
      <4> QED
        BY <4>1, <2>2, FreshFacts
           DEF Sequenced, Flushed, OwnSite, Administered, LookedFirst, Early, Over
    <3>2. CASE q # r
      <4>1. session'[q] = session[q] /\ ended'[q] = ended[q]
        BY <3>2, <2>1, <2>3
      <4>2. /\ Sequenced(session[q]) /\ Flushed(q, session[q])
            /\ Administered(q, session[q]) /\ LookedFirst(q, session[q])
        BY Running
      <4>3. Sequenced(session[q])'
        BY <4>1, <4>2 DEF Sequenced
      <4>4. Administered(q, session[q])'
        BY <4>1, <4>2, <2>6 DEF Administered
      <4>5. LookedFirst(q, session[q])'
        <5>1. \A v \in users' : \E u \in users : v.by = u.by
          BY <2>4, <2>6
        <5> QED
          BY <4>1, <4>2, <5>1 DEF LookedFirst
      <4>6. session[q].user # {} \/ OwnSite(q, session[q]) # {}
              => session[q].org \in OrgIds' \cup {q}
        <5>1. session[q].op = "delete" => session[q].user = {} /\ session[q].site = {}
          BY <4>2 DEF Sequenced, Flushed, Early, Over
        <5>2. session[q].user # {} \/ OwnSite(q, session[q]) # {} => session[q].org # s.org
          BY <1>1, <3>2, <5>1 DEF Referred, OwnSite, s
        <5> QED
          BY <5>2, <4>2, <2>5 DEF Flushed
      <4>7. Flushed(q, session[q])'
        BY <4>1, <4>2, <4>6 DEF Flushed, OwnSite
      <4> QED
        BY <4>3, <4>4, <4>5, <4>7
    <3> QED
      BY <3>1, <3>2
  <2>9. UniqueNames'
    <3>1. \A z \in Request : session'[z].new \subseteq session[z].new
      BY <2>2, <2>3
    <3>2. \A o, p \in orgs' : o.name = p.name => o = p
      BY <2>1, Parts DEF UniqueNames
    <3>3. \A z \in Request : \A o \in session'[z].new : \A p \in orgs' : p.name # o.name
      BY <3>1, <2>1, Parts DEF UniqueNames
    <3>4. ASSUME NEW z \in Request, NEW q \in Request, z # q,
                 NEW o \in session'[z].new, NEW p \in session'[q].new
          PROVE  o.name # p.name
      <4>1. o \in session[z].new /\ p \in session[q].new
        BY <3>1
      <4> QED
        BY <4>1, <3>4, Parts DEF UniqueNames
    <3> QED
      BY <3>2, <3>3, <3>4 DEF UniqueNames
  <2>10. UniqueEmails'
    <3>1. \A z \in Request : session'[z].user \subseteq session[z].user
      BY <2>2, <2>3
    <3>2. ASSUME NEW v \in users', NEW w \in users', v.email = w.email PROVE v = w
      <4>1. PICK u \in users : v = cut(u)
        BY <2>6
      <4>2. PICK x \in users : w = cut(x)
        BY <2>6
      <4>3. u = x
        BY <4>1, <4>2, <3>2, <2>4, Parts DEF UniqueEmails
      <4> QED
        BY <4>1, <4>2, <4>3
    <3>3. ASSUME NEW z \in Request, NEW u \in session'[z].user, NEW v \in users'
          PROVE  u.email # v.email
      <4>1. PICK w \in users : v.email = w.email
        BY <2>4, <2>6
      <4>2. u \in session[z].user
        BY <3>1
      <4> QED
        BY <4>1, <4>2, Parts DEF UniqueEmails
    <3>4. ASSUME NEW z \in Request, NEW q \in Request, z # q,
                 NEW u \in session'[z].user, NEW v \in session'[q].user
          PROVE  u.email # v.email
      <4>1. u \in session[z].user /\ v \in session[q].user
        BY <3>1
      <4> QED
        BY <4>1, <3>4, Parts DEF UniqueEmails
    <3> QED
      BY <3>2, <3>3, <3>4 DEF UniqueEmails
  <2>11. Inserted'
    <3>1. ASSUME NEW z \in Request, session'[z].pc # "ok" PROVE InsertedBy(z)' = {}
      <4>1. session[z].pc # "ok"
        BY <3>1, <2>2, <2>3
      <4>2. InsertedBy(z) = {}
        BY <4>1, Parts DEF Inserted
      <4>3. /\ \A o \in orgs' : o \in orgs
            /\ \A x \in sites' : x \in sites
            /\ \A v \in users' : \E u \in users : v.by = u.by
        BY <2>1, <2>4, <2>6
      <4> QED
        BY <4>2, <4>3 DEF InsertedBy
    <3>2. ASSUME NEW z \in Request, session'[z].op = "first-run", session'[z].pc = "ok"
          PROVE  \E u \in users' : u.by = z
      <4>1. session'[z] = session[z]
        BY <3>2, <2>2, <2>3
      <4> QED
        BY <4>1, <3>2, <2>6, Parts DEF Inserted
    <3>3. ASSUME NEW o \in orgs' PROVE \E u \in users' : u.by = o.id \/ u.email = SeedAdmin
      <4>1. o \in orgs
        BY <2>1
      <4> QED
        BY <4>1, <2>6, Parts DEF Inserted
    <3> QED
      BY <3>1, <3>2, <3>3 DEF Inserted
  <2>12. EndedOver'
    <3>1. ASSUME NEW z \in Request, NEW q \in ended'[z] PROVE session'[q].pc \in Over
      <4>1. q \in Request /\ session[q].pc \in Over
        BY <2>1, Parts DEF EndedOver, Shapes
      <4> QED
        BY <4>1, <2>2, <2>3 DEF Over
    <3> QED
      BY <3>1 DEF EndedOver
  <2>13. AttachedUnlessDeleted'
    BY <2>1 DEF AttachedUnlessDeleted
  <2> QED
    BY <2>7, <2>8, <2>9, <2>10, <2>11, <2>12, <2>13 DEF IInv
<1> QED
  BY <1>2, <1>3

LEMMA InvStep == IInv /\ [Next]_vars => IInv'
<1> SUFFICES ASSUME IInv, [Next]_vars PROVE IInv'
    OBVIOUS
<1>1. ASSUME NEW r \in Request, Step(r) PROVE IInv'
  BY <1>1, CountUsersStep, InsertOrgStep, InsertUserStep, FindAdminStep, FindSiteStep,
     FindAssetsStep, InsertAssetsStep, InsertAlertsStep, CrashStep, DeleteStep, ProbeStep,
     CommitStep DEF Step
<1>2. ASSUME NEW r \in Request,
             \/ \E name \in Org, email \in Email : FirstRun(r, name, email)
             \/ Seed(r)
             \/ \E name \in Org : CreateOrganization(r, name)
             \/ \E id \in Request : LoadOrganization(r, id)
             \/ Scan(r)
             \/ Import(r)
      PROVE  IInv'
  BY <1>2, FirstRunStep, SeedStep, CreateStep, LoadStep, ScanStep, ImportStep
<1>3. ASSUME NEW r \in Request, Crash(r) PROVE IInv'
  BY <1>3, CrashStep
<1>4. CASE \/ \E id \in Extra, org \in Request, hq \in BOOLEAN : CreateSite(id, org, hq)
           \/ \E x \in sites : RenameSite(x) \/ ChangeAssets(x) \/ DeleteSite(x)
  BY <1>4, SiteSteps
<1>5. CASE UNCHANGED vars
  <2>1. /\ orgs' = orgs /\ users' = users /\ sites' = sites /\ session' = session
        /\ ended' = ended /\ deleted' = deleted
    BY <1>5 DEF vars, tables
  <2>2. Shapes' /\ Referential'
    BY <2>1, Parts DEF Shapes, Referential, OrgIds
  <2>3. ASSUME NEW q \in Request
        PROVE  /\ Sequenced(session[q])' /\ Flushed(q, session[q])'
               /\ Administered(q, session[q])' /\ LookedFirst(q, session[q])'
    <3>1. /\ Sequenced(session[q]) /\ Flushed(q, session[q])
          /\ Administered(q, session[q]) /\ LookedFirst(q, session[q])
      BY Running
    <3> QED
      BY <3>1, <2>1, ZenonT(40) DEF Sequenced, Administered, LookedFirst, Flushed, OwnSite, OrgIds
  <2>4. UniqueNames' /\ UniqueEmails'
    BY <2>1, Parts DEF UniqueNames, UniqueEmails
  <2>5. Inserted'
    BY <2>1, Parts DEF Inserted, InsertedBy
  <2>6. EndedOver' /\ AttachedUnlessDeleted'
    BY <2>1, Parts DEF EndedOver, AttachedUnlessDeleted, Attached
  <2> QED
    BY <2>2, <2>3, <2>4, <2>5, <2>6 DEF IInv
<1> QED
  BY <1>1, <1>2, <1>3, <1>4, <1>5 DEF Next

LEMMA Invariance == Spec => []IInv
  BY InvInit, InvStep, PTL DEF Spec

-----------------------------------------------------------------------------
(* The theorems.                                                           *)

(***************************************************************************)
(* A first-run or seed that fails or stops leaves no row, no organization  *)
(* is without the administrator it was set up for, and names and addresses *)
(* stay unique (first_run_setup, seed.py, the unique indexes).             *)
(***************************************************************************)
THEOREM SetupIsWhole == Spec => []NothingHalfSetUp
<1>1. ASSUME IInv PROVE NothingHalfSetUp
  <2>1. TypeOK
    <3>1. {x.org : x \in sites} \subseteq OrgIds
      BY <1>1, Parts DEF Referential
    <3> QED
      BY <1>1, <3>1, Parts
         DEF TypeOK, Shapes, OrgRow, UserRow, Referential, UniqueNames, UniqueEmails
  <2> QED
    BY <1>1, <2>1, Parts DEF NothingHalfSetUp, Inserted
<1> QED
  BY <1>1, Invariance, PTL

(***************************************************************************)
(* Once a first-run was answered, no later one succeeds, whatever is       *)
(* deleted in between: users are never deleted (first_run_setup's counts). *)
(***************************************************************************)
THEOREM OneSetupAtATime == Spec => []SecondAdminNeedsOverlap
<1>1. ASSUME IInv PROVE SecondAdminNeedsOverlap
  <2> SUFFICES ASSUME NEW q \in Request, NEW r \in Request,
                      session[q].op = "first-run", session[q].pc = "ok",
                      session[r].op = "first-run", session[r].pc = "ok"
               PROVE  q \notin ended[r]
    BY DEF SecondAdminNeedsOverlap
  <2>1. PICK u \in users : u.by = q
    BY <1>1, Parts DEF Inserted
  <2>2. LookedFirst(r, session[r])
    BY <1>1, Running
  <2> QED
    BY <2>1, <2>2 DEF LookedFirst
<1> QED
  BY <1>1, Invariance, PTL

(***************************************************************************)
(* Users are without an organization only after one was deleted            *)
(* (delete_organization detaches its users).                               *)
(***************************************************************************)
THEOREM OnlyDeletionUnmanages == Spec => []UnmanagedNeedsDeletion
<1>1. ASSUME IInv PROVE UnmanagedNeedsDeletion
  <2>1. deleted # TRUE => \A u \in users : Attached(u)
    BY <1>1, Parts DEF AttachedUnlessDeleted
  <2>2. deleted # TRUE => ~(users # {} /\ \A u \in users : ~Attached(u))
    BY <2>1
  <2> QED
    BY <2>2 DEF UnmanagedNeedsDeletion
<1> QED
  BY <1>1, Invariance, PTL

(***************************************************************************)
(* Users who have lost every organization get one back only from the seed, *)
(* or from a first-run request that had looked before any of them was      *)
(* there (first_run_setup answers 409, create_organization rolls back).    *)
(***************************************************************************)
THEOREM LockoutLasts == Spec => LockoutNeedsSeed
<1> DEFINE Unlocks ==
      users # {} /\ orgs = {} /\ orgs' # {}
        => \E r \in Request :
             /\ session[r].pc = "commit" /\ session'[r].pc = "ok"
             /\ session[r].op = "seed" \/ \A u \in users : u.by \notin ended[r]
<1>1. IInv /\ [Next]_vars => [Unlocks]_vars
  <2> SUFFICES ASSUME IInv, Next, orgs = {}, orgs' # {}
               PROVE  \E r \in Request :
                        /\ session[r].pc = "commit" /\ session'[r].pc = "ok"
                        /\ session[r].op = "seed" \/ \A u \in users : u.by \notin ended[r]
      OBVIOUS
  <2>1. PICK r \in Request : Commit(r)
    <3>1. ASSUME NEW r \in Request, NEW s, Go(r, s) \/ Begin(r, s) \/ End(r, s) PROVE orgs' = orgs
      BY <3>1 DEF Go, Begin, End, tables
    <3>2. ASSUME NEW r \in Request, DeleteOrganization(r) PROVE orgs' = {}
      BY <3>1, <3>2 DEF DeleteOrganization
    <3>3. ASSUME NEW r \in Request, Step(r), ~Commit(r), ~DeleteOrganization(r)
          PROVE  orgs' = orgs
      <4>1. \/ \E pc : End(r, pc)
            \/ \E s : Go(r, s)
        BY <3>3 DEF Step, CountUsers, InsertOrg, InsertUser, FindAdmin, FindAssets,
                    InsertAssets, InsertAlerts, AnswerUnserializable, Probe, FindSite
      <4> QED
        BY <4>1, <3>1
    <3>4. ASSUME NEW rows, ChangeSites(rows) PROVE orgs' = orgs
      BY <3>4 DEF ChangeSites
    <3>5. ASSUME NEW r \in Request,
                 \/ \E name \in Org, email \in Email : FirstRun(r, name, email)
                 \/ Seed(r)
                 \/ \E name \in Org : CreateOrganization(r, name)
                 \/ \E id \in Request : LoadOrganization(r, id)
                 \/ Scan(r)
                 \/ Import(r)
                 \/ Crash(r)
          PROVE  orgs' = orgs
      <4>1. \/ \E s : Begin(r, s)
            \/ End(r, "error")
        BY <3>5 DEF FirstRun, Seed, CreateOrganization, LoadOrganization, Scan, Import, Crash
      <4> QED
        BY <4>1, <3>1
    <3>6. ASSUME \/ \E id \in Extra, org \in Request, hq \in BOOLEAN : CreateSite(id, org, hq)
                 \/ \E x \in sites : RenameSite(x) \/ ChangeAssets(x) \/ DeleteSite(x)
          PROVE  orgs' = orgs
      BY <3>4, <3>6 DEF CreateSite, RenameSite, ChangeAssets, DeleteSite
    <3> QED
      BY <3>2, <3>3, <3>5, <3>6 DEF Next
  <2>2. /\ session[r] \in Session /\ session[r].pc = "commit"
        /\ session[r].op \in {"first-run", "seed"} /\ LookedFirst(r, session[r])
    BY <2>1, Running DEF Commit, Sequenced
  <2>3. session'[r].pc = "ok"
    BY <2>1, FreshFacts, Parts DEF Commit, Shapes, Fresh
  <2> QED
    BY <2>2, <2>3 DEF LookedFirst
<1>2. Spec => [][Unlocks]_vars
  BY <1>1, Invariance, PTL DEF Spec
<1> QED
  BY <1>2 DEF LockoutNeedsSeed

-----------------------------------------------------------------------------
(* No deadlock: the safety half of EveryRequestEnds.                       *)

Open(r) == session[r].pc \notin Over \cup {"idle"}

\* The next statement of r waits for what q has inserted and not committed.
WaitsFor(r, q) ==
  LET s == session[r]
      t == session[q]
  IN /\ q # r
     /\ \/ s.pc = "insert org" /\ \E o \in t.new : o.name = s.name
        \/ s.pc = "insert user" /\ \E u \in t.user : u.email = s.email
        \/ s.pc = "insert assets" /\ \E x \in t.site : x.id = q /\ x.demo
        \/ s.pc = "delete" /\ t.op # "delete" /\ t.org = s.org
             /\ (t.user # {} \/ \E x \in t.site : x.id = q)

\* The order in which transactions insert what others wait for; who waits for none is last.
Rank(r) ==
  CASE session[r].pc = "delete" -> 0
    [] session[r].pc = "insert org" -> 1
    [] session[r].pc = "insert user" -> 2
    [] session[r].pc = "insert assets" -> 3
    [] OTHER -> 4

\* A transaction waits only for open ones that are further in that order: never in a circle.
WaitsGoForward ==
  \A r, q \in Request : WaitsFor(r, q) => Open(q) /\ Rank(r) < Rank(q)

\* While a transaction is open, some open one waits for nobody.
SomeoneGoesOn ==
  (\E r \in Request : Open(r))
    => \E r \in Request : Open(r) /\ \A q \in Request : ~WaitsFor(r, q)

\* A delete has inserted nothing; radios are inserted by the last statement that waits.
HeldInOrder(r, s) ==
  /\ s.pc = "delete" => s.new = {}
  /\ \A x \in s.site : x.id = r /\ x.demo => s.pc \in {"insert alerts", "commit"}

AllHeldInOrder == \A r \in Request : HeldInOrder(r, session[r])

\* The conditions of the statements that wait are that nobody is waited for.
LEMMA WaitingIsTheGuard ==
  ASSUME NEW r \in Request
  PROVE  LET s == session[r]
             free == \A q \in Request : ~WaitsFor(r, q)
         IN /\ s.pc = "insert org" => (free <=> NameIsFree(r, s.name))
            /\ s.pc = "insert user" => (free <=> EmailIsFree(r, s.email))
            /\ s.pc = "insert assets" => (free <=>
                 \A q \in Request \ {r} : \A x \in session[q].site : ~(x.id = q /\ x.demo))
            /\ s.pc = "delete" => (free <=> ~Referred(r))
            /\ s.pc \notin {"insert org", "insert user", "insert assets", "delete"} => free
<1>1. CASE session[r].pc = "insert org"
  BY <1>1 DEF WaitsFor, NameIsFree
<1>2. CASE session[r].pc = "insert user"
  BY <1>2 DEF WaitsFor, EmailIsFree
<1>3. CASE session[r].pc = "insert assets"
  BY <1>3 DEF WaitsFor
<1>4. CASE session[r].pc = "delete"
  BY <1>4 DEF WaitsFor, Referred
<1>5. CASE session[r].pc \notin {"insert org", "insert user", "insert assets", "delete"}
  BY <1>5 DEF WaitsFor
<1> QED
  BY <1>1, <1>2, <1>3, <1>4, <1>5

LEMMA SessionOf ==
  ASSUME IInv, NEW r \in Request, NEW s, session' = [session EXCEPT ![r] = s],
         AllHeldInOrder, HeldInOrder(r, s)
  PROVE  AllHeldInOrder'
<1>1. \A q \in Request : session'[q] = IF q = r THEN s ELSE session[q]
  BY Parts DEF Shapes
<1>2. ASSUME NEW q \in Request PROVE HeldInOrder(q, session'[q])
  BY <1>1 DEF AllHeldInOrder
<1>3. ASSUME NEW q \in Request PROVE HeldInOrder(q, session[q])'
  BY <1>2 DEF HeldInOrder
<1> QED
  BY <1>3 DEF AllHeldInOrder

\* A session that begins, or that was rolled back or committed, holds nothing.
LEMMA EmptyStep ==
  ASSUME IInv, NEW r \in Request, NEW s, s.new = {}, s.site = {}, AllHeldInOrder,
         session' = [session EXCEPT ![r] = s]
  PROVE  AllHeldInOrder'
<1>1. HeldInOrder(r, s)
  BY DEF HeldInOrder
<1> QED
  BY <1>1, SessionOf

LEMMA HeldStep == IInv /\ IInv' /\ AllHeldInOrder /\ [Next]_vars => AllHeldInOrder'
<1> SUFFICES ASSUME IInv, IInv', AllHeldInOrder, [Next]_vars PROVE AllHeldInOrder'
    OBVIOUS
<1>1. ASSUME NEW r \in Request, NEW pc, End(r, pc) PROVE AllHeldInOrder'
  <2> DEFINE s == [Fresh EXCEPT !.op = session[r].op, !.pc = pc]
  <2>1. s.new = {} /\ s.site = {} /\ session' = [session EXCEPT ![r] = s]
    BY <1>1 DEF End, Fresh
  <2> QED
    BY <2>1, EmptyStep
<1>2. ASSUME NEW r \in Request, NEW s, s.new = {}, s.site = {}, Begin(r, s)
      PROVE  AllHeldInOrder'
  BY <1>2, EmptyStep DEF Begin
<1>3. ASSUME NEW r \in Request, NEW s, Go(r, s), HeldInOrder(r, s) PROVE AllHeldInOrder'
  BY <1>3, SessionOf DEF Go
<1>4. ASSUME NEW r \in Request, Step(r) PROVE AllHeldInOrder'
  <2> DEFINE s == session[r]
  <2>1. s \in Session /\ Flushed(r, s) /\ HeldInOrder(r, s)
    BY Running DEF AllHeldInOrder
  <2> HIDE DEF s
  <2>2. ASSUME NEW pc, pc # "delete", s.site = {}, Go(r, [s EXCEPT !.pc = pc])
        PROVE  AllHeldInOrder'
    <3>1. HeldInOrder(r, [s EXCEPT !.pc = pc])
      BY <2>1, <2>2 DEF HeldInOrder, Session
    <3> QED
      BY <3>1, <2>2, <1>3
  <2>3. CASE CountUsers(r) \/ FindAdmin(r)
    <3>1. s.site = {}
      BY <2>1, <2>3 DEF Flushed, Early, CountUsers, FindAdmin, s
    <3>2. \/ End(r, "refused")
          \/ Go(r, [s EXCEPT !.pc = "insert org"])
          \/ Go(r, [s EXCEPT !.pc = "find site"])
          \/ Go(r, [s EXCEPT !.pc = "insert user"])
      BY <2>3 DEF CountUsers, FindAdmin, s
    <3> QED
      BY <3>1, <3>2, <2>2, <1>1
  <2>4. CASE InsertOrg(r)
    <3> DEFINE t == [s EXCEPT !.pc = After(s.op), !.org = r, !.new = {[id |-> r, name |-> s.name]}]
    <3>1. End(r, "error") \/ Go(r, t)
      BY <2>4 DEF InsertOrg, s
    <3>2. t.pc # "delete" /\ t.site = {}
      BY <2>1, <2>4 DEF InsertOrg, Flushed, Early, After, Session, s
    <3>3. HeldInOrder(r, t)
      BY <3>2 DEF HeldInOrder
    <3> QED
      BY <3>1, <3>3, <1>1, <1>3
  <2>5. CASE InsertUser(r)
    <3> DEFINE t == [s EXCEPT !.pc = IF s.op = "seed" THEN "find site" ELSE "commit",
                              !.user = {[email |-> s.email, org |-> s.org, by |-> r]}]
    <3>1. End(r, "error") \/ Go(r, t)
      BY <2>5 DEF InsertUser, s
    <3>2. t.pc # "delete" /\ t.site = {}
      BY <2>1, <2>5 DEF InsertUser, Flushed, Early, Session, s
    <3>3. HeldInOrder(r, t)
      BY <3>2 DEF HeldInOrder
    <3> QED
      BY <3>1, <3>3, <1>1, <1>3
  <2>6. CASE FindSite(r)
    <3> DEFINE found == {x \in sites : x.hq}
               t == [s EXCEPT !.pc = "find assets", !.site = found]
               own == [id |-> r, org |-> s.org, hq |-> TRUE, assets |-> FALSE, demo |-> FALSE]
               w == [s EXCEPT !.pc = "insert assets", !.site = {own}]
    <3>1. End(r, "error") \/ Go(r, t) \/ Go(r, w)
      BY <2>6 DEF FindSite, s
    <3>2. CASE Go(r, t)
      <4>1. session'[r] = t
        BY <3>2, Parts DEF Go, Shapes
      <4>2. OwnSite(r, t) = {}
        BY <4>1, <2>1, Parts DEF IInv, Flushed, OwnSite, Session
      <4>3. HeldInOrder(r, t)
        BY <4>2, <2>1 DEF HeldInOrder, OwnSite, Session
      <4> QED
        BY <3>2, <4>3, <1>3
    <3>3. CASE Go(r, w)
      <4>1. w.pc = "insert assets" /\ w.site = {own} /\ ~own.demo
        BY <2>1 DEF Session
      <4>2. HeldInOrder(r, w)
        BY <4>1 DEF HeldInOrder
      <4> QED
        BY <3>3, <4>2, <1>3
    <3> QED
      BY <3>1, <3>2, <3>3, <1>1
  <2>7. CASE FindAssets(r)
    <3> DEFINE t == [s EXCEPT !.pc = "commit", !.site = {}]
    <3>1. End(r, "error") \/ Go(r, t)
      BY <2>7 DEF FindAssets, s
    <3>2. HeldInOrder(r, t)
      BY <2>1 DEF HeldInOrder, Session
    <3> QED
      BY <3>1, <3>2, <1>1, <1>3
  <2>8. CASE InsertAssets(r)
    <3> DEFINE t == [s EXCEPT !.pc = "insert alerts",
                              !.site = {[x EXCEPT !.assets = TRUE, !.demo = TRUE] : x \in s.site}]
    <3>1. End(r, "error") \/ Go(r, t)
      BY <2>8 DEF InsertAssets, s
    <3>2. t.pc = "insert alerts"
      BY <2>1 DEF Session
    <3>3. HeldInOrder(r, t)
      BY <3>2 DEF HeldInOrder
    <3> QED
      BY <3>1, <3>3, <1>1, <1>3
  <2>9. CASE InsertAlerts(r)
    <3> DEFINE t == [s EXCEPT !.pc = "commit"]
    <3>1. Go(r, t) /\ t.pc = "commit"
      BY <2>9, <2>1 DEF InsertAlerts, Session, s
    <3>2. HeldInOrder(r, t)
      BY <3>1 DEF HeldInOrder
    <3> QED
      BY <3>1, <3>2, <1>3
  <2>10. CASE AnswerUnserializable(r)
    BY <2>10, <1>1 DEF AnswerUnserializable
  <2>11. CASE DeleteOrganization(r)
    <3> DEFINE t == [Fresh EXCEPT !.op = "delete", !.pc = "ok"]
    <3>1. End(r, "error") \/ session' = [session EXCEPT ![r] = t]
      BY <2>11 DEF DeleteOrganization
    <3>2. t.new = {} /\ t.site = {}
      BY DEF Fresh
    <3> QED
      BY <3>1, <3>2, <1>1, EmptyStep
  <2>12. CASE Probe(r)
    <3>1. PICK up \in BOOLEAN :
            Go(r, [s EXCEPT !.pc = "answer",
                     !.scan = {[id |-> r, status |-> "completed", up |-> up]}])
      BY <2>12 DEF Probe, s
    <3> DEFINE t == [s EXCEPT !.pc = "answer",
                       !.scan = {[id |-> r, status |-> "completed", up |-> up]}]
    <3>2. t.pc = "answer" /\ t.site = {}
      BY <2>1, <2>12 DEF Probe, Flushed, Early, Session, s
    <3>3. HeldInOrder(r, t)
      BY <3>2 DEF HeldInOrder
    <3> QED
      BY <3>1, <3>3, <1>3
  <2>13. CASE Commit(r)
    <3> DEFINE t == [Fresh EXCEPT !.op = s.op, !.pc = "ok"]
    <3>1. session' = [session EXCEPT ![r] = t]
      BY <2>13 DEF Commit, s
    <3>2. t.new = {} /\ t.site = {}
      BY DEF Fresh
    <3> QED
      BY <3>1, <3>2, EmptyStep
  <2> QED
    BY <1>4, <2>3, <2>4, <2>5, <2>6, <2>7, <2>8, <2>9, <2>10, <2>11, <2>12, <2>13 DEF Step
<1>5. ASSUME NEW r \in Request,
             \/ \E name \in Org, email \in Email : FirstRun(r, name, email)
             \/ Seed(r)
             \/ \E name \in Org : CreateOrganization(r, name)
             \/ \E id \in Request : LoadOrganization(r, id)
             \/ Scan(r)
             \/ Import(r)
      PROVE  AllHeldInOrder'
  <2>1. \E s : s.new = {} /\ s.site = {} /\ Begin(r, s)
    BY <1>5 DEF FirstRun, Seed, CreateOrganization, LoadOrganization, Scan, Import, Fresh
  <2> QED
    BY <2>1, <1>2
<1>6. ASSUME NEW r \in Request, Crash(r) PROVE AllHeldInOrder'
  BY <1>6, <1>1 DEF Crash
<1>7. ASSUME UNCHANGED session PROVE AllHeldInOrder'
  BY <1>7 DEF AllHeldInOrder, HeldInOrder
<1>8. CASE \/ \E id \in Extra, org \in Request, hq \in BOOLEAN : CreateSite(id, org, hq)
           \/ \E x \in sites : RenameSite(x) \/ ChangeAssets(x) \/ DeleteSite(x)
  BY <1>8, <1>7 DEF CreateSite, RenameSite, ChangeAssets, DeleteSite, ChangeSites
<1>9. CASE UNCHANGED vars
  BY <1>9, <1>7 DEF vars
<1> QED
  BY <1>4, <1>5, <1>6, <1>8, <1>9 DEF Next

LEMMA RankOf ==
  ASSUME NEW r \in Request
  PROVE  LET pc == session[r].pc
         IN /\ pc = "delete" => Rank(r) = 0
            /\ pc = "insert org" => Rank(r) = 1
            /\ pc = "insert user" => Rank(r) = 2
            /\ pc = "insert assets" => Rank(r) = 3
            /\ pc \notin {"delete", "insert org", "insert user", "insert assets"} => Rank(r) = 4
            /\ Rank(r) \in 0..4
<1>1. ASSUME session[r].pc = "delete" PROVE Rank(r) = 0
  BY <1>1 DEF Rank
<1>2. ASSUME session[r].pc = "insert org" PROVE Rank(r) = 1
  BY <1>2 DEF Rank
<1>3. ASSUME session[r].pc = "insert user" PROVE Rank(r) = 2
  BY <1>3 DEF Rank
<1>4. ASSUME session[r].pc = "insert assets" PROVE Rank(r) = 3
  BY <1>4 DEF Rank
<1>5. ASSUME session[r].pc \notin {"delete", "insert org", "insert user", "insert assets"}
      PROVE  Rank(r) = 4
  BY <1>5 DEF Rank
<1>6. Rank(r) \in 0..4
  <2>1. Rank(r) \in {0, 1, 2, 3, 4}
    BY <1>1, <1>2, <1>3, <1>4, <1>5, Zenon
  <2> QED
    BY <2>1
<1> QED
  BY <1>1, <1>2, <1>3, <1>4, <1>5, <1>6

LEMMA Forward ==
  ASSUME IInv, AllHeldInOrder, NEW r \in Request, NEW q \in Request, WaitsFor(r, q)
  PROVE  Open(q) /\ Rank(r) < Rank(q)
<1>1. /\ Sequenced(session[q]) /\ Flushed(q, session[q]) /\ HeldInOrder(q, session[q])
      /\ Sequenced(session[r]) /\ Null \notin Request
  BY Running, FreshFacts DEF AllHeldInOrder
<1>2. /\ session[r].pc = "delete" => Rank(r) = 0
      /\ session[r].pc = "insert org" => Rank(r) = 1
      /\ session[r].pc = "insert user" => Rank(r) = 2
      /\ session[r].pc = "insert assets" => Rank(r) = 3
      /\ session[q].pc = "insert org" => Rank(q) = 1
      /\ session[q].pc = "insert user" => Rank(q) = 2
      /\ session[q].pc = "insert assets" => Rank(q) = 3
      /\ session[q].pc \notin {"delete", "insert org", "insert user", "insert assets"}
           => Rank(q) = 4
  BY RankOf
<1>3. CASE session[r].pc = "insert org" /\ session[q].new # {}
  <2>1. session[q].org = q
    BY <1>1, <1>3 DEF Flushed
  <2>2. session[q].pc \notin Over \cup {"idle", "insert org", "delete"}
    BY <1>1, <1>3, <2>1 DEF Flushed, Sequenced, HeldInOrder
  <2>3. Rank(r) = 1 /\ Rank(q) \in {2, 3, 4}
    BY <1>2, <1>3, <2>2, Zenon
  <2>4. Open(q)
    BY <2>2 DEF Open
  <2> QED
    BY <2>3, <2>4
<1>4. CASE session[r].pc \in {"insert user", "delete"}
             /\ (session[q].user # {} \/ session[q].site # {})
  <2>1. session[q].pc \notin Early
    BY <1>1, <1>4 DEF Flushed
  <2>2. Rank(r) \in {0, 2} /\ Rank(q) \in {3, 4}
    BY <1>2, <1>4, <2>1, Zenon DEF Early
  <2>3. Open(q)
    BY <2>1 DEF Open, Early
  <2> QED
    BY <2>2, <2>3
<1>5. CASE session[r].pc = "insert assets" /\ \E x \in session[q].site : x.id = q /\ x.demo
  <2>1. session[q].pc \in {"insert alerts", "commit"}
    BY <1>1, <1>5 DEF HeldInOrder
  <2>2. Rank(r) = 3 /\ Rank(q) = 4
    BY <1>2, <1>5, <2>1, Zenon
  <2>3. Open(q)
    BY <2>1 DEF Open, Over
  <2> QED
    BY <2>2, <2>3
<1> QED
  BY <1>3, <1>4, <1>5 DEF WaitsFor

(***************************************************************************)
(* Neither the unique indexes nor the foreign keys make transactions of    *)
(* first-run, the seed and the organization endpoints wait in a circle:    *)
(* each waits only for one that is further in the order organization,      *)
(* user, demo radios, which all of them insert in.                         *)
(***************************************************************************)
THEOREM NoCircularWait == Spec => []WaitsGoForward
<1>1. Init => AllHeldInOrder
  BY FreshFacts DEF Init, AllHeldInOrder, HeldInOrder
<1>2. IInv /\ AllHeldInOrder => WaitsGoForward
  BY Forward DEF WaitsGoForward
<1> QED
  BY <1>1, <1>2, InvInit, InvStep, HeldStep, PTL DEF Spec

(***************************************************************************)
(* So whatever requests are open, the next statement of one of them waits  *)
(* for no other transaction, and the database never finds a deadlock.      *)
(***************************************************************************)
THEOREM NoDeadlock == Spec => []SomeoneGoesOn
<1>1. ASSUME WaitsGoForward PROVE SomeoneGoesOn
  <2> SUFFICES ASSUME \A r \in Request : Open(r) => \E q \in Request : WaitsFor(r, q)
               PROVE  \A r \in Request : ~Open(r)
      BY DEF SomeoneGoesOn
  <2>1. \A r \in Request : Open(r) => \E q \in Request : Open(q) /\ Rank(r) < Rank(q)
    BY <1>1 DEF WaitsGoForward
  <2>2. \A r \in Request : Rank(r) \in 0..4
    BY RankOf
  <2>3. \A r \in Request : Open(r) => Rank(r) # 4
    BY <2>1, <2>2
  <2>4. \A r \in Request : Open(r) => Rank(r) # 3
    BY <2>1, <2>2, <2>3
  <2>5. \A r \in Request : Open(r) => Rank(r) # 2
    BY <2>1, <2>2, <2>3, <2>4
  <2>6. \A r \in Request : Open(r) => Rank(r) # 1
    BY <2>1, <2>2, <2>3, <2>4, <2>5
  <2>7. \A r \in Request : Open(r) => Rank(r) # 0
    BY <2>1, <2>2, <2>3, <2>4, <2>5, <2>6
  <2> QED
    BY <2>2, <2>3, <2>4, <2>5, <2>6, <2>7
<1> QED
  BY <1>1, NoCircularWait, PTL
=============================================================================
