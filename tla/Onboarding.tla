------------------------------- MODULE Onboarding -------------------------------
(***************************************************************************)
(* How an installation comes by its organization, administrator, sites and *)
(* scans: POST /setup/first-run (routers/setup.py), the demo seed          *)
(* (seed.py), the organizations, sites and discovery routers.              *)
(*                                                                         *)
(* Requests and runs of the seed are transactions that read what is        *)
(* committed and publish what they flushed when they commit.  A unique     *)
(* index makes an insert wait for another transaction that inserted the    *)
(* same value; a foreign key makes a delete wait for one that refers to    *)
(* what it deletes.  Rows are named by the request that inserted them.     *)
(***************************************************************************)
EXTENDS Integers, FiniteSets

CONSTANTS
  Request,    \* requests and runs of the seed
  Extra,      \* names of the sites that operators add
  Org,        \* names of organizations
  AcmeCorp,   \* the one the seed looks for
  Email,      \* addresses of administrators
  SeedAdmin,  \* the one the seed looks for
  Null

ASSUME OnboardingAssumption ==
  /\ AcmeCorp \in Org /\ SeedAdmin \in Email
  /\ Null \notin Request \cup Extra /\ Request \cap Extra = {}

VARIABLES
  orgs,     \* committed organizations
  users,    \* committed users
  sites,    \* committed sites
  scans,    \* committed discovery scans
  session,  \* what each request has read and flushed
  deleted,  \* history: an organization was deleted
  ended     \* history: the requests that had ended when each one began

tables == <<orgs, users, sites, scans>>
vars == <<tables, session, deleted, ended>>

\* hq: whether it has the name the seed looks for; demo: whether mounts and radios refer to
\* the site and its assets, which nothing deletes.
Site == [id : Request \cup Extra, org : Request, hq : BOOLEAN, assets : BOOLEAN, demo : BOOLEAN]

Fresh == [op |-> "none", pc |-> "idle", name |-> Null, email |-> Null,
          org |-> Null, new |-> {}, user |-> {}, site |-> {}, scan |-> {}, seen |-> {}]

Init ==
  /\ orgs = {} /\ users = {} /\ sites = {} /\ scans = {}
  /\ session = [r \in Request |-> Fresh]
  /\ deleted = FALSE
  /\ ended = [r \in Request |-> {}]

\* "ok": committed, whether or not the answer to the COMMIT arrives.
Over == {"ok", "refused", "error"}

\* mutant: the session is not rolled back
EndWithoutRollback(r, pc) ==
  /\ session' = [session EXCEPT ![r].pc = pc]
  /\ UNCHANGED <<tables, deleted, ended>>

\* The request ends without a commit, and its flushes are rolled back.
End(r, pc) ==
  /\ session' = [session EXCEPT ![r] = [Fresh EXCEPT !.op = session[r].op, !.pc = pc]]
  /\ UNCHANGED <<tables, deleted, ended>>

Go(r, s) ==
  /\ session' = [session EXCEPT ![r] = s]
  /\ UNCHANGED <<tables, deleted, ended>>

\* A request begins as s.
Begin(r, s) ==
  /\ session[r].pc = "idle"
  /\ session' = [session EXCEPT ![r] = s]
  /\ ended' = [ended EXCEPT ![r] = {q \in Request : session[q].pc \in Over}]
  /\ UNCHANGED <<tables, deleted>>

OrgIds == {o.id : o \in orgs}
Attached(u) == u.org # Null

\* get_current_user passes for someone; no endpoint deletes or disables a user.
Authenticated == users # {}

\* assert_same_organization passes for someone of the organization too.
Member(id) == id \in OrgIds /\ \E u \in users : u.org = id

-----------------------------------------------------------------------------
(* First-run setup.                                                        *)

\* setup_status
Initialized == orgs # {} /\ users # {}

\* setup_counts, its first SELECT
FirstRun(r, name, email) ==
  Begin(r, [Fresh EXCEPT !.op = "first-run", !.name = name, !.email = email,
              !.pc = IF orgs # {} THEN "refused" ELSE "count users"])

\* mutant: a user without an organization does not count
CountOrganizationsOnly(r) ==
  /\ session[r].pc = "count users"
  /\ Go(r, [session[r] EXCEPT !.pc = "insert org"])

\* The second SELECT, and the answer 409
CountUsers(r) ==
  /\ session[r].pc = "count users"
  /\ IF users # {} THEN End(r, "refused")
     ELSE Go(r, [session[r] EXCEPT !.pc = "insert org"])

-----------------------------------------------------------------------------
(* What first-run and the seed share: inserts under a unique index.        *)

\* No other transaction holds an uncommitted row with the value.
NameIsFree(r, name) == \A q \in Request \ {r} : \A o \in session[q].new : o.name # name
EmailIsFree(r, email) == \A q \in Request \ {r} : \A u \in session[q].user : u.email # email

After(op) ==
  IF op = "first-run" THEN "insert user" ELSE IF op = "seed" THEN "find admin" ELSE "answer"

InsertOrg(r) ==
  LET s == session[r]
  IN /\ s.pc = "insert org" /\ NameIsFree(r, s.name)
     /\ IF \E o \in orgs : o.name = s.name THEN End(r, "error")
        ELSE Go(r, [s EXCEPT !.pc = After(s.op), !.org = r,
                             !.new = {[id |-> r, name |-> s.name]}])

\* mutant: the organization is committed before its administrator is inserted
InsertUserAfterCommit(r) ==
  LET s == session[r]
  IN /\ s.pc = "insert user" /\ EmailIsFree(r, s.email)
     /\ session' = [session EXCEPT ![r] =
          IF \E u \in users : u.email = s.email THEN [s EXCEPT !.pc = "error"]
          ELSE [s EXCEPT !.pc = IF s.op = "seed" THEN "find site" ELSE "commit",
                  !.user = {[email |-> s.email, org |-> s.org, by |-> r]}]]
     /\ orgs' = orgs \cup s.new
     /\ UNCHANGED <<users, sites, scans, deleted, ended>>

\* mutant: the administrator is not assigned to the organization
InsertUserUnassigned(r) ==
  LET s == session[r]
  IN /\ s.pc = "insert user" /\ EmailIsFree(r, s.email)
     /\ IF (\E u \in users : u.email = s.email) \/ s.org \notin OrgIds \cup {r}
        THEN End(r, "error")
        ELSE Go(r, [s EXCEPT !.pc = IF s.op = "seed" THEN "find site" ELSE "commit",
                             !.user = {[email |-> s.email, org |-> Null, by |-> r]}])

\* The organization may be the seed's own, one that it found, or gone by now.
InsertUser(r) ==
  LET s == session[r]
  IN /\ s.pc = "insert user" /\ EmailIsFree(r, s.email)
     /\ IF (\E u \in users : u.email = s.email) \/ s.org \notin OrgIds \cup {r}
        THEN End(r, "error")
        ELSE Go(r, [s EXCEPT !.pc = IF s.op = "seed" THEN "find site" ELSE "commit",
                             !.user = {[email |-> s.email, org |-> s.org, by |-> r]}])

-----------------------------------------------------------------------------
(* The seed: it looks for each part, and inserts what it misses.           *)

Seed(r) ==
  LET found == {o \in orgs : o.name = AcmeCorp}
      s == [Fresh EXCEPT !.op = "seed", !.name = AcmeCorp, !.email = SeedAdmin]
  IN Begin(r, IF found = {} THEN [s EXCEPT !.pc = "insert org"]
              ELSE [s EXCEPT !.pc = "find admin", !.org = (CHOOSE o \in found : TRUE).id])

\* An administrator that is found stays in whatever organization it is.
FindAdmin(r) ==
  /\ session[r].pc = "find admin"
  /\ Go(r, [session[r] EXCEPT !.pc =
       IF \E u \in users : u.email = SeedAdmin THEN "find site" ELSE "insert user"])

(***************************************************************************)
(* The site is looked for by its name alone.  Finding two raises;          *)
(* inserting one needs the organization, which may be gone.                *)
(***************************************************************************)
FindSite(r) ==
  LET s == session[r]
      found == {x \in sites : x.hq}
  IN /\ s.pc = "find site"
     /\ CASE Cardinality(found) > 1 -> End(r, "error")
          [] Cardinality(found) = 1 -> Go(r, [s EXCEPT !.pc = "find assets", !.site = found])
          [] OTHER ->
               IF s.org \notin OrgIds \cup {r} THEN End(r, "error")
               ELSE Go(r, [s EXCEPT !.pc = "insert assets", !.site =
                      {[id |-> r, org |-> s.org, hq |-> TRUE, assets |-> FALSE, demo |-> FALSE]}])

(***************************************************************************)
(* Without assets the demo data is inserted, but its second mount needs    *)
(* branch_site, which is unbound unless this run inserted the sites.       *)
(***************************************************************************)
FindAssets(r) ==
  LET s == session[r]
  IN /\ s.pc = "find assets"
     /\ IF \E x \in sites : x.id \in {y.id : y \in s.site} /\ x.assets
        THEN Go(r, [s EXCEPT !.pc = "commit", !.site = {}])
        ELSE End(r, "error")

\* The demo radios have fixed MAC addresses, which are unique.
InsertAssets(r) ==
  LET s == session[r]
  IN /\ s.pc = "insert assets"
     /\ \A q \in Request \ {r} : \A x \in session[q].site : ~(x.id = q /\ x.demo)
     /\ IF \E x \in sites : x.demo THEN End(r, "error")
        ELSE Go(r, [s EXCEPT !.pc = "insert alerts", !.site =
               {[x EXCEPT !.assets = TRUE, !.demo = TRUE] : x \in @}])

\* An incident, rules, playbooks and alerts: they have no unique value, and refer only to rows
\* of this run and to the organization, which its sites keep from being deleted.
InsertAlerts(r) ==
  /\ session[r].pc = "insert alerts"
  /\ Go(r, [session[r] EXCEPT !.pc = "commit"])

-----------------------------------------------------------------------------
(* Organizations: the response model wants text where the row has a UUID.  *)

CreateOrganization(r, name) ==
  /\ Authenticated
  /\ Begin(r, [Fresh EXCEPT !.op = "create", !.name = name, !.pc = "insert org"])

\* Making the answer raises inside the session, which is rolled back.
AnswerUnserializable(r) ==
  /\ session[r].pc = "answer"
  /\ End(r, "error")

\* delete_organization and AsyncSession.delete, which loads the sites and assets to cascade to;
\* the users are loaded by the flush that detaches them.
LoadOrganization(r, id) ==
  /\ Member(id)
  /\ Begin(r, [Fresh EXCEPT !.op = "delete", !.pc = "delete", !.org = id,
                            !.seen = {x \in sites : x.org = id}])

\* A foreign key keeps the row: something refers to it, or to a site of it, that was not
\* loaded, or that nothing deletes.
Pinned(s) ==
  \E x \in sites :
    /\ x.org = s.org
    /\ x.demo \/ ~ \E y \in s.seen : y.id = x.id /\ (x.assets => y.assets)

\* The organization is referred to by rows other transactions have not committed.
Referred(r) ==
  \E q \in Request \ {r} :
    /\ session[q].op # "delete" /\ session[q].org = session[r].org
    /\ session[q].user # {} \/ \E x \in session[q].site : x.id = q

(***************************************************************************)
(* The flush of the delete, in get_db's commit: users are detached, sites  *)
(* and assets deleted with the organization.                               *)
(***************************************************************************)
DeleteOrganization(r) ==
  LET s == session[r]
  IN /\ s.pc = "delete" /\ ~Referred(r)
     /\ IF Pinned(s) THEN End(r, "error")
        ELSE /\ orgs' = {o \in orgs : o.id # s.org}
             /\ sites' = {x \in sites : x.org # s.org}
             /\ users' = {IF u.org = s.org THEN [u EXCEPT !.org = Null] ELSE u : u \in users}
             /\ session' = [session EXCEPT ![r] = [Fresh EXCEPT !.op = "delete", !.pc = "ok"]]
             /\ deleted' = TRUE
             /\ UNCHANGED <<scans, ended>>

-----------------------------------------------------------------------------
(* Sites and their assets: one statement each.                             *)

ChangeSites(new) == sites' = new /\ UNCHANGED <<orgs, users, scans, session, deleted, ended>>

\* The id is one that no site has, nor had when a delete loaded it.
CreateSite(id, org, hq) ==
  /\ Member(org)
  /\ id \notin {x.id : x \in sites \cup UNION {session[q].seen : q \in Request}}
  /\ ChangeSites(sites \cup {[id |-> id, org |-> org, hq |-> hq, assets |-> FALSE, demo |-> FALSE]})

\* update_site gives a site the name the seed looks for, or takes it away.
RenameSite(x) ==
  /\ Member(x.org)
  /\ ChangeSites((sites \ {x}) \cup {[x EXCEPT !.hq = ~@]})

\* An asset is added to a site, or its last one deleted; the demo's radios keep theirs.
ChangeAssets(x) ==
  /\ Member(x.org) /\ ~x.demo
  /\ ChangeSites((sites \ {x}) \cup {[x EXCEPT !.assets = ~@]})

\* delete_site cascades to its assets; the foreign keys of the demo's mounts forbid it.
DeleteSite(x) ==
  /\ Member(x.org) /\ ~x.demo
  /\ ChangeSites(sites \ {x})

-----------------------------------------------------------------------------
(* Discovery.                                                              *)

\* scan_subnet up to its first flush; the pings follow.
Scan(r) ==
  /\ Authenticated
  /\ Begin(r, [Fresh EXCEPT !.op = "scan", !.pc = "ping",
                 !.scan = {[id |-> r, status |-> "running", up |-> FALSE]}])

\* The pings all end, an unreachable host or a timeout being no failure.
Probe(r) ==
  /\ session[r].pc = "ping"
  /\ \E up \in BOOLEAN :
       Go(r, [session[r] EXCEPT !.pc = "answer",
                !.scan = {[id |-> r, status |-> "completed", up |-> up]}])

\* import_discovered_hosts_as_assets: its latest completed scan, or 404
Import(r) ==
  /\ Authenticated
  /\ Begin(r, [Fresh EXCEPT !.op = "import", !.pc =
       IF \E x \in scans : x.status = "completed" THEN "ok" ELSE "refused"])

-----------------------------------------------------------------------------

Commit(r) ==
  LET s == session[r]
  IN /\ s.pc = "commit"
     /\ orgs' = orgs \cup s.new /\ users' = users \cup s.user
     /\ sites' = sites \cup s.site /\ scans' = scans \cup s.scan
     /\ session' = [session EXCEPT ![r] = [Fresh EXCEPT !.op = s.op, !.pc = "ok"]]
     /\ UNCHANGED <<deleted, ended>>

\* The server or the script stops, or its connection is lost.
Crash(r) == session[r].pc \notin Over \cup {"idle"} /\ End(r, "error")

Step(r) ==
  \/ CountUsers(r)
  \/ InsertOrg(r)
  \/ InsertUser(r)
  \/ FindAdmin(r)
  \/ FindSite(r)
  \/ FindAssets(r)
  \/ InsertAssets(r)
  \/ InsertAlerts(r)
  \/ AnswerUnserializable(r)
  \/ DeleteOrganization(r)
  \/ Probe(r)
  \/ Commit(r)

Next ==
  \/ \E r \in Request :
       \/ \E name \in Org, email \in Email : FirstRun(r, name, email)
       \/ Seed(r)
       \/ \E name \in Org : CreateOrganization(r, name)
       \/ \E id \in Request : LoadOrganization(r, id)
       \/ Scan(r)
       \/ Import(r)
       \/ Step(r)
       \/ Crash(r)
  \/ \E id \in Extra, org \in Request, hq \in BOOLEAN : CreateSite(id, org, hq)
  \/ \E x \in sites : RenameSite(x) \/ ChangeAssets(x) \/ DeleteSite(x)

Spec == Init /\ [][Next]_vars

\* Every request goes on: its statements are answered, and locks are given up.
FairSpec == Spec /\ \A r \in Request : WF_vars(Step(r))

-----------------------------------------------------------------------------
(* Properties.                                                             *)

TypeOK ==
  /\ \A o \in orgs : o.id \in Request /\ o.name \in Org
  /\ \A u \in users : u.email \in Email /\ u.org \in OrgIds \cup {Null} /\ u.by \in Request
  /\ sites \subseteq Site /\ {x.org : x \in sites} \subseteq OrgIds
  /\ \A o, p \in orgs : o.name = p.name => o = p
  /\ \A u, v \in users : u.email = v.email => u = v

InsertedBy(r) ==
  {o \in orgs : o.id = r} \cup {u \in users : u.by = r} \cup {x \in sites : x.id = r}

(***************************************************************************)
(* Setup is whole: a first-run or a seed that is refused, fails or stops   *)
(* on the way leaves no row, and no organization appears without the       *)
(* administrator it was set up for.                                        *)
(***************************************************************************)
NothingHalfSetUp ==
  /\ TypeOK
  /\ \A r \in Request : session[r].pc # "ok" => InsertedBy(r) = {}
  /\ \A o \in orgs : \E u \in users : u.by = o.id \/ u.email = SeedAdmin

(***************************************************************************)
(* The check of first_run_setup holds nothing: two requests may each set   *)
(* up an administrator.  But only requests that overlap do; once one was   *)
(* answered, whatever is deleted later, no other one ever succeeds.        *)
(***************************************************************************)
SecondAdminNeedsOverlap ==
  \A q, r \in Request :
    /\ session[q].op = "first-run" /\ session[q].pc = "ok"
    /\ session[r].op = "first-run" /\ session[r].pc = "ok"
    => q \notin ended[r]

(***************************************************************************)
(* An initialized system that no user belongs to any organization of can   *)
(* only come of deleting an organization; then every scoped endpoint       *)
(* refuses everybody.  (The seed does not take its administrator back.)    *)
(***************************************************************************)
UnmanagedNeedsDeletion ==
  users # {} /\ (\A u \in users : ~Attached(u)) => deleted

(***************************************************************************)
(* Users without any organization see the setup wizard, and it refuses     *)
(* them: an organization comes back only by the seed, or by a first-run    *)
(* request that had looked before there was any user.                      *)
(***************************************************************************)
LockoutNeedsSeed ==
  [][users # {} /\ orgs = {} /\ orgs' # {}
       => \E r \in Request :
            /\ session[r].pc = "commit" /\ session'[r].pc = "ok"
            /\ session[r].op = "seed" \/ \A u \in users : u.by \notin ended[r]]_vars

(***************************************************************************)
(* No order of the inserts and deletes makes transactions wait for each    *)
(* other: every request ends.                                              *)
(***************************************************************************)
EveryRequestEnds ==
  \A r \in Request : session[r].pc # "idle" ~> session[r].pc \in Over
=============================================================================
