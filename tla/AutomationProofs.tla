---------------------------- MODULE AutomationProofs ----------------------------
(***************************************************************************)
(* Invariance proofs for Automation, for every set of requests, logs,      *)
(* rules and indicators and every finite set of playbooks.                 *)
(*                                                                         *)
(* Alerts, incidents and records are whole together wherever they are      *)
(* kept: in the tables, in a session, and for the one alert evaluated in a *)
(* step.  Two such parts join into a whole one if they have no alert in    *)
(* common, and they have none because an alert is named by its request and *)
(* what raised it: so Evaluate joins one alert to the session, and Commit  *)
(* the session to the tables.                                              *)
(***************************************************************************)
EXTENDS Automation, FiniteSetTheorems, TLAPS

AlertId == Request \X Cause

AlertRow == [id : AlertId, severity : AlertSeverity, source : Text \cup {None},
             incident : BOOLEAN]
IncidentRow == [alert : AlertId, severity : IncidentSeverity, playbook : Playbook]
Record == Playbook \X AlertId

SessionRow ==
  [pc : {"idle", "rules", "iocs", "respond"} \cup Ended, op : {"none", "log", "alert"},
   log : Log \cup {None}, todo : Seq(AlertRow), alerts : SUBSET AlertRow,
   incidents : SUBSET IncidentRow, actions : Seq(Record)]

Shapes ==
  /\ rules \subseteq DetectionRule /\ IsFiniteSet(rules)
  /\ iocs \subseteq Indicator /\ IsFiniteSet(iocs)
  /\ logs \subseteq Request
  /\ alerts \subseteq AlertRow /\ incidents \subseteq IncidentRow /\ actions \in Seq(Record)
  /\ session \in [Request -> SessionRow]
  /\ known \in [Request -> SUBSET (rules \cup iocs)]

\* An alert is named once and linked exactly if it is to be escalated.
Named(A) ==
  /\ \A a, b \in A : a.id = b.id => a = b
  /\ \A a \in A : a.incident = (Escalating(a) # {})

\* An escalated alert has one incident, and nothing else has.
Escalated(A, I) ==
  /\ \A i, j \in I : i.alert = j.alert => i = j
  /\ \A i \in I : \E a \in A : i.alert = a.id /\ Escalating(a) # {}
  /\ \A a \in A : Escalating(a) # {} => \E i \in I : i.alert = a.id

\* Every playbook an alert matches is recorded for it once, and nothing else is.
Recorded(A, L) ==
  /\ \A j, k \in DOMAIN L : L[j] = L[k] => j = k
  /\ \A k \in DOMAIN L : \E a \in A : \E p \in Matching(a) : L[k] = <<p, a.id>>
  /\ \A a \in A : \A p \in Matching(a) : \E k \in DOMAIN L : L[k] = <<p, a.id>>

Whole(A, I, L) == Named(A) /\ Escalated(A, I) /\ Recorded(A, L)

\* The alerts of a session are its own and each is there once, judged or yet to be judged.
Own(r, s) ==
  /\ \A a \in s.alerts : a.id[1] = r
  /\ \A k \in DOMAIN s.todo : s.todo[k].id[1] = r
  /\ \A j, k \in DOMAIN s.todo : s.todo[j].id = s.todo[k].id => j = k
  /\ \A k \in DOMAIN s.todo : \A a \in s.alerts : s.todo[k].id # a.id

\* Which step a session has reached.
Sequenced(s) ==
  /\ s.pc = "idle" <=> s.op = "none"
  /\ s.pc \in {"rules", "iocs"} => s.op = "log"
  /\ s.op = "log" => s.log \in Log
  /\ s.pc \notin {"iocs", "respond"} => s.todo = <<>>
  /\ s.pc # "respond" => s.alerts = {} /\ s.incidents = {} /\ s.actions = <<>>
  /\ s.pc = "iocs" => \A k \in DOMAIN s.todo : s.todo[k].id[2] \in DetectionRule
  /\ s.op = "alert" => /\ \A a \in s.alerts : a.id[2] = Operator
                       /\ \A k \in DOMAIN s.todo : s.todo[k].id[2] = Operator

Hits(cause, log) == IF cause \in Indicator THEN IocHits(cause, log) ELSE RuleHits(cause, log)

\* Which of the known threats in its log a request has alerts for by then.
Told(r, s) ==
  s.op = "log" => \A cause \in known[r] : Hits(cause, s.log) =>
    /\ s.pc = "iocs" /\ cause \notin Indicator =>
         \E k \in DOMAIN s.todo : s.todo[k].id = <<r, cause>>
    /\ s.pc = "respond" =>
         \/ \E k \in DOMAIN s.todo : s.todo[k].id = <<r, cause>>
         \/ \E a \in s.alerts : a.id = <<r, cause>>
    /\ s.pc = "ok" => \E a \in alerts : a.id = <<r, cause>>

Fits(r, s) ==
  /\ Own(r, s) /\ Sequenced(s) /\ Told(r, s)
  /\ Whole(s.alerts, s.incidents, s.actions)

\* Only a request that has ended has alerts in the table, and in an error only linked ones.
Ending ==
  /\ \A r \in logs : session[r].op = "log"
  /\ \A r \in Request : session[r].pc \notin {"ok", "error"} => \A a \in alerts : a.id[1] # r
  /\ ErrorLeavesOnlyTheLog

IInv ==
  /\ Shapes
  /\ \A r \in Request : Fits(r, session[r])
  /\ Whole(alerts, incidents, actions)
  /\ Ending

-----------------------------------------------------------------------------
(* Finite sets as sequences.                                               *)

\* L lists the elements of S, each once.
Lists(L, S) ==
  /\ L \in Seq(S)
  /\ \A j, k \in DOMAIN L : L[j] = L[k] => j = k
  /\ \A x \in S : \E k \in DOMAIN L : L[k] = x

LEMMA SetToSeqLists ==
  ASSUME NEW S, IsFiniteSet(S)
  PROVE  Lists(SetToSeq(S), S)
<1> DEFINE n == Cardinality(S)
           L == SetToSeq(S)
<1>1. n \in Nat /\ ExistsBijection(1..n, S)
  BY FS_CardinalityType
<1>2. \E f \in [1..n -> S] : IsInjective(f)
  BY <1>1 DEF ExistsBijection, Bijection, Injection
<1>3. L \in [1..n -> S] /\ IsInjective(L)
  <2>1. L = CHOOSE f \in [1..n -> S] : IsInjective(f)
    BY DEF SetToSeq
  <2> HIDE DEF L
  <2> QED BY <1>2, <2>1, Zenon
<1>4. Cardinality(1..n) = n
  <2>1. 1 \in Int /\ n \in Int
    BY <1>1
  <2>2. Cardinality(1..n) = IF 1 > n THEN 0 ELSE n - 1 + 1
    BY <2>1, FS_Interval, Zenon
  <2> QED BY <1>1, <2>2
<1> HIDE DEF L
<1>5. L \in Surjection(1..n, S)
  <2>1. L \in Injection(1..n, S)
    BY <1>3 DEF Injection
  <2> QED BY <2>1, <1>4, FS_Injection
<1>6. \A x \in S : \E k \in 1..n : L[k] = x
  BY <1>5 DEF Surjection
<1>7. L \in Seq(S) /\ DOMAIN L = 1..n
  BY <1>1, <1>3
<1>8. \A j, k \in DOMAIN L : L[j] = L[k] => j = k
  BY <1>3 DEF IsInjective
<1>9. Lists(L, S)
  BY <1>6, <1>7, <1>8 DEF Lists
<1> QED BY <1>9 DEF L

LEMMA ImageIsFinite ==
  ASSUME NEW S, IsFiniteSet(S), NEW f, DOMAIN f = S
  PROVE  IsFiniteSet({f[x] : x \in S})
<1> DEFINE T == {f[x] : x \in S}
           g == [x \in S |-> f[x]]
<1>1. g \in Surjection(S, T)
  BY DEF Surjection
<1> HIDE DEF T, g
<1>2. IsFiniteSet(T)
  BY <1>1, FS_Surjection
<1> QED BY <1>2 DEF T

\* Where the entries of a joined sequence come from, and where they go.
LEMMA JoinedEntries ==
  ASSUME NEW S, NEW L \in Seq(S), NEW M \in Seq(S)
  PROVE  /\ L \o M \in Seq(S)
         /\ \A k \in DOMAIN L : k \in DOMAIN (L \o M) /\ (L \o M)[k] = L[k]
         /\ \A k \in DOMAIN M :
              Len(L) + k \in DOMAIN (L \o M) /\ (L \o M)[Len(L) + k] = M[k]
         /\ \A k \in DOMAIN (L \o M) :
              k \in DOMAIN L \/ \E h \in DOMAIN M : k = Len(L) + h
<1>1. /\ L \o M \in Seq(S) /\ Len(L \o M) = Len(L) + Len(M)
      /\ Len(L) \in Nat /\ Len(M) \in Nat /\ Len(L \o M) \in Nat
      /\ DOMAIN L = 1..Len(L) /\ DOMAIN M = 1..Len(M) /\ DOMAIN (L \o M) = 1..Len(L \o M)
  OBVIOUS
<1>2. ASSUME NEW k \in DOMAIN L PROVE k \in DOMAIN (L \o M) /\ (L \o M)[k] = L[k]
  <2>1. k \in 1..Len(L) /\ k \in 1..Len(L) + Len(M)
    BY <1>1
  <2> QED BY <1>1, <2>1
<1>3. ASSUME NEW k \in DOMAIN M
      PROVE  Len(L) + k \in DOMAIN (L \o M) /\ (L \o M)[Len(L) + k] = M[k]
  <2>1. k \in 1..Len(M) /\ Len(L) + k \in 1..Len(L) + Len(M) /\ Len(L) + k > Len(L)
        /\ Len(L) + k - Len(L) = k
    BY <1>1
  <2> QED BY <1>1, <2>1
<1>4. ASSUME NEW k \in DOMAIN (L \o M)
      PROVE  k \in DOMAIN L \/ \E h \in DOMAIN M : k = Len(L) + h
  <2>1. k \in DOMAIN L \/ (k - Len(L) \in DOMAIN M /\ k = Len(L) + (k - Len(L)))
    BY <1>1
  <2> QED BY <2>1
<1> QED BY <1>1, <1>2, <1>3, <1>4

-----------------------------------------------------------------------------
(* Whole parts.                                                            *)

LEMMA NothingIsWhole == Whole({}, {}, <<>>)
BY DEF Whole, Named, Escalated, Recorded

\* Two parts without a common alert are one.
LEMMA WholePartsJoin ==
  ASSUME NEW A \in SUBSET AlertRow, NEW I \in SUBSET IncidentRow, NEW L \in Seq(Record),
         NEW B \in SUBSET AlertRow, NEW J \in SUBSET IncidentRow, NEW M \in Seq(Record),
         Whole(A, I, L), Whole(B, J, M),
         \A a \in A, b \in B : a.id # b.id
  PROVE  Whole(A \cup B, I \cup J, L \o M)
<1>1. Named(A) /\ Escalated(A, I) /\ Recorded(A, L)
  BY DEF Whole
<1>2. Named(B) /\ Escalated(B, J) /\ Recorded(B, M)
  BY DEF Whole
<1>3. Named(A \cup B)
  BY <1>1, <1>2 DEF Named
<1>4. Escalated(A \cup B, I \cup J)
  <2>1. \A i, j \in I \cup J : i.alert = j.alert => i = j
    <3>1. \A i \in I, j \in J : i.alert # j.alert
      BY <1>1, <1>2 DEF Escalated
    <3> QED BY <1>1, <1>2, <3>1 DEF Escalated
  <2> QED BY <1>1, <1>2, <2>1 DEF Escalated
<1>5. Recorded(A \cup B, L \o M)
  <2> DEFINE N == L \o M
  <2>1. /\ \A k \in DOMAIN L : k \in DOMAIN N /\ N[k] = L[k]
        /\ \A k \in DOMAIN M : Len(L) + k \in DOMAIN N /\ N[Len(L) + k] = M[k]
        /\ \A k \in DOMAIN N : k \in DOMAIN L \/ \E h \in DOMAIN M : k = Len(L) + h
    BY JoinedEntries
  <2>2. /\ Len(L) \in Nat /\ DOMAIN N \subseteq Nat
        /\ DOMAIN L = 1..Len(L) /\ DOMAIN M = 1..Len(M)
    OBVIOUS
  <2> HIDE DEF N
  <2>3. \A j \in DOMAIN L, k \in DOMAIN M : L[j] # M[k]
    <3> SUFFICES ASSUME NEW j \in DOMAIN L, NEW k \in DOMAIN M, L[j] = M[k] PROVE FALSE
      OBVIOUS
    <3>1. PICK a \in A : \E p \in Matching(a) : L[j] = <<p, a.id>>
      BY <1>1 DEF Recorded
    <3>2. PICK b \in B : \E p \in Matching(b) : M[k] = <<p, b.id>>
      BY <1>2 DEF Recorded
    <3>3. L[j][2] = a.id
      BY <3>1
    <3>4. M[k][2] = b.id
      BY <3>2
    <3>5. a.id # b.id
      OBVIOUS
    <3> QED BY <3>3, <3>4, <3>5
  <2>4. ASSUME NEW j \in DOMAIN N, NEW k \in DOMAIN N, N[j] = N[k] PROVE j = k
    <3>1. CASE j \in DOMAIN L /\ k \in DOMAIN L
      BY <3>1, <2>1, <2>4, <1>1 DEF Recorded
    <3>2. ASSUME NEW h \in DOMAIN M, j = Len(L) + h, k \in DOMAIN L PROVE FALSE
      <4>1. N[j] = M[h] /\ N[k] = L[k]
        BY <3>2, <2>1
      <4> QED BY <4>1, <3>2, <2>3, <2>4
    <3>3. ASSUME NEW h \in DOMAIN M, k = Len(L) + h, j \in DOMAIN L PROVE FALSE
      <4>1. N[k] = M[h] /\ N[j] = L[j]
        BY <3>3, <2>1
      <4> QED BY <4>1, <3>3, <2>3, <2>4
    <3>4. ASSUME NEW g \in DOMAIN M, NEW h \in DOMAIN M, j = Len(L) + g, k = Len(L) + h
          PROVE  j = k
      <4>1. N[j] = M[g] /\ N[k] = M[h]
        BY <3>4, <2>1
      <4> QED BY <4>1, <3>4, <2>4, <1>2 DEF Recorded
    <3> QED BY <2>1, <3>1, <3>2, <3>3, <3>4
  <2>5. ASSUME NEW k \in DOMAIN N
        PROVE  \E a \in A \cup B : \E p \in Matching(a) : N[k] = <<p, a.id>>
    <3>1. CASE k \in DOMAIN L
      <4>1. PICK a \in A : \E p \in Matching(a) : L[k] = <<p, a.id>>
        BY <3>1, <1>1 DEF Recorded
      <4> QED BY <4>1, <3>1, <2>1
    <3>2. ASSUME NEW h \in DOMAIN M, k = Len(L) + h
          PROVE  \E a \in A \cup B : \E p \in Matching(a) : N[k] = <<p, a.id>>
      <4>1. N[k] = M[h]
        BY <3>2, <2>1
      <4>2. PICK b \in B : \E p \in Matching(b) : M[h] = <<p, b.id>>
        BY <1>2 DEF Recorded
      <4> QED BY <4>1, <4>2
    <3> QED BY <2>1, <3>1, <3>2
  <2>6. ASSUME NEW a \in A \cup B, NEW p \in Matching(a)
        PROVE  \E k \in DOMAIN N : N[k] = <<p, a.id>>
    <3>1. CASE a \in A
      <4>1. PICK k \in DOMAIN L : L[k] = <<p, a.id>>
        BY <3>1, <1>1 DEF Recorded
      <4> QED BY <4>1, <2>1
    <3>2. CASE a \in B
      <4>1. PICK k \in DOMAIN M : M[k] = <<p, a.id>>
        BY <3>2, <1>2 DEF Recorded
      <4> QED BY <4>1, <2>1
    <3> QED BY <3>1, <3>2
  <2>7. Recorded(A \cup B, N)
    BY <2>4, <2>5, <2>6 DEF Recorded
  <2> QED BY <2>7 DEF N
<1> QED BY <1>3, <1>4, <1>5 DEF Whole

-----------------------------------------------------------------------------
(* Sessions.                                                               *)

LEMMA Parts ==
  ASSUME IInv
  PROVE  /\ rules \subseteq DetectionRule /\ IsFiniteSet(rules)
         /\ iocs \subseteq Indicator /\ IsFiniteSet(iocs)
         /\ logs \subseteq Request
         /\ alerts \subseteq AlertRow /\ incidents \subseteq IncidentRow
         /\ actions \in Seq(Record)
         /\ session \in [Request -> SessionRow]
         /\ known \in [Request -> SUBSET (rules \cup iocs)]
         /\ \A r \in Request : session[r] \in SessionRow /\ Fits(r, session[r])
BY DEF IInv, Shapes

LEMMA RowFields ==
  ASSUME NEW s \in SessionRow
  PROVE  /\ s.pc \in {"idle", "rules", "iocs", "respond"} \cup Ended
         /\ s.op \in {"none", "log", "alert"} /\ s.log \in Log \cup {None}
         /\ s.todo \in Seq(AlertRow) /\ s.alerts \subseteq AlertRow
         /\ s.incidents \subseteq IncidentRow /\ s.actions \in Seq(Record)
BY DEF SessionRow

LEMMA EmptySequence ==
  /\ <<>> \in Seq(AlertRow) /\ <<>> \in Seq(Record) /\ DOMAIN <<>> = {}
OBVIOUS

\* What is left of a session s that closes.
Closed(s, pc) == [Fresh EXCEPT !.pc = pc, !.op = s.op, !.log = s.log]

LEMMA ClosedRow ==
  ASSUME NEW s \in SessionRow, NEW pc \in Ended
  PROVE  /\ Closed(s, pc) \in SessionRow
         /\ Closed(s, pc).pc = pc /\ Closed(s, pc).op = s.op /\ Closed(s, pc).log = s.log
         /\ Closed(s, pc).todo = <<>> /\ Closed(s, pc).alerts = {}
         /\ Closed(s, pc).incidents = {} /\ Closed(s, pc).actions = <<>>
<1>1. Fresh \in SessionRow /\ Fresh.todo = <<>> /\ Fresh.alerts = {}
      /\ Fresh.incidents = {} /\ Fresh.actions = <<>>
  BY EmptySequence DEF Fresh, SessionRow
<1>2. s.op \in {"none", "log", "alert"} /\ s.log \in Log \cup {None}
  BY RowFields
<1> QED BY <1>1, <1>2 DEF Closed, SessionRow

\* A session that has nothing yet, or nothing left.
LEMMA EmptySession ==
  ASSUME NEW r, NEW s, s.todo = <<>>, s.alerts = {}, s.incidents = {}, s.actions = <<>>
  PROVE  Own(r, s) /\ Whole(s.alerts, s.incidents, s.actions)
BY NothingIsWhole, EmptySequence DEF Own

LEMMA ClosedFits ==
  ASSUME NEW r \in Request, NEW s \in SessionRow, Sequenced(s), s.pc # "idle",
         NEW pc \in {"error", "lost"}
  PROVE  Fits(r, Closed(s, pc))
<1> DEFINE c == Closed(s, pc)
<1>1. /\ c.pc = pc /\ c.op = s.op /\ c.log = s.log /\ c.todo = <<>>
      /\ c.alerts = {} /\ c.incidents = {} /\ c.actions = <<>>
  BY ClosedRow DEF Ended
<1> HIDE DEF c
<1>2. Own(r, c) /\ Whole(c.alerts, c.incidents, c.actions)
  BY <1>1, EmptySession
<1>3. Sequenced(c)
  <2>1. s.op # "none" /\ (s.op = "log" => s.log \in Log)
    BY DEF Sequenced
  <2> QED BY <1>1, <2>1, EmptySequence DEF Sequenced
<1>4. Told(r, c)
  BY <1>1 DEF Told
<1>5. Fits(r, c)
  BY <1>2, <1>3, <1>4 DEF Fits
<1> QED BY <1>5 DEF c

\* A step that moves one session and touches no table.
LEMMA SessionMoves ==
  ASSUME IInv, NEW r \in Request, NEW s \in SessionRow,
         session' = [session EXCEPT ![r] = s], UNCHANGED <<rules, iocs, tables, known>>,
         Fits(r, s), session[r].pc \notin {"ok", "error"},
         session[r].op = "log" => s.op = "log"
  PROVE  IInv'
<1>1. /\ session'[r] = s
      /\ \A q \in Request : q # r => session'[q] = session[q]
      /\ rules' = rules /\ iocs' = iocs /\ logs' = logs /\ alerts' = alerts
      /\ incidents' = incidents /\ actions' = actions /\ known' = known
  BY Parts DEF tables
<1>2. Shapes'
  <2>1. session' \in [Request -> SessionRow]
    BY Parts
  <2> QED BY <1>1, <2>1, Parts DEF Shapes
<1>3. ASSUME NEW q \in Request PROVE Fits(q, session[q])'
  <2>1. Fits(q, session'[q])
    BY <1>1, Parts
  <2> QED BY <1>1, <2>1 DEF Fits, Told
<1>4. Whole(alerts, incidents, actions)'
  BY <1>1 DEF IInv
<1>5. Ending'
  <2>1. \A a \in alerts : a.id[1] # r
    BY DEF IInv, Ending
  <2>2. ASSUME NEW q \in logs PROVE session'[q].op = "log"
    BY <1>1, <2>2 DEF IInv, Ending
  <2>3. ASSUME NEW q \in Request, session'[q].pc \notin {"ok", "error"}, NEW a \in alerts
        PROVE  a.id[1] # q
    BY <1>1, <2>1, <2>3 DEF IInv, Ending
  <2>4. ASSUME NEW q \in Request, session'[q].pc = "error", NEW a \in alerts, a.id[1] = q
        PROVE  session'[q].op = "alert" /\ a.incident
    <3>1. q # r
      BY <2>1, <2>4
    <3> QED BY <1>1, <2>4, <3>1 DEF IInv, Ending, ErrorLeavesOnlyTheLog
  <2>5. ErrorLeavesOnlyTheLog'
    BY <1>1, <2>4 DEF ErrorLeavesOnlyTheLog
  <2> QED BY <1>1, <2>2, <2>3, <2>5 DEF Ending
<1> QED BY <1>2, <1>3, <1>4, <1>5 DEF IInv

\* A session that fails before its commit, or is lost.
LEMMA FailureStep ==
  ASSUME IInv, NEW r \in Request, NEW pc \in {"error", "lost"},
         session[r].pc \in {"rules", "iocs", "respond"},
         session' = Close(r, pc), UNCHANGED <<rules, iocs, tables, known>>
  PROVE  IInv'
<1> DEFINE c == Closed(session[r], pc)
<1>1. session' = [session EXCEPT ![r] = c]
  BY DEF Close, Closed
<1>2. session[r] \in SessionRow /\ Sequenced(session[r])
  BY Parts DEF Fits
<1>3. c \in SessionRow /\ c.op = session[r].op
  BY <1>2, ClosedRow DEF Ended
<1>4. Fits(r, c)
  BY <1>2, ClosedFits
<1> HIDE DEF c
<1> QED BY <1>1, <1>3, <1>4, SessionMoves

LEMMA LoseStep == ASSUME IInv, NEW r \in Request, Lose(r) PROVE IInv'
<1>1. session[r].pc \in {"rules", "iocs", "respond"}
  BY Parts, RowFields DEF Lose
<1> QED BY <1>1, FailureStep DEF Lose

LEMMA InvInit == Init => IInv
<1> SUFFICES ASSUME Init PROVE IInv
  OBVIOUS
<1>1. Fresh \in SessionRow
  BY EmptySequence DEF Fresh, SessionRow
<1>2. Shapes
  BY <1>1, EmptySequence, FS_EmptySet DEF Init, Shapes
<1>3. ASSUME NEW r \in Request PROVE Fits(r, session[r])
  <2>1. session[r] = Fresh
    BY DEF Init
  <2>2. /\ Fresh.pc = "idle" /\ Fresh.op = "none" /\ Fresh.todo = <<>>
        /\ Fresh.alerts = {} /\ Fresh.incidents = {} /\ Fresh.actions = <<>>
    BY DEF Fresh
  <2>3. Own(r, Fresh) /\ Whole(Fresh.alerts, Fresh.incidents, Fresh.actions)
    BY <2>2, EmptySession
  <2>4. Sequenced(Fresh) /\ Told(r, Fresh)
    BY <2>2 DEF Sequenced, Told
  <2> QED BY <2>1, <2>3, <2>4 DEF Fits
<1>4. Whole(alerts, incidents, actions)
  BY NothingIsWhole DEF Init
<1>5. Ending
  BY DEF Init, Ending, ErrorLeavesOnlyTheLog
<1> QED BY <1>2, <1>3, <1>4, <1>5 DEF IInv

-----------------------------------------------------------------------------
(* Rules, indicators and logs.                                             *)

\* More rules or indicators disturb nothing that was known before.
LEMMA MoreToKnow ==
  ASSUME IInv, UNCHANGED <<tables, session, known>>,
         rules \subseteq rules', rules' \subseteq DetectionRule, IsFiniteSet(rules'),
         iocs \subseteq iocs', iocs' \subseteq Indicator, IsFiniteSet(iocs')
  PROVE  IInv'
<1>1. /\ logs' = logs /\ alerts' = alerts /\ incidents' = incidents /\ actions' = actions
      /\ session' = session /\ known' = known
  BY DEF tables
<1>2. Shapes'
  <2>1. known \in [Request -> SUBSET (rules' \cup iocs')]
    BY Parts
  <2> QED BY <1>1, <2>1, Parts DEF Shapes
<1>3. ASSUME NEW r \in Request PROVE Fits(r, session[r])'
  <2>1. Fits(r, session[r])
    BY Parts
  <2> QED BY <1>1, <2>1 DEF Fits, Told
<1>4. Whole(alerts, incidents, actions)'
  BY <1>1 DEF IInv
<1>5. Ending'
  BY <1>1 DEF IInv, Ending, ErrorLeavesOnlyTheLog
<1> QED BY <1>2, <1>3, <1>4, <1>5 DEF IInv

LEMMA CreateDetectionRuleStep == ASSUME IInv, CreateDetectionRule PROVE IInv'
<1>1. PICK rule \in DetectionRule \ rules :
        rules' = rules \cup {rule} /\ UNCHANGED <<iocs, tables, session, known>>
  BY DEF CreateDetectionRule
<1>2. IsFiniteSet(rules')
  BY <1>1, Parts, FS_AddElement
<1> QED BY <1>1, <1>2, Parts, MoreToKnow

LEMMA CreateIocStep == ASSUME IInv, CreateIoc PROVE IInv'
<1>1. PICK ioc \in Indicator \ iocs :
        iocs' = iocs \cup {ioc} /\ UNCHANGED <<rules, tables, session, known>>
  BY DEF CreateIoc
<1>2. IsFiniteSet(iocs')
  BY <1>1, Parts, FS_AddElement
<1> QED BY <1>1, <1>2, Parts, MoreToKnow

LEMMA CreateLogEntryStep ==
  ASSUME IInv, NEW r \in Request, NEW log \in Log, CreateLogEntry(r, log)
  PROVE  IInv'
<1> PICK old : old = session[r]
  OBVIOUS
<1> PICK s : s = [old EXCEPT !.pc = "rules", !.op = "log", !.log = log]
  OBVIOUS
<1>1. /\ old \in SessionRow /\ Fits(r, old) /\ old.pc = "idle"
  BY Parts DEF CreateLogEntry
<1>2. session' = [session EXCEPT ![r] = s]
  BY DEF CreateLogEntry
<1>3. /\ s \in SessionRow /\ s.pc = "rules" /\ s.op = "log" /\ s.log = log
      /\ s.todo = old.todo /\ s.alerts = old.alerts
      /\ s.incidents = old.incidents /\ s.actions = old.actions
  BY <1>1 DEF SessionRow
<1>4. /\ session'[r] = s
      /\ \A q \in Request : q # r => session'[q] = session[q] /\ known'[q] = known[q]
      /\ logs' = logs \cup {r} /\ alerts' = alerts /\ rules' = rules /\ iocs' = iocs
      /\ incidents' = incidents /\ actions' = actions
  BY <1>2, Parts DEF CreateLogEntry
<1>5. Shapes'
  <2>1. session' \in [Request -> SessionRow]
    BY <1>2, <1>3, Parts
  <2>2. known' \in [Request -> SUBSET (rules \cup iocs)]
    BY Parts DEF CreateLogEntry
  <2> QED BY <1>4, <2>1, <2>2, Parts DEF Shapes
<1>6. s.todo = <<>> /\ s.alerts = {} /\ s.incidents = {} /\ s.actions = <<>>
  BY <1>1, <1>3 DEF Fits, Sequenced
<1>7. Fits(r, session[r])'
  <2>1. Own(r, s) /\ Whole(s.alerts, s.incidents, s.actions)
    BY <1>6, EmptySession
  <2>2. Sequenced(s)
    BY <1>3, <1>6, EmptySequence DEF Sequenced
  <2>3. Told(r, session[r])'
    BY <1>3, <1>4 DEF Told
  <2> QED BY <1>4, <2>1, <2>2, <2>3 DEF Fits
<1>8. ASSUME NEW q \in Request PROVE Fits(q, session[q])'
  <2>1. CASE q = r
    BY <1>7, <2>1
  <2>2. CASE q # r
    <3>1. Fits(q, session[q])
      BY Parts
    <3> QED BY <1>4, <2>2, <3>1 DEF Fits, Told
  <2> QED BY <2>1, <2>2
<1>9. Whole(alerts, incidents, actions)'
  BY <1>4 DEF IInv
<1>10. Ending'
  <2>1. \A a \in alerts : a.id[1] # r
    BY <1>1 DEF IInv, Ending
  <2>2. ASSUME NEW q \in logs' PROVE session'[q].op = "log"
    <3>1. q = r => session'[q].op = "log"
      BY <1>3, <1>4
    <3>2. q # r => q \in logs /\ q \in Request /\ session'[q] = session[q]
      BY <1>4, <2>2, Parts
    <3> QED BY <3>1, <3>2 DEF IInv, Ending
  <2>3. ASSUME NEW q \in Request, session'[q].pc \notin {"ok", "error"}, NEW a \in alerts
        PROVE  a.id[1] # q
    BY <1>4, <2>1, <2>3 DEF IInv, Ending
  <2>4. ASSUME NEW q \in Request, session'[q].pc = "error", NEW a \in alerts, a.id[1] = q
        PROVE  session'[q].op = "alert" /\ a.incident
    <3>1. q # r
      BY <2>1, <2>4
    <3> QED BY <1>4, <2>4, <3>1 DEF IInv, Ending, ErrorLeavesOnlyTheLog
  <2>5. ErrorLeavesOnlyTheLog'
    BY <1>4, <2>4 DEF ErrorLeavesOnlyTheLog
  <2> QED BY <1>4, <2>2, <2>3, <2>5 DEF Ending
<1> QED BY <1>5, <1>8, <1>9, <1>10 DEF IInv

-----------------------------------------------------------------------------
(* What the threat engine raises.                                          *)

LEMMA RaisedRow ==
  ASSUME NEW r \in Request, NEW cause \in Cause, NEW severity \in AlertSeverity
  PROVE  /\ Raised(r, cause, severity) \in AlertRow
         /\ Raised(r, cause, severity).id = <<r, cause>>
<1>1. ThreatEngine \in Text
  BY DataAssumption
<1> QED BY <1>1 DEF Raised, AlertRow, AlertId

LEMMA CauseParts == DetectionRule \subseteq Cause /\ Indicator \subseteq Cause /\ Operator \in Cause
BY DEF Cause

\* A list of alerts of request r, for the causes in C, one each.
Raises(L, r, C) ==
  /\ L \in Seq(AlertRow)
  /\ \A k \in DOMAIN L : L[k].id[1] = r /\ L[k].id[2] \in C
  /\ \A j, k \in DOMAIN L : L[j].id = L[k].id => j = k
  /\ \A cause \in C : \E k \in DOMAIN L : L[k].id = <<r, cause>>

LEMMA RaisedFor ==
  ASSUME NEW r \in Request, NEW C \in SUBSET Cause, IsFiniteSet(C),
         NEW sev \in [C -> AlertSeverity]
  PROVE  Raises(SetToSeq({Raised(r, cause, sev[cause]) : cause \in C}), r, C)
<1> DEFINE f == [cause \in C |-> Raised(r, cause, sev[cause])]
           S == {f[cause] : cause \in C}
           L == SetToSeq(S)
<1>1. \A cause \in C : f[cause] \in AlertRow /\ f[cause].id = <<r, cause>>
  BY RaisedRow
<1>2. DOMAIN f = C
  OBVIOUS
<1>3. S = {Raised(r, cause, sev[cause]) : cause \in C}
  OBVIOUS
<1> HIDE DEF f
<1>4. IsFiniteSet(S)
  BY <1>2, ImageIsFinite
<1>5. S \subseteq AlertRow
  BY <1>1
<1>6. \A x \in S : \E cause \in C : x = f[cause] /\ x.id = <<r, cause>>
  BY <1>1
<1>8. \A x, y \in S : x.id = y.id => x = y
  <2> SUFFICES ASSUME NEW x \in S, NEW y \in S, x.id = y.id PROVE x = y
    OBVIOUS
  <2>1. PICK c \in C : x = f[c] /\ x.id = <<r, c>>
    BY <1>6
  <2>2. PICK d \in C : y = f[d] /\ y.id = <<r, d>>
    BY <1>6
  <2>3. c = d
    BY <2>1, <2>2
  <2> QED BY <2>1, <2>2, <2>3
<1>9. \A cause \in C : \E x \in S : x.id = <<r, cause>>
  BY <1>1
<1> HIDE DEF S
<1>10. Lists(L, S)
  BY <1>4, SetToSeqLists
<1> HIDE DEF L
<1>11. /\ L \in Seq(S) /\ L \in Seq(AlertRow) /\ \A k \in DOMAIN L : L[k] \in S
       /\ \A j, k \in DOMAIN L : L[j] = L[k] => j = k
       /\ \A x \in S : \E k \in DOMAIN L : L[k] = x
  BY <1>5, <1>10 DEF Lists
<1>12. \A k \in DOMAIN L : L[k].id[1] = r /\ L[k].id[2] \in C
  BY <1>6, <1>11
<1>13. \A j, k \in DOMAIN L : L[j].id = L[k].id => j = k
  BY <1>8, <1>11
<1>14. \A cause \in C : \E k \in DOMAIN L : L[k].id = <<r, cause>>
  BY <1>9, <1>11
<1>15. Raises(L, r, C)
  BY <1>11, <1>12, <1>13, <1>14 DEF Raises
<1> QED BY <1>3, <1>15 DEF L

LEMMA SelectRulesStep == ASSUME IInv, NEW r \in Request, SelectRules(r) PROVE IInv'
<1> PICK old : old = session[r]
  OBVIOUS
<1> DEFINE hits == {rule \in rules : RuleHits(rule, old.log)}
           raised == {Raised(r, rule, rule.severity) : rule \in hits}
<1>1. /\ old \in SessionRow /\ Fits(r, old) /\ old.pc = "rules" /\ old.op = "log"
  BY Parts DEF SelectRules, Fits, Sequenced
<1>2. /\ UNCHANGED <<rules, iocs, tables, known>>
      /\ \/ session' = Close(r, "error")
         \/ /\ \A rule \in hits : Convertible(rule)
            /\ session' = [session EXCEPT ![r].pc = "iocs", ![r].todo = SetToSeq(raised)]
  BY DEF SelectRules
<1>3. CASE session' = Close(r, "error")
  BY <1>1, <1>2, <1>3, FailureStep
<1>4. CASE /\ \A rule \in hits : Convertible(rule)
           /\ session' = [session EXCEPT ![r].pc = "iocs", ![r].todo = SetToSeq(raised)]
  <2> PICK L : L = SetToSeq(raised)
    OBVIOUS
  <2>1. Raises(L, r, hits)
    <3> DEFINE sev == [rule \in hits |-> rule.severity]
    <3>1. hits \in SUBSET Cause /\ IsFiniteSet(hits)
      BY Parts, FS_Subset, CauseParts
    <3>2. sev \in [hits -> AlertSeverity]
      BY <1>4 DEF Convertible
    <3>3. raised = {Raised(r, rule, sev[rule]) : rule \in hits}
      OBVIOUS
    <3> HIDE DEF hits, raised, sev
    <3> QED BY <3>1, <3>2, <3>3, RaisedFor
  <2>2. L \in Seq(AlertRow)
    BY <2>1 DEF Raises
  <2> PICK s : s = [old EXCEPT !.pc = "iocs", !.todo = L]
    OBVIOUS
  <2>3. session' = [session EXCEPT ![r] = s]
    BY <1>4
  <2>4. /\ s \in SessionRow /\ s.pc = "iocs" /\ s.op = "log" /\ s.log = old.log
        /\ s.todo = L /\ s.alerts = {} /\ s.incidents = {} /\ s.actions = <<>>
    <3>1. old.alerts = {} /\ old.incidents = {} /\ old.actions = <<>>
      BY <1>1 DEF Fits, Sequenced
    <3> QED BY <1>1, <2>2, <3>1 DEF SessionRow
  <2>5. Own(r, s)
    BY <2>1, <2>4 DEF Own, Raises
  <2>6. Sequenced(s)
    <3>1. \A k \in DOMAIN L : L[k].id[2] \in DetectionRule
      BY <2>1, Parts DEF Raises
    <3>2. s.log \in Log
      BY <1>1, <2>4 DEF Fits, Sequenced
    <3> QED BY <2>4, <3>1, <3>2 DEF Sequenced
  <2>7. Told(r, s)
    <3> SUFFICES ASSUME NEW cause \in known[r], Hits(cause, s.log), cause \notin Indicator
                 PROVE  \E k \in DOMAIN L : L[k].id = <<r, cause>>
      BY <2>4 DEF Told
    <3>1. cause \in hits
      BY <2>4, Parts DEF Hits
    <3> QED BY <3>1, <2>1 DEF Raises
  <2>8. Fits(r, s)
    BY <2>4, <2>5, <2>6, <2>7, NothingIsWhole DEF Fits
  <2> QED BY <1>1, <1>2, <2>3, <2>4, <2>8, SessionMoves
<1> QED BY <1>2, <1>3, <1>4

LEMMA RaisesJoin ==
  ASSUME NEW r \in Request, NEW C, NEW D, C \cap D = {},
         NEW L, NEW M, Raises(L, r, C), Raises(M, r, D)
  PROVE  Raises(L \o M, r, C \cup D)
<1>1. L \in Seq(AlertRow) /\ M \in Seq(AlertRow)
  BY DEF Raises
<1> PICK N : N = L \o M
  OBVIOUS
<1>2. /\ N \in Seq(AlertRow)
      /\ \A k \in DOMAIN L : k \in DOMAIN N /\ N[k] = L[k]
      /\ \A k \in DOMAIN M : Len(L) + k \in DOMAIN N /\ N[Len(L) + k] = M[k]
      /\ \A k \in DOMAIN N : k \in DOMAIN L \/ \E h \in DOMAIN M : k = Len(L) + h
  BY <1>1, JoinedEntries
<1>3. ASSUME NEW k \in DOMAIN N PROVE N[k].id[1] = r /\ N[k].id[2] \in C \cup D
  <2>1. CASE k \in DOMAIN L
    BY <2>1, <1>2 DEF Raises
  <2>2. ASSUME NEW h \in DOMAIN M, k = Len(L) + h
        PROVE  N[k].id[1] = r /\ N[k].id[2] \in C \cup D
    <3>1. N[k] = M[h]
      BY <2>2, <1>2
    <3> QED BY <3>1 DEF Raises
  <2> QED BY <1>2, <2>1, <2>2
<1>4. ASSUME NEW j \in DOMAIN N, NEW k \in DOMAIN N, N[j].id = N[k].id PROVE j = k
  <2>1. CASE j \in DOMAIN L /\ k \in DOMAIN L
    BY <2>1, <1>2, <1>4 DEF Raises
  <2>2. ASSUME NEW g \in DOMAIN L, NEW h \in DOMAIN M PROVE L[g].id # M[h].id
    BY DEF Raises
  <2>3. ASSUME NEW h \in DOMAIN M, j = Len(L) + h, k \in DOMAIN L PROVE FALSE
    <3>1. N[j] = M[h] /\ N[k] = L[k]
      BY <2>3, <1>2
    <3> QED BY <3>1, <1>4, <2>2, <2>3
  <2>4. ASSUME NEW h \in DOMAIN M, k = Len(L) + h, j \in DOMAIN L PROVE FALSE
    <3>1. N[k] = M[h] /\ N[j] = L[j]
      BY <2>4, <1>2
    <3> QED BY <3>1, <1>4, <2>2, <2>4
  <2>5. ASSUME NEW g \in DOMAIN M, NEW h \in DOMAIN M, j = Len(L) + g, k = Len(L) + h
        PROVE  j = k
    <3>1. N[j] = M[g] /\ N[k] = M[h]
      BY <2>5, <1>2
    <3>2. g = h
      BY <3>1, <1>4 DEF Raises
    <3> QED BY <2>5, <3>2
  <2> QED BY <1>2, <2>1, <2>3, <2>4, <2>5
<1>5. ASSUME NEW cause \in C \cup D PROVE \E k \in DOMAIN N : N[k].id = <<r, cause>>
  <2>1. CASE cause \in C
    <3>1. PICK k \in DOMAIN L : L[k].id = <<r, cause>>
      BY <2>1 DEF Raises
    <3>2. k \in DOMAIN N /\ N[k] = L[k]
      BY <1>2
    <3> QED BY <3>1, <3>2
  <2>2. CASE cause \in D
    <3>1. PICK h \in DOMAIN M : M[h].id = <<r, cause>>
      BY <2>2 DEF Raises
    <3>2. Len(L) + h \in DOMAIN N /\ N[Len(L) + h] = M[h]
      BY <1>2
    <3> QED BY <3>1, <3>2
  <2> QED BY <2>1, <2>2
<1> QED BY <1>2, <1>3, <1>4, <1>5 DEF Raises

LEMMA SelectIocsStep == ASSUME IInv, NEW r \in Request, SelectIocs(r) PROVE IInv'
<1> PICK old : old = session[r]
  OBVIOUS
<1> DEFINE found == {i \in iocs : IocHits(i, old.log)}
           C == {old.todo[k].id[2] : k \in DOMAIN old.todo}
<1> PICK M : M = SetToSeq(IocAlerts(r))
  OBVIOUS
<1>1. /\ old \in SessionRow /\ Fits(r, old) /\ old.pc = "iocs" /\ old.op = "log"
      /\ old.todo \in Seq(AlertRow)
  BY Parts, RowFields DEF SelectIocs, Fits, Sequenced
<1>2. Raises(M, r, found)
  <2> DEFINE sev == [ioc \in found |-> "critical"]
  <2>1. found \in SUBSET Cause /\ IsFiniteSet(found)
    BY Parts, FS_Subset, CauseParts
  <2>2. sev \in [found -> AlertSeverity]
    BY DEF AlertSeverity
  <2>3. IocAlerts(r) = {Raised(r, ioc, sev[ioc]) : ioc \in found}
    BY DEF IocAlerts
  <2> HIDE DEF found, sev
  <2> QED BY <2>1, <2>2, <2>3, RaisedFor
<1>3. Raises(old.todo, r, C)
  <2>1. ASSUME NEW k \in DOMAIN old.todo PROVE old.todo[k].id = <<r, old.todo[k].id[2]>>
    <3>1. old.todo[k] \in AlertRow
      BY <1>1
    <3>2. old.todo[k].id[1] = r
      BY <1>1 DEF Fits, Own
    <3> QED BY <3>1, <3>2 DEF AlertRow, AlertId
  <2> QED BY <1>1, <2>1 DEF Raises, Fits, Own
<1>4. C \cap found = {}
  <2>1. C \subseteq DetectionRule
    BY <1>1 DEF Fits, Sequenced
  <2> QED BY <2>1, Parts, DataAssumption
<1> PICK N : N = old.todo \o M
  OBVIOUS
<1>5. Raises(N, r, C \cup found)
  <2> HIDE DEF C, found
  <2> QED BY <1>2, <1>3, <1>4, RaisesJoin
<1> PICK s : s = [old EXCEPT !.pc = "respond", !.todo = N]
  OBVIOUS
<1>6. session' = [session EXCEPT ![r] = s] /\ UNCHANGED <<rules, iocs, tables, known>>
  BY DEF SelectIocs
<1>7. /\ s \in SessionRow /\ s.pc = "respond" /\ s.op = "log" /\ s.log = old.log
      /\ s.todo = N /\ s.alerts = {} /\ s.incidents = {} /\ s.actions = <<>>
  <2>1. old.alerts = {} /\ old.incidents = {} /\ old.actions = <<>>
    BY <1>1 DEF Fits, Sequenced
  <2>2. N \in Seq(AlertRow)
    BY <1>5 DEF Raises
  <2> QED BY <1>1, <2>1, <2>2 DEF SessionRow
<1>8. Raises(s.todo, r, C \cup found)
  <2> HIDE DEF C, found
  <2> QED BY <1>5, <1>7
<1>9. Own(r, s)
  <2> HIDE DEF C, found
  <2>1. /\ \A k \in DOMAIN s.todo : s.todo[k].id[1] = r
        /\ \A j, k \in DOMAIN s.todo : s.todo[j].id = s.todo[k].id => j = k
    BY <1>8 DEF Raises
  <2> QED BY <1>7, <2>1 DEF Own
<1>10. Sequenced(s)
  <2>1. s.log \in Log
    BY <1>1, <1>7 DEF Fits, Sequenced
  <2> QED BY <1>7, <2>1 DEF Sequenced
<1>11. Told(r, s)
  <2>1. ASSUME NEW cause \in known[r], Hits(cause, s.log) PROVE cause \in C \cup found
    <3>1. CASE cause \in Indicator
      <4>1. cause \in iocs
        BY <3>1, Parts, DataAssumption
      <4> QED BY <2>1, <3>1, <4>1, <1>7 DEF Hits
    <3>2. CASE cause \notin Indicator
      <4>1. PICK k \in DOMAIN old.todo : old.todo[k].id = <<r, cause>>
        BY <1>1, <1>7, <2>1, <3>2 DEF Fits, Told
      <4> QED BY <4>1
    <3> QED BY <3>1, <3>2
  <2> HIDE DEF C, found
  <2>2. ASSUME NEW cause \in known[r], Hits(cause, s.log)
        PROVE  \E k \in DOMAIN s.todo : s.todo[k].id = <<r, cause>>
    BY <2>1, <2>2, <1>8 DEF Raises
  <2> QED BY <1>7, <2>2 DEF Told
<1>12. Fits(r, s)
  BY <1>7, <1>9, <1>10, <1>11, NothingIsWhole DEF Fits
<1> QED BY <1>1, <1>6, <1>7, <1>12, SessionMoves

LEMMA CreateAlertStep ==
  ASSUME IInv, NEW r \in Request, NEW severity \in AlertSeverity \cup {"other"},
         NEW source \in {None, {}, ThreatEngine}, CreateAlert(r, severity, source)
  PROVE  IInv'
<1> PICK old : old = session[r]
  OBVIOUS
<1>1. /\ old \in SessionRow /\ Fits(r, old) /\ old.pc = "idle" /\ old.op = "none"
      /\ old.todo = <<>> /\ old.alerts = {} /\ old.incidents = {} /\ old.actions = <<>>
      /\ UNCHANGED <<rules, iocs, tables, known>>
  BY Parts DEF CreateAlert, Fits, Sequenced
<1>2. CASE severity \notin AlertSeverity
  <2> PICK s : s = [old EXCEPT !.pc = "error", !.op = "alert"]
    OBVIOUS
  <2>1. session' = [session EXCEPT ![r] = s]
    BY <1>2 DEF CreateAlert
  <2>2. /\ s \in SessionRow /\ s.pc = "error" /\ s.op = "alert" /\ s.todo = <<>>
        /\ s.alerts = {} /\ s.incidents = {} /\ s.actions = <<>>
    BY <1>1 DEF SessionRow, Ended
  <2>3. Own(r, s) /\ Whole(s.alerts, s.incidents, s.actions)
    BY <2>2, EmptySession
  <2>4. Sequenced(s) /\ Told(r, s)
    BY <2>2, EmptySequence DEF Sequenced, Told
  <2>5. Fits(r, s)
    BY <2>3, <2>4 DEF Fits
  <2> QED BY <1>1, <2>1, <2>2, <2>5, SessionMoves
<1>3. CASE severity \in AlertSeverity
  <2> PICK a : a = [id |-> <<r, Operator>>, severity |-> severity, source |-> source,
                    incident |-> FALSE]
    OBVIOUS
  <2> PICK s : s = [old EXCEPT !.pc = "respond", !.op = "alert", !.todo = <<a>>]
    OBVIOUS
  <2>1. session' = [session EXCEPT ![r] = s]
    BY <1>3 DEF CreateAlert
  <2>2. a \in AlertRow /\ a.id = <<r, Operator>>
    <3>1. source \in Text \cup {None}
      BY DataAssumption DEF Text
    <3> QED BY <1>3, <3>1, CauseParts DEF AlertRow, AlertId
  <2>3. <<a>> \in Seq(AlertRow) /\ DOMAIN <<a>> = {1} /\ <<a>>[1] = a
    BY <2>2
  <2>4. /\ s \in SessionRow /\ s.pc = "respond" /\ s.op = "alert" /\ s.todo = <<a>>
        /\ s.alerts = {} /\ s.incidents = {} /\ s.actions = <<>>
    BY <1>1, <2>3 DEF SessionRow
  <2>5. Own(r, s)
    BY <2>2, <2>3, <2>4 DEF Own
  <2>6. Sequenced(s) /\ Told(r, s)
    BY <2>2, <2>3, <2>4 DEF Sequenced, Told
  <2>7. Fits(r, s)
    BY <2>4, <2>5, <2>6, NothingIsWhole DEF Fits
  <2> QED BY <1>1, <2>1, <2>4, <2>7, SessionMoves
<1> QED BY <1>2, <1>3

-----------------------------------------------------------------------------
(* What the response engine makes of an alert.                             *)

LEMMA HeadAndTail ==
  ASSUME NEW S, NEW L \in Seq(S), L # <<>>
  PROVE  /\ Head(L) \in S /\ 1 \in DOMAIN L /\ Head(L) = L[1] /\ Tail(L) \in Seq(S)
         /\ \A k \in DOMAIN Tail(L) : k + 1 \in DOMAIN L /\ Tail(L)[k] = L[k + 1]
                                      /\ k \in Nat /\ k # 0
         /\ \A k \in DOMAIN L : k = 1 \/ \E h \in DOMAIN Tail(L) : k = h + 1
<1>1. /\ Len(L) \in Nat /\ Len(L) > 0 /\ DOMAIN L = 1..Len(L)
      /\ Tail(L) \in Seq(S) /\ Len(Tail(L)) = Len(L) - 1 /\ DOMAIN Tail(L) = 1..Len(L) - 1
      /\ \A k \in 1..Len(L) - 1 : Tail(L)[k] = L[k + 1]
  OBVIOUS
<1>2. Head(L) = L[1] /\ 1 \in DOMAIN L /\ Head(L) \in S
  BY <1>1
<1>3. ASSUME NEW k \in DOMAIN L PROVE k = 1 \/ \E h \in DOMAIN Tail(L) : k = h + 1
  <2>1. k # 1 => k - 1 \in DOMAIN Tail(L) /\ k = (k - 1) + 1
    BY <1>1
  <2> QED BY <2>1
<1>4. ASSUME NEW k \in DOMAIN Tail(L)
      PROVE  k + 1 \in DOMAIN L /\ Tail(L)[k] = L[k + 1] /\ k \in Nat /\ k # 0
  BY <1>1
<1> QED BY <1>1, <1>2, <1>3, <1>4

\* Only its severity and its source decide what is done about an alert.
LEMMA LinkedMatchesAlike ==
  ASSUME NEW a \in AlertRow, NEW linked \in BOOLEAN
  PROVE  LET b == [a EXCEPT !.incident = linked]
         IN  /\ b \in AlertRow /\ b.id = a.id /\ b.incident = linked
             /\ b.severity = a.severity
             /\ Matching(b) = Matching(a) /\ Escalating(b) = Escalating(a)
<1> DEFINE b == [a EXCEPT !.incident = linked]
<1>1. /\ b \in AlertRow /\ b.id = a.id /\ b.incident = linked
      /\ b.severity = a.severity /\ b.source = a.source
  BY DEF AlertRow
<1> HIDE DEF b
<1>2. Matching(b) = Matching(a)
  BY <1>1 DEF Matching, Matches, SeverityFits
<1>3. Escalating(b) = Escalating(a)
  BY <1>2 DEF Escalating
<1> QED BY <1>1, <1>2, <1>3 DEF b

LEMMA EvaluatedIsWhole ==
  ASSUME NEW a \in AlertRow, Escalating(a) # {} => a.severity \in IncidentSeverity,
         NEW new \in IncidentsFor(a)
  PROVE  LET b == [a EXCEPT !.incident = new # {}]
             L == SetToSeq({<<p, a.id>> : p \in Matching(a)})
         IN  /\ b \in AlertRow /\ b.id = a.id
             /\ new \subseteq IncidentRow /\ L \in Seq(Record)
             /\ Whole({b}, new, L)
<1> PICK linked \in BOOLEAN : linked = (new # {})
  OBVIOUS
<1> PICK b : b = [a EXCEPT !.incident = linked]
  OBVIOUS
<1>1. /\ b \in AlertRow /\ b.id = a.id /\ b.incident = linked /\ b.severity = a.severity
      /\ Matching(b) = Matching(a) /\ Escalating(b) = Escalating(a)
  BY LinkedMatchesAlike
<1>2. \/ new = {} /\ Escalating(a) = {}
      \/ \E p \in Escalating(a) : new = {Incident(a, p)}
  BY DEF IncidentsFor
<1>3. \A i \in new : i.alert = a.id /\ i \in IncidentRow
  <2> SUFFICES ASSUME NEW p \in Escalating(a)
               PROVE  Incident(a, p).alert = a.id /\ Incident(a, p) \in IncidentRow
    BY <1>2
  <2>1. p \in Playbook /\ a.severity \in IncidentSeverity
    BY DEF Escalating, Matching
  <2> QED BY <2>1 DEF Incident, IncidentRow, AlertRow
<1>4. new # {} <=> Escalating(a) # {}
  BY <1>2
<1>5. Named({b})
  <2>1. b.incident = (Escalating(b) # {})
    BY <1>1, <1>4
  <2> QED BY <2>1 DEF Named
<1>6. Escalated({b}, new)
  <2>1. \A i, j \in new : i = j
    BY <1>2
  <2>2. \A i \in new : i.alert = b.id /\ Escalating(b) # {}
    BY <1>1, <1>3, <1>4
  <2>3. Escalating(b) # {} => \E i \in new : i.alert = b.id
    BY <1>1, <1>3, <1>4
  <2> QED BY <2>1, <2>2, <2>3 DEF Escalated
<1> DEFINE S == {<<p, a.id>> : p \in Matching(a)}
<1> PICK L : L = SetToSeq(S)
  OBVIOUS
<1>7. Lists(L, S)
  <2> DEFINE f == [p \in Matching(a) |-> <<p, a.id>>]
  <2>1. IsFiniteSet(Matching(a))
    BY DataAssumption, FS_Subset DEF Matching
  <2>2. DOMAIN f = Matching(a) /\ S = {f[p] : p \in Matching(a)}
    OBVIOUS
  <2> HIDE DEF f, S
  <2>3. IsFiniteSet({f[p] : p \in Matching(a)})
    BY <2>1, <2>2, ImageIsFinite
  <2> QED BY <2>2, <2>3, SetToSeqLists
<1>8. S \subseteq Record
  BY DEF Record, Matching, AlertRow
<1>9. \A x \in S : \E p \in Matching(b) : x = <<p, b.id>>
  BY <1>1
<1>10. \A p \in Matching(b) : <<p, b.id>> \in S
  BY <1>1
<1> HIDE DEF S
<1>11. /\ L \in Seq(Record) /\ \A k \in DOMAIN L : L[k] \in S
       /\ \A j, k \in DOMAIN L : L[j] = L[k] => j = k
       /\ \A x \in S : \E k \in DOMAIN L : L[k] = x
  BY <1>7, <1>8 DEF Lists
<1>12. Recorded({b}, L)
  <2>1. ASSUME NEW k \in DOMAIN L PROVE \E p \in Matching(b) : L[k] = <<p, b.id>>
    <3>1. L[k] \in S
      BY <1>11
    <3> QED BY <1>9, <3>1, Zenon
  <2>2. \A p \in Matching(b) : \E k \in DOMAIN L : L[k] = <<p, b.id>>
    BY <1>10, <1>11, Zenon
  <2>3. \A k \in DOMAIN L : \E c \in {b} : \E p \in Matching(c) : L[k] = <<p, c.id>>
    BY <2>1
  <2>4. \A c \in {b} : \A p \in Matching(c) : \E k \in DOMAIN L : L[k] = <<p, c.id>>
    BY <2>2, ZenonT(40)
  <2>5. \A j, k \in DOMAIN L : L[j] = L[k] => j = k
    BY <1>11
  <2> QED BY <2>3, <2>4, <2>5 DEF Recorded
<1>13. Whole({b}, new, L)
  BY <1>5, <1>6, <1>12 DEF Whole
<1>14. new \subseteq IncidentRow
  BY <1>3
<1>15. b = [a EXCEPT !.incident = new # {}] /\ L = SetToSeq({<<p, a.id>> : p \in Matching(a)})
  BY DEF S
<1>16. LET linkedAlert == [a EXCEPT !.incident = new # {}]
           records == SetToSeq({<<p, a.id>> : p \in Matching(a)})
       IN  /\ linkedAlert \in AlertRow /\ linkedAlert.id = a.id
           /\ new \subseteq IncidentRow /\ records \in Seq(Record)
           /\ Whole({linkedAlert}, new, records)
  BY <1>1, <1>11, <1>13, <1>14, <1>15, Zenon
<1> QED BY <1>16

\* A session after old that has judged the next alert, with b for it.
LEMMA OneMoreJudged ==
  ASSUME NEW r \in Request, NEW old \in SessionRow, NEW s \in SessionRow,
         Fits(r, old), old.pc = "respond", old.todo # <<>>,
         NEW b \in AlertRow, NEW new \in SUBSET IncidentRow, NEW L \in Seq(Record),
         Whole({b}, new, L), b.id = Head(old.todo).id,
         s.pc = "respond", s.op = old.op, s.log = old.log,
         s.todo = Tail(old.todo), s.alerts = old.alerts \cup {b},
         s.incidents = old.incidents \cup new, s.actions = old.actions \o L
  PROVE  Fits(r, s)
<1>1. /\ old.todo \in Seq(AlertRow) /\ old.alerts \subseteq AlertRow
      /\ old.incidents \subseteq IncidentRow /\ old.actions \in Seq(Record)
  BY RowFields
<1>2. /\ 1 \in DOMAIN old.todo /\ b.id = old.todo[1].id
      /\ \A k \in DOMAIN s.todo : k + 1 \in DOMAIN old.todo /\ s.todo[k] = old.todo[k + 1]
                                  /\ k \in Nat /\ k # 0
      /\ \A k \in DOMAIN old.todo : k = 1 \/ \E h \in DOMAIN s.todo : k = h + 1
  BY <1>1, HeadAndTail
<1>3. Own(r, old) /\ Sequenced(old) /\ Told(r, old)
      /\ Whole(old.alerts, old.incidents, old.actions)
  BY DEF Fits
<1>4. b.id[1] = r /\ \A c \in old.alerts : c.id # b.id
  BY <1>2, <1>3 DEF Own
<1>5. Own(r, s)
  <2>1. \A c \in old.alerts \cup {b} : c.id[1] = r
    BY <1>3, <1>4 DEF Own
  <2>2. \A k \in DOMAIN s.todo : s.todo[k].id[1] = r
    BY <1>2, <1>3 DEF Own
  <2>3. ASSUME NEW j \in DOMAIN s.todo, NEW k \in DOMAIN s.todo, s.todo[j].id = s.todo[k].id
        PROVE  j = k
    <3>1. j + 1 = k + 1
      BY <1>2, <1>3, <2>3 DEF Own
    <3> QED BY <1>2, <3>1
  <2>4. ASSUME NEW k \in DOMAIN s.todo PROVE s.todo[k].id # b.id
    <3>1. k + 1 # 1
      BY <1>2
    <3> QED BY <1>2, <1>3, <3>1 DEF Own
  <2>5. \A k \in DOMAIN s.todo : \A c \in old.alerts : s.todo[k].id # c.id
    BY <1>2, <1>3 DEF Own
  <2>6. \A c \in s.alerts : c = b \/ c \in old.alerts
    OBVIOUS
  <2>7. \A k \in DOMAIN s.todo : \A c \in s.alerts : s.todo[k].id # c.id
    BY <2>4, <2>5, <2>6
  <2>8. \A c \in s.alerts : c.id[1] = r
    BY <2>1, <2>6
  <2> QED BY <2>2, <2>3, <2>7, <2>8 DEF Own
<1>6. Sequenced(s)
  <2>1. ASSUME s.op = "alert", NEW c \in s.alerts PROVE c.id[2] = Operator
    BY <1>2, <1>3, <2>1 DEF Sequenced
  <2>2. ASSUME s.op = "alert", NEW k \in DOMAIN s.todo PROVE s.todo[k].id[2] = Operator
    BY <1>2, <1>3, <2>2 DEF Sequenced
  <2>3. s.op # "none" /\ (s.op = "log" => s.log \in Log)
    BY <1>3 DEF Sequenced
  <2> QED BY <2>1, <2>2, <2>3 DEF Sequenced
<1>7. Told(r, s)
  <2>1. ASSUME s.op = "log", NEW cause \in known[r], Hits(cause, s.log)
        PROVE  \/ \E k \in DOMAIN s.todo : s.todo[k].id = <<r, cause>>
               \/ \E c \in s.alerts : c.id = <<r, cause>>
    <3>1. \/ \E k \in DOMAIN old.todo : old.todo[k].id = <<r, cause>>
          \/ \E c \in old.alerts : c.id = <<r, cause>>
      BY <1>3, <2>1 DEF Told
    <3>2. ASSUME NEW k \in DOMAIN old.todo, old.todo[k].id = <<r, cause>>
          PROVE  \/ \E h \in DOMAIN s.todo : s.todo[h].id = <<r, cause>>
                 \/ b.id = <<r, cause>>
      <4>1. CASE k = 1
        BY <1>2, <3>2, <4>1
      <4>2. ASSUME NEW h \in DOMAIN s.todo, k = h + 1 PROVE s.todo[h].id = <<r, cause>>
        BY <1>2, <3>2, <4>2
      <4> QED BY <1>2, <4>1, <4>2
    <3>3. b \in s.alerts /\ old.alerts \subseteq s.alerts
      OBVIOUS
    <3> QED BY <3>1, <3>2, <3>3
  <2> QED BY <2>1 DEF Told
<1>8. Whole(s.alerts, s.incidents, s.actions)
  <2>1. \A c \in old.alerts, d \in {b} : c.id # d.id
    BY <1>4
  <2>2. {b} \in SUBSET AlertRow
    OBVIOUS
  <2>3. Whole(old.alerts \cup {b}, old.incidents \cup new, old.actions \o L)
    BY <1>1, <1>3, <2>1, <2>2, WholePartsJoin
  <2> QED BY <2>3, Zenon
<1> QED BY <1>5, <1>6, <1>7, <1>8 DEF Fits

LEMMA EvaluateAlertStep == ASSUME IInv, NEW r \in Request, EvaluateAlert(r) PROVE IInv'
<1> DEFINE a == Head(session[r].todo)
<1>1. /\ session[r] \in SessionRow /\ Fits(r, session[r])
      /\ session[r].pc = "respond" /\ session[r].todo # <<>>
      /\ UNCHANGED <<rules, iocs, tables, known>>
  BY Parts DEF EvaluateAlert
<1>2. \/ session' = Close(r, "error")
      \/ /\ Escalating(a) # {} => a.severity \in IncidentSeverity
         /\ \E new \in IncidentsFor(a) : session' = [session EXCEPT
              ![r].todo = Tail(@),
              ![r].alerts = @ \cup {[a EXCEPT !.incident = new # {}]},
              ![r].incidents = @ \cup new,
              ![r].actions = @ \o SetToSeq({<<p, a.id>> : p \in Matching(a)})]
  BY Zenon DEF EvaluateAlert
<1>3. CASE session' = Close(r, "error")
  BY <1>1, <1>3, FailureStep
<1>4. ASSUME Escalating(a) # {} => a.severity \in IncidentSeverity, NEW new \in IncidentsFor(a),
             session' = [session EXCEPT
               ![r].todo = Tail(@),
               ![r].alerts = @ \cup {[a EXCEPT !.incident = new # {}]},
               ![r].incidents = @ \cup new,
               ![r].actions = @ \o SetToSeq({<<p, a.id>> : p \in Matching(a)})]
      PROVE  IInv'
  <2> DEFINE L == SetToSeq({<<p, a.id>> : p \in Matching(a)})
             b == [a EXCEPT !.incident = new # {}]
             old == session[r]
             s == [old EXCEPT !.todo = Tail(@), !.alerts = @ \cup {b},
                              !.incidents = @ \cup new, !.actions = @ \o L]
  <2>1. session' = [session EXCEPT ![r] = s]
    BY <1>4
  <2>2. /\ old.todo \in Seq(AlertRow) /\ old.alerts \subseteq AlertRow
        /\ old.incidents \subseteq IncidentRow /\ old.actions \in Seq(Record)
    BY <1>1, RowFields
  <2>3. a \in AlertRow /\ Tail(old.todo) \in Seq(AlertRow)
    BY <1>1, <2>2, HeadAndTail
  <2>4. b \in AlertRow /\ b.id = a.id /\ new \subseteq IncidentRow /\ L \in Seq(Record)
        /\ Whole({b}, new, L)
    <3> HIDE DEF a
    <3> QED BY <1>4, <2>3, EvaluatedIsWhole, Zenon
  <2> HIDE DEF L, b
  <2>5. old.actions \o L \in Seq(Record)
    BY <2>2, <2>4
  <2>6. /\ s \in SessionRow /\ s.pc = "respond" /\ s.op = old.op /\ s.log = old.log
        /\ s.todo = Tail(old.todo) /\ s.alerts = old.alerts \cup {b}
        /\ s.incidents = old.incidents \cup new /\ s.actions = old.actions \o L
    BY <1>1, <2>2, <2>3, <2>4, <2>5 DEF SessionRow
  <2> HIDE DEF s
  <2>7. Fits(r, s)
    <3>1. b.id = Head(old.todo).id
      BY <2>4
    <3> HIDE DEF a, old
    <3> QED BY <1>1, <2>4, <2>6, <3>1, OneMoreJudged DEF old
  <2> QED BY <1>1, <2>1, <2>6, <2>7, SessionMoves
<1> QED BY <1>2, <1>3, <1>4

-----------------------------------------------------------------------------
(* The commit.                                                             *)

LEMMA CommitResponseStep == ASSUME IInv, NEW r \in Request, CommitResponse(r) PROVE IInv'
<1> DEFINE pc == IF session[r].op = "alert" /\ session[r].incidents # {} THEN "error" ELSE "ok"
<1> PICK old : old = session[r]
  OBVIOUS
<1> PICK c : c = Closed(old, pc)
  OBVIOUS
<1>1. /\ old \in SessionRow /\ Fits(r, old) /\ old.pc = "respond" /\ old.todo = <<>>
      /\ old.alerts \subseteq AlertRow /\ old.incidents \subseteq IncidentRow
      /\ old.actions \in Seq(Record)
  BY Parts, RowFields DEF CommitResponse
<1>2. /\ alerts' = alerts \cup old.alerts /\ incidents' = incidents \cup old.incidents
      /\ actions' = actions \o old.actions
      /\ rules' = rules /\ iocs' = iocs /\ logs' = logs /\ known' = known
  BY DEF CommitResponse
<1>3. session' = [session EXCEPT ![r] = c]
  BY DEF CommitResponse, Close, Closed
<1>4. /\ c \in SessionRow /\ c.op = old.op /\ c.log = old.log /\ c.todo = <<>>
      /\ c.alerts = {} /\ c.incidents = {} /\ c.actions = <<>>
      /\ c.pc = pc /\ pc \in {"ok", "error"}
  BY <1>1, ClosedRow DEF Ended
<1>5. /\ session'[r] = c
      /\ \A q \in Request : q # r => session'[q] = session[q]
  BY <1>3, Parts
<1>6. /\ Own(r, old) /\ Sequenced(old) /\ Told(r, old)
      /\ Whole(old.alerts, old.incidents, old.actions)
  BY <1>1 DEF Fits
<1>7. \A a \in alerts : a.id[1] # r
  BY <1>1 DEF IInv, Ending
<1>8. \A a \in old.alerts : a.id[1] = r
  BY <1>6 DEF Own
<1>9. Shapes'
  <2>1. session' \in [Request -> SessionRow]
    BY <1>3, <1>4, Parts
  <2>2. actions \o old.actions \in Seq(Record)
    BY <1>1, Parts
  <2> QED BY <1>1, <1>2, <2>1, <2>2, Parts DEF Shapes
<1>10. Fits(r, session[r])'
  <2>1. Own(r, c) /\ Whole(c.alerts, c.incidents, c.actions)
    BY <1>4, EmptySession
  <2>2. Sequenced(c)
    <3>1. old.op # "none" /\ (old.op = "log" => old.log \in Log)
      BY <1>1, <1>6 DEF Sequenced
    <3> QED BY <1>4, <3>1, EmptySequence DEF Sequenced
  <2>3. ASSUME c.op = "log", NEW cause \in known[r], Hits(cause, c.log)
        PROVE  \E a \in alerts' : a.id = <<r, cause>>
    <3>1. \/ \E k \in DOMAIN old.todo : old.todo[k].id = <<r, cause>>
          \/ \E a \in old.alerts : a.id = <<r, cause>>
      BY <1>1, <1>4, <1>6, <2>3 DEF Told
    <3>2. \E a \in old.alerts : a.id = <<r, cause>>
      BY <1>1, <3>1, EmptySequence
    <3> QED BY <1>2, <3>2
  <2>4. c.pc # "iocs" /\ c.pc # "respond"
    BY <1>4
  <2>5. Told(r, session[r])'
    BY <1>2, <1>5, <2>3, <2>4 DEF Told
  <2> QED BY <1>5, <2>1, <2>2, <2>5 DEF Fits
<1>11. ASSUME NEW q \in Request, q # r PROVE Fits(q, session[q])'
  <2>1. Fits(q, session[q]) /\ session'[q] = session[q] /\ alerts \subseteq alerts'
    BY <1>2, <1>5, <1>11, Parts
  <2>2. Told(q, session[q])'
    BY <1>2, <2>1 DEF Fits, Told
  <2> QED BY <2>1, <2>2 DEF Fits
<1>12. Whole(alerts, incidents, actions)'
  <2>1. \A a \in alerts, b \in old.alerts : a.id # b.id
    BY <1>7, <1>8
  <2>2. Whole(alerts, incidents, actions)
    BY DEF IInv
  <2>3. Whole(alerts \cup old.alerts, incidents \cup old.incidents, actions \o old.actions)
    BY <1>1, <1>6, <2>1, <2>2, Parts, WholePartsJoin
  <2> QED BY <1>2, <2>3
<1>13. Ending'
  <2>1. ASSUME NEW q \in logs PROVE session'[q].op = "log"
    BY <1>4, <1>5, <2>1, Parts DEF IInv, Ending
  <2>2. ASSUME NEW q \in Request, session'[q].pc \notin {"ok", "error"}, NEW a \in alerts'
        PROVE  a.id[1] # q
    <3>1. q # r
      BY <1>4, <1>5, <2>2
    <3> QED BY <1>2, <1>5, <1>8, <2>2, <3>1 DEF IInv, Ending
  <2>3. ASSUME NEW q \in Request, session'[q].pc = "error", NEW a \in alerts', a.id[1] = q
        PROVE  session'[q].op = "alert" /\ a.incident
    <3>1. CASE q # r
      <4>1. a \in alerts
        BY <1>2, <1>8, <2>3, <3>1
      <4> QED BY <1>5, <2>3, <3>1, <4>1 DEF IInv, Ending, ErrorLeavesOnlyTheLog
    <3>2. CASE q = r
      <4>1. a \in old.alerts /\ old.op = "alert" /\ old.incidents # {}
        BY <1>2, <1>4, <1>5, <1>7, <2>3, <3>2
      <4>2. PICK i \in old.incidents : TRUE
        BY <4>1
      <4>3. PICK b \in old.alerts : Escalating(b) # {}
        BY <4>2, <1>6 DEF Whole, Escalated
      <4>4. a.id = b.id
        <5>1. a.id \in AlertId /\ b.id \in AlertId
          BY <1>1, <4>1 DEF AlertRow
        <5>2. a.id[1] = r /\ b.id[1] = r /\ a.id[2] = Operator /\ b.id[2] = Operator
          BY <1>6, <1>8, <4>1 DEF Sequenced
        <5> QED BY <5>1, <5>2 DEF AlertId
      <4>5. a = b /\ a.incident
        BY <4>1, <4>3, <4>4, <1>6 DEF Whole, Named
      <4> QED BY <4>1, <4>5, <3>2, <1>4, <1>5
    <3> QED BY <3>1, <3>2
  <2>4. ErrorLeavesOnlyTheLog'
    BY <2>3 DEF ErrorLeavesOnlyTheLog
  <2> QED BY <1>2, <2>1, <2>2, <2>4 DEF Ending
<1>14. (\A q \in Request : Fits(q, session[q]))'
  BY <1>10, <1>11
<1> QED BY <1>9, <1>12, <1>13, <1>14 DEF IInv

LEMMA InvStep == IInv /\ [Next]_vars => IInv'
<1> SUFFICES ASSUME IInv, [Next]_vars PROVE IInv'
  OBVIOUS
<1>1. CASE CreateDetectionRule
  BY <1>1, CreateDetectionRuleStep
<1>2. CASE CreateIoc
  BY <1>2, CreateIocStep
<1>3. ASSUME NEW r \in Request, NEW log \in Log, CreateLogEntry(r, log) PROVE IInv'
  BY <1>3, CreateLogEntryStep
<1>4. ASSUME NEW r \in Request, SelectRules(r) PROVE IInv'
  BY <1>4, SelectRulesStep
<1>5. ASSUME NEW r \in Request, SelectIocs(r) PROVE IInv'
  BY <1>5, SelectIocsStep
<1>6. ASSUME NEW r \in Request, NEW severity \in AlertSeverity \cup {"other"},
             NEW source \in {None, {}, ThreatEngine}, CreateAlert(r, severity, source)
      PROVE  IInv'
  BY <1>6, CreateAlertStep
<1>7. ASSUME NEW r \in Request, EvaluateAlert(r) PROVE IInv'
  BY <1>7, EvaluateAlertStep
<1>8. ASSUME NEW r \in Request, CommitResponse(r) PROVE IInv'
  BY <1>8, CommitResponseStep
<1>9. ASSUME NEW r \in Request, Lose(r) PROVE IInv'
  BY <1>9, LoseStep
<1>10. CASE UNCHANGED vars
  BY <1>10, Parts, MoreToKnow DEF vars
<1> QED
  BY <1>1, <1>2, <1>3, <1>4, <1>5, <1>6, <1>7, <1>8, <1>9, <1>10 DEF Next

LEMMA Invariance == Spec => []IInv
BY InvInit, InvStep, PTL DEF Spec

-----------------------------------------------------------------------------
LEMMA ShapesGiveTypeOK == IInv => TypeOK
<1> SUFFICES ASSUME IInv PROVE TypeOK
  OBVIOUS
<1>1. \A a \in alerts : /\ a.id \in Request \X Cause
                        /\ a.severity \in AlertSeverity
                        /\ a.source \in Text \cup {None}
  BY Parts DEF AlertRow, AlertId
<1>2. \A i \in incidents : i.severity \in IncidentSeverity /\ i.playbook \in Playbook
  BY Parts DEF IncidentRow
<1>3. ToSet(actions) \subseteq Playbook \X {a.id : a \in alerts}
  <2>1. ASSUME NEW k \in DOMAIN actions PROVE actions[k] \in Playbook \X {a.id : a \in alerts}
    <3>1. PICK a \in alerts : \E p \in Matching(a) : actions[k] = <<p, a.id>>
      BY DEF IInv, Whole, Recorded
    <3> QED BY <3>1 DEF Matching
  <2> QED BY <2>1 DEF ToSet
<1>4. \A r \in Request : session[r].pc \in {"idle", "rules", "iocs", "respond"} \cup Ended
  BY Parts, RowFields
<1> QED BY <1>1, <1>2, <1>3, <1>4, Parts DEF TypeOK

LEMMA Counted ==
  ASSUME NEW S, NEW y, S = {} \/ S = {y}
  PROVE  Cardinality(S) = IF S = {} THEN 0 ELSE 1
BY FS_EmptySet, FS_Singleton

(***************************************************************************)
(* However requests interleave, fail or are lost, and whatever playbooks   *)
(* there are: every committed alert has one record for each playbook it    *)
(* matches and one incident exactly if one of them escalates it            *)
(* (services/response_engine.py: evaluate_alert, _action_create_incident). *)
(***************************************************************************)
THEOREM AutomationStaysWhole == Spec => []NothingHalfDone
<1>1. ASSUME IInv PROVE NothingHalfDone
  <2>1. Whole(alerts, incidents, actions)
    BY <1>1 DEF IInv
  <2>2. Named(alerts) /\ Escalated(alerts, incidents) /\ Recorded(alerts, actions)
    BY <2>1 DEF Whole
  <2>3. ASSUME NEW a \in alerts, NEW p \in Playbook
        PROVE  Cardinality({n \in DOMAIN actions : actions[n] = <<p, a.id>>})
                 = IF p \in Matching(a) THEN 1 ELSE 0
    <3> DEFINE S == {n \in DOMAIN actions : actions[n] = <<p, a.id>>}
    <3>1. CASE p \in Matching(a)
      <4>1. PICK k \in DOMAIN actions : actions[k] = <<p, a.id>>
        BY <3>1, <2>2 DEF Recorded
      <4>2. S = {k}
        BY <4>1, <2>2 DEF Recorded
      <4> HIDE DEF S
      <4>3. Cardinality(S) = 1
        BY <4>2, FS_Singleton
      <4> QED BY <4>3, <3>1 DEF S
    <3>2. CASE p \notin Matching(a)
      <4>1. ASSUME NEW n \in DOMAIN actions, actions[n] = <<p, a.id>> PROVE FALSE
        <5>1. PICK b \in alerts : \E q \in Matching(b) : actions[n] = <<q, b.id>>
          BY <2>2 DEF Recorded
        <5>2. p \in Matching(b) /\ a.id = b.id
          BY <4>1, <5>1
        <5>3. a = b
          BY <5>2, <2>2 DEF Named
        <5> QED BY <5>2, <5>3, <3>2
      <4>2. S = {}
        BY <4>1
      <4> HIDE DEF S
      <4>3. Cardinality(S) = 0
        BY <4>2, FS_EmptySet
      <4> QED BY <4>3, <3>2 DEF S
    <3> QED BY <3>1, <3>2
  <2>4. ASSUME NEW a \in alerts
        PROVE  Cardinality({i \in incidents : i.alert = a.id})
                 = IF Escalating(a) # {} THEN 1 ELSE 0
    <3> DEFINE S == {i \in incidents : i.alert = a.id}
    <3>1. CASE Escalating(a) # {}
      <4>1. PICK i \in incidents : i.alert = a.id
        BY <3>1, <2>2 DEF Escalated
      <4>2. S = {i}
        BY <4>1, <2>2 DEF Escalated
      <4> HIDE DEF S
      <4>3. Cardinality(S) = 1
        BY <4>2, FS_Singleton
      <4> QED BY <4>3, <3>1 DEF S
    <3>2. CASE Escalating(a) = {}
      <4>1. S = {}
        BY <3>2, <2>2 DEF Escalated, Named
      <4> HIDE DEF S
      <4>2. Cardinality(S) = 0
        BY <4>1, FS_EmptySet
      <4> QED BY <4>2, <3>2 DEF S
    <3> QED BY <3>1, <3>2
  <2>5. \A a \in alerts : a.incident = (Escalating(a) # {})
    BY <2>2 DEF Named
  <2>6. {i.alert : i \in incidents} \subseteq {a.id : a \in alerts}
    BY <2>2 DEF Escalated
  <2>7. TypeOK
    BY <1>1, ShapesGiveTypeOK
  <2> QED BY <2>3, <2>4, <2>5, <2>6, <2>7, Zenon DEF NothingHalfDone
<1> QED BY <1>1, Invariance, PTL

(***************************************************************************)
(* A log answered with success has an alert for every rule and indicator   *)
(* in it that was committed before (services/threat_engine.py:             *)
(* evaluate_log), whatever is created while it is judged.                  *)
(***************************************************************************)
THEOREM ThreatsKnownAreRaised == Spec => []KnownThreatsAreRaised
<1>1. ASSUME IInv PROVE KnownThreatsAreRaised
  <2>1. ASSUME NEW r \in logs, session[r].pc = "ok", NEW cause \in known[r],
               Hits(cause, session[r].log)
        PROVE  \E a \in alerts : a.id = <<r, cause>>
    <3>1. r \in Request /\ session[r].op = "log"
      BY <1>1, Parts DEF IInv, Ending
    <3>2. Told(r, session[r])
      BY <1>1, <3>1, Parts DEF Fits
    <3> QED BY <2>1, <3>1, <3>2 DEF Told
  <2> QED BY <2>1 DEF KnownThreatsAreRaised, Hits
<1> QED BY <1>1, Invariance, PTL

(***************************************************************************)
(* An error leaves nothing but the log, except the one alert whose         *)
(* response is complete and cannot be told (routers/alerts.py:             *)
(* create_alert).                                                          *)
(***************************************************************************)
THEOREM ErrorsLeaveOnlyTheLog == Spec => []ErrorLeavesOnlyTheLog
<1>1. IInv => ErrorLeavesOnlyTheLog
  BY DEF IInv, Ending
<1> QED BY <1>1, Invariance, PTL
=============================================================================
