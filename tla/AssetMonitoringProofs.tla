------------------------- MODULE AssetMonitoringProofs -------------------------
(***************************************************************************)
(* Invariance proofs for AssetMonitoring, for every set of assets and      *)
(* sessions and every number of requests.                                  *)
(*                                                                         *)
(* What a session will commit of a row is what it wrote of it; the columns *)
(* it did not write are those of the committed row as long as no other     *)
(* session has written the row since it was loaded.  Whoever changes a     *)
(* row has its lock, so nobody else has, and everybody else who has loaded *)
(* it is out of date from then on.                                         *)
(***************************************************************************)
EXTENDS AssetMonitoring, FiniteSetTheorems, TLAPS

Report == [asset : Asset, up : BOOLEAN, stamp : Stamp]

SessionRow == [op : {"none", "poll", "telemetry", "edit", "delete"},
               pc : {"idle", "working", "storing"}, arrived : Nat,
               view : [Asset -> Row \cup {Gone}], dirty : [Asset -> SUBSET Column],
               locks : SUBSET Asset, todo : Seq(Asset), report : Report \cup {NoReport},
               meant : [Asset -> {"online", "offline", Gone}], raced : SUBSET Asset]

Shapes ==
  /\ now \in 0..MaxTime
  /\ assets \in [Asset -> Row \cup {Gone}]
  /\ session \in [Session -> SessionRow]
  /\ started \in 0..MaxRequests
  /\ verdict \in [Asset -> [status: AssetStatus, raced: BOOLEAN]]
  /\ heard \in [Asset -> 0..MaxTime \cup {Never}]
  /\ edited \subseteq Asset

\* What a session has to do is about rows it has loaded, and a report it stores is timely.
Ready(r) ==
  /\ r.arrived <= now
  /\ r.op \in {"edit", "delete"} =>
       /\ r.pc = "working" /\ r.todo # <<>> /\ r.view[Head(r.todo)] # Gone
       /\ r.locks = {} /\ \A a \in Asset : r.meant[a] = Gone
  /\ r.op = "poll" => \A i \in DOMAIN r.todo : r.view[r.todo[i]] # Gone
  /\ r.pc = "storing" =>
       /\ r.op \in {"poll", "telemetry"} /\ r.report \in Report
       /\ r.view[r.report.asset] # Gone /\ r.report.stamp <= now + MaxSkew

\* A row it wrote is locked.
Holds(r) ==
  \A a \in Asset :
    /\ r.dirty[a] # {} => a \in r.locks
    /\ a \in r.locks => r.view[a] # Gone

\* Its view of a row it has reported on shows the status it meant.
Meant(r) ==
  \A a \in Asset :
    r.meant[a] # Gone /\ (r.pc = "working" \/ a # r.report.asset) =>
      r.view[a] # Gone /\ r.view[a].status = r.meant[a]

\* A status it did not write is the committed one, unless another session wrote the row.
Synced(r) ==
  \A a \in Asset :
    r.view[a] # Gone /\ a \notin r.raced /\ "status" \notin r.dirty[a] /\ assets[a] # Gone =>
      r.view[a].status = assets[a].status

\* A last_seen it wrote is at most the clock skew ahead.
Stamped(r) ==
  \A a \in Asset :
    "last_seen" \in r.dirty[a] =>
      r.view[a].last_seen \in Stamp /\ r.view[a].last_seen <= now + MaxSkew

Fits(r) == Ready(r) /\ Holds(r) /\ Meant(r) /\ Synced(r) /\ Stamped(r)

OneLock == \A s, t \in Session : s # t => session[s].locks \cap session[t].locks = {}

StatusMeant ==
  \A a \in Asset : assets[a] # Gone /\ ~verdict[a].raced => assets[a].status = verdict[a].status

\* The committed last_seen is at most the clock skew ahead of the last report.
SeenWhenHeard ==
  \A a \in Asset \ edited :
    assets[a] # Gone /\ heard[a] # Never =>
      assets[a].last_seen \in Stamp /\ assets[a].last_seen <= heard[a] + MaxSkew

IInv ==
  /\ Shapes
  /\ \A s \in Session : Fits(session[s])
  /\ OneLock /\ StatusMeant /\ SeenWhenHeard

-----------------------------------------------------------------------------
(* Rows.                                                                   *)

LEMMA Times ==
  /\ StaleAfter \in Nat /\ MaxSkew \in Nat /\ MaxTime \in Nat /\ MaxRequests \in Nat
  /\ \A t \in 0..MaxTime : t \in Stamp /\ t \in Nat
  /\ \A t \in Stamp : t \in Int /\ t # Never
<1>1. StaleAfter \in Nat /\ MaxSkew \in Nat /\ MaxTime \in Nat /\ MaxRequests \in Nat
  BY TimeAssumption, BoundAssumption
<1> QED
  BY <1>1, NullAssumption DEF Stamp

LEMMA WritingBack ==
  ASSUME NEW row \in Row, NEW view, NEW columns,
         "status" \in columns => view["status"] \in AssetStatus,
         "last_seen" \in columns => view["last_seen"] \in Stamp \cup {Never}
  PROVE  /\ WriteBack(row, view, columns) \in Row
         /\ WriteBack(row, view, columns).status
              = IF "status" \in columns THEN view["status"] ELSE row.status
         /\ WriteBack(row, view, columns).last_seen
              = IF "last_seen" \in columns THEN view["last_seen"] ELSE row.last_seen
<1>1. WriteBack(row, view, columns)
        = [status |-> IF "status" \in columns THEN view["status"] ELSE row["status"],
           last_seen |-> IF "last_seen" \in columns THEN view["last_seen"] ELSE row["last_seen"]]
  BY DEF WriteBack, Column
<1> QED
  BY <1>1 DEF Row

LEMMA NothingToWrite ==
  ASSUME NEW row \in Row, NEW view PROVE WriteBack(row, view, {}) = row
<1>1. WriteBack(row, view, {}) = [status |-> row["status"], last_seen |-> row["last_seen"]]
  BY DEF WriteBack, Column
<1> QED
  BY <1>1 DEF Row

\* What an operator's update makes of the loaded row.
LEMMA Patching ==
  ASSUME NEW row \in Row, NEW update \in Update, now \in 0..MaxTime
  PROVE  /\ Patched(row, update) \in Row
         /\ Patched(row, update).status
              = IF "status" \in DOMAIN update THEN update["status"] ELSE row.status
         /\ "last_seen" \notin DOMAIN update => Patched(row, update).last_seen = row.last_seen
         /\ update.status = update["status"]
<1>1. /\ "status" \in DOMAIN update => update["status"] \in AssetStatus
      /\ "last_seen" \in DOMAIN update => update["last_seen"] \in Stamp \cup {Never}
  <2>1. now \in Stamp
    BY Times
  <2>2. CASE update \in [{"status"} -> AssetStatus]
    BY <2>2
  <2>3. CASE update \in [{"last_seen"} -> {Never, now}]
    BY <2>1, <2>3
  <2>4. CASE update \in [status: AssetStatus, last_seen: {Never, now}]
    BY <2>1, <2>4
  <2> QED
    BY <2>2, <2>3, <2>4 DEF Update
<1>2. Patched(row, update) = WriteBack(row, update, DOMAIN update)
  BY DEF Patched, WriteBack
<1> QED
  BY <1>1, <1>2, WritingBack

LEMMA VerdictParts ==
  ASSUME NEW v, NEW status, NEW a, NEW S,
         v = [status |-> status, raced |-> a \in S], ~ v.raced
  PROVE  a \notin S /\ v.status = status
  OBVIOUS

LEMMA Parts ==
  ASSUME IInv
  PROVE  /\ Shapes /\ OneLock /\ StatusMeant /\ SeenWhenHeard
         /\ now \in 0..MaxTime /\ now \in Nat /\ now \in Stamp
         /\ \A s \in Session : session[s] \in SessionRow /\ Fits(session[s])
<1>1. now \in 0..MaxTime
  BY DEF IInv, Shapes
<1> QED
  BY <1>1, Times DEF IInv, Shapes

LEMMA IdleRow ==
  /\ Idle \in SessionRow /\ Idle.op = "none" /\ Idle.pc = "idle" /\ Idle.arrived = 0
  /\ Idle.view = Unseen /\ Idle.dirty = Untouched /\ Idle.locks = {} /\ Idle.todo = <<>>
  /\ Idle.report = NoReport /\ Idle.meant = Unseen /\ Idle.raced = {}
<1>1. Unseen \in [Asset -> Row \cup {Gone}]
  BY DEF Unseen
<1>2. Unseen \in [Asset -> {"online", "offline", Gone}]
  BY DEF Unseen
<1>3. Untouched \in [Asset -> SUBSET Column]
  BY DEF Untouched
<1>4. <<>> \in Seq(Asset)
  OBVIOUS
<1> HIDE DEF Unseen, Untouched, NoReport
<1> QED
  BY <1>1, <1>2, <1>3, <1>4 DEF Idle, SessionRow

\* A session that has loaded some rows and done nothing to them.
LEMMA FreshFits ==
  ASSUME NEW wanted, NEW r, now \in Nat,
         assets \in [Asset -> Row \cup {Gone}], r.view = Loaded(wanted),
         r.dirty = Untouched, r.locks = {}, r.meant = Unseen, r.raced = {},
         r.pc # "storing", r.arrived <= now,
         r.op = "poll" => \A i \in DOMAIN r.todo : r.view[r.todo[i]] # Gone,
         r.op \in {"edit", "delete"} =>
           r.pc = "working" /\ r.todo # <<>> /\ r.view[Head(r.todo)] # Gone
  PROVE  Fits(r)
<1>1. \A a \in Asset : r.dirty[a] = {} /\ r.meant[a] = Gone
  BY DEF Untouched, Unseen
<1>2. \A a \in Asset : r.view[a] # Gone => r.view[a] = assets[a]
  BY DEF Loaded
<1>3. Ready(r)
  BY <1>1 DEF Ready
<1> QED
  BY <1>1, <1>2, <1>3 DEF Fits, Holds, Meant, Synced, Stamped

LEMMA IdleFits ==
  ASSUME now \in Nat, assets \in [Asset -> Row \cup {Gone}] PROVE Fits(Idle)
<1>1. Idle.view = Loaded({})
  BY IdleRow DEF Loaded, Unseen
<1>2. \A i \in DOMAIN Idle.todo : FALSE
  BY IdleRow
<1>3. 0 <= now
  OBVIOUS
<1> QED
  BY <1>1, <1>2, <1>3, IdleRow, FreshFits

LEMMA InvInit == Init => IInv
<1> SUFFICES ASSUME Init PROVE IInv
    OBVIOUS
<1>1. now = 0 /\ now \in 0..MaxTime /\ now \in Nat /\ started \in 0..MaxRequests
  BY Times DEF Init
<1>2. /\ assets \in [Asset -> Row \cup {Gone}]
      /\ \A a \in Asset : assets[a] = [status |-> "unknown", last_seen |-> Never]
  BY DEF Init, Row, AssetStatus
<1>3. \A s \in Session : session[s] = Idle
  BY DEF Init
<1>4. session \in [Session -> SessionRow]
  BY IdleRow DEF Init
<1>5. /\ verdict \in [Asset -> [status: AssetStatus, raced: BOOLEAN]]
      /\ \A a \in Asset : verdict[a].status = "unknown"
  BY DEF Init, NoVerdict, AssetStatus
<1>6. /\ heard \in [Asset -> 0..MaxTime \cup {Never}] /\ edited \subseteq Asset
      /\ \A a \in Asset : heard[a] = Never
  BY DEF Init
<1>7. Shapes
  BY <1>1, <1>2, <1>4, <1>5, <1>6 DEF Shapes
<1>8. \A s \in Session : Fits(session[s])
  BY <1>1, <1>2, <1>3, IdleFits
<1>9. OneLock
  BY <1>3, IdleRow DEF OneLock
<1>10. StatusMeant /\ SeenWhenHeard
  BY <1>2, <1>5, <1>6 DEF StatusMeant, SeenWhenHeard
<1> QED
  BY <1>7, <1>8, <1>9, <1>10 DEF IInv

-----------------------------------------------------------------------------
(* Steps of one session that commit nothing.                               *)

LEMMA SessionStep ==
  ASSUME IInv, NEW s \in Session, NEW r \in SessionRow, Fits(r),
         session' = [session EXCEPT ![s] = r],
         UNCHANGED <<now, assets, verdict, heard, edited>>, started' \in 0..MaxRequests,
         \A t \in Session \ {s} : r.locks \cap session[t].locks = {}
  PROVE  IInv'
<1>1. /\ \A t \in Session : session'[t] = IF t = s THEN r ELSE session[t]
      /\ session' \in [Session -> SessionRow]
  BY Parts DEF Shapes
<1>2. Shapes'
  BY <1>1, Parts DEF Shapes
<1>3. ASSUME NEW t \in Session PROVE Fits(session[t])'
  <2> DEFINE u == session'[t]
  <2>1. Fits(u)
    BY <1>1, Parts
  <2> QED
    BY <2>1 DEF Fits, Ready, Holds, Meant, Synced, Stamped
<1>4. OneLock'
  BY <1>1, Parts DEF OneLock
<1>5. StatusMeant' /\ SeenWhenHeard'
  BY Parts DEF StatusMeant, SeenWhenHeard
<1> QED
  BY <1>2, <1>3, <1>4, <1>5 DEF IInv

LEMMA BeginStep ==
  ASSUME IInv, NEW s \in Session, NEW op, NEW pc, NEW wanted, NEW todo,
         op \in {"poll", "telemetry", "edit", "delete"}, pc = "working", todo \in Seq(Asset),
         op \in {"edit", "delete"} => todo # <<>> /\ Loaded(wanted)[Head(todo)] # Gone,
         op = "poll" => \A i \in DOMAIN todo : Loaded(wanted)[todo[i]] # Gone,
         Begin(s, op, pc, Loaded(wanted), todo)
  PROVE  IInv'
<1> DEFINE arrived == IF op = "telemetry" THEN now ELSE 0
           view == Loaded(wanted)
           r == [Idle EXCEPT !.op = op, !.pc = pc, !.arrived = arrived, !.view = view,
                             !.todo = todo]
<1>1. /\ session' = [session EXCEPT ![s] = r] /\ started < MaxRequests /\ started' = started + 1
      /\ UNCHANGED <<now, assets, verdict, heard, edited>>
  BY DEF Begin
<1>2. view \in [Asset -> Row \cup {Gone}]
  BY Parts DEF Loaded, Shapes
<1>3. arrived \in Nat /\ arrived <= now
  BY Parts
<1> HIDE DEF arrived, view
<1>4. /\ r \in SessionRow /\ r.op = op /\ r.pc = pc /\ r.arrived = arrived /\ r.view = view
      /\ r.dirty = Untouched /\ r.locks = {} /\ r.todo = todo /\ r.meant = Unseen
      /\ r.raced = {}
  BY <1>2, <1>3, IdleRow DEF SessionRow
<1> HIDE DEF r
<1>5. Fits(r)
  BY <1>3, <1>4, Parts, FreshFits DEF view, Shapes
<1>6. started' \in 0..MaxRequests
  BY <1>1, Times, Parts DEF Shapes
<1> QED
  BY <1>1, <1>4, <1>5, <1>6, SessionStep

LEMMA ArriveStep == ASSUME IInv, NEW s \in Session, Arrive(s) PROVE IInv'
<1>1. CASE Poll(s)
  <2>1. PICK wanted \in SUBSET Existing \ {{}} :
          \E order \in Orders(wanted) : Begin(s, "poll", "working", Loaded(wanted), order)
    BY <1>1 DEF Poll
  <2>2. PICK order \in Orders(wanted) : Begin(s, "poll", "working", Loaded(wanted), order)
    BY <2>1
  <2>3. wanted \subseteq Asset /\ \A a \in wanted : assets[a] # Gone
    BY <2>1 DEF Existing
  <2>4. Cardinality(wanted) \in Nat
    BY <2>3, AssetAssumption, FS_Subset, FS_CardinalityType
  <2>5. order \in Seq(Asset) /\ \A i \in DOMAIN order : order[i] \in wanted
    BY <2>2, <2>3, <2>4 DEF Orders
  <2>6. \A i \in DOMAIN order : Loaded(wanted)[order[i]] # Gone
    BY <2>3, <2>5 DEF Loaded
  <2> QED
    BY <2>2, <2>5, <2>6, BeginStep
<1>2. CASE IngestMetrics(s)
  <2>1. Unseen = Loaded({}) /\ <<>> \in Seq(Asset)
    BY DEF Unseen, Loaded
  <2>2. Begin(s, "telemetry", "working", Loaded({}), <<>>)
    BY <1>2, <2>1 DEF IngestMetrics
  <2> DEFINE op == "telemetry"
             none == <<>>
  <2>3. /\ op \in {"poll", "telemetry", "edit", "delete"} /\ none \in Seq(Asset)
        /\ op \in {"edit", "delete"} => none # <<>> /\ Loaded({})[Head(none)] # Gone
        /\ op = "poll" => \A i \in DOMAIN none : Loaded({})[none[i]] # Gone
        /\ Begin(s, op, "working", Loaded({}), none)
    BY <2>1, <2>2
  <2> HIDE DEF op, none
  <2> QED
    BY <2>3, BeginStep
<1>3. ASSUME NEW op \in {"edit", "delete"}, NEW a \in Asset, LoadAsset(s, op, a) PROVE IInv'
  <2>1. assets[a] # Gone /\ Begin(s, op, "working", Loaded({a}), <<a>>)
    BY <1>3 DEF LoadAsset, Existing
  <2>2. <<a>> \in Seq(Asset) /\ <<a>> # <<>> /\ Head(<<a>>) = a
    OBVIOUS
  <2>3. Loaded({a})[Head(<<a>>)] # Gone
    BY <2>1, <2>2 DEF Loaded
  <2> DEFINE todo == <<a>>
  <2>4. /\ op \in {"poll", "telemetry", "edit", "delete"} /\ todo \in Seq(Asset)
        /\ op \in {"edit", "delete"} => todo # <<>> /\ Loaded({a})[Head(todo)] # Gone
        /\ op = "poll" => \A i \in DOMAIN todo : Loaded({a})[todo[i]] # Gone
        /\ Begin(s, op, "working", Loaded({a}), todo)
    BY <2>1, <2>2, <2>3
  <2> HIDE DEF todo
  <2> QED
    BY <2>4, BeginStep
<1> QED
  BY <1>1, <1>2, <1>3 DEF Arrive

LEMMA AnswerStep ==
  ASSUME IInv, NEW s \in Session, Answer(s),
         UNCHANGED <<now, assets, started, verdict, heard, edited>>
  PROVE  IInv'
<1>1. Fits(Idle)
  BY IdleFits, Parts DEF Shapes
<1> QED
  BY <1>1, IdleRow, SessionStep, Parts DEF Answer, Shapes

LEMMA PingStep == ASSUME IInv, NEW s \in Session, NEW up \in BOOLEAN, Ping(s, up) PROVE IInv'
<1> DEFINE q == session[s]
           a == Head(q.todo)
           rest == Tail(q.todo)
           report == [asset |-> a, up |-> up, stamp |-> now]
           r == [q EXCEPT !.pc = "storing", !.todo = rest, !.report = report]
<1>1. /\ q.op = "poll" /\ q.pc = "working" /\ q.todo # <<>>
      /\ UNCHANGED <<now, assets, started, verdict, heard, edited>>
      /\ session' = [session EXCEPT ![s].pc = "storing", ![s].todo = rest, ![s].report = report]
  BY DEF Ping
<1>2. q \in SessionRow /\ Fits(q) /\ q.todo \in Seq(Asset) /\ session \in [Session -> SessionRow]
  BY Parts DEF SessionRow, Shapes
<1>3. /\ a \in Asset /\ rest \in Seq(Asset)
      /\ q.view[a] # Gone
      /\ \A i \in DOMAIN rest : q.view[rest[i]] # Gone
  <2> DEFINE todo == q.todo
  <2>1. \A i \in DOMAIN todo : q.view[todo[i]] # Gone
    BY <1>1, <1>2 DEF Fits, Ready
  <2>2. todo \in Seq(Asset) /\ todo # <<>>
    BY <1>1, <1>2
  <2> HIDE DEF todo
  <2>3. /\ 1 \in DOMAIN todo /\ Head(todo) = todo[1] /\ todo[1] \in Asset
        /\ Tail(todo) \in Seq(Asset)
        /\ \A i \in DOMAIN Tail(todo) : Tail(todo)[i] = todo[i + 1] /\ i + 1 \in DOMAIN todo
    BY <2>2
  <2> QED
    BY <2>1, <2>3 DEF todo
<1>4. report \in Report /\ report.asset = a /\ report.stamp = now
  BY <1>3, Parts DEF Report
<1>5. session' = [session EXCEPT ![s] = r]
  BY <1>1, <1>2 DEF SessionRow
<1> HIDE DEF report, rest, a
<1>6. /\ r \in SessionRow /\ r.op = q.op /\ r.pc = "storing" /\ r.arrived = q.arrived
      /\ r.view = q.view /\ r.dirty = q.dirty /\ r.locks = q.locks /\ r.todo = rest
      /\ r.report = report /\ r.meant = q.meant /\ r.raced = q.raced
  BY <1>2, <1>3, <1>4 DEF SessionRow
<1> HIDE DEF r
<1>7. Ready(r)
  <2>1. report.stamp <= now + MaxSkew
    BY <1>4, Times, Parts
  <2> QED
    BY <2>1, <1>1, <1>2, <1>3, <1>4, <1>6 DEF Fits, Ready
<1>8. Holds(r) /\ Meant(r) /\ Synced(r) /\ Stamped(r)
  <2> HIDE DEF q
  <2> QED
    BY <1>1, <1>2, <1>6 DEF Fits, Holds, Meant, Synced, Stamped
<1>9. \A t \in Session \ {s} : r.locks \cap session[t].locks = {}
  BY <1>6, Parts DEF OneLock
<1> QED
  BY <1>1, <1>5, <1>6, <1>7, <1>8, <1>9, SessionStep, Parts DEF Fits, Shapes

LEMMA TakeStep ==
  ASSUME IInv, NEW s \in Session, NEW a \in Asset, NEW up \in BOOLEAN, NEW stamp \in Int,
         TakePayload(s, a, up, stamp)
  PROVE  IInv'
<1> DEFINE q == session[s]
           row == IF a \in q.locks THEN q.view[a] ELSE assets[a]
           view == [q.view EXCEPT ![a] = row]
           raced == IF a \in q.locks THEN q.raced ELSE q.raced \ {a}
           todo == Append(q.todo, a)
           report == [asset |-> a, up |-> up, stamp |-> stamp]
           r == [q EXCEPT !.pc = "storing", !.todo = todo, !.view = view, !.raced = raced,
                          !.report = report]
<1>1. /\ q.op = "telemetry" /\ q.pc = "working" /\ InWindow(s, stamp) /\ assets[a] # Gone
      /\ UNCHANGED <<now, assets, started, verdict, heard, edited>>
      /\ session' = [session EXCEPT
           ![s].pc = "storing", ![s].todo = Append(@, a),
           ![s].view[a] = IF a \in q.locks THEN @ ELSE assets[a],
           ![s].raced = IF a \in q.locks THEN @ ELSE @ \ {a},
           ![s].report = report]
  BY DEF TakePayload
<1>2. /\ q \in SessionRow /\ Fits(q) /\ session \in [Session -> SessionRow]
      /\ assets \in [Asset -> Row \cup {Gone}] /\ q.view \in [Asset -> Row \cup {Gone}]
      /\ q.todo \in Seq(Asset) /\ q.raced \in SUBSET Asset
  BY Parts DEF SessionRow, Shapes
<1>3. /\ row \in Row \cup {Gone} /\ row # Gone /\ view \in [Asset -> Row \cup {Gone}]
      /\ raced \in SUBSET Asset /\ todo \in Seq(Asset)
  BY <1>1, <1>2 DEF Fits, Holds
<1>4. stamp \in Stamp /\ stamp <= now + MaxSkew
  <2>1. q.arrived \in Nat /\ q.arrived <= now
    BY <1>2 DEF SessionRow, Fits, Ready
  <2>2. Distance(q.arrived, stamp) <= MaxSkew
    BY <1>1 DEF InWindow
  <2> QED
    BY <2>1, <2>2, Times, Parts DEF Distance, Stamp
<1>5. report \in Report /\ report.asset = a /\ report.stamp = stamp
  BY <1>4 DEF Report
<1>6. session' = [session EXCEPT ![s] = r]
  BY <1>1, <1>2 DEF SessionRow
<1> HIDE DEF report, todo, raced, view
<1>7. /\ r \in SessionRow /\ r.op = q.op /\ r.pc = "storing" /\ r.arrived = q.arrived
      /\ r.view = view /\ r.dirty = q.dirty /\ r.locks = q.locks /\ r.todo = todo
      /\ r.report = report /\ r.meant = q.meant /\ r.raced = raced
  BY <1>2, <1>3, <1>5 DEF SessionRow
<1> HIDE DEF r
<1>8. \A b \in Asset : view[b] = IF b = a THEN row ELSE q.view[b]
  BY <1>2 DEF view
<1>9. Ready(r)
  BY <1>1, <1>2, <1>3, <1>4, <1>5, <1>7, <1>8 DEF Fits, Ready
<1>10. Holds(r)
  BY <1>2, <1>3, <1>7, <1>8 DEF Fits, Holds
<1>11. Meant(r)
  BY <1>1, <1>2, <1>5, <1>7, <1>8 DEF Fits, Meant
<1>12. Synced(r)
  <2> SUFFICES ASSUME NEW b \in Asset, r.view[b] # Gone, b \notin r.raced,
                      "status" \notin r.dirty[b], assets[b] # Gone
               PROVE  r.view[b].status = assets[b].status
    BY DEF Synced
  <2>1. CASE b # a \/ a \in q.locks
    <3>1. b \notin q.raced /\ r.view[b] = q.view[b]
      BY <2>1, <1>7, <1>8 DEF raced
    <3> QED
      BY <3>1, <1>2, <1>7 DEF Fits, Synced
  <2>2. CASE b = a /\ a \notin q.locks
    BY <2>2, <1>7, <1>8
  <2> QED
    BY <2>1, <2>2
<1>13. Stamped(r)
  <2>1. "last_seen" \in q.dirty[a] => a \in q.locks
    BY <1>2 DEF Fits, Holds
  <2> QED
    BY <2>1, <1>2, <1>7, <1>8 DEF Fits, Stamped
<1>14. \A t \in Session \ {s} : r.locks \cap session[t].locks = {}
  BY <1>7, Parts DEF OneLock
<1> QED
  BY <1>1, <1>6, <1>7, <1>9, <1>10, <1>11, <1>12, <1>13, <1>14, SessionStep, Parts
     DEF Fits, Shapes

LEMMA StoreStep == ASSUME IInv, NEW s \in Session, Store(s) PROVE IInv'
<1> DEFINE q == session[s]
           report == q.report
           a == report.asset
           row == q.view[a]
           new == Reported(row, q.op, report)
           changed == Changed(row, new, q.op, report)
           verdictNow == IF report.up THEN "online" ELSE "offline"
<1>1. /\ q.pc = "storing" /\ assets[a] # Gone
      /\ UNCHANGED <<now, assets, started, verdict, heard, edited>>
  BY DEF Store
<1>2. PICK writes \in BOOLEAN :
        /\ changed # {} \/ q.op = "poll" => writes
        /\ writes => Free(s, a)
        /\ session' = [session EXCEPT
             ![s].pc = "working", ![s].report = NoReport,
             ![s].view[a] = new, ![s].dirty[a] = @ \cup changed,
             ![s].locks = IF writes THEN @ \cup {a} ELSE @,
             ![s].meant[a] = verdictNow]
  BY DEF Store
<1> DEFINE view == [q.view EXCEPT ![a] = new]
           dirty == [q.dirty EXCEPT ![a] = @ \cup changed]
           locks == IF writes THEN q.locks \cup {a} ELSE q.locks
           meant == [q.meant EXCEPT ![a] = verdictNow]
           r == [q EXCEPT !.pc = "working", !.report = NoReport, !.view = view,
                          !.dirty = dirty, !.locks = locks, !.meant = meant]
<1>3. /\ q \in SessionRow /\ Fits(q) /\ session \in [Session -> SessionRow]
      /\ q.view \in [Asset -> Row \cup {Gone}] /\ q.dirty \in [Asset -> SUBSET Column]
      /\ q.meant \in [Asset -> {"online", "offline", Gone}] /\ q.locks \in SUBSET Asset
  BY Parts DEF SessionRow, Shapes
<1>4. /\ q.op \in {"poll", "telemetry"} /\ report \in Report /\ a \in Asset
      /\ row \in Row /\ report.up \in BOOLEAN /\ report.stamp \in Stamp
      /\ report.stamp <= now + MaxSkew
  <2>1. q.op \in {"poll", "telemetry"} /\ report \in Report /\ row # Gone
        /\ report.stamp <= now + MaxSkew
    BY <1>1, <1>3 DEF Fits, Ready
  <2>2. a \in Asset /\ report.up \in BOOLEAN /\ report.stamp \in Stamp
    BY <2>1 DEF Report
  <2> QED
    BY <2>1, <2>2, <1>3
<1>5. /\ new \in Row /\ new # Gone /\ verdictNow \in {"online", "offline"}
      /\ new.status = verdictNow /\ new["status"] = new.status /\ row["status"] = row.status
      /\ new["last_seen"] = new.last_seen /\ row["last_seen"] = row.last_seen
      /\ new.last_seen = row.last_seen \/ new.last_seen = report.stamp
      /\ "last_seen" \in changed => new.last_seen = report.stamp
      /\ "status" \notin changed => new.status = row.status
      /\ changed \subseteq Column
  <2>1. /\ new \in Row /\ new.status = verdictNow /\ new["status"] = new.status
        /\ row["status"] = row.status /\ verdictNow \in {"online", "offline"}
        /\ new["last_seen"] = new.last_seen /\ row["last_seen"] = row.last_seen
        /\ new.last_seen
             = IF q.op = "poll" /\ report.up = FALSE THEN row.last_seen ELSE report.stamp
    BY <1>4 DEF Reported, Row, AssetStatus
  <2>2. new # Gone
    BY <2>1, NullAssumption
  <2> HIDE DEF new
  <2> QED
    BY <2>1, <2>2, <1>4 DEF Changed, Column
<1> HIDE DEF new, changed, verdictNow
<1>6. /\ view \in [Asset -> Row \cup {Gone}] /\ dirty \in [Asset -> SUBSET Column]
      /\ locks \in SUBSET Asset /\ meant \in [Asset -> {"online", "offline", Gone}]
      /\ \A b \in Asset :
           /\ view[b] = IF b = a THEN new ELSE q.view[b]
           /\ dirty[b] = IF b = a THEN q.dirty[a] \cup changed ELSE q.dirty[b]
           /\ meant[b] = IF b = a THEN verdictNow ELSE q.meant[b]
      /\ q.locks \subseteq locks
  BY <1>3, <1>4, <1>5
<1>7. session' = [session EXCEPT ![s] = r]
  BY <1>2, <1>3, ZenonT(40) DEF SessionRow
<1>8. locks = q.locks \/ (locks = q.locks \cup {a} /\ Free(s, a))
  BY <1>2
<1>9. changed # {} => a \in locks
  BY <1>2
<1> HIDE DEF view, dirty, locks, meant
<1>10. /\ r \in SessionRow /\ r.op = q.op /\ r.pc = "working" /\ r.arrived = q.arrived
       /\ r.view = view /\ r.dirty = dirty /\ r.locks = locks /\ r.todo = q.todo
       /\ r.meant = meant /\ r.raced = q.raced
  BY <1>3, <1>6 DEF SessionRow
<1> HIDE DEF r
<1>11. Ready(r)
  <2>1. r.op = "poll" => \A i \in DOMAIN r.todo : r.view[r.todo[i]] # Gone
    <3> SUFFICES ASSUME r.op = "poll", NEW i \in DOMAIN r.todo PROVE r.view[r.todo[i]] # Gone
        OBVIOUS
    <3>1. q.todo \in Seq(Asset)
      BY <1>3 DEF SessionRow
    <3>2. q.todo[i] \in Asset /\ q.view[q.todo[i]] # Gone
      BY <3>1, <1>3, <1>10 DEF Fits, Ready
    <3> QED
      BY <3>2, <1>5, <1>6, <1>10, ZenonT(40)
  <2> QED
    BY <2>1, <1>3, <1>4, <1>10 DEF Fits, Ready
<1>12. Holds(r)
  <2> SUFFICES ASSUME NEW b \in Asset
               PROVE  /\ r.dirty[b] # {} => b \in r.locks
                      /\ b \in r.locks => r.view[b] # Gone
    BY DEF Holds
  <2>1. /\ q.dirty[b] # {} => b \in q.locks
        /\ b \in q.locks => q.view[b] # Gone
    BY <1>3 DEF Fits, Holds
  <2>2. CASE b = a
    BY <2>1, <2>2, <1>5, <1>6, <1>9, <1>10
  <2>3. CASE b # a
    BY <2>1, <2>3, <1>6, <1>8, <1>10
  <2> QED
    BY <2>2, <2>3
<1>13. Meant(r)
  <2> SUFFICES ASSUME NEW b \in Asset, r.meant[b] # Gone
               PROVE  r.view[b] # Gone /\ r.view[b].status = r.meant[b]
    BY DEF Meant
  <2>1. CASE b = a
    BY <2>1, <1>5, <1>6, <1>10
  <2>2. CASE b # a
    BY <2>2, <1>3, <1>6, <1>10 DEF Fits, Meant
  <2> QED
    BY <2>1, <2>2
<1>14. Synced(r)
  <2> SUFFICES ASSUME NEW b \in Asset, r.view[b] # Gone, b \notin r.raced,
                      "status" \notin r.dirty[b], assets[b] # Gone
               PROVE  r.view[b].status = assets[b].status
    BY DEF Synced
  <2>1. q.view[b] # Gone /\ b \notin q.raced /\ "status" \notin q.dirty[b] =>
          q.view[b].status = assets[b].status
    BY <1>3 DEF Fits, Synced
  <2>2. CASE b = a
    <3>1. row # Gone
      BY <1>4, NullAssumption
    <3>2. "status" \notin changed /\ "status" \notin q.dirty[a]
      BY <2>2, <1>6, <1>10
    <3> QED
      BY <2>1, <2>2, <3>1, <3>2, <1>5, <1>6, <1>10
  <2>3. CASE b # a
    BY <2>1, <2>3, <1>6, <1>10
  <2> QED
    BY <2>2, <2>3
<1>15. Stamped(r)
  <2> SUFFICES ASSUME NEW b \in Asset, "last_seen" \in r.dirty[b]
               PROVE  r.view[b].last_seen \in Stamp /\ r.view[b].last_seen <= now + MaxSkew
    BY DEF Stamped
  <2>1. "last_seen" \in q.dirty[b] =>
          q.view[b].last_seen \in Stamp /\ q.view[b].last_seen <= now + MaxSkew
    BY <1>3 DEF Fits, Stamped
  <2>2. CASE b = a
    BY <2>1, <2>2, <1>4, <1>5, <1>6, <1>10
  <2>3. CASE b # a
    BY <2>1, <2>3, <1>6, <1>10
  <2> QED
    BY <2>2, <2>3
<1>16. \A t \in Session \ {s} : r.locks \cap session[t].locks = {}
  BY <1>8, <1>10, Parts DEF OneLock, Free
<1> QED
  BY <1>1, <1>7, <1>10, <1>11, <1>12, <1>13, <1>14, <1>15, <1>16, SessionStep, Parts
     DEF Fits, Shapes

LEMMA TickStep == ASSUME IInv, Tick PROVE IInv'
<1>1. now < MaxTime /\ now' = now + 1
      /\ UNCHANGED <<assets, session, started, verdict, heard, edited>>
  BY DEF Tick
<1>2. now' \in 0..MaxTime /\ now \in Int /\ now' \in Int /\ now <= now' /\ MaxSkew \in Nat
  BY <1>1, Times, Parts
<1>3. Shapes'
  BY <1>1, <1>2, Parts DEF Shapes
<1>4. ASSUME NEW s \in Session PROVE Fits(session[s])'
  <2> DEFINE r == session[s]
  <2>1. Fits(r) /\ r \in SessionRow
    BY Parts
  <2> HIDE DEF r
  <2>2. /\ Ready(r) /\ Holds(r) /\ Meant(r) /\ Synced(r) /\ Stamped(r) /\ r.arrived \in Nat
        /\ r.report \in Report \cup {NoReport}
    BY <2>1 DEF Fits, SessionRow
  <2>3. r.arrived <= now'
    BY <2>2, <1>1, <1>2 DEF Ready
  <2>4. r.pc = "storing" => r.report.stamp <= now' + MaxSkew
    BY <2>2, <1>1, <1>2, Times DEF Ready, Report
  <2>5. \A a \in Asset : "last_seen" \in r.dirty[a] =>
          r.view[a].last_seen \in Stamp /\ r.view[a].last_seen <= now' + MaxSkew
    BY <2>2, <1>1, <1>2, Times DEF Stamped
  <2> QED
    BY <2>2, <2>3, <2>4, <2>5, <1>1 DEF r, Fits, Ready, Holds, Meant, Synced, Stamped
<1>5. OneLock' /\ StatusMeant' /\ SeenWhenHeard'
  BY <1>1, Parts DEF OneLock, StatusMeant, SeenWhenHeard
<1> QED
  BY <1>3, <1>4, <1>5 DEF IInv

-----------------------------------------------------------------------------
(* Commits.                                                                *)

\* A commit makes the others who have loaded its rows, and not locked them, out of date.
LEMMA Racing ==
  ASSUME IInv, NEW s \in Session, NEW written \in SUBSET Asset, AnswerAndRace(s, written)
  PROVE  /\ session' \in [Session -> SessionRow] /\ session'[s] = Idle
         /\ \A t \in Session \ {s} :
              /\ session'[t].op = session[t].op /\ session'[t].pc = session[t].pc
              /\ session'[t].arrived = session[t].arrived
              /\ session'[t].view = session[t].view /\ session'[t].dirty = session[t].dirty
              /\ session'[t].locks = session[t].locks /\ session'[t].todo = session[t].todo
              /\ session'[t].report = session[t].report
              /\ session'[t].meant = session[t].meant
              /\ session[t].raced \subseteq session'[t].raced
              /\ \A a \in written :
                   session[t].view[a] # Gone /\ a \notin session[t].locks
                     => a \in session'[t].raced
<1> DEFINE more(t) == {a \in written : session[t].view[a] # Gone /\ a \notin session[t].locks}
           row(t) == [session[t] EXCEPT !.raced = @ \cup more(t)]
<1>1. session' = [t \in Session |-> IF t = s THEN Idle ELSE row(t)]
  BY DEF AnswerAndRace
<1>2. ASSUME NEW t \in Session
      PROVE  /\ row(t) \in SessionRow
             /\ row(t).op = session[t].op /\ row(t).pc = session[t].pc
             /\ row(t).arrived = session[t].arrived
             /\ row(t).view = session[t].view /\ row(t).dirty = session[t].dirty
             /\ row(t).locks = session[t].locks /\ row(t).todo = session[t].todo
             /\ row(t).report = session[t].report
             /\ row(t).meant = session[t].meant
             /\ row(t).raced = session[t].raced \cup more(t)
  <2>1. more(t) \in SUBSET Asset /\ session[t] \in SessionRow
    BY Parts
  <2> HIDE DEF more
  <2> QED
    BY <2>1 DEF SessionRow
<1> HIDE DEF row
<1>3. session' \in [Session -> SessionRow]
  BY <1>1, <1>2, IdleRow
<1>4. ASSUME NEW t \in Session \ {s}, NEW a \in written,
             session[t].view[a] # Gone, a \notin session[t].locks
      PROVE  a \in row(t).raced
  BY <1>2, <1>4
<1>5. session'[s] = Idle /\ \A t \in Session \ {s} : session'[t] = row(t)
  BY <1>1
<1> QED
  BY <1>2, <1>3, <1>4, <1>5

\* Only a row nobody else has locked is changed; a row may be deleted.
LEMMA WritingStep ==
  ASSUME IInv, NEW s \in Session, NEW written \in SUBSET Asset, AnswerAndRace(s, written),
         UNCHANGED <<now, started>>, assets' \in [Asset -> Row \cup {Gone}],
         \A a \in Asset :
           \/ assets'[a] = assets[a]
           \/ assets'[a] = Gone
           \/ assets[a] # Gone /\ a \in written /\ Free(s, a),
         verdict' \in [Asset -> [status: AssetStatus, raced: BOOLEAN]],
         heard' \in [Asset -> 0..MaxTime \cup {Never}], edited' \subseteq Asset,
         StatusMeant', SeenWhenHeard'
  PROVE  IInv'
<1>1. Shapes'
  BY Racing, Parts DEF Shapes
<1>2. ASSUME NEW t \in Session PROVE Fits(session[t])'
  <2>1. CASE t = s
    <3>1. session'[s] = Idle
      BY Racing
    <3> DEFINE u == session'[s]
    <3>2. u = Idle
      BY <3>1
    <3>3. Fits(u)
      BY <3>2, IdleFits, Parts DEF Shapes
    <3> HIDE DEF u
    <3>4. /\ u.op = "none" /\ u.pc = "idle" /\ u.arrived = 0 /\ 0 <= now
          /\ \A a \in Asset : u.view[a] = Gone /\ u.dirty[a] = {} /\ u.meant[a] = Gone
          /\ u.locks = {}
      BY <3>2, IdleRow, Parts DEF Unseen, Untouched
    <3> QED
      BY <3>4, <2>1 DEF u, Fits, Ready, Holds, Meant, Synced, Stamped
  <2>2. CASE t # s
    <3> DEFINE q == session[t]
               u == session'[t]
    <3>1. /\ u.op = q.op /\ u.pc = q.pc /\ u.arrived = q.arrived /\ u.view = q.view
          /\ u.dirty = q.dirty /\ u.locks = q.locks /\ u.todo = q.todo
          /\ u.report = q.report /\ u.meant = q.meant /\ q.raced \subseteq u.raced
          /\ \A a \in written : q.view[a] # Gone /\ a \notin q.locks => a \in u.raced
      BY <2>2, Racing
    <3>2. Fits(q)
      BY Parts
    <3>3. \A a \in Asset :
            assets'[a] = assets[a] \/ assets'[a] = Gone
              \/ (assets[a] # Gone /\ a \in written /\ a \notin q.locks)
      BY <2>2 DEF Free
    <3> HIDE DEF q, u
    <3>4. /\ Ready(u) /\ Holds(u) /\ Meant(u) /\ Stamped(u)
      BY <3>1, <3>2 DEF Fits, Ready, Holds, Meant, Stamped
    <3>5. ASSUME NEW a \in Asset, u.view[a] # Gone, a \notin u.raced,
                 "status" \notin u.dirty[a], assets'[a] # Gone
          PROVE  u.view[a].status = assets'[a].status
      <4>1. assets'[a] = assets[a]
        BY <3>1, <3>3, <3>5
      <4> QED
        BY <4>1, <3>1, <3>2, <3>5 DEF Fits, Synced
    <3> QED
      BY <3>4, <3>5 DEF u, Fits, Ready, Holds, Meant, Synced, Stamped
  <2> QED
    BY <2>1, <2>2
<1>3. OneLock'
  <2> SUFFICES ASSUME NEW t \in Session, NEW u \in Session, t # u
               PROVE  session'[t].locks \cap session'[u].locks = {}
    BY DEF OneLock
  <2>1. \A v \in Session : session'[v].locks = session[v].locks \/ session'[v].locks = {}
    BY Racing, IdleRow
  <2> QED
    BY <2>1, Parts DEF OneLock
<1> QED
  BY <1>1, <1>2, <1>3 DEF IInv

LEMMA CommitStep == ASSUME IInv, NEW s \in Session, CommitReports(s) PROVE IInv'
<1> DEFINE q == session[s]
           reported == {a \in Asset : q.meant[a] # Gone}
           spoke == {a \in reported : "last_seen" \in q.dirty[a]}
           written(a) == WriteBack(assets[a], q.view[a], q.dirty[a])
<1>1. /\ q.pc = "working"
      /\ assets' = [a \in Asset |-> IF a \in reported /\ assets[a] # Gone THEN written(a)
                                    ELSE assets[a]]
      /\ verdict' = [a \in Asset |->
           IF a \in reported THEN [status |-> q.meant[a], raced |-> a \in q.raced]
           ELSE verdict[a]]
      /\ heard' = [a \in Asset |-> IF a \in spoke THEN now ELSE heard[a]]
      /\ edited' = edited \ spoke
      /\ AnswerAndRace(s, reported) /\ UNCHANGED <<now, started>>
  BY DEF CommitReports
<1>2. /\ q \in SessionRow /\ Fits(q) /\ assets \in [Asset -> Row \cup {Gone}]
      /\ q.view \in [Asset -> Row \cup {Gone}] /\ q.dirty \in [Asset -> SUBSET Column]
      /\ q.meant \in [Asset -> {"online", "offline", Gone}]
  BY Parts DEF SessionRow, Shapes
<1>3. ASSUME NEW a \in reported, assets[a] # Gone
      PROVE  /\ written(a) \in Row /\ written(a) # Gone /\ q.view[a] \in Row
             /\ written(a).status
                  = IF "status" \in q.dirty[a] THEN q.view[a].status ELSE assets[a].status
             /\ written(a).last_seen
                  = IF "last_seen" \in q.dirty[a] THEN q.view[a].last_seen
                    ELSE assets[a].last_seen
             /\ q.dirty[a] = {} => written(a) = assets[a]
  <2> DEFINE row == assets[a]
             view == q.view[a]
             dirty == q.dirty[a]
  <2>1. row \in Row /\ view \in Row
    BY <1>1, <1>2, <1>3 DEF Fits, Meant
  <2>2. /\ view["status"] = view.status /\ view["last_seen"] = view.last_seen
        /\ view.status \in AssetStatus /\ view.last_seen \in Stamp \cup {Never}
    BY <2>1 DEF Row
  <2> HIDE DEF row, view, dirty
  <2>3. /\ WriteBack(row, view, dirty) \in Row
        /\ WriteBack(row, view, dirty).status
             = IF "status" \in dirty THEN view["status"] ELSE row.status
        /\ WriteBack(row, view, dirty).last_seen
             = IF "last_seen" \in dirty THEN view["last_seen"] ELSE row.last_seen
    BY <2>1, <2>2, WritingBack
  <2>4. dirty = {} => WriteBack(row, view, dirty) = row
    BY <2>1, NothingToWrite
  <2> QED
    BY <2>1, <2>2, <2>3, <2>4, NullAssumption DEF row, view, dirty
<1> HIDE DEF written
<1>4. \A a \in Asset :
        assets'[a] = IF a \in reported /\ assets[a] # Gone THEN written(a) ELSE assets[a]
  BY <1>1
<1>5. assets' \in [Asset -> Row \cup {Gone}]
  BY <1>1, <1>2, <1>3
<1>6. ASSUME NEW a \in Asset
      PROVE  \/ assets'[a] = assets[a]
             \/ assets'[a] = Gone
             \/ assets[a] # Gone /\ a \in reported /\ Free(s, a)
  <2>1. CASE a \in reported /\ assets[a] # Gone /\ q.dirty[a] # {}
    <3>1. a \in q.locks
      BY <2>1, <1>2 DEF Fits, Holds
    <3>2. Free(s, a)
      BY <3>1, Parts DEF OneLock, Free
    <3> QED
      BY <2>1, <3>2
  <2>2. CASE ~(a \in reported /\ assets[a] # Gone /\ q.dirty[a] # {})
    BY <2>2, <1>3, <1>4
  <2> QED
    BY <2>1, <2>2
<1>7. /\ verdict' \in [Asset -> [status: AssetStatus, raced: BOOLEAN]]
      /\ heard' \in [Asset -> 0..MaxTime \cup {Never}] /\ edited' \subseteq Asset
  <2>1. \A a \in reported : q.meant[a] \in AssetStatus
    BY <1>2 DEF AssetStatus
  <2>2. verdict' \in [Asset -> [status: AssetStatus, raced: BOOLEAN]]
    BY <2>1, <1>1, Parts DEF Shapes
  <2>3. heard' \in [Asset -> 0..MaxTime \cup {Never}] /\ edited' \subseteq Asset
    BY <1>1, Parts DEF Shapes
  <2> QED
    BY <2>2, <2>3
<1>8. StatusMeant'
  <2> SUFFICES ASSUME NEW a \in Asset, assets'[a] # Gone, ~ verdict'[a].raced
               PROVE  assets'[a].status = verdict'[a].status
    BY DEF StatusMeant
  <2>1. assets[a] # Gone
    BY <1>4
  <2>2. CASE a \in reported
    <3>1. /\ verdict'[a] = [status |-> q.meant[a], raced |-> a \in q.raced]
      BY <2>2, <1>1
    <3>2. a \notin q.raced /\ verdict'[a].status = q.meant[a]
      BY <3>1, VerdictParts
    <3>3. q.view[a] # Gone /\ q.view[a].status = q.meant[a]
      BY <2>2, <1>1, <1>2 DEF Fits, Meant
    <3>4. "status" \notin q.dirty[a] => assets[a].status = q.view[a].status
      BY <2>1, <3>2, <3>3, <1>2 DEF Fits, Synced
    <3>5. assets'[a] = written(a)
      BY <2>1, <2>2, <1>4
    <3> QED
      BY <2>1, <2>2, <3>2, <3>3, <3>4, <3>5, <1>3
  <2>3. CASE a \notin reported
    <3>1. assets'[a] = assets[a] /\ verdict'[a] = verdict[a]
      BY <2>3, <1>1
    <3> QED
      BY <2>1, <3>1, Parts DEF StatusMeant
  <2> QED
    BY <2>2, <2>3
<1>9. SeenWhenHeard'
  <2> SUFFICES ASSUME NEW a \in Asset, a \notin edited', assets'[a] # Gone, heard'[a] # Never
               PROVE  assets'[a].last_seen \in Stamp
                      /\ assets'[a].last_seen <= heard'[a] + MaxSkew
    BY DEF SeenWhenHeard
  <2>1. assets[a] # Gone
    BY <1>4
  <2>2. CASE a \in spoke
    <3>1. assets'[a] = written(a) /\ heard'[a] = now
      BY <2>1, <2>2, <1>1
    <3>2. written(a).last_seen = q.view[a].last_seen
      BY <2>1, <2>2, <1>3
    <3>3. q.view[a].last_seen \in Stamp /\ q.view[a].last_seen <= now + MaxSkew
      BY <2>2, <1>2 DEF Fits, Stamped
    <3> QED
      BY <3>1, <3>2, <3>3
  <2>3. CASE a \notin spoke
    <3>1. heard'[a] = heard[a] /\ a \notin edited
      BY <2>3, <1>1
    <3>2. assets'[a].last_seen = assets[a].last_seen
      BY <2>1, <2>3, <1>3, <1>4
    <3> QED
      BY <2>1, <3>1, <3>2, Parts DEF SeenWhenHeard
  <2> QED
    BY <2>2, <2>3
<1>10. AnswerAndRace(s, reported) /\ UNCHANGED <<now, started>> /\ reported \in SUBSET Asset
  BY <1>1
<1> HIDE DEF reported, spoke
<1> QED
  BY <1>5, <1>6, <1>7, <1>8, <1>9, <1>10, WritingStep

LEMMA EditStep ==
  ASSUME IInv, NEW s \in Session, NEW update \in Update, EditAsset(s, update)
  PROVE  IInv'
<1> DEFINE q == session[s]
           a == Head(q.todo)
           row == q.view[a]
           set == DOMAIN update
           new == Patched(row, update)
           changed == {c \in Column : new[c] # row[c]}
           written == WriteBack(assets[a], new, changed)
<1>1. /\ q.op = "edit" /\ assets[a] # Gone /\ (changed # {} => Free(s, a))
      /\ assets' = [assets EXCEPT ![a] = written]
      /\ verdict' = IF "status" \notin set THEN verdict
                    ELSE [verdict EXCEPT ![a] =
                           [status |-> update.status, raced |-> a \in q.raced]]
      /\ edited' = edited \cup {a : c \in set \cap {"last_seen"}}
      /\ AnswerAndRace(s, {a}) /\ UNCHANGED <<now, started, heard>>
  BY DEF EditAsset
<1>2. /\ q \in SessionRow /\ Fits(q) /\ assets \in [Asset -> Row \cup {Gone}]
      /\ q.view \in [Asset -> Row \cup {Gone}] /\ q.todo \in Seq(Asset)
  BY Parts DEF SessionRow, Shapes
<1>3. q.todo # <<>> /\ row # Gone /\ q.locks = {} /\ \A b \in Asset : q.meant[b] = Gone
  BY <1>1, <1>2 DEF Fits, Ready
<1>4. a \in Asset /\ row \in Row /\ assets[a] \in Row
  <2>1. a \in Asset
    BY <1>2, <1>3
  <2> QED
    BY <2>1, <1>1, <1>2, <1>3
<1>5. "status" \notin q.dirty[a]
  BY <1>2, <1>3, <1>4 DEF Fits, Holds
<1> HIDE DEF a, row
<1>6. /\ new \in Row
      /\ new.status = IF "status" \in set THEN update["status"] ELSE row.status
      /\ "last_seen" \notin set => new.last_seen = row.last_seen
      /\ update.status = update["status"]
      /\ "status" \in set => update.status \in AssetStatus
  <2>1. /\ new \in Row
        /\ new.status = IF "status" \in set THEN update["status"] ELSE row.status
        /\ "last_seen" \notin set => new.last_seen = row.last_seen
        /\ update.status = update["status"]
    BY <1>4, Patching, Parts
  <2>2. new.status \in AssetStatus
    BY <2>1 DEF Row
  <2> QED
    BY <2>1, <2>2
<1> HIDE DEF new, set
<1>7. /\ new["status"] = new.status /\ new["last_seen"] = new.last_seen
      /\ row["status"] = row.status /\ row["last_seen"] = row.last_seen
      /\ new.status \in AssetStatus /\ new.last_seen \in Stamp \cup {Never}
  BY <1>4, <1>6 DEF Row
<1>8. /\ "status" \in changed <=> new.status # row.status
      /\ "last_seen" \in changed => new.last_seen # row.last_seen
  BY <1>7 DEF Column
<1> HIDE DEF changed
<1>9. /\ written \in Row /\ written # Gone
      /\ written.status = IF "status" \in changed THEN new.status ELSE assets[a].status
      /\ written.last_seen
           = IF "last_seen" \in changed THEN new.last_seen ELSE assets[a].last_seen
      /\ changed = {} => written = assets[a]
  <2> DEFINE old == assets[a]
  <2>1. old \in Row
    BY <1>4
  <2> HIDE DEF old
  <2>2. /\ WriteBack(old, new, changed) \in Row
        /\ WriteBack(old, new, changed).status
             = IF "status" \in changed THEN new["status"] ELSE old.status
        /\ WriteBack(old, new, changed).last_seen
             = IF "last_seen" \in changed THEN new["last_seen"] ELSE old.last_seen
    BY <2>1, <1>7, WritingBack
  <2>3. changed = {} => WriteBack(old, new, changed) = old
    BY <2>1, NothingToWrite
  <2> QED
    BY <2>2, <2>3, <1>7, NullAssumption DEF old
<1> HIDE DEF written
<1>10. /\ assets' \in [Asset -> Row \cup {Gone}]
       /\ \A b \in Asset : assets'[b] = IF b = a THEN written ELSE assets[b]
  BY <1>1, <1>2, <1>4, <1>9
<1>11. ASSUME NEW b \in Asset
       PROVE  \/ assets'[b] = assets[b]
              \/ assets'[b] = Gone
              \/ assets[b] # Gone /\ b \in {a} /\ Free(s, b)
  BY <1>1, <1>9, <1>10
<1>12. verdict' \in [Asset -> [status: AssetStatus, raced: BOOLEAN]]
  <2>1. "status" \in set => [status |-> update.status, raced |-> a \in q.raced]
                              \in [status: AssetStatus, raced: BOOLEAN]
    BY <1>6
  <2> QED
    BY <2>1, <1>1, <1>4, Parts DEF Shapes
<1>13. /\ edited \subseteq edited' /\ edited' \subseteq Asset
       /\ "last_seen" \in set => a \in edited'
  BY <1>1, <1>4, Parts DEF Shapes
<1>14. StatusMeant'
  <2> SUFFICES ASSUME NEW b \in Asset, assets'[b] # Gone, ~ verdict'[b].raced
               PROVE  assets'[b].status = verdict'[b].status
    BY DEF StatusMeant
  <2>1. CASE b # a
    <3>1. assets'[b] = assets[b] /\ verdict'[b] = verdict[b]
      BY <2>1, <1>1, <1>10, Parts DEF Shapes
    <3> QED
      BY <3>1, Parts DEF StatusMeant
  <2>2. CASE b = a /\ "status" \notin set
    <3>1. assets'[b].status = assets[a].status /\ verdict'[b] = verdict[a]
      BY <2>2, <1>1, <1>6, <1>8, <1>9, <1>10
    <3> QED
      BY <3>1, <2>2, <1>1, Parts DEF StatusMeant
  <2>3. CASE b = a /\ "status" \in set
    <3>1. verdict'[b] = [status |-> update.status, raced |-> a \in q.raced]
      BY <2>3, <1>1, <1>4, Parts DEF Shapes
    <3>2. verdict'[b].status = update.status
      BY <3>1
    <3>3. a \notin q.raced
      BY <3>1, VerdictParts
    <3>4. row.status = assets[a].status
      BY <3>3, <1>1, <1>2, <1>3, <1>4, <1>5 DEF Fits, Synced, row
    <3> QED
      BY <2>3, <3>2, <3>4, <1>6, <1>8, <1>9, <1>10
  <2> QED
    BY <2>1, <2>2, <2>3
<1>15. SeenWhenHeard'
  <2> SUFFICES ASSUME NEW b \in Asset, b \notin edited', assets'[b] # Gone, heard[b] # Never
               PROVE  assets'[b].last_seen \in Stamp /\ assets'[b].last_seen <= heard[b] + MaxSkew
    BY <1>1 DEF SeenWhenHeard
  <2>1. assets[b] # Gone /\ b \notin edited
    BY <1>1, <1>10, <1>13
  <2>2. assets'[b].last_seen = assets[b].last_seen
    BY <1>6, <1>8, <1>9, <1>10, <1>13
  <2> QED
    BY <2>1, <2>2, Parts DEF SeenWhenHeard
<1>16. /\ {a} \in SUBSET Asset /\ AnswerAndRace(s, {a}) /\ UNCHANGED <<now, started>>
       /\ heard' \in [Asset -> 0..MaxTime \cup {Never}]
  BY <1>1, <1>4, Parts DEF Shapes
<1> QED
  BY <1>10, <1>11, <1>12, <1>13, <1>14, <1>15, <1>16, WritingStep

LEMMA DeleteStep == ASSUME IInv, NEW s \in Session, DeleteAsset(s) PROVE IInv'
<1> DEFINE a == Head(session[s].todo)
<1>1. /\ assets' = [assets EXCEPT ![a] = Gone] /\ AnswerAndRace(s, {a})
      /\ session[s].op = "delete" /\ UNCHANGED <<now, started, verdict, heard, edited>>
  BY DEF DeleteAsset
<1>2. a \in Asset
  <2>1. session[s].todo # <<>> /\ session[s].todo \in Seq(Asset)
    BY <1>1, Parts DEF Fits, Ready, SessionRow
  <2> QED
    BY <2>1
<1> HIDE DEF a
<1>3. /\ \A b \in Asset : assets'[b] = assets[b] \/ assets'[b] = Gone
      /\ assets' \in [Asset -> Row \cup {Gone}]
  BY <1>1, <1>2, Parts DEF Shapes
<1>4. StatusMeant' /\ SeenWhenHeard'
  BY <1>1, <1>3, Parts DEF StatusMeant, SeenWhenHeard
<1>5. {a} \in SUBSET Asset
  BY <1>2
<1> QED
  BY <1>1, <1>3, <1>4, <1>5, WritingStep, Parts DEF Shapes

LEMMA InvStep == IInv /\ [Next]_vars => IInv'
<1> SUFFICES ASSUME IInv, [Next]_vars PROVE IInv'
    OBVIOUS
<1>1. ASSUME NEW s \in Session, Proceed(s) PROVE IInv'
  <2>1. ASSUME NEW up \in BOOLEAN, Ping(s, up) PROVE IInv'
    BY <2>1, PingStep
  <2>2. ASSUME NEW a \in Asset, NEW up \in BOOLEAN, NEW offset \in Offset,
               TakePayload(s, a, up, session[s].arrived + offset)
        PROVE  IInv'
    <3>1. session[s].arrived + offset \in Int
      BY Parts, TimeAssumption DEF SessionRow
    <3> QED
      BY <2>2, <3>1, TakeStep
  <2>3. ASSUME NEW update \in Update, EditAsset(s, update) PROVE IInv'
    BY <2>3, EditStep
  <2>4. ASSUME RejectBatch(s) \/ FlushFails(s) \/ DeadlockVictim(s) PROVE IInv'
    BY <2>4, AnswerStep DEF RejectBatch, FlushFails, DeadlockVictim
  <2> QED
    BY <1>1, <2>1, <2>2, <2>3, <2>4, StoreStep, CommitStep, DeleteStep DEF Proceed
<1>2. CASE UNCHANGED vars
  <2>1. UNCHANGED <<now, assets, session, started, verdict, heard, edited>>
    BY <1>2 DEF vars
  <2>2. \A s \in Session : Fits(session[s])'
    BY <2>1, Parts DEF Fits, Ready, Holds, Meant, Synced, Stamped
  <2>3. Shapes' /\ OneLock' /\ StatusMeant' /\ SeenWhenHeard'
    BY <2>1, Parts DEF Shapes, OneLock, StatusMeant, SeenWhenHeard
  <2> QED
    BY <2>2, <2>3 DEF IInv
<1> QED
  BY <1>1, <1>2, ArriveStep, TickStep DEF Next

THEOREM Invariance == Spec => []IInv
  BY InvInit, InvStep, PTL DEF Spec

-----------------------------------------------------------------------------
(* What the invariant says.                                                *)

LEMMA ShapesGiveTypeOK == IInv => TypeOK
<1> SUFFICES ASSUME IInv PROVE TypeOK
    OBVIOUS
<1>1. ASSUME NEW s \in Session
      PROVE  /\ DOMAIN session[s] = DOMAIN Idle
             /\ session[s].view \in [Asset -> Row \cup {Gone}]
             /\ session[s].dirty \in [Asset -> SUBSET Column]
             /\ session[s].todo \in Seq(Asset)
             /\ {session[s].locks, session[s].raced} \subseteq SUBSET Asset
  BY Parts DEF SessionRow, Idle
<1> QED
  BY <1>1, Parts DEF TypeOK, Shapes

(***************************************************************************)
(* The status of an asset is the one its last report or edit meant, unless *)
(* another session wrote the row between that writer's SELECT and commit.  *)
(***************************************************************************)
THEOREM LastWriterDecides == Spec => []StatusIsLastVerdict
<1>1. IInv => StatusIsLastVerdict
  BY ShapesGiveTypeOK DEF StatusIsLastVerdict, IInv, StatusMeant
<1> QED
  BY <1>1, Invariance, PTL

(***************************************************************************)
(* An asset nobody hears of is shown offline once STALE_AFTER and the      *)
(* clock skew telemetry may have are over, whatever alerts it has.         *)
(***************************************************************************)
THEOREM SilenceShows == Spec => []SilentAssetGoesDark
<1>1. IInv => SilentAssetGoesDark
  <2> SUFFICES ASSUME IInv, NEW a \in Asset \ edited, assets[a] # Gone, heard[a] # Never,
                      now > heard[a] + StaleAfter + MaxSkew, NEW severity \in Severity
               PROVE  Shown(assets[a], severity, now) = "offline"
    BY DEF SilentAssetGoesDark
  <2> DEFINE row == assets[a]
  <2>1. /\ row.last_seen \in Stamp /\ row.last_seen <= heard[a] + MaxSkew
        /\ heard[a] \in 0..MaxTime
    BY Parts DEF SeenWhenHeard, Shapes
  <2>2. row.last_seen # Never /\ now - row.last_seen > StaleAfter
    BY <2>1, Times, Parts
  <2> HIDE DEF row
  <2> QED
    BY <2>2 DEF Shown, row
<1> QED
  BY <1>1, Invariance, PTL
=============================================================================
