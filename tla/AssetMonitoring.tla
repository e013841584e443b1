---------------------------- MODULE AssetMonitoring ----------------------------
(***************************************************************************)
(* What the system knows about its assets and what it shows: polls         *)
(* (services/polling.py), batches of edge telemetry                        *)
(* (ingestion/telemetry.py, services/telemetry_processor.py), the          *)
(* operators' requests (routers/assets.py) and calculate_asset_status      *)
(* (services/asset_status.py).                                             *)
(*                                                                         *)
(* A request is one database session.  A bulk poll selects its assets at   *)
(* once and then, asset by asset, waits for the ping and flushes; a batch  *)
(* selects, checks and flushes payload by payload.  A flush takes the      *)
(* row's lock until the commit, a SELECT takes none: whatever commits      *)
(* between the two is overwritten, but only in the columns that differ     *)
(* from the loaded ones.  Two sessions can wait for one another's rows.    *)
(*                                                                         *)
(* The alerts a report raises are AlertDedup's subject.  mark_stale_assets *)
(* and poll_org_assets are called by no handler and no worker.             *)
(***************************************************************************)
EXTENDS Integers, Sequences, FiniteSets

CONSTANTS
  Asset,       \* ids of assets
  Session,     \* database sessions that run at a time
  Gone,        \* the row does not exist
  Never,       \* last_seen IS NULL
  StaleAfter,  \* STALE_AFTER (15 minutes)
  Offset,      \* how far the agents' clocks may be ahead of the server's
  MaxSkew,     \* telemetry_max_clock_skew_seconds (5 minutes)
  BatchLimit,  \* payloads of a batch (250), assets of a bulk poll (25)
  MaxRequests, \* bound: requests started
  MaxTime      \* bound: the clock stops here

ASSUME AssetAssumption == IsFiniteSet(Asset)
ASSUME TimeAssumption == {StaleAfter, MaxSkew, MaxTime} \subseteq Nat /\ Offset \subseteq Int
ASSUME BoundAssumption == {BatchLimit, MaxRequests} \subseteq Nat \ {0}

AssetStatus == {"online", "offline", "degraded", "unknown"}

Stamp == (-MaxSkew)..(MaxTime + MaxSkew)

Row == [status: AssetStatus, last_seen: Stamp \cup {Never}]
Column == {"status", "last_seen"}

ASSUME NullAssumption == Gone \notin Row \cup AssetStatus /\ Never \notin Stamp

VARIABLES
  now,      \* the clock
  assets,   \* the committed assets rows
  session,  \* what each session holds
  started,  \* requests started
  verdict,  \* history: per asset, the status its last writer meant, and whether
            \* another session wrote the row since that writer had loaded it
  heard,    \* history: per asset, when the last report that sets last_seen committed
  edited    \* history: the assets whose last_seen an operator wrote

vars == <<now, assets, session, started, verdict, heard, edited>>

(***************************************************************************)
(* A session: its request's op, the clock at its arrival, the rows as it   *)
(* sees them, the columns it wrote of each, the rows it locked, what is    *)
(* left to do, the report in hand and the assets another session wrote     *)
(* since this one loaded them (history).                                   *)
(***************************************************************************)
Unseen == [a \in Asset |-> Gone]
Untouched == [a \in Asset |-> {}]
NoReport == [asset |-> Gone]

Idle == [op |-> "none", pc |-> "idle", arrived |-> 0, view |-> Unseen,
         dirty |-> Untouched, locks |-> {}, todo |-> <<>>, report |-> NoReport,
         meant |-> Unseen, raced |-> {}]

NoVerdict == [status |-> "unknown", raced |-> FALSE]

\* Assets that create_asset, which takes no status, left without a last_seen.
Init ==
  /\ now = 0
  /\ assets \in [Asset -> {[status |-> "unknown", last_seen |-> Never]}]
  /\ session = [s \in Session |-> Idle]
  /\ started = 0
  /\ verdict = [a \in Asset |-> NoVerdict]
  /\ heard = [a \in Asset |-> Never]
  /\ edited = {}

Tick ==
  /\ now < MaxTime
  /\ now' = now + 1
  /\ UNCHANGED <<assets, session, started, verdict, heard, edited>>

-----------------------------------------------------------------------------
(* Requests arrive.                                                        *)

Begin(s, op, pc, view, todo) ==
  /\ session[s].pc = "idle"
  /\ started < MaxRequests
  /\ started' = started + 1
  /\ session' = [session EXCEPT ![s] = [Idle EXCEPT
       !.op = op, !.pc = pc, !.arrived = IF op = "telemetry" THEN now ELSE 0,
       !.view = view, !.todo = todo]]
  /\ UNCHANGED <<now, assets, verdict, heard, edited>>

Existing == {a \in Asset : assets[a] # Gone}

Loaded(wanted) == [a \in Asset |-> IF a \in wanted THEN assets[a] ELSE Gone]

\* Every order in which a SELECT without ORDER BY may return these rows.
Orders(wanted) ==
  {order \in [1..Cardinality(wanted) -> wanted] :
     \A i, j \in DOMAIN order : order[i] = order[j] => i = j}

\* poll_asset_endpoint, poll_assets_bulk
Poll(s) ==
  \E wanted \in SUBSET Existing \ {{}} :
    /\ Cardinality(wanted) <= BatchLimit
    /\ \E order \in Orders(wanted) : Begin(s, "poll", "working", Loaded(wanted), order)

\* ingest_metrics, after authenticate_agent
IngestMetrics(s) == Begin(s, "telemetry", "working", Unseen, <<>>)

\* update_asset, delete_asset
LoadAsset(s, op, a) ==
  /\ a \in Existing
  /\ Begin(s, op, "working", Loaded({a}), <<a>>)

-----------------------------------------------------------------------------
(* Reports.                                                                *)

\* The next asset of a poll answers its ping, or does not.
Ping(s, up) ==
  /\ session[s].op = "poll" /\ session[s].pc = "working" /\ session[s].todo # <<>>
  /\ session' = [session EXCEPT
       ![s].pc = "storing", ![s].todo = Tail(@),
       ![s].report = [asset |-> Head(session[s].todo), up |-> up, stamp |-> now]]
  /\ UNCHANGED <<now, assets, started, verdict, heard, edited>>

Distance(t, u) == IF t < u THEN u - t ELSE t - u

InWindow(s, stamp) == Distance(session[s].arrived, stamp) <= MaxSkew

(***************************************************************************)
(* The next payload of a batch finds its asset (a payload that finds none  *)
(* is passed over).  A session that wrote the row sees what it wrote.      *)
(***************************************************************************)
TakePayload(s, a, up, stamp) ==
  /\ session[s].op = "telemetry" /\ session[s].pc = "working"
  /\ Len(session[s].todo) < BatchLimit
  /\ InWindow(s, stamp)
  /\ assets[a] # Gone
  /\ session' = [session EXCEPT
       ![s].pc = "storing", ![s].todo = Append(@, a),
       ![s].view[a] = IF a \in session[s].locks THEN @ ELSE assets[a],
       ![s].raced = IF a \in session[s].locks THEN @ ELSE @ \ {a},
       ![s].report = [asset |-> a, up |-> up, stamp |-> stamp]]
  /\ UNCHANGED <<now, assets, started, verdict, heard, edited>>

\* mutant: a degraded asset stays degraded while it answers
KeepDegraded(row, op, report) ==
  [status |-> IF ~report.up THEN "offline"
              ELSE IF row.status = "degraded" THEN "degraded" ELSE "online",
   last_seen |-> IF op = "poll" /\ ~report.up THEN row.last_seen ELSE report.stamp]

\* poll_asset and process_asset_telemetry: a failed poll leaves last_seen alone.
Reported(row, op, report) ==
  [status |-> IF report.up THEN "online" ELSE "offline",
   last_seen |-> IF op = "poll" /\ ~report.up THEN row.last_seen ELSE report.stamp]

Free(s, a) == \A t \in Session \ {s} : a \notin session[t].locks

\* Columns whose value differs from the loaded one; the instant of a poll always does.
Changed(row, new, op, report) ==
  {c \in Column : \/ new[c] # row[c]
                  \/ c = "last_seen" /\ op = "poll" /\ report.up}

(***************************************************************************)
(* The flush.  A poll's last_polled_at makes it write every row; a payload *)
(* that repeats what the row says may find nothing to write.               *)
(***************************************************************************)
Store(s) ==
  LET report == session[s].report
      a == report.asset
      row == session[s].view[a]
      new == Reported(row, session[s].op, report)
      changed == Changed(row, new, session[s].op, report)
  IN /\ session[s].pc = "storing"
     /\ assets[a] # Gone
     /\ \E writes \in BOOLEAN :
          /\ changed # {} \/ session[s].op = "poll" => writes
          /\ writes => Free(s, a)
          /\ session' = [session EXCEPT
               ![s].pc = "working", ![s].report = NoReport,
               ![s].view[a] = new, ![s].dirty[a] = @ \cup changed,
               ![s].locks = IF writes THEN @ \cup {a} ELSE @,
               ![s].meant[a] = IF report.up THEN "online" ELSE "offline"]
     /\ UNCHANGED <<now, assets, started, verdict, heard, edited>>

\* mutant: a refused request keeps what it locked
AnswerLocked(s) ==
  session' = [session EXCEPT ![s] = [Idle EXCEPT !.locks = session[s].locks]]

Answer(s) == session' = [session EXCEPT ![s] = Idle]

\* Other sessions that had loaded a row written here, and hold no lock on it.
AnswerAndRace(s, written) ==
  session' = [t \in Session |->
    IF t = s THEN Idle
    ELSE [session[t] EXCEPT !.raced = @ \cup
            {a \in written : session[t].view[a] # Gone /\ a \notin session[t].locks}]]

\* mutant: the whole loaded row is written
WriteBackAll(row, view, columns) == view

WriteBack(row, view, columns) ==
  [c \in Column |-> IF c \in columns THEN view[c] ELSE row[c]]

\* The commit of a poll or a batch.
CommitReports(s) ==
  LET reported == {a \in Asset : session[s].meant[a] # Gone}
      spoke == {a \in reported : "last_seen" \in session[s].dirty[a]}
  IN /\ session[s].op \in {"poll", "telemetry"} /\ session[s].pc = "working"
     /\ session[s].op = "poll" => session[s].todo = <<>>
     /\ assets' = [a \in Asset |->
          IF a \in reported /\ assets[a] # Gone
          THEN WriteBack(assets[a], session[s].view[a], session[s].dirty[a]) ELSE assets[a]]
     /\ verdict' = [a \in Asset |->
          IF a \in reported
          THEN [status |-> session[s].meant[a], raced |-> a \in session[s].raced]
          ELSE verdict[a]]
     /\ heard' = [a \in Asset |-> IF a \in spoke THEN now ELSE heard[a]]
     /\ edited' = edited \ spoke
     /\ AnswerAndRace(s, reported)
     /\ UNCHANGED <<now, started>>

\* The next payload is another agent's, outside the window or malformed.
RejectBatch(s) ==
  /\ session[s].op = "telemetry" /\ session[s].pc = "working"
  /\ Len(session[s].todo) < BatchLimit
  /\ Answer(s)
  /\ UNCHANGED <<now, assets, started, verdict, heard, edited>>

-----------------------------------------------------------------------------
(* Operators.                                                              *)

\* The columns a PATCH sets, and to what.
Update ==
  [{"status"} -> AssetStatus]
    \cup [{"last_seen"} -> {Never, now}]
    \cup [status: AssetStatus, last_seen: {Never, now}]

\* The loaded row with the columns of the PATCH set.
Patched(row, update) ==
  [c \in Column |-> IF c \in DOMAIN update THEN update[c] ELSE row[c]]

\* update_asset: the flush, and the refresh that needs the row to be there still.
EditAsset(s, update) ==
  LET a == Head(session[s].todo)
      row == session[s].view[a]
      set == DOMAIN update
      new == Patched(row, update)
      changed == {c \in Column : new[c] # row[c]}
  IN /\ session[s].op = "edit"
     /\ assets[a] # Gone
     /\ changed # {} => Free(s, a)
     /\ assets' = [assets EXCEPT ![a] = WriteBack(@, new, changed)]
     /\ verdict' = IF "status" \notin set THEN verdict
                   ELSE [verdict EXCEPT ![a] =
                          [status |-> update.status, raced |-> a \in session[s].raced]]
     /\ edited' = edited \cup {a : c \in set \cap {"last_seen"}}
     /\ AnswerAndRace(s, {a})
     /\ UNCHANGED <<now, started, heard>>

DeleteAsset(s) ==
  LET a == Head(session[s].todo)
  IN /\ session[s].op = "delete" /\ session[s].pc = "working"
     /\ Free(s, a)
     /\ assets' = [assets EXCEPT ![a] = Gone]
     /\ AnswerAndRace(s, {a})
     /\ UNCHANGED <<now, started, verdict, heard, edited>>

-----------------------------------------------------------------------------
(* Failures: everything the session wrote is rolled back.                  *)

\* The row to update is gone, or a radio interface still refers to the one to delete.
FlushFails(s) ==
  /\ \/ session[s].pc = "storing" /\ assets[session[s].report.asset] = Gone
     \/ session[s].op = "edit" /\ assets[Head(session[s].todo)] = Gone
     \/ session[s].op = "delete"
  /\ Answer(s)
  /\ UNCHANGED <<now, assets, started, verdict, heard, edited>>

WaitsFor(s, t) == session[s].pc = "storing" /\ session[s].report.asset \in session[t].locks

\* s waits, through any number of others, for itself.
InLockCycle(s) ==
  \A S \in SUBSET Session :
    (\A t \in S \cup {s} : \A u \in Session \ {t} : WaitsFor(t, u) => u \in S) => s \in S

\* PostgreSQL ends a cycle of waits by failing one of its transactions.
DeadlockVictim(s) ==
  /\ InLockCycle(s)
  /\ Answer(s)
  /\ UNCHANGED <<now, assets, started, verdict, heard, edited>>

-----------------------------------------------------------------------------
Arrive(s) ==
  \/ Poll(s)
  \/ IngestMetrics(s)
  \/ \E op \in {"edit", "delete"}, a \in Asset : LoadAsset(s, op, a)

Proceed(s) ==
  \/ \E up \in BOOLEAN : Ping(s, up)
  \/ \E a \in Asset, up \in BOOLEAN, offset \in Offset :
       TakePayload(s, a, up, session[s].arrived + offset)
  \/ Store(s)
  \/ CommitReports(s)
  \/ RejectBatch(s)
  \/ \E update \in Update : EditAsset(s, update)
  \/ DeleteAsset(s)
  \/ FlushFails(s)
  \/ DeadlockVictim(s)

Next ==
  \/ Tick
  \/ \E s \in Session : Arrive(s) \/ Proceed(s)

Spec == Init /\ [][Next]_vars

\* The event loop runs what it can; pings and lock waits time out.
FairSpec == Spec /\ \A s \in Session : WF_vars(Proceed(s))

-----------------------------------------------------------------------------
(* What is shown.                                                          *)

\* mutant: alerts are looked at before last_seen
AlertsFirst(row, severity, clock) ==
  CASE row.status = "offline" -> "offline"
    [] severity \in {"critical", "high", "medium"} -> "degraded"
    [] row.last_seen # Never /\ clock - row.last_seen > StaleAfter -> "offline"
    [] row.last_seen # Never -> "online"
    [] OTHER -> IF row.status = "degraded" THEN "unknown" ELSE row.status

Severity == {"none", "low", "medium", "high", "critical"}

\* calculate_asset_status, for the worst severity of the asset's active alerts
Shown(row, severity, clock) ==
  CASE row.status = "offline" -> "offline"
    [] row.status # "offline" /\ row.last_seen # Never
         /\ clock - row.last_seen > StaleAfter -> "offline"
    [] OTHER -> IF severity \in {"critical", "high", "medium"} THEN "degraded"
                ELSE IF row.last_seen # Never THEN "online"
                ELSE IF row.status = "degraded" THEN "unknown" ELSE row.status

-----------------------------------------------------------------------------
(* Properties.                                                             *)

TypeOK ==
  /\ now \in 0..MaxTime
  /\ assets \in [Asset -> Row \cup {Gone}]
  /\ started \in 0..MaxRequests
  /\ verdict \in [Asset -> [status: AssetStatus, raced: BOOLEAN]]
  /\ heard \in [Asset -> 0..MaxTime \cup {Never}]
  /\ edited \subseteq Asset
  /\ \A s \in Session :
       /\ DOMAIN session[s] = DOMAIN Idle
       /\ session[s].view \in [Asset -> Row \cup {Gone}]
       /\ session[s].dirty \in [Asset -> SUBSET Column]
       /\ session[s].todo \in Seq(Asset)
       /\ {session[s].locks, session[s].raced} \subseteq SUBSET Asset

(***************************************************************************)
(* The status of an asset is the one its last report or edit meant, even   *)
(* though an UPDATE leaves a status that equals the loaded one out: unless *)
(* another session wrote the row between that writer's SELECT and commit.  *)
(***************************************************************************)
StatusIsLastVerdict ==
  TypeOK /\ \A a \in Asset :
    assets[a] # Gone /\ ~verdict[a].raced => assets[a].status = verdict[a].status

(***************************************************************************)
(* An asset nobody hears of goes dark, whatever alerts it has: once no     *)
(* report that stamps it has committed for STALE_AFTER plus the clock skew *)
(* telemetry may have, it is shown offline (operators' stamps apart).      *)
(***************************************************************************)
SilentAssetGoesDark ==
  \A a \in Asset \ edited :
    assets[a] # Gone /\ heard[a] # Never /\ now > heard[a] + StaleAfter + MaxSkew
      => \A severity \in Severity : Shown(assets[a], severity, now) = "offline"

(***************************************************************************)
(* Every request is answered, though bulk polls and batches lock rows in   *)
(* any order and hold them while they wait for pings and other rows.       *)
(***************************************************************************)
EveryRequestEnds == \A s \in Session : session[s].pc # "idle" ~> session[s].pc = "idle"
=============================================================================
