------------------------------ MODULE AlertDedup ------------------------------
(***************************************************************************)
(* Deduplication of the alerts the detectors raise: asset and radio polls  *)
(* (services/polling.py), edge telemetry (services/telemetry_processor.py),*)
(* syslog (routers/syslog.py) and field measurements                       *)
(* (routers/field_measurements.py).                                        *)
(*                                                                         *)
(* Each of them builds a dedupe key, selects an unresolved alert with that *)
(* key and either counts one more occurrence on it or inserts a new alert. *)
(* alerts.dedupe_key is not unique, so what keeps two sessions apart is    *)
(* only the row of the polled device: the ORM flushes the device's changed *)
(* columns before it runs the SELECT (autoflush), and the UPDATE's row     *)
(* lock is held until the commit.  A detector that changes no column sends *)
(* no UPDATE and takes no lock.                                            *)
(*                                                                         *)
(* A session is get_db's: load the device, wait for the device's answer,   *)
(* flush and select, commit.  Operators change an alert's status meanwhile *)
(* or delete it (routers/alerts.py, routers/incidents.py): AlertWorkflow   *)
(* has the detail.                                                         *)
(***************************************************************************)
EXTENDS Naturals, Sequences, FiniteSets

CONSTANTS
  Asset,         \* assets rows
  Radio,         \* radio_devices rows
  Source,        \* addresses syslog messages come from
  Link,          \* wireless links measurements are taken on
  Session,       \* database sessions of the detectors
  MaxDetections, \* bound: detections started
  MaxChanges     \* bound: operator changes and deletions of an alert

ASSUME BoundAssumption == MaxDetections \in Nat /\ MaxChanges \in Nat
ASSUME SessionAssumption == IsFiniteSet(Session)
ASSUME DeviceAssumption == (Asset \cup Radio) \cap (Source \cup Link) = {}

Device == Asset \cup Radio \cup Source \cup Link

\* A dedupe key: the rule and the device it is about.
AssetKeys == {"polling_offline", "telemetry_down"} \X Asset
RadioKeys == {"polling_offline", "radio_adapter"} \X Radio
Key == AssetKeys \cup RadioKeys \cup ({"syslog"} \X Source) \cup ({"wireless_health"} \X Link)

\* The keys whose detector always stamps the device's row with the time of its poll
\* (assets.last_polled_at, radio_devices.last_seen), and so always locks it.
SerialKeys == ({"polling_offline"} \X Asset) \cup ({"radio_adapter"} \X Radio)

Status == {"open", "acknowledged", "escalated", "resolved"}

\* What a poll or a telemetry payload stores in the device's row.
Answer == {"unknown", "online", "offline"}

VARIABLES
  alerts,   \* alerts rows in the order they were committed; a deleted one keeps its place
  answer,   \* the polled columns of each asset and radio
  session,  \* the detectors' sessions
  counted,  \* history: detections committed for each key
  started,  \* detections started
  changes   \* operator changes and deletions made

vars == <<alerts, answer, session, counted, started, changes>>

AlertRow == [key: Key, status: Status \cup {"deleted"}, occurrence_count: Nat \ {0},
             revived: BOOLEAN]  \* history: an operator made it active again

NoKey == <<>>
Idle == [pc |-> "idle", key |-> NoKey, result |-> "unknown", loaded |-> "unknown",
         locks |-> FALSE, found |-> 0, seen |-> 0, raced |-> FALSE]

Init ==
  /\ alerts = <<>>
  /\ answer = [d \in Asset \cup Radio |-> "unknown"]
  /\ session = [s \in Session |-> Idle]
  /\ counted = [k \in Key |-> 0]
  /\ started = 0
  /\ changes = 0

Polled(key) == key[2] \in Asset \cup Radio

\* mutant: resolved alerts absorb detections too
ActiveStatusAll(key) == Status

\* The statuses each SELECT takes for active.
ActiveStatus(key) ==
  IF key[1] = "wireless_health" THEN {"open", "acknowledged"}
  ELSE {"open", "acknowledged", "escalated"}

Matches(key) ==
  {n \in DOMAIN alerts : alerts[n].key = key /\ alerts[n].status \in ActiveStatus(key)}

(***************************************************************************)
(* A detection begins: the device's row is loaded, then the device is      *)
(* pinged or its payload is read.  A syslog message or a measurement that  *)
(* raises no alert is left out.                                            *)
(***************************************************************************)
Detect(s, key, result) ==
  /\ session[s].pc = "idle"
  /\ started < MaxDetections
  /\ Polled(key) \/ result = "offline"
  /\ key[1] = "radio_adapter" => result = "online"
  /\ started' = started + 1
  /\ session' = [session EXCEPT ![s] =
       [Idle EXCEPT !.pc = "waiting", !.key = key, !.result = result,
                    !.loaded = IF Polled(key) THEN answer[key[2]] ELSE "unknown"]]
  /\ UNCHANGED <<alerts, answer, counted, changes>>

\* mutant: sessions without autoflush
NeverWrites(s) == {FALSE}

\* mutant: a poll that stores no time stamp writes the device only when its answer changes
WritesOnChange(s) ==
  IF Polled(session[s].key) THEN {session[s].result # session[s].loaded} ELSE {FALSE}

(***************************************************************************)
(* Whether the flush before the SELECT updates the device's row.  A new    *)
(* answer does, and so does the time stamp of an asset's poll or of a      *)
(* radio that was reached.  With the answer it was loaded with, a payload  *)
(* that repeats the stamp and the agent of the last one changes nothing,   *)
(* nor does a radio unreachable for the reason stored last time.           *)
(***************************************************************************)
WritesDevice(s) ==
  LET key == session[s].key
      stamped == key[1] # "telemetry_down" /\ (key[2] \in Asset \/ session[s].result = "online")
  IN IF ~ Polled(key) THEN {FALSE}
     ELSE IF stamped \/ session[s].result # session[s].loaded THEN {TRUE}
     ELSE BOOLEAN

RowFree(s, device) ==
  \A t \in Session \ {s} : session[t].locks => session[t].key[2] # device

Raises(s) == session[s].result = "offline" \/ session[s].key[1] = "radio_adapter"

\* The polled columns when the session commits: one that keeps its loaded value is not in the UPDATE.
Stored(s) ==
  IF Polled(session[s].key) /\ session[s].result # session[s].loaded
  THEN [answer EXCEPT ![session[s].key[2]] = session[s].result] ELSE answer

\* mutant: the answer is stored and the alert forgotten
StoreAnyAnswer(s) ==
  /\ session[s].pc = "waiting"
  /\ Polled(session[s].key)
  /\ \E locks \in WritesDevice(s) : locks => RowFree(s, session[s].key[2])
  /\ answer' = Stored(s)
  /\ session' = [session EXCEPT ![s] = Idle]
  /\ UNCHANGED <<alerts, counted, started, changes>>

\* A detector that raises nothing: the device answered.
StoreAnswer(s) ==
  /\ session[s].pc = "waiting"
  /\ ~ Raises(s)
  /\ \E locks \in WritesDevice(s) : locks => RowFree(s, session[s].key[2])
  /\ answer' = Stored(s)
  /\ session' = [session EXCEPT ![s] = Idle]
  /\ UNCHANGED <<alerts, counted, started, changes>>

(***************************************************************************)
(* The flush, then the SELECT by dedupe key.  db.scalar takes any of the   *)
(* matching rows; a measurement's scalar_one_or_none raises when there are *)
(* several, and the request fails with everything it wrote.                *)
(***************************************************************************)
SelectAlert(s) ==
  LET key == session[s].key
  IN /\ session[s].pc = "waiting"
     /\ Raises(s)
     /\ key[1] = "wireless_health" => Cardinality(Matches(key)) <= 1
     /\ \E locks \in WritesDevice(s), n \in Matches(key) \cup {0} :
          /\ locks => RowFree(s, key[2])
          /\ n = 0 <=> Matches(key) = {}
          /\ session' = [session EXCEPT
               ![s].pc = "selected", ![s].locks = locks, ![s].found = n,
               ![s].seen = IF n = 0 THEN 0 ELSE alerts[n].occurrence_count]
     /\ UNCHANGED <<alerts, answer, counted, started, changes>>

\* create_health_alert_if_needed, of a measurement posted or patched, on two matching rows:
\* MultipleResultsFound.
MeasurementFails(s) ==
  /\ session[s].pc = "waiting"
  /\ session[s].key[1] = "wireless_health"
  /\ Cardinality(Matches(session[s].key)) > 1
  /\ session' = [session EXCEPT ![s] = Idle]
  /\ UNCHANGED <<alerts, answer, counted, started, changes>>

\* The alert a session has found is deleted: the UPDATE of its count matches no row.
FoundDeleted(s) == session[s].found # 0 /\ alerts[session[s].found].status = "deleted"

\* The upsert: one more occurrence on the row found, or a new alert; commit.
CommitDetection(s) ==
  LET key == session[s].key
  IN /\ session[s].pc = "selected"
     /\ ~ FoundDeleted(s)
     /\ alerts' = IF session[s].found = 0
                  THEN Append(alerts, [key |-> key, status |-> "open",
                                       occurrence_count |-> 1, revived |-> FALSE])
                  ELSE [alerts EXCEPT ![session[s].found].occurrence_count =
                                        session[s].seen + 1]
     /\ answer' = Stored(s)
     /\ counted' = [counted EXCEPT ![key] = @ + 1]
     /\ session' = [session EXCEPT ![s] = Idle]
     /\ UNCHANGED <<started, changes>>

\* StaleDataError: everything the session wrote is rolled back.
DetectionFails(s) ==
  /\ session[s].pc = "selected"
  /\ FoundDeleted(s)
  /\ session' = [session EXCEPT ![s] = Idle]
  /\ UNCHANGED <<alerts, answer, counted, started, changes>>

\* The sessions, once an operator has committed a change of the alert n.
Raced(n) ==
  [s \in Session |-> [session[s] EXCEPT
     !.raced = @ \/ (session[s].pc = "selected" /\ session[s].found = n)]]

(***************************************************************************)
(* An operator's request moves an alert: acknowledge and escalate refuse a *)
(* resolved one, resolve takes any, PATCH and link take any to any.        *)
(***************************************************************************)
OperatorMoves(n, status) ==
  /\ changes < MaxChanges
  /\ alerts[n].status \notin {status, "deleted"}
  /\ alerts' = [alerts EXCEPT ![n].status = status,
       ![n].revived = @ \/ /\ alerts[n].status \notin ActiveStatus(alerts[n].key)
                           /\ status \in ActiveStatus(alerts[n].key)]
  /\ session' = Raced(n)
  /\ changes' = changes + 1
  /\ UNCHANGED <<answer, counted, started>>

\* delete_alert.  A detector that has updated the row makes the DELETE wait for its commit.
DeleteAlert(n) ==
  /\ changes < MaxChanges
  /\ alerts[n].status # "deleted"
  /\ alerts' = [alerts EXCEPT ![n].status = "deleted"]
  /\ session' = Raced(n)
  /\ changes' = changes + 1
  /\ UNCHANGED <<answer, counted, started>>

Next ==
  \/ \E s \in Session, key \in Key, result \in {"online", "offline"} : Detect(s, key, result)
  \/ \E s \in Session : \/ StoreAnswer(s)
                        \/ SelectAlert(s)
                        \/ MeasurementFails(s)
                        \/ CommitDetection(s)
                        \/ DetectionFails(s)
  \/ \E n \in DOMAIN alerts, status \in Status : OperatorMoves(n, status)
  \/ \E n \in DOMAIN alerts : DeleteAlert(n)

Spec == Init /\ [][Next]_vars

-----------------------------------------------------------------------------
(* Properties.                                                             *)

\* Every variable keeps its shape.
TypeOK ==
  /\ alerts \in Seq(AlertRow)
  /\ answer \in [Asset \cup Radio -> Answer]
  /\ \A s \in Session :
       /\ DOMAIN session[s] = DOMAIN Idle
       /\ session[s].pc \in {"idle", "waiting", "selected"}
       /\ session[s].key \in Key \cup {NoKey}
       /\ session[s].found \in 0 .. Len(alerts)
  /\ counted \in [Key -> 0 .. MaxDetections]

\* An alert no operator has brought back, in a status its detector takes for active.
Standing(key) ==
  {n \in DOMAIN alerts :
     /\ alerts[n].key = key
     /\ ~ alerts[n].revived
     /\ alerts[n].status \in {"open", "acknowledged"}
          \cup (IF key[1] = "wireless_health" THEN {} ELSE {"escalated"})}

(***************************************************************************)
(* Alerts do not multiply.  A key whose detector always stamps its device  *)
(* (an asset's poll, a reached radio) has at most one active alert however *)
(* sessions interleave, because the row lock orders their SELECTs.  A key  *)
(* whose detector may leave the row alone (a repeated telemetry payload, a *)
(* radio that stays unreachable) or has no such row has at most one for    *)
(* every session that ran at once.  Alerts an operator reopened do not     *)
(* count.                                                                  *)
(***************************************************************************)
DuplicatesAreBounded ==
  TypeOK /\ \A key \in Key :
    Cardinality(Standing(key)) <= IF key \in SerialKeys THEN 1 ELSE Cardinality(Session)

\* The alerts of a key, deleted ones too, and the detections they stand for: each its count.
AlertsOf(key) == {n \in DOMAIN alerts : alerts[n].key = key}
Occurrences(key) == UNION {{n} \X (1 .. alerts[n].occurrence_count) : n \in AlertsOf(key)}

(***************************************************************************)
(* The occurrence counts of an asset's unreachable alerts, and of a        *)
(* radio's adapter alerts, add up to the detections committed for them, a  *)
(* deleted alert's count taken as it stood.  For the other keys concurrent *)
(* detections may lose an increment, but the counts never exceed the       *)
(* detections.                                                             *)
(***************************************************************************)
OccurrencesCountDetections ==
  \A key \in Key :
    LET sum == Cardinality(Occurrences(key))
    IN /\ key \in SerialKeys => sum = counted[key]
       /\ sum <= counted[key]

(***************************************************************************)
(* A detection that ends leaves an active alert of its key behind, unless  *)
(* an operator moved or deleted the alert it had selected: detections are  *)
(* not absorbed by alerts already closed.                                  *)
(***************************************************************************)
DetectionLeavesActiveAlert ==
  [][\A s \in Session :
       session[s].pc = "selected" /\ session'[s].pc = "idle" /\ ~ session[s].raced
       => \E n \in DOMAIN alerts' :
            /\ alerts'[n].key = session[s].key
            /\ alerts'[n].status \notin {"resolved", "deleted"}]_vars

\* What says that a device is unreachable, and whether an operator has deleted one that did.
SaysOffline(d) ==
  {n \in DOMAIN alerts : /\ alerts[n].key \in {<<"polling_offline", d>>, <<"telemetry_down", d>>}
                         /\ alerts[n].status # "deleted"}
DeletedOffline(d) ==
  \E n \in DOMAIN alerts : /\ alerts[n].key \in {<<"polling_offline", d>>, <<"telemetry_down", d>>}
                           /\ alerts[n].status = "deleted"

(***************************************************************************)
(* A device recorded as unreachable has an alert that says so, the row and *)
(* the alert being committed together, unless an operator has deleted one: *)
(* a deletion is the only way for an unreachable device to be without.     *)
(***************************************************************************)
OfflineDeviceHasAlert ==
  \A d \in Asset \cup Radio :
    answer[d] = "offline" => SaysOffline(d) # {} \/ DeletedOffline(d)

\* Sessions that will commit a detection of a key, and those of them that will insert an alert.
Selected(key) ==
  {s \in Session : session[s].pc = "selected" /\ session[s].key = key /\ ~ FoundDeleted(s)}
Inserting(key) ==
  {s \in Session : session[s].pc = "selected" /\ session[s].key = key /\ session[s].found = 0}

\* A key's alerts, and those of them that are active, with those about to be inserted; the
\* detections committed or about to be.
Present(key) == {n \in AlertsOf(key) : alerts[n].status # "deleted"}
Raised(key) == Cardinality(Present(key)) + Cardinality(Inserting(key))
Active(key) == Cardinality(Matches(key)) + Cardinality(Inserting(key))
Total(key) == Cardinality(Occurrences(key)) + Cardinality(Selected(key))

Upsert == INSTANCE AtomicUpsert WITH
  Key <- SerialKeys,
  raised <- [key \in SerialKeys |-> Raised(key)],
  active <- [key \in SerialKeys |-> Active(key)],
  total <- [key \in SerialKeys |-> Total(key)]

(***************************************************************************)
(* The detections of a serial key are atomic: they take effect at the      *)
(* SELECT, from when on the device's row lock keeps others of the key out, *)
(* as if what the session is going to commit were there already.  Deleting *)
(* the alert it has found undoes the one in progress.                      *)
(***************************************************************************)
DetectionsAreAtomic == Upsert!Spec
=============================================================================
