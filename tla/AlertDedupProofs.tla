---------------------------- MODULE AlertDedupProofs ----------------------------
(***************************************************************************)
(* Invariance proofs for AlertDedup, for every set of devices and every    *)
(* finite set of sessions.                                                 *)
(*                                                                         *)
(* A session that has selected and found nothing will insert an alert.     *)
(* What is bounded is the number of standing alerts and of such sessions   *)
(* together: one joins only when nothing stands, and a commit turns one    *)
(* into the other.  The row lock of a device that every poll stamps lets   *)
(* one session at a time join.                                             *)
(***************************************************************************)
EXTENDS AlertDedup, FiniteSetTheorems, TLAPS

SessionRow == [pc : {"idle", "waiting", "selected"}, key : Key \cup {NoKey},
               result : Answer, loaded : Answer, locks : BOOLEAN,
               found : Nat, seen : Nat, raced : BOOLEAN]

Shapes ==
  /\ alerts \in Seq(AlertRow)
  /\ answer \in [Asset \cup Radio -> Answer]
  /\ session \in [Session -> SessionRow]
  /\ counted \in [Key -> Nat]
  /\ started \in 0..MaxDetections

\* What a detector knows of its key.
Keyed(r) ==
  /\ r.pc # "idle" => r.key \in Key /\ (r.key[1] = "radio_adapter" => r.result = "online")
  /\ r.pc # "selected" => r.locks = FALSE /\ r.found = 0
  /\ r.pc = "selected" => r.result = "offline" \/ r.key[1] = "radio_adapter"
  /\ r.pc = "selected" /\ r.key \in SerialKeys => r.locks = TRUE

\* The alert it found has its key, and is active unless an operator moved it.
Found(r) ==
  /\ r.found \in 0..Len(alerts)
  /\ r.found # 0 =>
       /\ alerts[r.found].key = r.key
       /\ r.raced = TRUE \/ alerts[r.found].status \in ActiveStatus(r.key)

\* Sessions that will count a detection.
Detecting(key) == {s \in Session : session[s].pc # "idle" /\ session[s].key = key}

Limit(key) == IF key \in SerialKeys THEN 1 ELSE Cardinality(Session)

Bounded ==
  \A key \in Key : Cardinality(Standing(key)) + Cardinality(Inserting(key)) <= Limit(key)

CountedStarted ==
  \A key \in Key : counted[key] + Cardinality(Detecting(key)) <= started

IInv ==
  /\ Shapes
  /\ \A s \in Session : Keyed(session[s]) /\ Found(session[s])
  /\ Bounded /\ CountedStarted /\ OfflineDeviceHasAlert

-----------------------------------------------------------------------------
(* Keys, rows and finite sets.                                             *)

LEMMA KeyParts ==
  ASSUME NEW key \in Key
  PROVE  /\ key[2] \in Device
         /\ key \in SerialKeys =>
              /\ Polled(key) /\ key[1] # "telemetry_down"
              /\ key[2] \in Asset \/ key[1] = "radio_adapter"
         /\ key[1] \in {"polling_offline", "telemetry_down", "radio_adapter", "syslog",
                        "wireless_health"}
         /\ key[1] = "radio_adapter" => key[2] \in Radio
         /\ Polled(key) /\ key[1] # "radio_adapter"
              => key \in {<<"polling_offline", key[2]>>, <<"telemetry_down", key[2]>>}
<1>1. CASE key \in AssetKeys
  BY <1>1 DEF AssetKeys, SerialKeys, Polled, Device
<1>2. CASE key \in RadioKeys
  BY <1>2 DEF RadioKeys, SerialKeys, Polled, Device
<1>3. CASE key \in {"syslog"} \X Source
  BY <1>3, DeviceAssumption DEF SerialKeys, Polled, Device
<1>4. CASE key \in {"wireless_health"} \X Link
  BY <1>4, DeviceAssumption DEF SerialKeys, Polled, Device
<1> QED
  BY <1>1, <1>2, <1>3, <1>4 DEF Key

LEMMA NoKeyIsNone == NoKey \notin Key
<1>1. ASSUME NEW k \in Key PROVE DOMAIN k = 1..2
  BY DEF Key, AssetKeys, RadioKeys
<1>2. DOMAIN NoKey = 1..0
  BY DEF NoKey
<1> QED
  BY <1>1, <1>2

LEMMA Parts ==
  ASSUME IInv
  PROVE  /\ Shapes /\ Bounded /\ CountedStarted /\ OfflineDeviceHasAlert
         /\ alerts \in Seq(AlertRow) /\ Len(alerts) \in Nat /\ DOMAIN alerts = 1..Len(alerts)
         /\ started \in Nat
         /\ \A s \in Session : session[s] \in SessionRow /\ Keyed(session[s]) /\ Found(session[s])
<1>1. alerts \in Seq(AlertRow) /\ started \in Nat
  BY BoundAssumption DEF IInv, Shapes
<1>2. Len(alerts) \in Nat /\ DOMAIN alerts = 1..Len(alerts)
  BY <1>1
<1> QED
  BY <1>1, <1>2 DEF IInv, Shapes

LEMMA FoundRow ==
  ASSUME IInv, NEW s \in Session, session[s].found # 0
  PROVE  session[s].found \in DOMAIN alerts
<1>1. Found(session[s]) /\ DOMAIN alerts = 1..Len(alerts) /\ Len(alerts) \in Nat
  BY Parts
<1> QED
  BY <1>1 DEF Found

LEMMA Finite ==
  ASSUME IInv, NEW key
  PROVE  /\ IsFiniteSet(Standing(key)) /\ Cardinality(Standing(key)) \in Nat
         /\ IsFiniteSet(Inserting(key)) /\ Cardinality(Inserting(key)) \in Nat
         /\ IsFiniteSet(Detecting(key)) /\ Cardinality(Detecting(key)) \in Nat
         /\ Cardinality(Session) \in Nat
<1>1. IsFiniteSet(1..Len(alerts))
  BY Parts, FS_Interval
<1>2. Standing(key) \subseteq 1..Len(alerts)
  BY Parts DEF Standing
<1>3. Inserting(key) \subseteq Session /\ Detecting(key) \subseteq Session
  BY DEF Inserting, Detecting
<1> QED
  BY <1>1, <1>2, <1>3, SessionAssumption, FS_Subset, FS_CardinalityType

LEMMA Smaller ==
  ASSUME NEW S, NEW T, S \subseteq T, IsFiniteSet(T)
  PROVE  Cardinality(S) \in Nat /\ Cardinality(T) \in Nat /\ Cardinality(S) <= Cardinality(T)
  BY FS_Subset, FS_CardinalityType

LEMMA OneMore ==
  ASSUME NEW S, NEW T, NEW x, S \subseteq T \cup {x}, IsFiniteSet(T)
  PROVE  Cardinality(S) \in Nat /\ Cardinality(T) \in Nat /\ Cardinality(S) <= Cardinality(T) + 1
<1>1. /\ IsFiniteSet(T \cup {x}) /\ Cardinality(T) \in Nat
      /\ Cardinality(T \cup {x}) <= Cardinality(T) + 1
  BY FS_AddElement, FS_CardinalityType
<1>2. Cardinality(S) \in Nat /\ Cardinality(S) <= Cardinality(T \cup {x})
      /\ Cardinality(T \cup {x}) \in Nat
  BY <1>1, Smaller
<1> QED
  BY <1>1, <1>2

LEMMA OneLess ==
  ASSUME NEW S, NEW T, NEW x \in T, S \subseteq T \ {x}, IsFiniteSet(T)
  PROVE  Cardinality(S) \in Nat /\ Cardinality(T) \in Nat /\ Cardinality(S) + 1 <= Cardinality(T)
<1>1. /\ IsFiniteSet(T \ {x}) /\ Cardinality(T) \in Nat
      /\ Cardinality(T \ {x}) = Cardinality(T) - 1
  BY FS_RemoveElement, FS_CardinalityType
<1>2. Cardinality(S) \in Nat /\ Cardinality(S) <= Cardinality(T \ {x})
  BY <1>1, Smaller
<1> QED
  BY <1>1, <1>2

\* A row says that its device is unreachable, whether or not an operator has deleted it.
SaysSo(key, d) == key \in {<<"polling_offline", d>>, <<"telemetry_down", d>>}

LEMMA OfflineRows ==
  /\ OfflineDeviceHasAlert <=>
       \A d \in Asset \cup Radio : answer[d] = "offline" =>
         \E n \in DOMAIN alerts : SaysSo(alerts[n].key, d)
  /\ OfflineDeviceHasAlert' <=>
       \A d \in Asset \cup Radio : answer'[d] = "offline" =>
         \E n \in DOMAIN alerts' : SaysSo(alerts'[n].key, d)
<1>1. ASSUME NEW d
      PROVE  SaysOffline(d) # {} \/ DeletedOffline(d) <=>
               \E n \in DOMAIN alerts : SaysSo(alerts[n].key, d)
  BY DEF SaysOffline, DeletedOffline, SaysSo
<1>2. ASSUME NEW d
      PROVE  SaysOffline(d)' # {} \/ DeletedOffline(d)' <=>
               \E n \in DOMAIN alerts' : SaysSo(alerts'[n].key, d)
  BY DEF SaysOffline, DeletedOffline, SaysSo
<1> QED
  BY <1>1, <1>2 DEF OfflineDeviceHasAlert

LEMMA InvInit == Init => IInv
<1> SUFFICES ASSUME Init PROVE IInv
    OBVIOUS
<1>1. Idle \in SessionRow /\ Idle.pc = "idle" /\ Idle.locks = FALSE /\ Idle.found = 0
  BY DEF Idle, SessionRow, Answer
<1>2. \A s \in Session : session[s] = Idle
  BY DEF Init
<1>3. alerts \in Seq(AlertRow) /\ Len(alerts) = 0 /\ DOMAIN alerts = {}
  BY DEF Init
<1>4. Shapes
  BY <1>1, <1>3, BoundAssumption DEF Init, Shapes, Answer
<1>5. Keyed(Idle) /\ Found(Idle)
  BY <1>1, <1>3 DEF Keyed, Found
<1>6. \A key \in Key : Standing(key) = {} /\ Inserting(key) = {} /\ Detecting(key) = {}
  BY <1>1, <1>2, <1>3 DEF Standing, Inserting, Detecting
<1>7. Cardinality(Session) \in Nat
  BY SessionAssumption, FS_CardinalityType
<1>8. Bounded /\ CountedStarted
  <2>1. ASSUME NEW key \in Key
        PROVE  /\ Cardinality(Standing(key)) = 0 /\ Cardinality(Inserting(key)) = 0
               /\ Cardinality(Detecting(key)) = 0 /\ counted[key] = 0
    BY <1>6, FS_EmptySet DEF Init
  <2>2. \A key \in Key : Limit(key) \in Nat
    BY <1>7 DEF Limit
  <2>3. started = 0
    BY DEF Init
  <2> QED
    BY <2>1, <2>2, <2>3 DEF Bounded, CountedStarted
<1>9. OfflineDeviceHasAlert
  BY DEF Init, OfflineDeviceHasAlert
<1> QED
  BY <1>2, <1>4, <1>5, <1>8, <1>9 DEF IInv

-----------------------------------------------------------------------------
(* Steps of one session that leave the alerts alone.                       *)

LEMMA SessionStep ==
  ASSUME IInv, NEW s \in Session, NEW r \in SessionRow,
         session' = [session EXCEPT ![s] = r], UNCHANGED <<alerts, counted>>,
         answer' \in [Asset \cup Radio -> Answer], OfflineDeviceHasAlert',
         started' \in 0..MaxDetections,
         Keyed(r), Found(r),
         r.pc # "idle" => \/ r.key = session[s].key /\ session[s].pc # "idle"
                          \/ started' = started + 1,
         started' = started \/ started' = started + 1,
         r.pc = "selected" /\ r.found = 0 =>
           Standing(r.key) = {} /\ (r.key \in SerialKeys => Inserting(r.key) = {})
  PROVE  IInv'
<1>1. /\ \A t \in Session : session'[t] = IF t = s THEN r ELSE session[t]
      /\ session' \in [Session -> SessionRow]
  BY Parts DEF Shapes
<1>2. Shapes'
  BY <1>1, Parts DEF Shapes
<1>3. ASSUME NEW t \in Session PROVE Keyed(session[t])' /\ Found(session[t])'
  <2>1. Keyed(session'[t]) /\ Found(session'[t])
    BY <1>1, Parts
  <2> QED
    BY <2>1 DEF Keyed, Found
<1>4. ASSUME NEW key \in Key
      PROVE  (Cardinality(Standing(key)) + Cardinality(Inserting(key)) <= Limit(key))'
  <2>1. Standing(key)' = Standing(key) /\ Limit(key)' = Limit(key)
    BY DEF Standing, Limit
  <2>2. /\ Cardinality(Standing(key)) + Cardinality(Inserting(key)) <= Limit(key)
        /\ Cardinality(Standing(key)) \in Nat /\ Cardinality(Inserting(key)) \in Nat
        /\ IsFiniteSet(Inserting(key)) /\ Cardinality(Session) \in Nat
    BY Parts, Finite DEF Bounded
  <2>3. CASE r.pc = "selected" /\ r.found = 0 /\ r.key = key
    <3>1. Cardinality(Standing(key)) = 0
      BY <2>3, FS_EmptySet
    <3>2. CASE key \in SerialKeys
      <4>1. Inserting(key) = {}
        BY <2>3, <3>2
      <4>2. Inserting(key)' \subseteq {} \cup {s}
        BY <4>1, <1>1 DEF Inserting
      <4>3. Cardinality(Inserting(key)') \in Nat /\ Cardinality(Inserting(key)') <= 0 + 1
        BY <4>2, OneMore, FS_EmptySet
      <4> QED
        BY <2>1, <3>1, <3>2, <4>3 DEF Limit
    <3>3. CASE key \notin SerialKeys
      <4>1. Inserting(key)' \subseteq Session
        BY DEF Inserting
      <4>2. /\ Cardinality(Inserting(key)') \in Nat
            /\ Cardinality(Inserting(key)') <= Cardinality(Session)
        BY <4>1, Smaller, SessionAssumption
      <4> QED
        BY <2>1, <2>2, <3>1, <3>3, <4>2 DEF Limit
    <3> QED
      BY <3>2, <3>3
  <2>4. CASE ~(r.pc = "selected" /\ r.found = 0 /\ r.key = key)
    <3>1. Inserting(key)' \subseteq Inserting(key)
      BY <2>4, <1>1 DEF Inserting
    <3>2. /\ Cardinality(Inserting(key)') \in Nat
          /\ Cardinality(Inserting(key)') <= Cardinality(Inserting(key))
      BY <2>2, <3>1, Smaller
    <3>3. Limit(key) \in Nat
      BY <2>2 DEF Limit
    <3> QED
      BY <2>1, <2>2, <3>2, <3>3
  <2> QED
    BY <2>3, <2>4
<1>5. ASSUME NEW key \in Key
      PROVE  (counted[key] + Cardinality(Detecting(key)) <= started)'
  <2>1. /\ counted[key] + Cardinality(Detecting(key)) <= started
        /\ Cardinality(Detecting(key)) \in Nat /\ IsFiniteSet(Detecting(key))
        /\ counted[key] \in Nat /\ started \in Nat
    BY Parts, Finite DEF CountedStarted, Shapes
  <2>2. CASE started' = started
    <3>1. Detecting(key)' \subseteq Detecting(key)
      <4>1. started' # started + 1
        BY <2>1, <2>2
      <4> QED
        BY <4>1, <1>1 DEF Detecting
    <3>2. /\ Cardinality(Detecting(key)') \in Nat
          /\ Cardinality(Detecting(key)') <= Cardinality(Detecting(key))
      BY <2>1, <3>1, Smaller
    <3> QED
      BY <2>1, <2>2, <3>2
  <2>3. CASE started' = started + 1
    <3>1. Detecting(key)' \subseteq Detecting(key) \cup {s}
      BY <1>1 DEF Detecting
    <3>2. /\ Cardinality(Detecting(key)') \in Nat
          /\ Cardinality(Detecting(key)') <= Cardinality(Detecting(key)) + 1
      BY <2>1, <3>1, OneMore
    <3> QED
      BY <2>1, <2>3, <3>2
  <2> QED
    BY <2>2, <2>3
<1> QED
  BY <1>2, <1>3, <1>4, <1>5 DEF IInv, Bounded, CountedStarted

LEMMA IdleRow ==
  ASSUME IInv
  PROVE  /\ Idle \in SessionRow /\ Keyed(Idle) /\ Found(Idle) /\ Idle.pc = "idle"
         /\ Idle.locks = FALSE /\ Idle.found = 0 /\ Idle.raced = FALSE /\ Idle.seen = 0
<1>1. /\ Idle \in SessionRow /\ Idle.pc = "idle" /\ Idle.locks = FALSE /\ Idle.found = 0
      /\ Idle.raced = FALSE /\ Idle.seen = 0
  BY DEF Idle, SessionRow, Answer
<1> QED
  BY <1>1, Parts DEF Keyed, Found

LEMMA DetectStep ==
  ASSUME IInv, NEW s \in Session, NEW key \in Key, NEW result \in {"online", "offline"},
         Detect(s, key, result)
  PROVE  IInv'
<1> DEFINE loaded == IF Polled(key) THEN answer[key[2]] ELSE "unknown"
           r == [Idle EXCEPT !.pc = "waiting", !.key = key, !.result = result, !.loaded = loaded]
<1>1. loaded \in Answer /\ result \in Answer
  BY Parts DEF Polled, Shapes, Answer
<1>2. /\ session' = [session EXCEPT ![s] = r] /\ UNCHANGED <<alerts, answer, counted>>
      /\ started' = started + 1 /\ started < MaxDetections /\ session[s].pc = "idle"
      /\ key[1] = "radio_adapter" => result = "online"
  BY DEF Detect
<1> HIDE DEF loaded
<1>3. r \in SessionRow
  BY <1>1, IdleRow DEF SessionRow
<1>4. /\ r.pc = "waiting" /\ r.key = key /\ r.result = result /\ r.locks = FALSE
      /\ r.found = 0
  BY DEF Idle
<1> HIDE DEF r
<1>5. Keyed(r) /\ Found(r)
  BY <1>2, <1>4, Parts DEF Keyed, Found
<1>6. started' \in 0..MaxDetections
  BY <1>2, Parts, BoundAssumption
<1>7. answer' \in [Asset \cup Radio -> Answer] /\ OfflineDeviceHasAlert'
  BY <1>2, Parts DEF Shapes, OfflineDeviceHasAlert, SaysOffline, DeletedOffline
<1> QED
  BY <1>2, <1>3, <1>4, <1>5, <1>6, <1>7, SessionStep

LEMMA StoredAnswer ==
  ASSUME IInv, NEW s \in Session, session[s].pc # "idle"
  PROVE  /\ Stored(s) \in [Asset \cup Radio -> Answer]
         /\ \A d \in Asset \cup Radio :
              Stored(s)[d] # answer[d] =>
                d = session[s].key[2] /\ Stored(s)[d] = session[s].result
<1>1. answer \in [Asset \cup Radio -> Answer] /\ session[s].result \in Answer
  BY Parts DEF Shapes, SessionRow
<1> QED
  BY <1>1 DEF Stored

LEMMA StoreAnswerStep ==
  ASSUME IInv, NEW s \in Session, StoreAnswer(s) \/ MeasurementFails(s) \/ DetectionFails(s)
  PROVE  IInv'
<1>1. /\ session' = [session EXCEPT ![s] = Idle] /\ UNCHANGED <<alerts, counted, started>>
      /\ session[s] \in SessionRow
  BY Parts DEF StoreAnswer, MeasurementFails, DetectionFails
<1>2. started' \in 0..MaxDetections
  BY <1>1, Parts DEF Shapes
<1>3. answer' \in [Asset \cup Radio -> Answer] /\ OfflineDeviceHasAlert'
  <2>1. CASE StoreAnswer(s)
    <3>1. answer' = Stored(s) /\ session[s].result # "offline" /\ session[s].pc # "idle"
      BY <2>1 DEF StoreAnswer, Raises
    <3>2. \A d \in Asset \cup Radio : answer'[d] = "offline" => answer[d] = "offline"
      BY <3>1, StoredAnswer
    <3> QED
      BY <3>1, <3>2, <1>1, StoredAnswer, Parts
         DEF OfflineDeviceHasAlert, SaysOffline, DeletedOffline
  <2>2. CASE MeasurementFails(s) \/ DetectionFails(s)
    BY <2>2, Parts DEF MeasurementFails, DetectionFails, Shapes, OfflineDeviceHasAlert,
                       SaysOffline, DeletedOffline
  <2> QED
    BY <2>1, <2>2
<1> QED
  BY <1>1, <1>2, <1>3, IdleRow, SessionStep

LEMMA SelectStep == ASSUME IInv, NEW s \in Session, SelectAlert(s) PROVE IInv'
<1> DEFINE key == session[s].key
           r(locks, n) == [session[s] EXCEPT !.pc = "selected", !.locks = locks, !.found = n,
                             !.seen = IF n = 0 THEN 0 ELSE alerts[n].occurrence_count]
<1>1. PICK locks \in WritesDevice(s), n \in Matches(key) \cup {0} :
        /\ locks => RowFree(s, key[2])
        /\ n = 0 <=> Matches(key) = {}
        /\ session' = [session EXCEPT
             ![s].pc = "selected", ![s].locks = locks, ![s].found = n,
             ![s].seen = IF n = 0 THEN 0 ELSE alerts[n].occurrence_count]
  BY DEF SelectAlert
<1>2. /\ session[s].pc = "waiting" /\ Raises(s) /\ UNCHANGED <<alerts, answer, counted, started>>
      /\ session[s] \in SessionRow /\ Keyed(session[s]) /\ Found(session[s])
  BY Parts DEF SelectAlert
<1>3. key \in Key
  BY <1>2 DEF Keyed
<1>5. locks \in BOOLEAN
  BY <1>1 DEF WritesDevice
<1>6. key \in SerialKeys => locks = TRUE
  <2> SUFFICES ASSUME key \in SerialKeys PROVE locks = TRUE
      OBVIOUS
  <2>1. /\ Polled(key) /\ key[1] # "telemetry_down"
        /\ key[2] \in Asset \/ session[s].result = "online"
    BY <1>2, <1>3, KeyParts DEF Keyed
  <2>2. WritesDevice(s) = {TRUE}
    BY <2>1 DEF WritesDevice
  <2> QED
    BY <2>2, <1>1
<1>7. n \in 0..Len(alerts) /\ (n # 0 => n \in Matches(key) /\ alerts[n] \in AlertRow)
  BY <1>1, Parts DEF Matches
<1> DEFINE seen == IF n = 0 THEN 0 ELSE alerts[n].occurrence_count
<1>8. seen \in Nat /\ n \in Nat
  BY <1>7, Parts DEF AlertRow
<1>9. session' = [session EXCEPT ![s] = r(locks, n)]
  BY <1>1, Parts DEF Shapes, SessionRow
<1>10. r(locks, n) \in SessionRow
  <2> HIDE DEF seen
  <2>1. r(locks, n) = [session[s] EXCEPT !.pc = "selected", !.locks = locks, !.found = n,
                                         !.seen = seen]
    BY DEF seen
  <2> HIDE DEF r
  <2> QED
    BY <2>1, <1>2, <1>5, <1>8 DEF SessionRow
<1>11. /\ r(locks, n).pc = "selected" /\ r(locks, n).key = key /\ r(locks, n).locks = locks
       /\ r(locks, n).found = n /\ r(locks, n).result = session[s].result
  BY <1>2 DEF SessionRow
<1> HIDE DEF r
<1>12. Keyed(r(locks, n))
  BY <1>2, <1>3, <1>6, <1>11 DEF Keyed, Raises
<1>13. Found(r(locks, n))
  BY <1>7, <1>11 DEF Found, Matches
<1>14. n = 0 => Standing(key) = {}
  <2>1. Standing(key) \subseteq Matches(key)
    BY DEF Standing, Matches, ActiveStatus
  <2> QED
    BY <2>1, <1>1
<1>15. n = 0 /\ key \in SerialKeys => Inserting(key) = {}
  <2> SUFFICES ASSUME key \in SerialKeys, NEW t \in Inserting(key) PROVE FALSE
      OBVIOUS
  <2>1. /\ t \in Session /\ session[t].pc = "selected" /\ session[t].key = key /\ t # s
    BY <1>2 DEF Inserting
  <2>2. session[t].locks = TRUE
    BY <2>1, Parts DEF Keyed
  <2> QED
    BY <2>1, <2>2, <1>1, <1>6 DEF RowFree
<1>16. started' \in 0..MaxDetections /\ answer' \in [Asset \cup Radio -> Answer]
       /\ OfflineDeviceHasAlert'
  BY <1>2, Parts DEF Shapes, OfflineDeviceHasAlert, SaysOffline, DeletedOffline
<1> QED
  BY <1>2, <1>9, <1>10, <1>11, <1>12, <1>13, <1>14, <1>15, <1>16, SessionStep

-----------------------------------------------------------------------------
(* Steps that change the alerts.                                           *)

LEMMA CommitStep == ASSUME IInv, NEW s \in Session, CommitDetection(s) PROVE IInv'
<1> DEFINE key == session[s].key
           n == session[s].found
           new == [key |-> key, status |-> "open", occurrence_count |-> 1, revived |-> FALSE]
           more == [alerts EXCEPT ![n].occurrence_count = session[s].seen + 1]
<1>1. /\ session[s].pc = "selected" /\ session[s] \in SessionRow /\ Keyed(session[s])
      /\ Found(session[s]) /\ key \in Key /\ n \in Nat /\ session[s].seen \in Nat
      /\ session[s].result \in Answer
  BY Parts DEF CommitDetection, Keyed, SessionRow
<1>2. /\ alerts' = IF n = 0 THEN Append(alerts, new) ELSE more
      /\ answer' = Stored(s)
      /\ counted' = [counted EXCEPT ![key] = @ + 1]
      /\ session' = [session EXCEPT ![s] = Idle] /\ started' = started
  BY DEF CommitDetection
<1>3. /\ \A t \in Session : session'[t] = IF t = s THEN Idle ELSE session[t]
      /\ session' \in [Session -> SessionRow]
  BY <1>2, IdleRow, Parts DEF Shapes
<1>4. new \in AlertRow /\ new.key = key /\ new.status = "open" /\ new.revived = FALSE
  BY <1>1 DEF AlertRow, Status
<1>5. /\ alerts' \in Seq(AlertRow) /\ Len(alerts') \in Nat /\ Len(alerts) <= Len(alerts')
      /\ DOMAIN alerts' = 1..Len(alerts')
      /\ \A k \in 1..Len(alerts) :
           /\ alerts'[k].key = alerts[k].key /\ alerts'[k].status = alerts[k].status
           /\ alerts'[k].revived = alerts[k].revived
      /\ n # 0 => Len(alerts') = Len(alerts)
      /\ n = 0 => Len(alerts') = Len(alerts) + 1 /\ alerts'[Len(alerts) + 1] = new
  <2> HIDE DEF new, key
  <2>1. CASE n = 0
    <3>1. alerts' = Append(alerts, new)
      BY <2>1, <1>2
    <3> HIDE DEF n
    <3> QED
      BY <2>1, <3>1, <1>4, Parts
  <2>2. CASE n # 0
    <3>1. n \in 1..Len(alerts) /\ alerts[n] \in AlertRow
      BY <2>2, <1>1, Parts DEF Found
    <3> DEFINE row == [alerts[n] EXCEPT !.occurrence_count = session[s].seen + 1]
    <3>2. /\ row \in AlertRow /\ row.key = alerts[n].key /\ row.status = alerts[n].status
          /\ row.revived = alerts[n].revived
      BY <3>1, <1>1, SMTT(20) DEF AlertRow
    <3>3. alerts' = [alerts EXCEPT ![n] = row]
      BY <2>2, <1>2
    <3> HIDE DEF row, n, more
    <3>4. alerts' \in Seq(AlertRow) /\ Len(alerts') = Len(alerts)
      BY <3>1, <3>2, <3>3, Parts
    <3>5. \A k \in 1..Len(alerts) : alerts'[k] = IF k = n THEN row ELSE alerts[k]
      BY <3>3, Parts
    <3> QED
      BY <2>2, <3>2, <3>4, <3>5, Parts
  <2> QED
    BY <2>1, <2>2
<1> HIDE DEF new, more
<1>11. /\ \A i : i \in 1..Len(alerts) => i \in 1..Len(alerts') /\ i # 0
       /\ \A i \in 0..Len(alerts) : i \in 0..Len(alerts') /\ (i # 0 => i \in 1..Len(alerts))
       /\ n # 0 => \A i \in 1..Len(alerts') : i \in 1..Len(alerts)
       /\ n = 0 => \A i \in 1..Len(alerts') : i = Len(alerts) + 1 \/ i \in 1..Len(alerts)
       /\ n = 0 => Len(alerts) + 1 \in 1..Len(alerts')
  <2> DEFINE a == Len(alerts)
             b == Len(alerts')
  <2>1. a \in Nat /\ b \in Nat /\ a <= b /\ (n # 0 => b = a) /\ (n = 0 => b = a + 1)
    BY <1>5, Parts
  <2> HIDE DEF a, b, n
  <2>2. /\ \A i : i \in 1..a => i \in 1..b /\ i # 0
        /\ \A i \in 0..a : i \in 0..b /\ (i # 0 => i \in 1..a)
        /\ n # 0 => \A i \in 1..b : i \in 1..a
        /\ n = 0 => \A i \in 1..b : i = a + 1 \/ i \in 1..a
        /\ n = 0 => a + 1 \in 1..b
    BY <2>1
  <2> QED
    BY <2>2 DEF a, b
<1>6. Shapes'
  <2>1. answer' \in [Asset \cup Radio -> Answer]
    BY <1>1, <1>2, StoredAnswer
  <2>2. counted' \in [Key -> Nat]
    BY <1>1, <1>2, Parts DEF Shapes
  <2> QED
    BY <2>1, <2>2, <1>2, <1>3, <1>5, Parts DEF Shapes
<1>7. ASSUME NEW t \in Session PROVE Keyed(session[t])' /\ Found(session[t])'
  <2> DEFINE u == session'[t]
  <2>1. u = Idle \/ u = session[t]
    BY <1>3
  <2> HIDE DEF u
  <2>2. Keyed(u) /\ Found(u)
    BY <2>1, IdleRow, Parts
  <2>3. /\ u.found \in 0..Len(alerts')
        /\ u.found # 0 => u.found \in 1..Len(alerts)
    BY <2>2, <1>11 DEF Found
  <2>4. u.found # 0 =>
          /\ alerts'[u.found].key = u.key
          /\ u.raced = TRUE \/ alerts'[u.found].status \in ActiveStatus(u.key)
    BY <2>2, <2>3, <1>5 DEF Found
  <2> QED
    BY <2>2, <2>3, <2>4 DEF u, Keyed, Found, ActiveStatus
<1>8. ASSUME NEW k \in Key
      PROVE  (Cardinality(Standing(k)) + Cardinality(Inserting(k)) <= Limit(k))'
  <2>1. /\ Cardinality(Standing(k)) + Cardinality(Inserting(k)) <= Limit(k)
        /\ Cardinality(Standing(k)) \in Nat /\ Cardinality(Inserting(k)) \in Nat
        /\ IsFiniteSet(Inserting(k)) /\ IsFiniteSet(Standing(k)) /\ Limit(k) \in Nat
        /\ Limit(k)' = Limit(k)
    BY Parts, Finite DEF Bounded, Limit
  <2>2. Inserting(k)' \subseteq Inserting(k) \ {s}
    BY <1>3, IdleRow DEF Inserting
  <2>3. CASE n = 0 /\ k = key
    <3>1. s \in Inserting(k)
      BY <2>3, <1>1 DEF Inserting
    <3>2. Standing(k)' \subseteq Standing(k) \cup {Len(alerts) + 1}
      <4>1. ASSUME NEW i \in Standing(k)', i # Len(alerts) + 1 PROVE i \in Standing(k)
        <5>1. i \in 1..Len(alerts)
          BY <4>1, <2>3, <1>5, <1>11 DEF Standing
        <5>2. /\ i \in DOMAIN alerts /\ alerts'[i].key = alerts[i].key
              /\ alerts'[i].status = alerts[i].status /\ alerts'[i].revived = alerts[i].revived
          BY <5>1, <1>5, Parts
        <5> QED
          BY <5>2 DEF Standing
      <4> QED
        BY <4>1
    <3>3. /\ Cardinality(Standing(k)') \in Nat
          /\ Cardinality(Standing(k)') <= Cardinality(Standing(k)) + 1
      BY <2>1, <3>2, OneMore
    <3>4. /\ Cardinality(Inserting(k)') \in Nat
          /\ Cardinality(Inserting(k)') + 1 <= Cardinality(Inserting(k))
      BY <2>1, <2>2, <3>1, OneLess
    <3> QED
      BY <2>1, <3>3, <3>4
  <2>4. CASE ~(n = 0 /\ k = key)
    <3>1. Standing(k)' \subseteq Standing(k)
      <4>1. ASSUME NEW i \in Standing(k)' PROVE i \in Standing(k)
        <5>1. i \in 1..Len(alerts') /\ alerts'[i].key = k
          BY <1>5 DEF Standing
        <5>2. i \in 1..Len(alerts)
          <6>1. i # Len(alerts) + 1 \/ n # 0
            BY <5>1, <2>4, <1>4, <1>5
          <6> QED
            BY <5>1, <6>1, <1>11
        <5>3. /\ i \in DOMAIN alerts /\ alerts'[i].key = alerts[i].key
              /\ alerts'[i].status = alerts[i].status /\ alerts'[i].revived = alerts[i].revived
          BY <5>2, <1>5, Parts
        <5> QED
          BY <5>3 DEF Standing
      <4> QED
        BY <4>1
    <3>2. /\ Cardinality(Standing(k)') \in Nat
          /\ Cardinality(Standing(k)') <= Cardinality(Standing(k))
      BY <2>1, <3>1, Smaller
    <3>3. /\ Cardinality(Inserting(k)') \in Nat
          /\ Cardinality(Inserting(k)') <= Cardinality(Inserting(k))
      BY <2>1, <2>2, Smaller
    <3> QED
      BY <2>1, <3>2, <3>3
  <2> QED
    BY <2>3, <2>4
<1>9. ASSUME NEW k \in Key
      PROVE  (counted[k] + Cardinality(Detecting(k)) <= started)'
  <2>1. /\ counted[k] + Cardinality(Detecting(k)) <= started
        /\ Cardinality(Detecting(k)) \in Nat /\ IsFiniteSet(Detecting(k))
        /\ counted[k] \in Nat /\ started \in Nat
    BY Parts, Finite DEF CountedStarted, Shapes
  <2>2. Detecting(k)' \subseteq Detecting(k) \ {s}
    BY <1>3, IdleRow DEF Detecting
  <2>3. CASE k = key
    <3>1. s \in Detecting(k)
      BY <2>3, <1>1 DEF Detecting
    <3>2. /\ Cardinality(Detecting(k)') \in Nat
          /\ Cardinality(Detecting(k)') + 1 <= Cardinality(Detecting(k))
      BY <2>1, <2>2, <3>1, OneLess
    <3>3. counted'[k] = counted[k] + 1
      BY <2>3, <1>2, Parts DEF Shapes
    <3> QED
      BY <2>1, <3>2, <3>3, <1>2
  <2>4. CASE k # key
    <3>1. /\ Cardinality(Detecting(k)') \in Nat
          /\ Cardinality(Detecting(k)') <= Cardinality(Detecting(k))
      BY <2>1, <2>2, Smaller
    <3>2. counted'[k] = counted[k]
      BY <2>4, <1>2, Parts DEF Shapes
    <3> QED
      BY <2>1, <3>1, <3>2, <1>2
  <2> QED
    BY <2>3, <2>4
<1>10. OfflineDeviceHasAlert'
  <2> SUFFICES ASSUME NEW d \in Asset \cup Radio, answer'[d] = "offline"
               PROVE  \E i \in DOMAIN alerts' : SaysSo(alerts'[i].key, d)
    BY OfflineRows
  <2>1. CASE answer[d] = "offline"
    <3>1. PICK i \in DOMAIN alerts : SaysSo(alerts[i].key, d)
      BY <2>1, Parts, OfflineRows
    <3>2. i \in 1..Len(alerts)
      BY Parts
    <3>3. i \in DOMAIN alerts'
      <4>1. i \in 1..Len(alerts')
        BY <3>2, <1>11
      <4> QED
        BY <4>1, <1>5
    <3> QED
      BY <3>1, <3>2, <3>3, <1>5
  <2>2. CASE answer[d] # "offline"
    <3>1. d = key[2] /\ session[s].result = "offline"
      BY <2>2, <1>1, <1>2, StoredAnswer
    <3>2. SaysSo(key, d)
      BY <3>1, <1>1, KeyParts DEF Keyed, Polled, SaysSo
    <3>3. CASE n = 0
      <4>1. Len(alerts) + 1 \in 1..Len(alerts')
        BY <3>3, <1>11
      <4> QED
        BY <4>1, <3>2, <3>3, <1>4, <1>5
    <3>4. CASE n # 0
      <4>1. n \in 1..Len(alerts) /\ alerts[n].key = key
        BY <3>4, <1>1, <1>11 DEF Found
      <4>2. n \in 1..Len(alerts') /\ alerts'[n].key = key
        BY <4>1, <1>5, <1>11
      <4> QED
        BY <4>2, <1>5, <3>2
    <3> QED
      BY <3>3, <3>4
  <2> QED
    BY <2>1, <2>2
<1> QED
  BY <1>6, <1>7, <1>8, <1>9, <1>10 DEF IInv, Bounded, CountedStarted

\* What an operator does to the alert n: a status, or a deletion.
Operates(n, status) ==
  \/ status \in Status /\ OperatorMoves(n, status)
  \/ status = "deleted" /\ DeleteAlert(n)

MovedRow(n, status, back) == [alerts[n] EXCEPT !.status = status, !.revived = back]

LEMMA OperatorRow ==
  ASSUME IInv, NEW n \in DOMAIN alerts, NEW status, Operates(n, status)
  PROVE  \E back \in BOOLEAN :
           /\ alerts' = [alerts EXCEPT ![n] = MovedRow(n, status, back)]
           /\ session' = Raced(n) /\ UNCHANGED <<answer, counted, started>>
           /\ alerts[n] \in AlertRow /\ alerts[n].status # "deleted"
           /\ status \in Status \cup {"deleted"}
           /\ back = FALSE /\ status \in ActiveStatus(alerts[n].key) =>
                alerts[n].revived = FALSE /\ alerts[n].status \in ActiveStatus(alerts[n].key)
<1>1. alerts[n] \in AlertRow
  BY Parts
<1>2. CASE status \in Status /\ OperatorMoves(n, status)
  <2> DEFINE back == alerts[n].revived \/ /\ alerts[n].status \notin ActiveStatus(alerts[n].key)
                                          /\ status \in ActiveStatus(alerts[n].key)
  <2>1. /\ session' = Raced(n) /\ UNCHANGED <<answer, counted, started>>
        /\ alerts' = [alerts EXCEPT ![n].status = status, ![n].revived = back]
        /\ alerts[n].status # "deleted"
    BY <1>2 DEF OperatorMoves
  <2>2. /\ back \in BOOLEAN
        /\ back = FALSE /\ status \in ActiveStatus(alerts[n].key) =>
             alerts[n].revived = FALSE /\ alerts[n].status \in ActiveStatus(alerts[n].key)
    BY <1>1 DEF AlertRow
  <2> HIDE DEF back
  <2>3. alerts' = [alerts EXCEPT ![n] = MovedRow(n, status, back)]
    BY <2>1, <1>1 DEF AlertRow, MovedRow
  <2>4. back \in BOOLEAN
    BY <2>2
  <2> USE <2>4
  <2> WITNESS back \in BOOLEAN
  <2> QED
    BY <1>1, <1>2, <2>1, <2>2, <2>3
<1>3. CASE status = "deleted" /\ DeleteAlert(n)
  <2>1. PICK back \in BOOLEAN : back = alerts[n].revived
    BY <1>1 DEF AlertRow
  <2>2. /\ session' = Raced(n) /\ UNCHANGED <<answer, counted, started>>
        /\ alerts' = [alerts EXCEPT ![n].status = "deleted"] /\ alerts[n].status # "deleted"
    BY <1>3 DEF DeleteAlert
  <2>3. [alerts[n] EXCEPT !.status = status] = MovedRow(n, status, back)
    BY <2>1, <1>1 DEF AlertRow, MovedRow
  <2>4. alerts' = [alerts EXCEPT ![n] = MovedRow(n, status, back)]
    BY <2>2, <2>3, <1>3
  <2>5. status \notin ActiveStatus(alerts[n].key)
    BY <1>3 DEF ActiveStatus
  <2> WITNESS back \in BOOLEAN
  <2> QED
    BY <1>1, <1>3, <2>2, <2>4, <2>5
<1> QED
  BY <1>2, <1>3 DEF Operates

\* An operator may close or delete an alert or bring it back; a brought back one never stands.
LEMMA OperatorStep ==
  ASSUME IInv, NEW n \in DOMAIN alerts, NEW status, Operates(n, status)
  PROVE  IInv'
<1>1. PICK back \in BOOLEAN :
        /\ alerts' = [alerts EXCEPT ![n] = MovedRow(n, status, back)]
        /\ session' = Raced(n) /\ UNCHANGED <<answer, counted, started>>
        /\ alerts[n] \in AlertRow /\ status \in Status \cup {"deleted"}
        /\ back = FALSE /\ status \in ActiveStatus(alerts[n].key) =>
             alerts[n].revived = FALSE /\ alerts[n].status \in ActiveStatus(alerts[n].key)
  BY OperatorRow
<1> DEFINE row == MovedRow(n, status, back)
<1>2. n \in 1..Len(alerts) /\ alerts[n] \in AlertRow
  BY Parts
<1>4. alerts' = [alerts EXCEPT ![n] = row]
  BY <1>1
<1>5. /\ row \in AlertRow /\ row.key = alerts[n].key /\ row.status = status
      /\ row.revived = back
  BY <1>1, <1>2 DEF AlertRow, MovedRow
<1> HIDE DEF row
<1>6. /\ alerts' \in Seq(AlertRow) /\ Len(alerts') = Len(alerts)
      /\ DOMAIN alerts' = DOMAIN alerts
      /\ \A i \in DOMAIN alerts : alerts'[i] = IF i = n THEN row ELSE alerts[i]
  BY <1>2, <1>4, <1>5, Parts
<1>7. ASSUME NEW t \in Session
      PROVE  /\ session'[t] \in SessionRow
             /\ session'[t].pc = session[t].pc /\ session'[t].key = session[t].key
             /\ session'[t].result = session[t].result /\ session'[t].locks = session[t].locks
             /\ session'[t].found = session[t].found
             /\ session[t].raced = TRUE => session'[t].raced = TRUE
             /\ session[t].pc = "selected" /\ session[t].found = n => session'[t].raced = TRUE
  <2> DEFINE hit == session[t].raced \/ (session[t].pc = "selected" /\ session[t].found = n)
  <2>1. session[t] \in SessionRow
    BY Parts
  <2>2. session'[t] = [session[t] EXCEPT !.raced = hit]
    BY <1>1 DEF Raced
  <2>3. /\ hit \in BOOLEAN /\ (session[t].raced = TRUE => hit = TRUE)
        /\ session[t].pc = "selected" /\ session[t].found = n => hit = TRUE
    BY <2>1 DEF SessionRow
  <2> HIDE DEF hit
  <2> QED
    BY <2>1, <2>2, <2>3 DEF SessionRow
<1>8. Shapes'
  <2>1. session' = [t \in Session |-> session'[t]]
    BY <1>1 DEF Raced
  <2>2. session' \in [Session -> SessionRow]
    BY <2>1, <1>7
  <2> QED
    BY <2>2, <1>1, <1>6, Parts DEF Shapes
<1>9. ASSUME NEW t \in Session PROVE Keyed(session[t])' /\ Found(session[t])'
  <2> DEFINE u == session'[t]
  <2>1. /\ Keyed(session[t]) /\ Found(session[t])
        /\ u.pc = session[t].pc /\ u.key = session[t].key
        /\ u.result = session[t].result /\ u.locks = session[t].locks
        /\ u.found = session[t].found
        /\ session[t].raced = TRUE => u.raced = TRUE
        /\ session[t].pc = "selected" /\ session[t].found = n => u.raced = TRUE
    BY <1>7, Parts
  <2> HIDE DEF u
  <2>2. Keyed(u)
    BY <2>1 DEF Keyed
  <2>3. u.found \in 0..Len(alerts')
    BY <2>1, <1>6 DEF Found
  <2>4. u.found # 0 =>
          /\ alerts'[u.found].key = u.key
          /\ u.raced = TRUE \/ alerts'[u.found].status \in ActiveStatus(u.key)
    <3> SUFFICES ASSUME u.found # 0
                 PROVE  /\ alerts'[u.found].key = u.key
                        /\ u.raced = TRUE \/ alerts'[u.found].status \in ActiveStatus(u.key)
        OBVIOUS
    <3>1. /\ u.found \in 0..Len(alerts) /\ alerts[u.found].key = u.key
          /\ session[t].raced = TRUE \/ alerts[u.found].status \in ActiveStatus(u.key)
          /\ u.pc = "selected"
      BY <2>1 DEF Found, Keyed
    <3>2. u.found \in DOMAIN alerts
      BY <3>1, Parts
    <3>3. CASE u.found = n
      BY <3>1, <3>2, <3>3, <2>1, <1>5, <1>6
    <3>4. CASE u.found # n
      BY <3>1, <3>2, <3>4, <2>1, <1>6
    <3> QED
      BY <3>3, <3>4
  <2> QED
    BY <2>2, <2>3, <2>4 DEF u, Keyed, Found, ActiveStatus
<1>10. ASSUME NEW k \in Key
       PROVE  (Cardinality(Standing(k)) + Cardinality(Inserting(k)) <= Limit(k))'
  <2>1. /\ Cardinality(Standing(k)) + Cardinality(Inserting(k)) <= Limit(k)
        /\ Cardinality(Standing(k)) \in Nat /\ Cardinality(Inserting(k)) \in Nat
        /\ IsFiniteSet(Standing(k)) /\ Limit(k) \in Nat /\ Limit(k)' = Limit(k)
    BY Parts, Finite DEF Bounded, Limit
  <2>2. Inserting(k)' = Inserting(k)
    BY <1>7 DEF Inserting
  <2>3. Standing(k)' \subseteq Standing(k)
    <3> SUFFICES ASSUME NEW i \in Standing(k)' PROVE i \in Standing(k)
        OBVIOUS
    <3>1. /\ i \in DOMAIN alerts /\ alerts'[i].key = k /\ alerts'[i].revived # TRUE
          /\ alerts'[i].status \in {"open", "acknowledged"}
               \cup (IF k[1] = "wireless_health" THEN {} ELSE {"escalated"})
      BY <1>6 DEF Standing
    <3>2. CASE i # n
      BY <3>1, <3>2, <1>6 DEF Standing
    <3>3. CASE i = n
      <4>1. alerts[n].key = k /\ back # TRUE /\ status \in ActiveStatus(k)
        BY <3>1, <3>3, <1>5, <1>6 DEF ActiveStatus
      <4>2. alerts[n].revived = FALSE /\ alerts[n].status \in ActiveStatus(k)
        BY <4>1, <1>1
      <4> QED
        BY <4>1, <4>2, <3>3 DEF Standing, ActiveStatus
    <3> QED
      BY <3>2, <3>3
  <2>4. /\ Cardinality(Standing(k)') \in Nat
        /\ Cardinality(Standing(k)') <= Cardinality(Standing(k))
    BY <2>1, <2>3, Smaller
  <2> QED
    BY <2>1, <2>2, <2>4
<1>11. ASSUME NEW k \in Key
       PROVE  (counted[k] + Cardinality(Detecting(k)) <= started)'
  <2>1. Detecting(k)' = Detecting(k)
    BY <1>7 DEF Detecting
  <2> QED
    BY <2>1, <1>1, Parts DEF CountedStarted
<1>12. OfflineDeviceHasAlert'
  <2>1. \A i \in DOMAIN alerts : alerts'[i].key = alerts[i].key
    BY <1>5, <1>6
  <2> QED
    BY <2>1, <1>1, <1>6, Parts, OfflineRows
<1> QED
  BY <1>8, <1>9, <1>10, <1>11, <1>12 DEF IInv, Bounded, CountedStarted

LEMMA InvStep == IInv /\ [Next]_vars => IInv'
<1> SUFFICES ASSUME IInv, [Next]_vars PROVE IInv'
    OBVIOUS
<1>1. ASSUME NEW s \in Session, NEW key \in Key, NEW result \in {"online", "offline"},
             Detect(s, key, result)
      PROVE  IInv'
  BY <1>1, DetectStep
<1>2. ASSUME NEW s \in Session,
             \/ StoreAnswer(s) \/ SelectAlert(s) \/ MeasurementFails(s)
             \/ CommitDetection(s) \/ DetectionFails(s)
      PROVE  IInv'
  BY <1>2, StoreAnswerStep, SelectStep, CommitStep
<1>3. ASSUME NEW n \in DOMAIN alerts, NEW status, Operates(n, status) PROVE IInv'
  BY <1>3, OperatorStep
<1>4. CASE UNCHANGED vars
  <2>1. UNCHANGED <<alerts, answer, session, counted, started>>
    BY <1>4 DEF vars
  <2>2. Shapes' /\ OfflineDeviceHasAlert'
    BY <2>1, Parts DEF Shapes, OfflineDeviceHasAlert, SaysOffline, DeletedOffline
  <2>3. \A s \in Session : Keyed(session[s])' /\ Found(session[s])'
    BY <2>1, Parts DEF Keyed, Found
  <2>4. \A k : /\ Standing(k)' = Standing(k) /\ Inserting(k)' = Inserting(k)
               /\ Detecting(k)' = Detecting(k) /\ Limit(k)' = Limit(k)
    BY <2>1 DEF Standing, Inserting, Detecting, Limit
  <2>5. Bounded' /\ CountedStarted'
    BY <2>1, <2>4, Parts DEF Bounded, CountedStarted
  <2> QED
    BY <2>2, <2>3, <2>5 DEF IInv
<1> QED
  BY <1>1, <1>2, <1>3, <1>4 DEF Next, Operates

THEOREM Invariance == Spec => []IInv
  BY InvInit, InvStep, PTL DEF Spec

-----------------------------------------------------------------------------
(* What the counts add up to.  A session may have seen a count that others *)
(* have since passed or set back, so the detections of a key are bounded   *)
(* by what its alerts count together with what sessions have seen of them. *)

Reached(key) ==
  Occurrences(key)
    \cup UNION {{session[s].found} \X (1..session[s].seen) :
                  s \in {t \in Selected(key) : session[t].found # 0}}

OneLock ==
  \A s, t \in Session :
    session[s].locks /\ session[t].locks /\ session[s].key[2] = session[t].key[2] => s = t

SeenIsCurrent ==
  \A s \in Session :
    session[s].pc = "selected" /\ session[s].found # 0 /\ session[s].key \in SerialKeys
      => session[s].seen = alerts[session[s].found].occurrence_count

Accounted ==
  \A key \in Key : IsFiniteSet(Reached(key)) /\ Cardinality(Reached(key)) <= counted[key]

Summed ==
  \A key \in SerialKeys : IsFiniteSet(Occurrences(key)) /\ Cardinality(Occurrences(key)) = counted[key]

CountInv == OneLock /\ SeenIsCurrent /\ Accounted /\ Summed

\* The detections the rows of a table stand for, those of one key.
OccurrencesIn(rows, key) ==
  UNION {{n} \X (1..rows[n].occurrence_count) : n \in {i \in DOMAIN rows : rows[i].key = key}}

LEMMA OccurrencesArePairs ==
  ASSUME NEW rows, NEW key, NEW p
  PROVE  p \in OccurrencesIn(rows, key) <=>
           \E n, i : /\ n \in DOMAIN rows /\ i \in 1..rows[n].occurrence_count
                     /\ rows[n].key = key /\ p = <<n, i>>
  BY DEF OccurrencesIn

\* A row that counts one more adds one detection; what it counts to may have been reached before.
LEMMA OneRowCounts ==
  ASSUME NEW old, NEW new, NEW n \in DOMAIN old, NEW c \in Nat, DOMAIN new = DOMAIN old,
         \A i \in DOMAIN old : new[i].key = old[i].key,
         \A i \in DOMAIN old : i # n => new[i].occurrence_count = old[i].occurrence_count,
         new[n].occurrence_count = c + 1, NEW key
  PROVE  /\ old[n].key # key => OccurrencesIn(new, key) = OccurrencesIn(old, key)
         /\ OccurrencesIn(new, key)
              \subseteq OccurrencesIn(old, key) \cup ({n} \X (1..c)) \cup {<<n, c + 1>>}
         /\ old[n].key = key /\ old[n].occurrence_count = c =>
              /\ OccurrencesIn(new, key) = OccurrencesIn(old, key) \cup {<<n, c + 1>>}
              /\ <<n, c + 1>> \notin OccurrencesIn(old, key)
<1>1. ASSUME old[n].key # key, NEW p
      PROVE  p \in OccurrencesIn(new, key) <=> p \in OccurrencesIn(old, key)
  BY <1>1, OccurrencesArePairs
<1>2. \A i : i \in 1..(c + 1) => i \in 1..c \/ i = c + 1
  OBVIOUS
<1>3. ASSUME NEW p \in OccurrencesIn(new, key)
      PROVE  p \in OccurrencesIn(old, key) \cup ({n} \X (1..c)) \cup {<<n, c + 1>>}
  <2>1. PICK i, j : /\ i \in DOMAIN new /\ j \in 1..new[i].occurrence_count
                    /\ new[i].key = key /\ p = <<i, j>>
    BY <1>3, OccurrencesArePairs
  <2>2. CASE i = n
    BY <2>1, <2>2, <1>2
  <2>3. CASE i # n
    BY <2>1, <2>3, OccurrencesArePairs
  <2> QED
    BY <2>2, <2>3
<1>4. ASSUME old[n].key = key, old[n].occurrence_count = c
      PROVE  /\ OccurrencesIn(new, key) = OccurrencesIn(old, key) \cup {<<n, c + 1>>}
             /\ <<n, c + 1>> \notin OccurrencesIn(old, key)
  <2>1. ASSUME NEW p \in OccurrencesIn(old, key) PROVE p \in OccurrencesIn(new, key)
    <3>1. PICK i, j : /\ i \in DOMAIN old /\ j \in 1..old[i].occurrence_count
                      /\ old[i].key = key /\ p = <<i, j>>
      BY <2>1, OccurrencesArePairs
    <3>2. j \in 1..new[i].occurrence_count
      <4>1. CASE i = n
        <5>1. j \in 1..c
          BY <4>1, <3>1, <1>4
        <5>2. j \in 1..(c + 1)
          BY <5>1
        <5> QED
          BY <4>1, <5>2
      <4>2. CASE i # n
        BY <4>2, <3>1
      <4> QED
        BY <4>1, <4>2
    <3> QED
      BY <3>1, <3>2, OccurrencesArePairs
  <2>2. <<n, c + 1>> \in OccurrencesIn(new, key)
    <3>1. c + 1 \in 1..new[n].occurrence_count /\ new[n].key = key
      BY <1>4
    <3> QED
      BY <3>1, OccurrencesArePairs
  <2>3. \A j \in 1..c : <<n, j>> \in OccurrencesIn(old, key)
    BY <1>4, OccurrencesArePairs
  <2>4. ASSUME <<n, c + 1>> \in OccurrencesIn(old, key) PROVE FALSE
    <3>1. PICK i, j : i \in DOMAIN old /\ j \in 1..old[i].occurrence_count /\ <<n, c + 1>> = <<i, j>>
      BY <2>4, OccurrencesArePairs
    <3>2. i = n /\ j = c + 1 /\ j \in 1..c
      BY <3>1, <1>4
    <3> QED
      BY <3>2
  <2> QED
    BY <1>3, <2>1, <2>2, <2>3, <2>4
<1> QED
  BY <1>1, <1>3, <1>4

\* A row inserted stands for one detection.
LEMMA OneRowInserted ==
  ASSUME NEW old, NEW new, NEW n, n \notin DOMAIN old, DOMAIN new = DOMAIN old \cup {n},
         \A i \in DOMAIN old : /\ new[i].key = old[i].key
                               /\ new[i].occurrence_count = old[i].occurrence_count,
         new[n].occurrence_count = 1, NEW key
  PROVE  /\ new[n].key # key => OccurrencesIn(new, key) = OccurrencesIn(old, key)
         /\ new[n].key = key =>
              /\ OccurrencesIn(new, key) = OccurrencesIn(old, key) \cup {<<n, 1>>}
              /\ <<n, 1>> \notin OccurrencesIn(old, key)
<1>1. ASSUME NEW p \in OccurrencesIn(old, key) PROVE p \in OccurrencesIn(new, key)
  <2>1. PICK i, j : /\ i \in DOMAIN old /\ j \in 1..old[i].occurrence_count
                    /\ old[i].key = key /\ p = <<i, j>>
    BY <1>1, OccurrencesArePairs
  <2>2. i \in DOMAIN new /\ j \in 1..new[i].occurrence_count /\ new[i].key = key
    BY <2>1
  <2> QED
    BY <2>1, <2>2, OccurrencesArePairs
<1>2. ASSUME NEW p \in OccurrencesIn(new, key)
      PROVE  p \in OccurrencesIn(old, key) \/ (p = <<n, 1>> /\ new[n].key = key)
  <2>1. PICK i, j : /\ i \in DOMAIN new /\ j \in 1..new[i].occurrence_count
                    /\ new[i].key = key /\ p = <<i, j>>
    BY <1>2, OccurrencesArePairs
  <2>2. CASE i = n
    <3>1. j = 1
      BY <2>1, <2>2
    <3> QED
      BY <2>1, <2>2, <3>1
  <2>3. CASE i # n
    BY <2>1, <2>3, OccurrencesArePairs
  <2> QED
    BY <2>2, <2>3
<1>3. new[n].key = key => <<n, 1>> \in OccurrencesIn(new, key)
  <2>1. n \in DOMAIN new /\ 1 \in 1..new[n].occurrence_count
    OBVIOUS
  <2> QED
    BY <2>1, OccurrencesArePairs
<1>4. <<n, 1>> \notin OccurrencesIn(old, key)
  BY OccurrencesArePairs
<1> QED
  BY <1>1, <1>2, <1>3, <1>4

\* Rows keep what they stand for where keys and counts stay.
LEMMA SameOccurrences ==
  ASSUME NEW old, NEW new, DOMAIN new = DOMAIN old,
         \A i \in DOMAIN old : /\ new[i].key = old[i].key
                               /\ new[i].occurrence_count = old[i].occurrence_count, NEW key
  PROVE  OccurrencesIn(new, key) = OccurrencesIn(old, key)
<1>1. ASSUME NEW p PROVE p \in OccurrencesIn(new, key) <=> p \in OccurrencesIn(old, key)
  BY OccurrencesArePairs
<1> QED
  BY <1>1

LEMMA OccurrencesOfAlerts ==
  ASSUME NEW key
  PROVE  /\ Occurrences(key) = OccurrencesIn(alerts, key)
         /\ Occurrences(key)' = OccurrencesIn(alerts', key)
  BY DEF Occurrences, AlertsOf, OccurrencesIn

LEMMA ReachedArePairs ==
  ASSUME NEW key, NEW p
  PROVE  /\ p \in Reached(key) <=>
              \/ p \in Occurrences(key)
              \/ \E t \in Selected(key) : session[t].found # 0
                                          /\ p \in {session[t].found} \X (1..session[t].seen)
         /\ p \in Reached(key)' <=>
              \/ p \in Occurrences(key)'
              \/ \E t \in Selected(key)' : session'[t].found # 0
                                           /\ p \in {session'[t].found} \X (1..session'[t].seen)
  BY DEF Reached

LEMMA CountParts ==
  ASSUME CountInv
  PROVE  OneLock /\ SeenIsCurrent /\ Accounted /\ Summed
  BY DEF CountInv

LEMMA SerialKeysAreKeys == \A key \in SerialKeys : key \in Key
  BY DEF Key, SerialKeys, AssetKeys, RadioKeys

LEMMA CountInit == Init => CountInv
<1> SUFFICES ASSUME Init PROVE CountInv
    OBVIOUS
<1>1. Idle.pc = "idle" /\ Idle.locks = FALSE
  BY DEF Idle
<1>2. /\ \A s \in Session : session[s] = Idle
      /\ DOMAIN alerts = {} /\ \A key \in Key : counted[key] = 0
  BY DEF Init
<1>3. ASSUME NEW key PROVE Occurrences(key) = {} /\ Selected(key) = {}
  BY <1>1, <1>2 DEF Occurrences, AlertsOf, Selected
<1>4. ASSUME NEW key PROVE Reached(key) = {}
  BY <1>3 DEF Reached
<1>5. OneLock /\ SeenIsCurrent
  BY <1>1, <1>2 DEF OneLock, SeenIsCurrent
<1>6. Accounted
  <2>1. ASSUME NEW key \in Key
        PROVE  IsFiniteSet(Reached(key)) /\ Cardinality(Reached(key)) = 0 /\ counted[key] = 0
    BY <1>2, <1>4, FS_EmptySet
  <2> QED
    BY <2>1 DEF Accounted
<1>7. \A key \in SerialKeys : key \in Key
  BY SerialKeysAreKeys
<1>8. Summed
  BY <1>2, <1>3, <1>7, FS_EmptySet DEF Summed
<1> QED
  BY <1>5, <1>6, <1>8 DEF CountInv

\* A session's step that leaves the alerts alone: what it has seen of an alert is what that counts.
LEMMA SessionCounts ==
  ASSUME IInv, CountInv, NEW s \in Session, NEW r,
         session' = [session EXCEPT ![s] = r], UNCHANGED <<alerts, counted>>,
         r.locks => \A t \in Session \ {s} : session[t].locks => session[t].key[2] # r.key[2],
         r.pc = "selected" /\ r.found # 0 =>
           /\ r.found \in DOMAIN alerts /\ alerts[r.found].key = r.key
           /\ r.seen = alerts[r.found].occurrence_count
  PROVE  CountInv'
<1>1. \A t \in Session : session'[t] = IF t = s THEN r ELSE session[t]
  BY Parts DEF Shapes
<1>2. OneLock'
  BY <1>1, CountParts DEF OneLock
<1>3. SeenIsCurrent'
  BY <1>1, CountParts DEF SeenIsCurrent
<1>4. ASSUME NEW key PROVE Occurrences(key)' = Occurrences(key)
  BY OccurrencesOfAlerts
<1>5. ASSUME NEW key PROVE Reached(key)' \subseteq Reached(key)
  <2> SUFFICES ASSUME NEW p \in Reached(key)' PROVE p \in Reached(key)
      OBVIOUS
  <2>1. CASE p \in Occurrences(key)'
    BY <2>1, <1>4, ReachedArePairs
  <2>2. ASSUME NEW t \in Selected(key)', session'[t].found # 0,
               p \in {session'[t].found} \X (1..session'[t].seen)
        PROVE  p \in Reached(key)
    <3>1. t \in Session /\ session'[t].pc = "selected" /\ session'[t].key = key
      BY <2>2 DEF Selected
    <3>2. CASE t = s
      <4>1. /\ r.found \in DOMAIN alerts /\ alerts[r.found].key = key
            /\ p \in {r.found} \X (1..alerts[r.found].occurrence_count)
        BY <2>2, <3>1, <3>2, <1>1
      <4>2. PICK j \in 1..alerts[r.found].occurrence_count : p = <<r.found, j>>
        BY <4>1
      <4>3. p \in OccurrencesIn(alerts, key)
        BY <4>1, <4>2, OccurrencesArePairs
      <4> QED
        BY <4>3, OccurrencesOfAlerts, ReachedArePairs
    <3>3. CASE t # s
      <4>1. t \in Selected(key) /\ session'[t] = session[t]
        BY <3>1, <3>3, <1>1, <2>2 DEF Selected, FoundDeleted
      <4> QED
        BY <4>1, <2>2, ReachedArePairs
    <3> QED
      BY <3>2, <3>3
  <2> QED
    BY <2>1, <2>2, ReachedArePairs
<1>6. Accounted'
  <2> SUFFICES ASSUME NEW key \in Key
               PROVE  IsFiniteSet(Reached(key)') /\ Cardinality(Reached(key)') <= counted'[key]
    BY DEF Accounted
  <2>1. /\ IsFiniteSet(Reached(key)) /\ Cardinality(Reached(key)) <= counted[key]
        /\ counted[key] \in Nat
    BY CountParts, Parts DEF Accounted, Shapes
  <2>2. IsFiniteSet(Reached(key)')
    BY <2>1, <1>5, FS_Subset
  <2>3. /\ Cardinality(Reached(key)') \in Nat /\ Cardinality(Reached(key)) \in Nat
        /\ Cardinality(Reached(key)') <= Cardinality(Reached(key))
    BY <2>1, <1>5, Smaller
  <2> QED
    BY <2>1, <2>2, <2>3
<1>7. Summed'
  BY <1>4, CountParts DEF Summed
<1> QED
  BY <1>2, <1>3, <1>6, <1>7 DEF CountInv

\* What an upsert does to the rows.
LEMMA CommitRows ==
  ASSUME IInv, NEW s \in Session, CommitDetection(s)
  PROVE  /\ session[s].pc = "selected" /\ session[s].key \in Key /\ session[s].seen \in Nat
         /\ ~ FoundDeleted(s)
         /\ session[s].found \in 0..Len(alerts) /\ session[s].found \in Nat
         /\ \A t \in Session : session'[t] = IF t = s THEN Idle ELSE session[t]
         /\ counted' = [counted EXCEPT ![session[s].key] = @ + 1]
         /\ \A i \in DOMAIN alerts : /\ alerts'[i].key = alerts[i].key
                                     /\ alerts'[i].status = alerts[i].status
         /\ session[s].found # 0 =>
              /\ session[s].found \in DOMAIN alerts /\ DOMAIN alerts' = DOMAIN alerts
              /\ alerts[session[s].found].key = session[s].key
              /\ alerts'[session[s].found].occurrence_count = session[s].seen + 1
              /\ \A i \in DOMAIN alerts : i # session[s].found =>
                   alerts'[i].occurrence_count = alerts[i].occurrence_count
         /\ session[s].found = 0 =>
              /\ Len(alerts) + 1 \notin DOMAIN alerts
              /\ DOMAIN alerts' = DOMAIN alerts \cup {Len(alerts) + 1}
              /\ alerts'[Len(alerts) + 1].key = session[s].key
              /\ alerts'[Len(alerts) + 1].status = "open"
              /\ alerts'[Len(alerts) + 1].occurrence_count = 1
              /\ \A i \in DOMAIN alerts :
                   alerts'[i].occurrence_count = alerts[i].occurrence_count
<1> DEFINE key == session[s].key
           n == session[s].found
           c == session[s].seen + 1
           new == [key |-> key, status |-> "open", occurrence_count |-> 1, revived |-> FALSE]
<1>1. /\ session[s].pc = "selected" /\ session[s] \in SessionRow /\ Keyed(session[s])
      /\ Found(session[s]) /\ key \in Key /\ n \in Nat /\ session[s].seen \in Nat
      /\ ~ FoundDeleted(s)
  BY Parts DEF CommitDetection, Keyed, SessionRow
<1>2. /\ \A t \in Session : session'[t] = IF t = s THEN Idle ELSE session[t]
      /\ counted' = [counted EXCEPT ![key] = @ + 1]
      /\ n = 0 => alerts' = Append(alerts, new)
      /\ n # 0 => alerts' = [alerts EXCEPT ![n].occurrence_count = c]
  BY Parts DEF CommitDetection, Shapes
<1>3. /\ new \in AlertRow /\ new.key = key /\ new.status = "open"
      /\ new.occurrence_count = 1
  BY <1>1 DEF AlertRow, Status
<1>4. n \in 0..Len(alerts)
  BY <1>1 DEF Found
<1>5. CASE n = 0
  <2> HIDE DEF new, key, n
  <2>1. alerts' = Append(alerts, new) /\ alerts \in Seq(AlertRow)
    BY <1>2, <1>5, Parts
  <2>2. /\ Len(alerts) + 1 \notin 1..Len(alerts)
        /\ 1..(Len(alerts) + 1) = 1..Len(alerts) \cup {Len(alerts) + 1}
    BY Parts
  <2>3. /\ Len(alerts') = Len(alerts) + 1 /\ DOMAIN alerts' = 1..Len(alerts')
        /\ alerts'[Len(alerts) + 1] = new
        /\ \A i \in 1..Len(alerts) : alerts'[i] = alerts[i]
    BY <2>1, <1>3, Parts
  <2> QED
    BY <1>1, <1>2, <1>3, <1>4, <1>5, <2>2, <2>3, Parts DEF key, n
<1>6. CASE n # 0
  <2>1. n \in DOMAIN alerts /\ alerts[n].key = key
    BY <1>1, <1>4, <1>6, Parts DEF Found
  <2> DEFINE row == [alerts[n] EXCEPT !.occurrence_count = c]
  <2>2. row.occurrence_count = c /\ row.key = alerts[n].key /\ row.status = alerts[n].status
    <3>1. alerts[n] \in AlertRow
      BY <2>1, Parts
    <3> QED
      BY <3>1 DEF AlertRow
  <2>3. /\ DOMAIN alerts' = DOMAIN alerts
        /\ \A i \in DOMAIN alerts : alerts'[i] = IF i = n THEN row ELSE alerts[i]
    BY <1>2, <1>6
  <2> HIDE DEF row, c, n, key
  <2>4. \A i \in DOMAIN alerts :
          /\ alerts'[i].key = alerts[i].key /\ alerts'[i].status = alerts[i].status
          /\ i # n => alerts'[i].occurrence_count = alerts[i].occurrence_count
    BY <2>2, <2>3
  <2>5. alerts'[n].occurrence_count = c
    BY <2>1, <2>2, <2>3
  <2> QED
    BY <1>1, <1>2, <1>4, <1>6, <2>1, <2>3, <2>4, <2>5 DEF key, n, c
<1> QED
  BY <1>5, <1>6

\* What an operator leaves as it was.
LEMMA OperatorRows ==
  ASSUME IInv, NEW n \in DOMAIN alerts, NEW status, Operates(n, status)
  PROVE  /\ DOMAIN alerts' = DOMAIN alerts /\ UNCHANGED counted
         /\ alerts[n].status # "deleted" /\ alerts'[n].status = status
         /\ \A i \in DOMAIN alerts :
              /\ alerts'[i].key = alerts[i].key
              /\ alerts'[i].occurrence_count = alerts[i].occurrence_count
              /\ i # n => alerts'[i].status = alerts[i].status
         /\ \A t \in Session :
              /\ session'[t].pc = session[t].pc /\ session'[t].key = session[t].key
              /\ session'[t].locks = session[t].locks /\ session'[t].found = session[t].found
              /\ session'[t].seen = session[t].seen
<1>1. PICK back \in BOOLEAN :
        /\ alerts' = [alerts EXCEPT ![n] = MovedRow(n, status, back)]
        /\ session' = Raced(n) /\ UNCHANGED counted
        /\ alerts[n] \in AlertRow /\ alerts[n].status # "deleted"
  BY OperatorRow
<1> DEFINE row == MovedRow(n, status, back)
<1>2. ASSUME NEW t \in Session
      PROVE  /\ session'[t].pc = session[t].pc /\ session'[t].key = session[t].key
             /\ session'[t].locks = session[t].locks /\ session'[t].found = session[t].found
             /\ session'[t].seen = session[t].seen
  <2>1. session[t] \in SessionRow
    BY Parts
  <2> QED
    BY <1>1, <2>1 DEF SessionRow, Raced
<1>3. /\ row.status = status /\ row.key = alerts[n].key
      /\ row.occurrence_count = alerts[n].occurrence_count
  BY <1>1 DEF AlertRow, MovedRow
<1>4. /\ DOMAIN alerts' = DOMAIN alerts
      /\ \A i \in DOMAIN alerts : alerts'[i] = IF i = n THEN row ELSE alerts[i]
  BY <1>1
<1> HIDE DEF row
<1>5. \A i \in DOMAIN alerts :
        /\ alerts'[i].key = alerts[i].key
        /\ alerts'[i].occurrence_count = alerts[i].occurrence_count
        /\ i # n => alerts'[i].status = alerts[i].status
  BY <1>3, <1>4
<1>6. alerts'[n].status = status
  BY <1>3, <1>4
<1> QED
  BY <1>1, <1>2, <1>4, <1>5, <1>6

\* An asset's alert is counted up by the one session that holds the asset's lock.
LEMMA CommitKeepsSeen ==
  ASSUME IInv, CountInv, NEW s \in Session, CommitDetection(s)
  PROVE  OneLock' /\ SeenIsCurrent'
<1>1. /\ \A t \in Session : session'[t] = IF t = s THEN Idle ELSE session[t]
      /\ Idle.pc = "idle" /\ Idle.locks = FALSE
  BY CommitRows, IdleRow
<1>2. OneLock'
  BY <1>1, CountParts DEF OneLock
<1>3. SeenIsCurrent'
  <2> SUFFICES ASSUME NEW t \in Session, session'[t].pc = "selected", session'[t].found # 0,
                      session'[t].key \in SerialKeys
               PROVE  session'[t].seen = alerts'[session'[t].found].occurrence_count
    BY DEF SeenIsCurrent
  <2>1. t # s /\ session'[t] = session[t]
    BY <1>1
  <2>2. session[t].seen = alerts[session[t].found].occurrence_count
    BY <2>1, CountParts DEF SeenIsCurrent
  <2>3. /\ session[t].found \in DOMAIN alerts /\ alerts[session[t].found].key = session[t].key
        /\ session[t].locks = TRUE
    <3>1. Found(session[t]) /\ Keyed(session[t])
      BY Parts
    <3> QED
      BY <3>1, <2>1, Parts DEF Found, Keyed
  <2>4. session[s].found # 0 => session[t].found # session[s].found
    <3> SUFFICES ASSUME session[s].found # 0, session[t].found = session[s].found PROVE FALSE
        OBVIOUS
    <3>1. session[s].key = session[t].key /\ session[s].pc = "selected"
      BY <2>3, CommitRows
    <3>2. session[s].locks = TRUE
      BY <3>1, <2>1, Parts DEF Keyed
    <3> QED
      BY <3>1, <3>2, <2>1, <2>3, CountParts DEF OneLock
  <2>5. alerts'[session[t].found].occurrence_count = alerts[session[t].found].occurrence_count
    BY <2>3, <2>4, CommitRows
  <2> QED
    BY <2>1, <2>2, <2>5
<1> QED
  BY <1>2, <1>3

\* A commit adds one detection to those of its key, and none to others.
LEMMA CommitOccurs ==
  ASSUME IInv, CountInv, NEW s \in Session, CommitDetection(s), NEW key
  PROVE  /\ key # session[s].key => Occurrences(key)' = Occurrences(key)
         /\ key = session[s].key => \E p :
              /\ Occurrences(key)' \subseteq Reached(key) \cup {p}
              /\ key \in SerialKeys => /\ Occurrences(key)' = Occurrences(key) \cup {p}
                                      /\ p \notin Occurrences(key)
<1> DEFINE n == session[s].found
           c == session[s].seen
<1>1. CASE n = 0
  <2>1. /\ key # session[s].key => Occurrences(key)' = Occurrences(key)
        /\ key = session[s].key =>
             /\ Occurrences(key)' = Occurrences(key) \cup {<<Len(alerts) + 1, 1>>}
             /\ <<Len(alerts) + 1, 1>> \notin Occurrences(key)
    BY <1>1, CommitRows, OneRowInserted, OccurrencesOfAlerts
  <2>2. Occurrences(key) \subseteq Reached(key)
    BY ReachedArePairs
  <2> QED
    BY <2>1, <2>2
<1>2. CASE n # 0
  <2>1. /\ n \in DOMAIN alerts /\ c \in Nat /\ DOMAIN alerts' = DOMAIN alerts
        /\ alerts[n].key = session[s].key /\ session[s].pc = "selected"
        /\ alerts'[n].occurrence_count = c + 1
        /\ \A i \in DOMAIN alerts : alerts'[i].key = alerts[i].key
        /\ \A i \in DOMAIN alerts : i # n =>
             alerts'[i].occurrence_count = alerts[i].occurrence_count
    BY <1>2, CommitRows
  <2> HIDE DEF n, c
  <2>2. /\ alerts[n].key # key => Occurrences(key)' = Occurrences(key)
        /\ Occurrences(key)' \subseteq Occurrences(key) \cup ({n} \X (1..c)) \cup {<<n, c + 1>>}
        /\ alerts[n].key = key /\ alerts[n].occurrence_count = c =>
             /\ Occurrences(key)' = Occurrences(key) \cup {<<n, c + 1>>}
             /\ <<n, c + 1>> \notin Occurrences(key)
    <3>1. /\ alerts[n].key # key => OccurrencesIn(alerts', key) = OccurrencesIn(alerts, key)
          /\ OccurrencesIn(alerts', key)
               \subseteq OccurrencesIn(alerts, key) \cup ({n} \X (1..c)) \cup {<<n, c + 1>>}
          /\ alerts[n].key = key /\ alerts[n].occurrence_count = c =>
               /\ OccurrencesIn(alerts', key) = OccurrencesIn(alerts, key) \cup {<<n, c + 1>>}
               /\ <<n, c + 1>> \notin OccurrencesIn(alerts, key)
      BY <2>1, OneRowCounts, SMTT(20)
    <3> QED
      BY <3>1, OccurrencesOfAlerts
  <2>3. ASSUME key = session[s].key
        PROVE  Occurrences(key) \cup ({n} \X (1..c)) \subseteq Reached(key)
    <3>1. s \in Selected(key)
      BY <2>1, <2>3, CommitRows DEF Selected
    <3> QED
      BY <3>1, <1>2, ReachedArePairs DEF n, c
  <2>4. key = session[s].key /\ key \in SerialKeys => alerts[n].occurrence_count = c
    BY <2>1, <1>2, CountParts DEF SeenIsCurrent, n, c
  <2> QED
    BY <2>1, <2>2, <2>3, <2>4
<1> QED
  BY <1>1, <1>2

LEMMA CommitCounts ==
  ASSUME IInv, CountInv, NEW s \in Session, CommitDetection(s)
  PROVE  CountInv'
<1> DEFINE own == session[s].key
<1>1. /\ own \in Key /\ counted' = [counted EXCEPT ![own] = @ + 1]
      /\ \A t \in Session : session'[t] = IF t = s THEN Idle ELSE session[t]
      /\ Idle.pc = "idle" /\ counted \in [Key -> Nat]
  BY CommitRows, IdleRow, Parts DEF Shapes
<1>2. ASSUME NEW key \in Key
      PROVE  /\ key = own => counted'[key] = counted[key] + 1
             /\ key # own => counted'[key] = counted[key]
             /\ counted[key] \in Nat
  BY <1>1
<1>3. ASSUME NEW key, NEW p \in Reached(key)' PROVE p \in Reached(key) \/ p \in Occurrences(key)'
  <2>1. ASSUME NEW t \in Selected(key)', session'[t].found # 0,
               p \in {session'[t].found} \X (1..session'[t].seen)
        PROVE  p \in Reached(key)
    <3>1. t \in Session /\ t # s /\ session'[t] = session[t] /\ session[t].found # 0
      BY <2>1, <1>1 DEF Selected
    <3>2. Found(session[t])
      BY <3>1, Parts
    <3>3. alerts'[session[t].found].status = alerts[session[t].found].status
      BY <3>1, <3>2, CommitRows, Parts DEF Found
    <3>4. t \in Selected(key)
      BY <2>1, <3>1, <3>3 DEF Selected, FoundDeleted
    <3> QED
      BY <3>1, <3>4, <2>1, ReachedArePairs
  <2> QED
    BY <1>3, <2>1, ReachedArePairs
<1>4. Accounted'
  <2> SUFFICES ASSUME NEW key \in Key
               PROVE  IsFiniteSet(Reached(key)') /\ Cardinality(Reached(key)') <= counted'[key]
    BY DEF Accounted
  <2>1. IsFiniteSet(Reached(key)) /\ Cardinality(Reached(key)) <= counted[key]
    BY CountParts DEF Accounted
  <2>2. CASE key = own
    <3>1. PICK p : Occurrences(key)' \subseteq Reached(key) \cup {p}
      BY <2>2, CommitOccurs
    <3>2. Reached(key)' \subseteq Reached(key) \cup {p}
      BY <3>1, <1>3
    <3>3. /\ Cardinality(Reached(key)') \in Nat /\ Cardinality(Reached(key)) \in Nat
          /\ Cardinality(Reached(key)') <= Cardinality(Reached(key)) + 1
      BY <2>1, <3>2, OneMore
    <3>4. IsFiniteSet(Reached(key)')
      BY <2>1, <3>2, FS_AddElement, FS_Subset
    <3> QED
      BY <2>1, <2>2, <3>3, <3>4, <1>2
  <2>3. CASE key # own
    <3>1. Reached(key)' \subseteq Reached(key)
      BY <2>3, <1>3, CommitOccurs, ReachedArePairs
    <3>2. /\ Cardinality(Reached(key)') \in Nat /\ Cardinality(Reached(key)) \in Nat
          /\ Cardinality(Reached(key)') <= Cardinality(Reached(key))
      BY <2>1, <3>1, Smaller
    <3>3. IsFiniteSet(Reached(key)')
      BY <2>1, <3>1, FS_Subset
    <3> QED
      BY <2>1, <2>3, <3>2, <3>3, <1>2
  <2> QED
    BY <2>2, <2>3
<1>5. Summed'
  <2> SUFFICES ASSUME NEW key \in SerialKeys
               PROVE  /\ IsFiniteSet(Occurrences(key)')
                      /\ Cardinality(Occurrences(key)') = counted'[key]
    BY DEF Summed
  <2>1. /\ IsFiniteSet(Occurrences(key)) /\ Cardinality(Occurrences(key)) = counted[key]
        /\ key \in Key
    BY CountParts, SerialKeysAreKeys DEF Summed
  <2>2. CASE key = own
    <3>1. PICK p : Occurrences(key)' = Occurrences(key) \cup {p} /\ p \notin Occurrences(key)
      BY <2>2, CommitOccurs
    <3>2. /\ IsFiniteSet(Occurrences(key)')
          /\ Cardinality(Occurrences(key)') = Cardinality(Occurrences(key)) + 1
      BY <2>1, <3>1, FS_AddElement
    <3> QED
      BY <2>1, <2>2, <3>2, <1>2
  <2>3. CASE key # own
    <3>1. Occurrences(key)' = Occurrences(key)
      BY <2>3, CommitOccurs
    <3>2. counted'[key] = counted[key]
      BY <2>1, <2>3, <1>2
    <3> QED
      BY <2>1, <3>1, <3>2
  <2> QED
    BY <2>2, <2>3
<1> QED
  BY <1>4, <1>5, CommitKeepsSeen DEF CountInv

LEMMA OperatorCounts ==
  ASSUME IInv, CountInv, NEW n \in DOMAIN alerts, NEW status, Operates(n, status)
  PROVE  CountInv'
<1>1. /\ DOMAIN alerts' = DOMAIN alerts /\ UNCHANGED counted
      /\ alerts[n].status # "deleted"
      /\ \A i \in DOMAIN alerts : /\ alerts'[i].key = alerts[i].key
                                  /\ alerts'[i].occurrence_count = alerts[i].occurrence_count
                                  /\ i # n => alerts'[i].status = alerts[i].status
      /\ \A t \in Session :
           /\ session'[t].pc = session[t].pc /\ session'[t].key = session[t].key
           /\ session'[t].locks = session[t].locks /\ session'[t].found = session[t].found
           /\ session'[t].seen = session[t].seen
  BY OperatorRows
<1>2. ASSUME NEW key PROVE Occurrences(key)' = Occurrences(key)
  BY <1>1, SameOccurrences, OccurrencesOfAlerts
<1>3. ASSUME NEW key PROVE Reached(key)' \subseteq Reached(key)
  <2>1. ASSUME NEW t \in Selected(key)' PROVE t \in Session /\ t \in Selected(key)
    <3>1. /\ t \in Session /\ session[t].pc = "selected" /\ session[t].key = key
          /\ session[t].found # 0 => alerts'[session[t].found].status # "deleted"
      BY <1>1, <2>1 DEF Selected, FoundDeleted
    <3>2. session[t].found # 0 => session[t].found \in DOMAIN alerts
      BY <3>1, FoundRow
    <3>3. session[t].found # 0 => alerts[session[t].found].status # "deleted"
      BY <1>1, <3>1, <3>2
    <3> QED
      BY <3>1, <3>3 DEF Selected, FoundDeleted
  <2>2. ASSUME NEW p \in Reached(key)' PROVE p \in Reached(key)
    BY <1>1, <1>2, <2>1, <2>2, ReachedArePairs
  <2> QED
    BY <2>2
<1>4. OneLock'
  BY <1>1, CountParts DEF OneLock
<1>5. SeenIsCurrent'
  <2> SUFFICES ASSUME NEW t \in Session, session[t].pc = "selected", session[t].found # 0,
                      session[t].key \in SerialKeys
               PROVE  session[t].seen = alerts'[session[t].found].occurrence_count
    BY <1>1 DEF SeenIsCurrent
  <2>1. Found(session[t])
    BY Parts
  <2>2. session[t].found \in DOMAIN alerts
    BY <2>1, Parts DEF Found
  <2> QED
    BY <2>2, <1>1, CountParts DEF SeenIsCurrent
<1>6. Accounted'
  <2> SUFFICES ASSUME NEW key \in Key
               PROVE  IsFiniteSet(Reached(key)') /\ Cardinality(Reached(key)') <= counted'[key]
    BY DEF Accounted
  <2>1. /\ IsFiniteSet(Reached(key)) /\ Cardinality(Reached(key)) <= counted[key]
        /\ counted[key] \in Nat
    BY CountParts, Parts DEF Accounted, Shapes
  <2>2. /\ Cardinality(Reached(key)') \in Nat /\ Cardinality(Reached(key)) \in Nat
        /\ Cardinality(Reached(key)') <= Cardinality(Reached(key))
        /\ IsFiniteSet(Reached(key)')
    BY <2>1, <1>3, Smaller, FS_Subset
  <2> QED
    BY <2>1, <2>2, <1>1
<1>7. Summed'
  BY <1>1, <1>2, CountParts DEF Summed
<1> QED
  BY <1>4, <1>5, <1>6, <1>7 DEF CountInv

\* What a session knows after its SELECT.
LEMMA SelectRow ==
  ASSUME IInv, NEW s \in Session, SelectAlert(s)
  PROVE  \E r :
           /\ session' = [session EXCEPT ![s] = r] /\ UNCHANGED <<alerts, counted>>
           /\ session[s].pc = "waiting" /\ session[s].key \in Key
           /\ r.pc = "selected" /\ r.key = session[s].key
           /\ r.found \in Matches(r.key) \cup {0} /\ (r.found = 0 <=> Matches(r.key) = {})
           /\ r.found # 0 => r.seen = alerts[r.found].occurrence_count
           /\ r.locks => RowFree(s, r.key[2])
           /\ r.key \in SerialKeys => r.locks = TRUE
<1> DEFINE key == session[s].key
<1>1. PICK locks \in WritesDevice(s), n \in Matches(key) \cup {0} :
        /\ locks => RowFree(s, key[2])
        /\ n = 0 <=> Matches(key) = {}
        /\ session' = [session EXCEPT
             ![s].pc = "selected", ![s].locks = locks, ![s].found = n,
             ![s].seen = IF n = 0 THEN 0 ELSE alerts[n].occurrence_count]
  BY DEF SelectAlert
<1>2. /\ session[s].pc = "waiting" /\ UNCHANGED <<alerts, counted>>
      /\ session[s] \in SessionRow /\ Keyed(session[s]) /\ session \in [Session -> SessionRow]
  BY Parts DEF SelectAlert, Shapes
<1>3. key \in Key
  BY <1>2 DEF Keyed
<1>4. key \in SerialKeys => locks = TRUE
  <2> SUFFICES ASSUME key \in SerialKeys PROVE locks = TRUE
      OBVIOUS
  <2>1. /\ Polled(key) /\ key[1] # "telemetry_down"
        /\ key[2] \in Asset \/ session[s].result = "online"
    BY <1>2, <1>3, KeyParts DEF Keyed
  <2>2. WritesDevice(s) = {TRUE}
    BY <2>1 DEF WritesDevice
  <2> QED
    BY <2>2, <1>1
<1> DEFINE seen == IF n = 0 THEN 0 ELSE alerts[n].occurrence_count
           r == [session[s] EXCEPT !.pc = "selected", !.locks = locks, !.found = n,
                                   !.seen = seen]
<1>5. session' = [session EXCEPT ![s] = r]
  BY <1>1, <1>2
<1>6. n # 0 => seen = alerts[n].occurrence_count
  OBVIOUS
<1> HIDE DEF seen
<1>7. /\ r.pc = "selected" /\ r.key = key /\ r.locks = locks /\ r.found = n /\ r.seen = seen
  BY <1>2 DEF SessionRow
<1> HIDE DEF r
<1> WITNESS r
<1> QED
  BY <1>1, <1>2, <1>3, <1>4, <1>5, <1>6, <1>7

LEMMA CountStep == IInv /\ CountInv /\ [Next]_vars => CountInv'
<1> SUFFICES ASSUME IInv, CountInv, [Next]_vars PROVE CountInv'
    OBVIOUS
<1>1. ASSUME NEW s \in Session, NEW key \in Key, NEW result \in {"online", "offline"},
             Detect(s, key, result)
      PROVE  CountInv'
  <2> DEFINE r == [Idle EXCEPT !.pc = "waiting", !.key = key, !.result = result,
                     !.loaded = IF Polled(key) THEN answer[key[2]] ELSE "unknown"]
  <2>1. session' = [session EXCEPT ![s] = r] /\ UNCHANGED <<alerts, counted>>
    BY <1>1 DEF Detect
  <2>2. r.pc = "waiting" /\ r.locks = FALSE
    BY DEF Idle
  <2> HIDE DEF r
  <2> QED
    BY <2>1, <2>2, SessionCounts
<1>2. ASSUME NEW s \in Session, StoreAnswer(s) \/ MeasurementFails(s) \/ DetectionFails(s)
      PROVE  CountInv'
  <2>1. session' = [session EXCEPT ![s] = Idle] /\ UNCHANGED <<alerts, counted>>
    BY <1>2 DEF StoreAnswer, MeasurementFails, DetectionFails
  <2> QED
    BY <2>1, IdleRow, SessionCounts
<1>3. ASSUME NEW s \in Session, SelectAlert(s) PROVE CountInv'
  <2>1. PICK r :
          /\ session' = [session EXCEPT ![s] = r] /\ UNCHANGED <<alerts, counted>>
          /\ r.found \in Matches(r.key) \cup {0}
          /\ r.found # 0 => r.seen = alerts[r.found].occurrence_count
          /\ r.locks => RowFree(s, r.key[2])
    BY <1>3, SelectRow
  <2>2. r.found # 0 => r.found \in DOMAIN alerts /\ alerts[r.found].key = r.key
    BY <2>1 DEF Matches
  <2>3. r.locks => \A t \in Session \ {s} : session[t].locks => session[t].key[2] # r.key[2]
    BY <2>1 DEF RowFree
  <2> QED
    BY <2>1, <2>2, <2>3, SessionCounts
<1>4. ASSUME NEW s \in Session, CommitDetection(s) PROVE CountInv'
  BY <1>4, CommitCounts
<1>5. ASSUME NEW n \in DOMAIN alerts, NEW status, Operates(n, status) PROVE CountInv'
  BY <1>5, OperatorCounts
<1>6. CASE UNCHANGED vars
  <2>1. UNCHANGED <<alerts, session, counted>>
    BY <1>6 DEF vars
  <2>2. OneLock' /\ SeenIsCurrent'
    BY <2>1, CountParts DEF OneLock, SeenIsCurrent
  <2>3. \A key : Occurrences(key)' = Occurrences(key) /\ Reached(key)' = Reached(key)
    BY <2>1 DEF Occurrences, AlertsOf, Reached, Selected, FoundDeleted
  <2>4. Accounted' /\ Summed'
    BY <2>1, <2>3, CountParts DEF Accounted, Summed
  <2> QED
    BY <2>2, <2>4 DEF CountInv
<1> QED
  BY <1>1, <1>2, <1>3, <1>4, <1>5, <1>6 DEF Next, Operates

THEOREM CountInvariance == Spec => []CountInv
  BY CountInit, CountStep, Invariance, PTL DEF Spec

-----------------------------------------------------------------------------
(* The detections of a serial key as the single steps of AtomicUpsert.     *)

LEMMA AddOne ==
  ASSUME NEW S, NEW T, NEW x, x \notin S, T = S \cup {x}, IsFiniteSet(S)
  PROVE  Cardinality(S) \in Nat /\ Cardinality(T) = Cardinality(S) + 1
  BY FS_AddElement, FS_CardinalityType

LEMMA DropOne ==
  ASSUME NEW S, NEW T, NEW x \in S, T = S \ {x}, IsFiniteSet(S)
  PROVE  /\ Cardinality(S) \in Nat /\ Cardinality(T) \in Nat
         /\ Cardinality(S) = Cardinality(T) + 1
  BY FS_RemoveElement, FS_CardinalityType

LEMMA AllFinite ==
  ASSUME IInv, CountInv, NEW key \in SerialKeys
  PROVE  /\ IsFiniteSet(Present(key)) /\ Cardinality(Present(key)) \in Nat
         /\ IsFiniteSet(Matches(key)) /\ Cardinality(Matches(key)) \in Nat
         /\ IsFiniteSet(Inserting(key)) /\ Cardinality(Inserting(key)) \in Nat
         /\ IsFiniteSet(Selected(key)) /\ Cardinality(Selected(key)) \in Nat
         /\ IsFiniteSet(Occurrences(key)) /\ Cardinality(Occurrences(key)) \in Nat
<1>1. IsFiniteSet(1..Len(alerts))
  BY Parts, FS_Interval
<1>2. Present(key) \subseteq 1..Len(alerts) /\ Matches(key) \subseteq 1..Len(alerts)
  BY Parts DEF AlertsOf, Present, Matches
<1>3. Inserting(key) \subseteq Session /\ Selected(key) \subseteq Session
  BY DEF Inserting, Selected
<1>4. IsFiniteSet(Occurrences(key))
  BY CountParts DEF Summed
<1>5. /\ IsFiniteSet(Present(key)) /\ IsFiniteSet(Matches(key))
      /\ IsFiniteSet(Inserting(key)) /\ IsFiniteSet(Selected(key))
  BY <1>1, <1>2, <1>3, SessionAssumption, FS_Subset
<1> QED
  BY <1>4, <1>5, FS_CardinalityType

\* What AtomicUpsert sees of a key.
Unmoved(key) == UNCHANGED <<Raised(key), Active(key), Total(key)>>

LEMMA UnmovedKeys ==
  ASSUME \A key \in SerialKeys : Unmoved(key)
  PROVE  UNCHANGED Upsert!vars
  BY DEF Unmoved, Upsert!vars

\* A key moves alone: by one detection, or by one alert closed, reopened or deleted.
LEMMA OneKeyMoves ==
  ASSUME NEW own \in SerialKeys, \A key \in SerialKeys \ {own} : Unmoved(key),
         \/ /\ Active(own) > 0 /\ Total(own)' = Total(own) + 1
            /\ UNCHANGED <<Raised(own), Active(own)>>
         \/ /\ Active(own) = 0 /\ Active(own)' = 1
            /\ Raised(own)' = Raised(own) + 1 /\ Total(own)' = Total(own) + 1
         \/ /\ Active(own) > 0 /\ Active(own)' = Active(own) - 1
            /\ UNCHANGED <<Raised(own), Total(own)>>
         \/ /\ Active(own) < Raised(own) /\ Active(own)' = Active(own) + 1
            /\ UNCHANGED <<Raised(own), Total(own)>>
         \/ /\ Raised(own) > 0 /\ Raised(own)' = Raised(own) - 1
            /\ Active(own)' \in {Active(own), Active(own) - 1} /\ Active(own)' \in 0..Raised(own)'
            /\ Total(own)' \in {Total(own), Total(own) - 1}
            /\ Active(own) \in Int /\ Total(own) \in Int
  PROVE  Upsert!Next
<1>1. CASE /\ Active(own) > 0 /\ Total(own)' = Total(own) + 1
           /\ UNCHANGED <<Raised(own), Active(own)>>
  <2>1. Upsert!CountOccurrence(own)
    BY <1>1 DEF Upsert!CountOccurrence, Unmoved
  <2> QED
    BY <2>1 DEF Upsert!Next
<1>2. CASE /\ Active(own) = 0 /\ Active(own)' = 1
           /\ Raised(own)' = Raised(own) + 1 /\ Total(own)' = Total(own) + 1
  <2>1. Upsert!InsertAlert(own)
    BY <1>2 DEF Upsert!InsertAlert, Unmoved
  <2> QED
    BY <2>1 DEF Upsert!Next
<1>3. CASE /\ Active(own) > 0 /\ Active(own)' = Active(own) - 1
           /\ UNCHANGED <<Raised(own), Total(own)>>
  <2>1. Upsert!Close(own)
    BY <1>3 DEF Upsert!Close, Unmoved
  <2> QED
    BY <2>1 DEF Upsert!Next
<1>4. CASE /\ Active(own) < Raised(own) /\ Active(own)' = Active(own) + 1
           /\ UNCHANGED <<Raised(own), Total(own)>>
  <2>1. Upsert!Reopen(own)
    BY <1>4 DEF Upsert!Reopen, Unmoved
  <2> QED
    BY <2>1 DEF Upsert!Next
<1>5. CASE /\ Raised(own) > 0 /\ Raised(own)' = Raised(own) - 1
           /\ Active(own)' \in {Active(own), Active(own) - 1} /\ Active(own)' \in 0..Raised(own)'
           /\ Total(own)' \in {Total(own), Total(own) - 1}
           /\ Active(own) \in Int /\ Total(own) \in Int
  <2> DEFINE R == [key \in SerialKeys |-> Raised(key)]
             A == [key \in SerialKeys |-> Active(key)]
             T == [key \in SerialKeys |-> Total(key)]
  <2>1. PICK was \in {0, 1} : Active(own)' = Active(own) - was
    BY <1>5
  <2>2. PICK undone \in {0, 1} : Total(own)' = Total(own) - undone
    BY <1>5
  <2>3. A' = [A EXCEPT ![own] = @ - was] /\ T' = [T EXCEPT ![own] = @ - undone]
    BY <2>1, <2>2 DEF Unmoved
  <2>4. R[own] > 0 /\ R' = [R EXCEPT ![own] = @ - 1] /\ A'[own] \in 0..R'[own]
    BY <1>5 DEF Unmoved
  <2> HIDE DEF R, A, T
  <2>5. Upsert!Delete(own)
    BY <2>3, <2>4 DEF Upsert!Delete, R, A, T
  <2> QED
    BY <2>5 DEF Upsert!Next
<1> QED
  BY <1>1, <1>2, <1>3, <1>4, <1>5

LEMMA UpsertInit == Init => Upsert!Init
<1> SUFFICES ASSUME Init PROVE Upsert!Init
    OBVIOUS
<1>1. (\A s \in Session : session[s].pc = "idle") /\ DOMAIN alerts = {}
  BY DEF Init, Idle
<1>2. ASSUME NEW key \in SerialKeys
      PROVE  /\ Present(key) = {} /\ Matches(key) = {} /\ Occurrences(key) = {}
             /\ Inserting(key) = {} /\ Selected(key) = {}
  BY <1>1 DEF AlertsOf, Present, Matches, Occurrences, Inserting, Selected
<1>3. ASSUME NEW key \in SerialKeys PROVE Raised(key) = 0 /\ Active(key) = 0 /\ Total(key) = 0
  BY <1>2, FS_EmptySet DEF Raised, Active, Total
<1> QED
  BY <1>3 DEF Upsert!Init

\* A session that neither was nor is between its SELECT and its commit tells nothing of a key.
LEMMA QuietSession ==
  ASSUME IInv, NEW s \in Session, NEW r, session' = [session EXCEPT ![s] = r],
         UNCHANGED alerts, NEW key \in SerialKeys,
         session[s].pc = "selected" => session[s].key # key,
         r.pc = "selected" => r.key # key
  PROVE  Unmoved(key)
<1>1. \A t \in Session : session'[t] = IF t = s THEN r ELSE session[t]
  BY Parts DEF Shapes
<1>2. Selected(key)' = Selected(key) /\ Inserting(key)' = Inserting(key)
  BY <1>1, Parts DEF Selected, Inserting, FoundDeleted
<1>3. /\ Present(key)' = Present(key) /\ Matches(key)' = Matches(key)
      /\ Occurrences(key)' = Occurrences(key)
  BY DEF AlertsOf, Present, Matches, Occurrences, ActiveStatus
<1> QED
  BY <1>2, <1>3 DEF Unmoved, Raised, Active, Total

\* The SELECT is where a detection happens: it counts on the alert it found, or inserts the only one.
LEMMA SelectUpserts ==
  ASSUME IInv, CountInv, NEW s \in Session, SelectAlert(s)
  PROVE  Upsert!Next \/ UNCHANGED Upsert!vars
<1>1. PICK r :
        /\ session' = [session EXCEPT ![s] = r] /\ UNCHANGED <<alerts, counted>>
        /\ session[s].pc = "waiting"
        /\ r.pc = "selected" /\ r.key = session[s].key
        /\ r.found \in Matches(r.key) \cup {0} /\ (r.found = 0 <=> Matches(r.key) = {})
        /\ r.locks => RowFree(s, r.key[2])
        /\ r.key \in SerialKeys => r.locks = TRUE
  BY SelectRow
<1>2. ASSUME NEW key \in SerialKeys, key # r.key PROVE Unmoved(key)
  BY <1>1, <1>2, QuietSession
<1>3. CASE r.key \notin SerialKeys
  BY <1>2, <1>3, UnmovedKeys
<1>4. CASE r.key \in SerialKeys
  <2> DEFINE key == r.key
  <2>1. \A t \in Session : session'[t] = IF t = s THEN r ELSE session[t]
    BY <1>1, Parts DEF Shapes
  <2>2. /\ Present(key)' = Present(key) /\ Matches(key)' = Matches(key)
        /\ Occurrences(key)' = Occurrences(key)
    BY <1>1 DEF AlertsOf, Present, Matches, Occurrences, ActiveStatus
  <2>3. Selected(key)' = Selected(key) \cup {s} /\ s \notin Selected(key)
    <3>1. r.found # 0 => alerts[r.found].status # "deleted"
      BY <1>1 DEF Matches, ActiveStatus
    <3> QED
      BY <1>1, <2>1, <3>1 DEF Selected, FoundDeleted
  <2>4. /\ IsFiniteSet(Selected(key)) /\ IsFiniteSet(Matches(key))
        /\ Cardinality(Present(key)) \in Nat /\ Cardinality(Matches(key)) \in Nat
        /\ Cardinality(Inserting(key)) \in Nat /\ Cardinality(Occurrences(key)) \in Nat
    BY <1>4, AllFinite
  <2>5. /\ Cardinality(Selected(key)) \in Nat
        /\ Cardinality(Selected(key)') = Cardinality(Selected(key)) + 1
    BY <2>3, <2>4, AddOne
  <2>6. Total(key)' = Total(key) + 1
    BY <2>2, <2>4, <2>5 DEF Total
  <2>7. CASE r.found # 0
    <3>1. Inserting(key)' = Inserting(key)
      BY <1>1, <2>1, <2>7 DEF Inserting
    <3>2. Cardinality(Matches(key)) # 0
      BY <1>1, <2>4, <2>7, FS_EmptySet
    <3>3. Active(key) > 0
      BY <2>4, <3>2 DEF Active
    <3>4. UNCHANGED <<Raised(key), Active(key)>>
      BY <2>2, <3>1 DEF Raised, Active
    <3> QED
      BY <1>2, <1>4, <2>6, <3>3, <3>4, OneKeyMoves
  <2>8. CASE r.found = 0
    <3>1. Inserting(key) = {}
      <4> SUFFICES ASSUME NEW t \in Inserting(key) PROVE FALSE
          OBVIOUS
      <4>1. /\ t \in Session /\ t # s /\ session[t].pc = "selected" /\ session[t].key = key
            /\ session[t].locks = TRUE
        BY <1>1, <1>4, Parts DEF Inserting, Keyed
      <4> QED
        BY <4>1, <1>1, <1>4 DEF RowFree
    <3>2. Inserting(key)' = {} \cup {s}
      BY <1>1, <2>1, <2>8, <3>1 DEF Inserting
    <3>3. /\ Cardinality(Inserting(key)) = 0 /\ Cardinality(Matches(key)) = 0
          /\ Cardinality(Inserting(key)') = 0 + 1
      <4>1. IsFiniteSet({}) /\ Cardinality({}) = 0 /\ s \notin {}
        BY FS_EmptySet
      <4>2. Cardinality(Inserting(key)') = Cardinality({}) + 1
        BY <3>2, <4>1, AddOne
      <4> QED
        BY <4>1, <4>2, <3>1, <1>1, <2>8
    <3>4. /\ Active(key) = 0 /\ Active(key)' = 1 /\ Raised(key)' = Raised(key) + 1
      BY <2>2, <2>4, <3>3 DEF Active, Raised
    <3> QED
      BY <1>2, <1>4, <2>6, <3>4, OneKeyMoves
  <2> QED
    BY <2>7, <2>8
<1> QED
  BY <1>3, <1>4

\* The commit writes what the SELECT has settled.
LEMMA CommitIsQuiet ==
  ASSUME IInv, CountInv, NEW s \in Session, CommitDetection(s)
  PROVE  UNCHANGED Upsert!vars
<1> DEFINE own == session[s].key
           x == Len(alerts) + 1
<1>1. /\ session[s].pc = "selected"
      /\ \A t \in Session : session'[t] = IF t = s THEN Idle ELSE session[t]
      /\ Idle.pc = "idle"
  BY CommitRows, IdleRow
<1>2. \A i \in DOMAIN alerts : /\ alerts'[i].key = alerts[i].key
                               /\ alerts'[i].status = alerts[i].status
  BY CommitRows
<1>3. /\ session[s].found # 0 => DOMAIN alerts' = DOMAIN alerts
      /\ session[s].found = 0 =>
           /\ x \notin DOMAIN alerts /\ DOMAIN alerts' = DOMAIN alerts \cup {x}
           /\ alerts'[x].key = own /\ alerts'[x].status = "open"
  BY CommitRows
<1>4. "open" \in ActiveStatus(own) /\ ~ FoundDeleted(s)
  BY CommitRows DEF ActiveStatus
<1>0. ASSUME NEW t \in Session, t # s PROVE FoundDeleted(t)' <=> FoundDeleted(t)
  <2>1. session'[t] = session[t] /\ (session[t].found # 0 => session[t].found \in DOMAIN alerts)
    BY <1>0, <1>1, FoundRow
  <2> QED
    BY <2>1, <1>2 DEF FoundDeleted
<1> HIDE DEF x
<1> SUFFICES ASSUME NEW key \in SerialKeys PROVE Unmoved(key)
  BY UnmovedKeys
<1>5. CASE key # own
  <2>1. Selected(key)' = Selected(key) /\ Inserting(key)' = Inserting(key)
    BY <1>0, <1>1, <1>5 DEF Selected, Inserting
  <2>2. Present(key)' = Present(key) /\ Matches(key)' = Matches(key)
    BY <1>2, <1>3, <1>5 DEF AlertsOf, Present, Matches, ActiveStatus
  <2>3. Occurrences(key)' = Occurrences(key)
    BY <1>5, CommitOccurs
  <2> QED
    BY <2>1, <2>2, <2>3 DEF Unmoved, Raised, Active, Total
<1>6. CASE key = own
  <2>1. /\ IsFiniteSet(Present(key)) /\ IsFiniteSet(Matches(key))
        /\ IsFiniteSet(Inserting(key)) /\ IsFiniteSet(Selected(key))
        /\ IsFiniteSet(Occurrences(key))
        /\ Cardinality(Present(key)) \in Nat /\ Cardinality(Matches(key)) \in Nat
        /\ Cardinality(Inserting(key)) \in Nat /\ Cardinality(Selected(key)) \in Nat
        /\ Cardinality(Occurrences(key)) \in Nat
    BY AllFinite
  <2>2. s \in Selected(key) /\ Selected(key)' = Selected(key) \ {s}
    BY <1>0, <1>1, <1>4, <1>6 DEF Selected
  <2>3. PICK p : Occurrences(key)' = Occurrences(key) \cup {p} /\ p \notin Occurrences(key)
    BY <1>6, CommitOccurs
  <2>4. Total(key)' = Total(key)
    <3>1. /\ Cardinality(Selected(key)') \in Nat
          /\ Cardinality(Selected(key)) = Cardinality(Selected(key)') + 1
      BY <2>1, <2>2, DropOne
    <3>2. Cardinality(Occurrences(key)') = Cardinality(Occurrences(key)) + 1
      BY <2>1, <2>3, AddOne
    <3> QED
      BY <2>1, <3>1, <3>2 DEF Total
  <2>5. CASE session[s].found # 0
    <3>1. Inserting(key)' = Inserting(key)
      BY <1>1, <2>5 DEF Inserting
    <3>2. Present(key)' = Present(key) /\ Matches(key)' = Matches(key)
      BY <1>2, <1>3, <2>5 DEF AlertsOf, Present, Matches, ActiveStatus
    <3> QED
      BY <2>4, <3>1, <3>2 DEF Unmoved, Raised, Active
  <2>6. CASE session[s].found = 0
    <3>1. s \in Inserting(key) /\ Inserting(key)' = Inserting(key) \ {s}
      BY <1>1, <1>6, <2>6 DEF Inserting
    <3>2. Present(key)' = Present(key) \cup {x} /\ x \notin Present(key)
      BY <1>2, <1>3, <1>6, <2>6 DEF AlertsOf, Present
    <3>3. Matches(key)' = Matches(key) \cup {x} /\ x \notin Matches(key)
      BY <1>2, <1>3, <1>4, <1>6, <2>6 DEF Matches, ActiveStatus
    <3>4. /\ Cardinality(Inserting(key)') \in Nat
          /\ Cardinality(Inserting(key)) = Cardinality(Inserting(key)') + 1
      BY <2>1, <3>1, DropOne
    <3>5. /\ Cardinality(Present(key)') = Cardinality(Present(key)) + 1
          /\ Cardinality(Matches(key)') = Cardinality(Matches(key)) + 1
      BY <2>1, <3>2, <3>3, AddOne
    <3> QED
      BY <2>1, <2>4, <3>4, <3>5 DEF Unmoved, Raised, Active
  <2> QED
    BY <2>5, <2>6
<1> QED
  BY <1>5, <1>6

\* An operator closes an alert or reopens it, or moves it among the statuses that are active.
LEMMA OperatorUpserts ==
  ASSUME IInv, CountInv, NEW n \in DOMAIN alerts, NEW status \in Status, OperatorMoves(n, status)
  PROVE  Upsert!Next \/ UNCHANGED Upsert!vars
<1>0. PICK own : own = alerts[n].key
  OBVIOUS
<1>1. /\ DOMAIN alerts' = DOMAIN alerts
      /\ alerts[n].status # "deleted" /\ alerts'[n].status # "deleted"
      /\ \A i \in DOMAIN alerts :
           /\ alerts'[i].key = alerts[i].key
           /\ alerts'[i].occurrence_count = alerts[i].occurrence_count
           /\ i # n => alerts'[i].status = alerts[i].status
      /\ \A t \in Session :
           /\ session'[t].pc = session[t].pc /\ session'[t].key = session[t].key
           /\ session'[t].found = session[t].found
  BY OperatorRows DEF Operates, Status
<1>2. ASSUME NEW key
      PROVE  /\ Selected(key)' = Selected(key) /\ Inserting(key)' = Inserting(key)
             /\ Present(key)' = Present(key) /\ Occurrences(key)' = Occurrences(key)
  <2>1. Occurrences(key)' = Occurrences(key)
    BY <1>1, SameOccurrences, OccurrencesOfAlerts
  <2> QED
    <3>1. ASSUME NEW t \in Session PROVE FoundDeleted(t)' <=> FoundDeleted(t)
      <4>1. session[t].found # 0 => session[t].found \in DOMAIN alerts
        BY FoundRow
      <4> QED
        BY <4>1, <1>1 DEF FoundDeleted
    <3> QED
      BY <2>1, <3>1, <1>1 DEF Selected, Inserting, AlertsOf, Present
<1>3. ASSUME NEW key
      PROVE  /\ key # own => Matches(key)' = Matches(key)
             /\ (n \in Matches(key) <=> n \in Matches(key)') => Matches(key)' = Matches(key)
             /\ n \in Matches(key) /\ n \notin Matches(key)' => Matches(key)' = Matches(key) \ {n}
             /\ n \notin Matches(key) /\ n \in Matches(key)' =>
                  Matches(key)' = Matches(key) \cup {n}
  BY <1>0, <1>1 DEF Matches, ActiveStatus
<1>4. ASSUME NEW key \in SerialKeys, Matches(key)' = Matches(key) PROVE Unmoved(key)
  BY <1>2, <1>4 DEF Unmoved, Raised, Active, Total
<1>5. ASSUME NEW key \in SerialKeys \ {own} PROVE Unmoved(key)
  BY <1>3, <1>4
<1>6. CASE own \notin SerialKeys \/ Matches(own)' = Matches(own)
  BY <1>4, <1>5, <1>6, UnmovedKeys
<1>7. ASSUME own \in SerialKeys PROVE UNCHANGED <<Raised(own), Total(own)>>
  BY <1>2 DEF Raised, Total
<1>8. ASSUME own \in SerialKeys
      PROVE  /\ IsFiniteSet(Matches(own)) /\ Cardinality(Matches(own)) \in Nat
             /\ IsFiniteSet(Present(own)) /\ Cardinality(Present(own)) \in Nat
             /\ Cardinality(Inserting(own)) \in Nat
  BY <1>8, AllFinite
<1>9. CASE own \in SerialKeys /\ n \in Matches(own) /\ n \notin Matches(own)'
  <2>1. Matches(own)' = Matches(own) \ {n}
    BY <1>3, <1>9
  <2>2. /\ Cardinality(Matches(own)') \in Nat
        /\ Cardinality(Matches(own)) = Cardinality(Matches(own)') + 1
    BY <2>1, <1>8, <1>9, DropOne
  <2>3. Active(own) > 0 /\ Active(own)' = Active(own) - 1
    BY <2>2, <1>2, <1>8, <1>9 DEF Active
  <2> QED
    BY <2>3, <1>5, <1>7, <1>9, OneKeyMoves
<1>10. CASE own \in SerialKeys /\ n \notin Matches(own) /\ n \in Matches(own)'
  <2>1. Matches(own)' = Matches(own) \cup {n}
    BY <1>3, <1>10
  <2>2. Cardinality(Matches(own)') = Cardinality(Matches(own)) + 1
    BY <2>1, <1>8, <1>10, AddOne
  <2>3. n \in Present(own) /\ Matches(own) \subseteq Present(own) \ {n}
    BY <1>0, <1>1, <1>10 DEF AlertsOf, Present, Matches, ActiveStatus
  <2>4. Cardinality(Matches(own)) + 1 <= Cardinality(Present(own))
    BY <2>3, <1>8, <1>10, OneLess
  <2>5. Active(own) < Raised(own) /\ Active(own)' = Active(own) + 1
    BY <2>2, <2>4, <1>2, <1>8, <1>10 DEF Active, Raised
  <2> QED
    BY <2>5, <1>5, <1>7, <1>10, OneKeyMoves
<1> QED
  BY <1>3, <1>6, <1>9, <1>10

\* An alert that goes takes with it the one detection that may have found it.
LEMMA DeleteUpserts ==
  ASSUME IInv, CountInv, NEW n \in DOMAIN alerts, DeleteAlert(n)
  PROVE  Upsert!Next \/ UNCHANGED Upsert!vars
<1>0. PICK own : own = alerts[n].key
  OBVIOUS
<1>1. /\ DOMAIN alerts' = DOMAIN alerts
      /\ alerts[n].status # "deleted" /\ alerts'[n].status = "deleted"
      /\ \A i \in DOMAIN alerts :
           /\ alerts'[i].key = alerts[i].key
           /\ alerts'[i].occurrence_count = alerts[i].occurrence_count
           /\ i # n => alerts'[i].status = alerts[i].status
      /\ \A t \in Session :
           /\ session'[t].pc = session[t].pc /\ session'[t].key = session[t].key
           /\ session'[t].found = session[t].found
  BY OperatorRows DEF Operates
<1>2. ASSUME NEW t \in Session
      PROVE  FoundDeleted(t)' <=> FoundDeleted(t) \/ session[t].found = n
  <2>1. session[t].found # 0 => session[t].found \in DOMAIN alerts
    BY FoundRow
  <2>2. n # 0
    BY Parts
  <2> QED
    BY <1>1, <2>1, <2>2 DEF FoundDeleted
<1>3. ASSUME NEW key
      PROVE  /\ Inserting(key)' = Inserting(key) /\ Occurrences(key)' = Occurrences(key)
             /\ Selected(key)' = {t \in Selected(key) : session[t].found # n}
             /\ Present(key)' = Present(key) \ {n} /\ Matches(key)' = Matches(key) \ {n}
  <2>1. Occurrences(key)' = Occurrences(key)
    BY <1>1, SameOccurrences, OccurrencesOfAlerts
  <2>2. Selected(key)' = {t \in Selected(key) : session[t].found # n}
    BY <1>1, <1>2 DEF Selected
  <2>3. Inserting(key)' = Inserting(key) /\ Present(key)' = Present(key) \ {n}
    BY <1>1 DEF Inserting, AlertsOf, Present
  <2>4. Matches(key)' = Matches(key) \ {n}
    BY <1>1 DEF Matches, ActiveStatus
  <2> QED
    BY <2>1, <2>2, <2>3, <2>4
<1>4. ASSUME NEW key \in SerialKeys \ {own} PROVE Unmoved(key)
  <2>1. n \notin Present(key) /\ n \notin Matches(key)
    BY <1>0 DEF AlertsOf, Present, Matches
  <2>2. ASSUME NEW t \in Selected(key) PROVE session[t].found # n
    <3>1. Found(session[t]) /\ session[t].key = key /\ n # 0
      BY Parts DEF Selected
    <3> QED
      BY <3>1, <1>0 DEF Found
  <2>3. /\ Present(key)' = Present(key) /\ Matches(key)' = Matches(key)
        /\ Selected(key)' = Selected(key)
    BY <2>1, <2>2, <1>3
  <2> QED
    BY <2>3, <1>3 DEF Unmoved, Raised, Active, Total
<1>5. CASE own \notin SerialKeys
  BY <1>4, <1>5, UnmovedKeys
<1>6. CASE own \in SerialKeys
  <2>1. /\ IsFiniteSet(Present(own)) /\ Cardinality(Present(own)) \in Nat
        /\ IsFiniteSet(Matches(own)) /\ Cardinality(Matches(own)) \in Nat
        /\ Cardinality(Inserting(own)) \in Nat
        /\ IsFiniteSet(Selected(own)) /\ Cardinality(Selected(own)) \in Nat
        /\ Cardinality(Occurrences(own)) \in Nat
    BY <1>6, AllFinite
  <2>2. n \in Present(own)
    <3>1. own = alerts[n].key /\ n \in DOMAIN alerts /\ alerts[n].status # "deleted"
      BY <1>0, <1>1
    <3> QED
      BY <3>1 DEF AlertsOf, Present
  <2>3. /\ Cardinality(Present(own)') \in Nat
        /\ Cardinality(Present(own)) = Cardinality(Present(own)') + 1
    BY <2>1, <2>2, <1>3, DropOne
  <2>4. /\ Cardinality(Matches(own)') \in Nat
        /\ Cardinality(Matches(own)') \in {Cardinality(Matches(own)), Cardinality(Matches(own)) - 1}
    <3>1. CASE n \in Matches(own)
      <4>1. /\ Cardinality(Matches(own)') \in Nat
            /\ Cardinality(Matches(own)) = Cardinality(Matches(own)') + 1
        BY <3>1, <2>1, <1>3, DropOne
      <4> QED
        BY <4>1, <2>1
    <3>2. CASE n \notin Matches(own)
      <4>1. Matches(own)' = Matches(own)
        BY <3>2, <1>3
      <4> QED
        BY <4>1, <2>1
    <3> QED
      BY <3>1, <3>2
  <2>5. Cardinality(Matches(own)') <= Cardinality(Present(own)')
    <3>1. Matches(own)' \subseteq Present(own)'
      <4>1. Matches(own) \subseteq Present(own)
        BY DEF Matches, ActiveStatus, AlertsOf, Present
      <4> QED
        BY <4>1, <1>3
    <3>2. IsFiniteSet(Present(own)')
      BY <2>1, <1>3, FS_Subset
    <3> QED
      BY <3>1, <3>2, Smaller
  <2>6. Cardinality(Selected(own)') \in {Cardinality(Selected(own)), Cardinality(Selected(own)) - 1}
    <3>1. CASE \A t \in Selected(own) : session[t].found # n
      <4>1. Selected(own)' = Selected(own)
        BY <3>1, <1>3
      <4> QED
        BY <4>1, <2>1
    <3>2. ASSUME NEW s \in Selected(own), session[s].found = n
          PROVE  Cardinality(Selected(own)') = Cardinality(Selected(own)) - 1
      <4>1. ASSUME NEW t \in Selected(own), session[t].found = n PROVE t = s
        <5>1. /\ s \in Session /\ session[s].key = own /\ session[s].locks = TRUE
              /\ t \in Session /\ session[t].key = own /\ session[t].locks = TRUE
          BY <1>6, <3>2, <4>1, Parts DEF Selected, Keyed
        <5> QED
          BY <5>1, CountParts DEF OneLock
      <4>2. Selected(own)' = Selected(own) \ {s}
        BY <3>2, <4>1, <1>3
      <4>3. /\ Cardinality(Selected(own)') \in Nat
            /\ Cardinality(Selected(own)) = Cardinality(Selected(own)') + 1
        BY <4>2, <3>2, <2>1, DropOne
      <4> QED
        BY <4>3, <2>1
    <3> QED
      BY <3>1, <3>2
  <2>7. /\ Raised(own) > 0 /\ Raised(own)' = Raised(own) - 1
        /\ Active(own)' \in {Active(own), Active(own) - 1} /\ Active(own)' \in 0..Raised(own)'
        /\ Active(own) \in Int
    BY <2>1, <2>3, <2>4, <2>5, <1>3 DEF Raised, Active
  <2>8. Total(own)' \in {Total(own), Total(own) - 1} /\ Total(own) \in Int
    BY <2>1, <2>6, <1>3 DEF Total
  <2> QED
    BY <2>7, <2>8, <1>4, <1>6, OneKeyMoves
<1> QED
  BY <1>5, <1>6

LEMMA UpsertStep ==
  ASSUME IInv, CountInv, [Next]_vars
  PROVE  Upsert!Next \/ UNCHANGED Upsert!vars
<1>1. ASSUME NEW s \in Session, NEW key \in Key, NEW result \in {"online", "offline"},
             Detect(s, key, result)
      PROVE  UNCHANGED Upsert!vars
  <2> DEFINE r == [Idle EXCEPT !.pc = "waiting", !.key = key, !.result = result,
                     !.loaded = IF Polled(key) THEN answer[key[2]] ELSE "unknown"]
  <2>1. session' = [session EXCEPT ![s] = r] /\ UNCHANGED alerts /\ session[s].pc = "idle"
    BY <1>1 DEF Detect
  <2>2. r.pc = "waiting"
    BY DEF Idle
  <2> HIDE DEF r
  <2> QED
    BY <2>1, <2>2, QuietSession, UnmovedKeys
<1>2. ASSUME NEW s \in Session, StoreAnswer(s) \/ MeasurementFails(s)
      PROVE  UNCHANGED Upsert!vars
  <2>1. session' = [session EXCEPT ![s] = Idle] /\ UNCHANGED alerts /\ session[s].pc = "waiting"
    BY <1>2 DEF StoreAnswer, MeasurementFails
  <2> QED
    BY <2>1, IdleRow, QuietSession, UnmovedKeys
<1>7. ASSUME NEW s \in Session, DetectionFails(s) PROVE UNCHANGED Upsert!vars
  <2>1. /\ session' = [session EXCEPT ![s] = Idle] /\ UNCHANGED alerts
        /\ FoundDeleted(s) /\ session[s].found # 0
        /\ \A t \in Session : session'[t] = IF t = s THEN Idle ELSE session[t]
    BY <1>7, Parts DEF DetectionFails, FoundDeleted, Shapes
  <2>2. ASSUME NEW key \in SerialKeys PROVE Unmoved(key)
    <3>1. Selected(key)' = Selected(key) /\ Inserting(key)' = Inserting(key)
      BY <2>1, IdleRow DEF Selected, Inserting, FoundDeleted
    <3>2. /\ Present(key)' = Present(key) /\ Matches(key)' = Matches(key)
          /\ Occurrences(key)' = Occurrences(key)
      BY <2>1 DEF AlertsOf, Present, Matches, Occurrences, ActiveStatus
    <3> QED
      BY <3>1, <3>2 DEF Unmoved, Raised, Active, Total
  <2> QED
    BY <2>2, UnmovedKeys
<1>3. ASSUME NEW s \in Session, SelectAlert(s) PROVE Upsert!Next \/ UNCHANGED Upsert!vars
  BY <1>3, SelectUpserts
<1>4. ASSUME NEW s \in Session, CommitDetection(s) PROVE UNCHANGED Upsert!vars
  BY <1>4, CommitIsQuiet
<1>5. ASSUME NEW n \in DOMAIN alerts, NEW status \in Status, OperatorMoves(n, status)
      PROVE  Upsert!Next \/ UNCHANGED Upsert!vars
  BY <1>5, OperatorUpserts
<1>8. ASSUME NEW n \in DOMAIN alerts, DeleteAlert(n)
      PROVE  Upsert!Next \/ UNCHANGED Upsert!vars
  BY <1>8, DeleteUpserts
<1>6. CASE UNCHANGED vars
  <2>1. UNCHANGED <<alerts, session>>
    BY <1>6 DEF vars
  <2>2. ASSUME NEW key \in SerialKeys PROVE Unmoved(key)
    BY <2>1 DEF Unmoved, Raised, Active, Total, AlertsOf, Present, Matches, ActiveStatus,
                Occurrences, Inserting, Selected, FoundDeleted
  <2> QED
    BY <2>2, UnmovedKeys
<1> QED
  BY <1>1, <1>2, <1>3, <1>4, <1>5, <1>6, <1>7, <1>8 DEF Next

-----------------------------------------------------------------------------
(* What the invariant says.                                                *)

LEMMA ShapesGiveTypeOK == IInv => TypeOK
<1> SUFFICES ASSUME IInv PROVE TypeOK
    OBVIOUS
<1>1. ASSUME NEW s \in Session
      PROVE  /\ DOMAIN session[s] = DOMAIN Idle
             /\ session[s].pc \in {"idle", "waiting", "selected"}
             /\ session[s].key \in Key \cup {NoKey}
             /\ session[s].found \in 0 .. Len(alerts)
  BY Parts DEF SessionRow, Idle, Found
<1>2. ASSUME NEW k \in Key PROVE counted[k] \in 0..MaxDetections
  <2>1. /\ counted[k] + Cardinality(Detecting(k)) <= started
        /\ Cardinality(Detecting(k)) \in Nat /\ counted[k] \in Nat
        /\ started \in 0..MaxDetections
    BY Parts, Finite DEF CountedStarted, Shapes
  <2> QED
    BY <2>1, BoundAssumption
<1>3. counted \in [Key -> 0..MaxDetections]
  BY <1>2, Parts DEF Shapes
<1> QED
  BY <1>1, <1>3, Parts DEF TypeOK, Shapes

(***************************************************************************)
(* Alerts do not multiply: however the polls of an asset, or of a radio    *)
(* that is reached, interleave with the operators, one active alert at     *)
(* most stands for their key, and for any other key one for every session  *)
(* that can run at once.                                                   *)
(***************************************************************************)
THEOREM AlertsDoNotMultiply == Spec => []DuplicatesAreBounded
<1>1. IInv => DuplicatesAreBounded
  <2> SUFFICES ASSUME IInv, NEW key \in Key
               PROVE  Cardinality(Standing(key))
                        <= IF key \in SerialKeys THEN 1 ELSE Cardinality(Session)
    BY ShapesGiveTypeOK DEF DuplicatesAreBounded
  <2>1. /\ Cardinality(Standing(key)) + Cardinality(Inserting(key)) <= Limit(key)
        /\ Cardinality(Standing(key)) \in Nat /\ Cardinality(Inserting(key)) \in Nat
        /\ Limit(key) \in Nat
    BY Parts, Finite DEF Bounded, Limit
  <2>2. Cardinality(Standing(key)) <= Limit(key)
    BY <2>1
  <2> QED
    BY <2>2 DEF Limit
<1> QED
  BY <1>1, Invariance, PTL

(***************************************************************************)
(* The alerts of an asset's polls, and of a reached radio, count exactly   *)
(* the detections committed for them: the row lock keeps a count from      *)
(* changing between the SELECT and the commit.  Other keys may lose        *)
(* increments, but never count one twice.                                  *)
(***************************************************************************)
THEOREM CountsAddUp == Spec => []OccurrencesCountDetections
<1>1. IInv /\ CountInv => OccurrencesCountDetections
  <2> SUFFICES ASSUME IInv, CountInv, NEW key \in Key
               PROVE  /\ key \in SerialKeys => Cardinality(Occurrences(key)) = counted[key]
                      /\ Cardinality(Occurrences(key)) <= counted[key]
    BY DEF OccurrencesCountDetections
  <2>1. /\ IsFiniteSet(Reached(key)) /\ Cardinality(Reached(key)) <= counted[key]
        /\ counted[key] \in Nat
    BY CountParts, Parts DEF Accounted, Shapes
  <2>2. Occurrences(key) \subseteq Reached(key)
    BY ReachedArePairs
  <2>3. /\ Cardinality(Occurrences(key)) \in Nat /\ Cardinality(Reached(key)) \in Nat
        /\ Cardinality(Occurrences(key)) <= Cardinality(Reached(key))
    BY <2>1, <2>2, Smaller
  <2> QED
    BY <2>1, <2>3, CountParts DEF Summed
<1> QED
  BY <1>1, Invariance, CountInvariance, PTL

(***************************************************************************)
(* A device recorded as unreachable has an alert that says so, its row and *)
(* its alert being committed in one transaction, unless an operator has    *)
(* deleted one.                                                            *)
(***************************************************************************)
THEOREM UnreachableIsAlerted == Spec => []OfflineDeviceHasAlert
<1>1. IInv => OfflineDeviceHasAlert
  BY DEF IInv
<1> QED
  BY <1>1, Invariance, PTL

(***************************************************************************)
(* A detection that ends leaves an active alert of its key behind: one is  *)
(* absorbed by a closed alert, or lost with a deleted one, only if an      *)
(* operator closed or deleted the alert after the SELECT.                  *)
(***************************************************************************)
THEOREM DetectionsAreShown == Spec => DetectionLeavesActiveAlert
<1> DEFINE Kept == \A s \in Session :
             session[s].pc = "selected" /\ session'[s].pc = "idle" /\ ~ session[s].raced
             => \E n \in DOMAIN alerts' :
                  /\ alerts'[n].key = session[s].key
                  /\ alerts'[n].status \notin {"resolved", "deleted"}
<1>1. ASSUME IInv, [Next]_vars PROVE [Kept]_vars
  <2> SUFFICES ASSUME Next, NEW s \in Session,
                      session[s].pc = "selected", session'[s].pc = "idle", ~ session[s].raced
               PROVE  \E n \in DOMAIN alerts' :
                        /\ alerts'[n].key = session[s].key
                        /\ alerts'[n].status \notin {"resolved", "deleted"}
    BY <1>1
  <2>1. session[s] \in SessionRow /\ Found(session[s]) /\ session \in [Session -> SessionRow]
    BY <1>1, Parts DEF Shapes
  <2>2. CommitDetection(s)
    <3>1. ASSUME NEW t \in Session, NEW key \in Key, NEW result \in {"online", "offline"},
                 Detect(t, key, result)
          PROVE  FALSE
      BY <3>1, <2>1 DEF Detect
    <3>2. ASSUME NEW t \in Session,
                 StoreAnswer(t) \/ SelectAlert(t) \/ MeasurementFails(t)
          PROVE  FALSE
      BY <3>2, <2>1 DEF StoreAnswer, SelectAlert, MeasurementFails
    <3>3. ASSUME NEW t \in Session, t # s, CommitDetection(t) PROVE FALSE
      BY <3>3, <2>1 DEF CommitDetection
    <3>4. ASSUME NEW n \in DOMAIN alerts, NEW status, Operates(n, status) PROVE FALSE
      BY <1>1, <3>4, OperatorRows
    <3>5. ASSUME NEW t \in Session, DetectionFails(t) PROVE FALSE
      <4>1. t = s
        BY <3>5, <2>1 DEF DetectionFails
      <4>2. session[s].found # 0 /\ alerts[session[s].found].status = "deleted"
        BY <3>5, <4>1 DEF DetectionFails, FoundDeleted
      <4> QED
        BY <4>2, <2>1 DEF Found, ActiveStatus
    <3> QED
      BY <3>1, <3>2, <3>3, <3>4, <3>5 DEF Next, Operates
  <2> DEFINE key == session[s].key
             n == session[s].found
             new == [key |-> key, status |-> "open", occurrence_count |-> 1, revived |-> FALSE]
  <2>3. CASE n = 0
    <3>1. alerts' = Append(alerts, new)
      BY <2>2, <2>3 DEF CommitDetection
    <3>2. new.key = key /\ new.status = "open"
      OBVIOUS
    <3> HIDE DEF new, key
    <3>3. Len(alerts) + 1 \in 1..(Len(alerts) + 1)
      BY <1>1, Parts
    <3>4. Len(alerts) + 1 \in DOMAIN alerts' /\ alerts'[Len(alerts) + 1] = new
      BY <3>1, <3>3, <1>1, Parts
    <3> QED
      BY <3>2, <3>4 DEF key
  <2>4. CASE n # 0
    <3>1. /\ n \in DOMAIN alerts /\ alerts[n].key = key
          /\ alerts[n].status \in ActiveStatus(key) /\ alerts[n] \in AlertRow
      <4>1. n \in 1..Len(alerts)
        BY <2>1, <2>4, <1>1, Parts DEF Found
      <4> QED
        BY <4>1, <2>1, <2>4, <1>1, Parts DEF Found
    <3>2. alerts' = [alerts EXCEPT ![n].occurrence_count = session[s].seen + 1]
      BY <2>2, <2>4 DEF CommitDetection
    <3>3. /\ n \in DOMAIN alerts' /\ alerts'[n].key = alerts[n].key
          /\ alerts'[n].status = alerts[n].status
      BY <3>1, <3>2 DEF AlertRow
    <3>4. "resolved" \notin ActiveStatus(key) /\ "deleted" \notin ActiveStatus(key)
      BY DEF ActiveStatus
    <3> QED
      BY <3>1, <3>3, <3>4
  <2> QED
    BY <2>3, <2>4
<1> QED
  BY <1>1, Invariance, PTL DEF Spec, DetectionLeavesActiveAlert
(***************************************************************************)
(* The polls of an asset, and of a radio that is reached, each of which    *)
(* loads, waits, selects and commits among other sessions, raise and count *)
(* alerts as if every detection were a single step.                        *)
(***************************************************************************)
THEOREM PollDetectionsAreAtomic == Spec => DetectionsAreAtomic
<1>1. IInv /\ CountInv /\ [Next]_vars => [Upsert!Next]_(Upsert!vars)
  BY UpsertStep
<1> QED
  BY <1>1, UpsertInit, Invariance, CountInvariance, PTL
     DEF Spec, DetectionsAreAtomic, Upsert!Spec
=============================================================================
