---------------------------- MODULE JudgementProofs ----------------------------
(***************************************************************************)
(* Proofs about how the program judges what it is told: WirelessHealth,    *)
(* RootCause and RadioPoll for all integer values of the metrics, Syslog   *)
(* for every set of messages, RateLimiter for every window and limit.      *)
(***************************************************************************)
EXTENDS RootCause, RadioPoll, Syslog, RateLimiter, FiniteSetTheorems, TLAPS

-----------------------------------------------------------------------------
(***************************************************************************)
(* WirelessHealth's properties for all integer values of the metrics.      *)
(*                                                                         *)
(* The diagnosis is a function of the measurement, so the invariant is     *)
(* that it is the one of the last measurement; the rest is arithmetic on   *)
(* the points, one small range per metric.                                 *)
(***************************************************************************)

IInv == m \in [Metric -> Known] /\ diagnosis = Diagnose(m)

IsBands(b) ==
  /\ b.rssi \in 1..4 /\ b.snr \in 1..4 /\ b.noise \in 1..4 /\ b.ccq \in 1..4
  /\ b.loss \in 1..4 /\ b.latency \in 1..4 /\ b.symmetry \in 1..4

LEMMA BandsType ==
  ASSUME NEW x
  PROVE  IsBands(Bands(x))
<1>1. \A v, p, q, r : AtLeast(v, p, q, r) \in 1..4 /\ AtMost(v, p, q, r) \in 1..4
  BY DEF AtLeast, AtMost
<1>2. \A tx, rx : Symmetry(tx, rx) \in 1..4
  BY DEF Symmetry
<1> QED
  BY <1>1, <1>2 DEF Bands, IsBands

\* The points of each metric, and what is left of them without a cause.
LEMMA PointsRange ==
  ASSUME NEW b, IsBands(b)
  PROVE  /\ Points(b.rssi, 20, 15, 8, 2) \in (IF b.rssi >= 3 THEN 2..8 ELSE 15..20)
         /\ Points(b.snr, 20, 15, 8, 2) \in (IF b.snr >= 3 THEN 2..8 ELSE 15..20)
         /\ Points(b.noise, 15, 11, 6, 1) \in (IF b.noise >= 3 THEN 1..6 ELSE 11..15)
         /\ Points(b.ccq, 15, 12, 7, 2) \in (IF b.ccq >= 3 THEN 2..7 ELSE 12..15)
         /\ Points(b.loss, 15, 12, 6, 1) \in (IF b.loss >= 3 THEN 1..6 ELSE 12..15)
         /\ Points(b.latency, 10, 8, 4, 1) \in (IF b.latency >= 3 THEN 1..4 ELSE 8..10)
         /\ Points(b.symmetry, 5, 5, 3, 1) \in (IF b.symmetry >= 3 THEN 1..3 ELSE 5..5)
  BY DEF IsBands, Points

LEMMA SumRange ==
  ASSUME NEW b, IsBands(b)
  PROVE  Sum(b) \in 10..100 /\ Clamp(Sum(b)) = Sum(b)
<1>1. Sum(b) \in 10..100
  BY PointsRange DEF Sum
<1> QED
  BY <1>1 DEF Clamp

\* Without a fault the score is at least 78.
LEMMA NoFaultIsGood ==
  ASSUME NEW b, IsBands(b), Sum(b) < 75
  PROVE  Faults(b) # {}
<1>1. \/ b.rssi >= 3 \/ b.snr >= 3 \/ b.noise >= 3 \/ b.ccq >= 3
      \/ b.loss >= 3 \/ b.latency >= 3 \/ b.symmetry >= 3
  BY PointsRange DEF Sum
<1> QED
  BY <1>1 DEF Faults, Scored

\* With one fault it is at least 65.
LEMMA OneFaultIsDegraded ==
  ASSUME NEW b, IsBands(b), Sum(b) < 60
  PROVE  \E j, k \in Scored : j # k /\ {j, k} \subseteq Faults(b)
<1>1. \/ b.rssi >= 3 /\ (b.snr >= 3 \/ b.noise >= 3 \/ b.ccq >= 3
                            \/ b.loss >= 3 \/ b.latency >= 3 \/ b.symmetry >= 3)
      \/ b.snr >= 3 /\ (b.noise >= 3 \/ b.ccq >= 3
                            \/ b.loss >= 3 \/ b.latency >= 3 \/ b.symmetry >= 3)
      \/ b.noise >= 3 /\ (b.ccq >= 3 \/ b.loss >= 3 \/ b.latency >= 3 \/ b.symmetry >= 3)
      \/ b.ccq >= 3 /\ (b.loss >= 3 \/ b.latency >= 3 \/ b.symmetry >= 3)
      \/ b.loss >= 3 /\ (b.latency >= 3 \/ b.symmetry >= 3)
      \/ b.latency >= 3 /\ b.symmetry >= 3
  BY PointsRange DEF Sum
<1> QED
  BY <1>1 DEF Faults, Scored

\* Of two faults one is not CCQ's, and every other fault has a check.
LEMMA TwoFaultsHaveCheck ==
  ASSUME NEW b, IsBands(b),
         NEW j \in Scored, NEW k \in Scored, j # k, {j, k} \subseteq Faults(b)
  PROVE  Checks(b) # {}
<1>1. PICK f \in Scored \ {"ccq"} : b[f] >= 3
  BY DEF Faults
<1>2. CASE f = "rssi"
  BY <1>1, <1>2 DEF Checks
<1>3. CASE f \in {"snr", "noise", "symmetry"}
  BY <1>1, <1>3 DEF Checks
<1>4. CASE f \in {"loss", "latency"}
  BY <1>1, <1>4 DEF Checks
<1> QED
  BY <1>1, <1>2, <1>3, <1>4 DEF Scored

LEMMA PassableSum ==
  ASSUME NEW b, b.rssi \in 1..2, b.snr \in 1..3, b.noise \in 1..3, b.ccq \in 1..3,
         b.loss \in 1..2, b.latency \in 1..2, b.symmetry \in 1..4
  PROVE  Sum(b) >= 57
<1>1. /\ Points(b.rssi, 20, 15, 8, 2) \in 15..20 /\ Points(b.snr, 20, 15, 8, 2) \in 8..20
      /\ Points(b.noise, 15, 11, 6, 1) \in 6..15 /\ Points(b.ccq, 15, 12, 7, 2) \in 7..15
      /\ Points(b.loss, 15, 12, 6, 1) \in 12..15 /\ Points(b.latency, 10, 8, 4, 1) \in 8..10
      /\ Points(b.symmetry, 5, 5, 3, 1) \in 1..5
  BY DEF Points
<1> QED
  BY <1>1 DEF Sum

\* Without a threshold alert the score is at least 57.
LEMMA NoThresholdIsPoorAtWorst ==
  ASSUME NEW x \in [Metric -> Known], Raised(x) = {}
  PROVE  Sum(Bands(x)) >= 57
<1> DEFINE b == Bands(x)
<1>1. /\ ~Below(x.rssi, -70, -80) /\ ~Below(x.snr, 20, 12) /\ ~Above(x.noise, -85, -75)
      /\ ~Below(x.ccq, 80, 60) /\ ~Above(x.loss, 10, 50) /\ ~Above(x.latency, 20, 100)
  BY DEF Raised
<1>2. /\ x.rssi \in Known /\ x.snr \in Known /\ x.noise \in Known
      /\ x.ccq \in Known /\ x.loss \in Known /\ x.latency \in Known
  BY DEF Metric
<1>3. b.rssi \in 1..2
  BY <1>1, <1>2 DEF Bands, AtLeast, Below, Known
<1>4. b.snr \in 1..3
  BY <1>1, <1>2 DEF Bands, AtLeast, Below, Known
<1>5. b.noise \in 1..3
  BY <1>1, <1>2 DEF Bands, AtMost, Above, Known
<1>6. b.ccq \in 1..3
  BY <1>1, <1>2 DEF Bands, AtLeast, Below, Known
<1>7. b.loss \in 1..2
  BY <1>1, <1>2 DEF Bands, AtMost, Above, Known
<1>8. b.latency \in 1..2
  BY <1>1, <1>2 DEF Bands, AtMost, Above, Known
<1>9. b.symmetry \in 1..4
  BY BandsType DEF IsBands
<1> QED
  BY <1>3, <1>4, <1>5, <1>6, <1>7, <1>8, <1>9, PassableSum

-----------------------------------------------------------------------------
(* A repair moves every metric to a band that is no worse.                 *)

LEMMA PointsMonotone ==
  ASSUME NEW b, NEW c, IsBands(b), IsBands(c),
         b.rssi <= c.rssi, b.snr <= c.snr, b.noise <= c.noise, b.ccq <= c.ccq,
         b.loss <= c.loss, b.latency <= c.latency, b.symmetry <= c.symmetry
  PROVE  Sum(c) <= Sum(b)
<1>1. Points(c.rssi, 20, 15, 8, 2) <= Points(b.rssi, 20, 15, 8, 2)
  BY DEF Points, IsBands
<1>2. Points(c.snr, 20, 15, 8, 2) <= Points(b.snr, 20, 15, 8, 2)
  BY DEF Points, IsBands
<1>3. Points(c.noise, 15, 11, 6, 1) <= Points(b.noise, 15, 11, 6, 1)
  BY DEF Points, IsBands
<1>4. Points(c.ccq, 15, 12, 7, 2) <= Points(b.ccq, 15, 12, 7, 2)
  BY DEF Points, IsBands
<1>5. Points(c.loss, 15, 12, 6, 1) <= Points(b.loss, 15, 12, 6, 1)
  BY DEF Points, IsBands
<1>6. Points(c.latency, 10, 8, 4, 1) <= Points(b.latency, 10, 8, 4, 1)
  BY DEF Points, IsBands
<1>7. Points(c.symmetry, 5, 5, 3, 1) <= Points(b.symmetry, 5, 5, 3, 1)
  BY DEF Points, IsBands
<1>8. ASSUME NEW x, IsBands(x)
      PROVE  /\ Points(x.rssi, 20, 15, 8, 2) \in Int /\ Points(x.snr, 20, 15, 8, 2) \in Int
             /\ Points(x.noise, 15, 11, 6, 1) \in Int /\ Points(x.ccq, 15, 12, 7, 2) \in Int
             /\ Points(x.loss, 15, 12, 6, 1) \in Int /\ Points(x.latency, 10, 8, 4, 1) \in Int
             /\ Points(x.symmetry, 5, 5, 3, 1) \in Int
  BY <1>8 DEF Points
<1> QED
  BY <1>1, <1>2, <1>3, <1>4, <1>5, <1>6, <1>7, <1>8 DEF Sum

LEMMA StatusMonotone ==
  ASSUME NEW p \in Int, NEW q \in Int, q <= p
  PROVE  Status(p) <= Status(q)
  BY DEF Status

LEMMA RepairScores ==
  ASSUME NEW x \in [Metric -> Known], NEW y \in [Metric -> Known],
         \A k \in Metric \ {"tx", "rx"} : NoWorse(k, y[k], x[k]),
         y["tx"] = x["tx"], y["rx"] = x["rx"]
  PROVE  Sum(Bands(x)) <= Sum(Bands(y))
<1>1. Bands(y).rssi <= Bands(x).rssi
  <2>1. AtLeast(y["rssi"], -60, -70, -80) <= AtLeast(x["rssi"], -60, -70, -80)
    <3>1. NoWorse("rssi", y["rssi"], x["rssi"]) /\ y["rssi"] \in Known /\ x["rssi"] \in Known
      BY DEF Metric
    <3> QED
      BY <3>1 DEF NoWorse, AtLeast, Known
  <2> QED
    BY <2>1 DEF Bands
<1>2. Bands(y).snr <= Bands(x).snr
  <2>1. AtLeast(y["snr"], 30, 22, 14) <= AtLeast(x["snr"], 30, 22, 14)
    <3>1. NoWorse("snr", y["snr"], x["snr"]) /\ y["snr"] \in Known /\ x["snr"] \in Known
      BY DEF Metric
    <3> QED
      BY <3>1 DEF NoWorse, AtLeast, Known
  <2> QED
    BY <2>1 DEF Bands
<1>3. Bands(y).noise <= Bands(x).noise
  <2>1. AtMost(y["noise"], -95, -88, -80) <= AtMost(x["noise"], -95, -88, -80)
    <3>1. NoWorse("noise", y["noise"], x["noise"]) /\ y["noise"] \in Known /\ x["noise"] \in Known
      BY DEF Metric
    <3> QED
      BY <3>1 DEF NoWorse, AtMost, Known
  <2> QED
    BY <2>1 DEF Bands
<1>4. Bands(y).ccq <= Bands(x).ccq
  <2>1. AtLeast(y["ccq"], 95, 85, 70) <= AtLeast(x["ccq"], 95, 85, 70)
    <3>1. NoWorse("ccq", y["ccq"], x["ccq"]) /\ y["ccq"] \in Known /\ x["ccq"] \in Known
      BY DEF Metric
    <3> QED
      BY <3>1 DEF NoWorse, AtLeast, Known
  <2> QED
    BY <2>1 DEF Bands
<1>5. Bands(y).loss <= Bands(x).loss
  <2>1. AtMost(y["loss"], 2, 10, 50) <= AtMost(x["loss"], 2, 10, 50)
    <3>1. NoWorse("loss", y["loss"], x["loss"]) /\ y["loss"] \in Known /\ x["loss"] \in Known
      BY DEF Metric
    <3> QED
      BY <3>1 DEF NoWorse, AtMost, Known
  <2> QED
    BY <2>1 DEF Bands
<1>6. Bands(y).latency <= Bands(x).latency
  <2>1. AtMost(y["latency"], 5, 20, 100) <= AtMost(x["latency"], 5, 20, 100)
    <3>1. NoWorse("latency", y["latency"], x["latency"]) /\ y["latency"] \in Known /\ x["latency"] \in Known
      BY DEF Metric
    <3> QED
      BY <3>1 DEF NoWorse, AtMost, Known
  <2> QED
    BY <2>1 DEF Bands
<1>7. IsBands(Bands(x)) /\ IsBands(Bands(y))
  BY BandsType
<1>8. Bands(y).symmetry <= Bands(x).symmetry
  <2>1. Bands(y).symmetry = Bands(x).symmetry
    BY DEF Bands
  <2> QED
    BY <2>1, <1>7 DEF IsBands
<1> QED
  BY <1>1, <1>2, <1>3, <1>4, <1>5, <1>6, <1>7, <1>8, PointsMonotone

-----------------------------------------------------------------------------
(* The theorems.                                                           *)

LEMMA DiagnosisFacts ==
  ASSUME IInv
  PROVE  /\ IsBands(Bands(m))
         /\ diagnosis.score = Sum(Bands(m)) /\ diagnosis.score \in 10..100
         /\ diagnosis.status = Status(Sum(Bands(m))) /\ diagnosis.status \in 1..5
         /\ diagnosis.status >= 3 <=> Sum(Bands(m)) < 75
         /\ diagnosis.alerts = (Status(Sum(Bands(m))) >= 4)
         /\ diagnosis.alerts <=> Sum(Bands(m)) < 60
         /\ diagnosis.faults = Faults(Bands(m)) /\ diagnosis.checks = Checks(Bands(m))
<1>1. IsBands(Bands(m))
  BY BandsType
<1>2. Sum(Bands(m)) \in 10..100 /\ Clamp(Sum(Bands(m))) = Sum(Bands(m))
  BY <1>1, SumRange
<1>3. /\ diagnosis.score = Sum(Bands(m)) /\ diagnosis.status = Status(Sum(Bands(m)))
      /\ diagnosis.alerts = (Status(Sum(Bands(m))) >= 4)
      /\ diagnosis.faults = Faults(Bands(m)) /\ diagnosis.checks = Checks(Bands(m))
  BY <1>2 DEF IInv, Diagnose
<1>4. /\ Status(Sum(Bands(m))) \in 1..5
      /\ Status(Sum(Bands(m))) >= 3 <=> Sum(Bands(m)) < 75
      /\ Status(Sum(Bands(m))) >= 4 <=> Sum(Bands(m)) < 60
  BY <1>2 DEF Status
<1> QED
  BY <1>1, <1>2, <1>3, <1>4

\* The diagnosis shown is always the one of the last measurement.
THEOREM Invariance == Spec => []IInv
<1>1. Init => IInv
  BY DEF Init, IInv, Nothing, Known
<1>2. IInv /\ [Next]_vars => IInv'
  <2> SUFFICES ASSUME IInv, [Next]_vars PROVE IInv'
      OBVIOUS
  <2>1. ASSUME NEW k \in Metric, NEW v \in Values[k], Measure(k, v) PROVE IInv'
    <3>1. v \in Known
      BY ValuesAssumption
    <3> QED
      BY <2>1, <3>1 DEF Measure, IInv, Diagnose, Bands, Sum, Faults, Checks, Raised
  <2>2. CASE UNCHANGED vars
    <3>1. m' = m /\ diagnosis' = diagnosis
      BY <2>2 DEF vars
    <3> QED
      BY <3>1 DEF IInv
  <2> QED
    BY <2>1, <2>2 DEF Next
<1> QED
  BY <1>1, <1>2, PTL DEF Spec

\* For all values of the metrics the score is the plain sum, within 10..100.
THEOREM ScoresStayInRange == Spec => []TypeOK
<1>1. IInv => TypeOK
  <2> SUFFICES ASSUME IInv PROVE TypeOK
      OBVIOUS
  <2>1. diagnosis.alerts \in BOOLEAN
    BY DEF IInv, Diagnose
  <2> QED
    BY <2>1, DiagnosisFacts DEF IInv, TypeOK
<1> QED
  BY <1>1, Invariance, PTL

\* For all values of the metrics a status below Good names a cause.
THEOREM FaultsStayExplained == Spec => []FaultyIsExplained
<1>1. IInv => FaultyIsExplained
  BY DiagnosisFacts, NoFaultIsGood DEF FaultyIsExplained
<1> QED
  BY <1>1, Invariance, PTL

\* For all values of the metrics an alert has two faulty metrics.
THEOREM AlertsHaveTwoFaults == Spec => []AlertNeedsTwoFaults
<1>1. IInv => AlertNeedsTwoFaults
  BY DiagnosisFacts, OneFaultIsDegraded DEF AlertNeedsTwoFaults
<1> QED
  BY <1>1, Invariance, PTL

\* For all values of the metrics an alert recommends a check in the field.
THEOREM AlertsHaveFieldCheck == Spec => []AlertHasFieldCheck
<1>1. IInv => AlertHasFieldCheck
  BY DiagnosisFacts, OneFaultIsDegraded, TwoFaultsHaveCheck DEF AlertHasFieldCheck
<1> QED
  BY <1>1, Invariance, PTL

\* For all values of the metrics a Critical link has a threshold alert.
THEOREM CriticalStaysAlerted == Spec => []CriticalPassesThreshold
<1>1. IInv => CriticalPassesThreshold
  <2> SUFFICES ASSUME IInv, diagnosis.status = 5, diagnosis.raised = {} PROVE FALSE
      BY DEF CriticalPassesThreshold
  <2>1. Raised(m) = {} /\ m \in [Metric -> Known]
    BY DEF IInv, Diagnose
  <2>2. Sum(Bands(m)) >= 57 /\ Sum(Bands(m)) \in Int
    BY <2>1, NoThresholdIsPoorAtWorst, DiagnosisFacts
  <2>3. Status(Sum(Bands(m))) = 5
    BY DiagnosisFacts
  <2> QED
    BY <2>2, <2>3 DEF Status
<1> QED
  BY <1>1, Invariance, PTL

\* For all values of the metrics a repair raises no alarm.
THEOREM RepairsStayHarmless == Spec => RepairsNeverHurt
<1>1. ASSUME IInv, IInv',
             \A k \in Metric \ {"tx", "rx"} : NoWorse(k, m'[k], m[k]),
             m'["tx"] = m["tx"], m'["rx"] = m["rx"]
      PROVE  diagnosis'.score >= diagnosis.score /\ diagnosis'.status <= diagnosis.status
  <2>1. Sum(Bands(m)) <= Sum(Bands(m'))
    BY <1>1, RepairScores DEF IInv
  <2>2. diagnosis.score = Sum(Bands(m)) /\ diagnosis.status = Status(Sum(Bands(m)))
    BY <1>1, DiagnosisFacts
  <2>3. diagnosis'.score = Sum(Bands(m')) /\ diagnosis'.status = Status(Sum(Bands(m')))
    <3>1. IsBands(Bands(m'))
      BY <1>1, BandsType
    <3>2. Clamp(Sum(Bands(m'))) = Sum(Bands(m'))
      BY <3>1, SumRange
    <3>3. diagnosis' = Diagnose(m')
      BY <1>1 DEF IInv, Diagnose, Bands, Sum, Faults, Checks, Raised
    <3> QED
      BY <3>2, <3>3 DEF Diagnose
  <2>4. Sum(Bands(m)) \in Int /\ Sum(Bands(m')) \in Int
    BY <1>1, BandsType, SumRange DEF IInv
  <2> QED
    BY <2>1, <2>2, <2>3, <2>4, StatusMonotone
<1>2. IInv /\ IInv' =>
        [(\A k \in Metric \ {"tx", "rx"} : NoWorse(k, m'[k], m[k])) /\
         (m'["tx"] = m["tx"] /\ m'["rx"] = m["rx"])
           => /\ diagnosis'.score >= diagnosis.score
              /\ diagnosis'.status <= diagnosis.status]_vars
  BY <1>1
<1> QED
  BY <1>2, Invariance, PTL DEF RepairsNeverHurt

-----------------------------------------------------------------------------
(***************************************************************************)
(* RootCause's property for all integer values of the metrics.             *)
(*                                                                         *)
(* Each limit of one engine is set against the bands of the other: a       *)
(* metric that costs this many points of HealthScore is in that band, and  *)
(* the points add up.                                                      *)
(***************************************************************************)

\* What each metric takes from the score.
Taken(x) ==
  [rssi |-> Low(x.rssi, -80, 35, -72, 15), noise |-> High(x.noise, -85, 20, -85, 20),
   snr |-> Low(x.snr, 12, 30, 20, 10), ccq |-> Low(x.ccq, 80, 15, 80, 15),
   latency |-> High(x.latency, 20, 10, 5, 5), loss |-> High(x.loss, 20, 15, 5, 5)]

LEMMA TakenRange ==
  ASSUME NEW x
  PROVE  /\ Taken(x).rssi \in {0, 15, 35} /\ Taken(x).noise \in {0, 20}
         /\ Taken(x).snr \in {0, 10, 30} /\ Taken(x).ccq \in {0, 15}
         /\ Taken(x).latency \in {0, 5, 10} /\ Taken(x).loss \in {0, 5, 15}
  BY DEF Taken, Low, High

LEMMA ScoreIsRest ==
  ASSUME NEW x
  PROVE  LET t == Taken(x)
             rest == 100 - t.rssi - t.noise - t.snr - t.ccq - t.latency - t.loss
         IN  /\ HealthScore(x) \in 0..100 /\ rest \in Int
             /\ HealthScore(x) < 80 <=> rest < 80
             /\ HealthScore(x) < 50 <=> rest < 50
<1> DEFINE t == Taken(x)
           rest == 100 - t.rssi - t.noise - t.snr - t.ccq - t.latency - t.loss
<1>1. /\ t.rssi \in {0, 15, 35} /\ t.noise \in {0, 20} /\ t.snr \in {0, 10, 30}
      /\ t.ccq \in {0, 15} /\ t.latency \in {0, 5, 10} /\ t.loss \in {0, 5, 15}
  BY TakenRange
<1>2. HealthScore(x) = Clamp(rest)
  BY DEF HealthScore, Taken
<1> HIDE DEF t
<1>3. rest \in Int /\ rest <= 100
  BY <1>1
<1> HIDE DEF rest
<1>4. /\ Clamp(rest) \in 0..100
      /\ Clamp(rest) < 80 <=> rest < 80
      /\ Clamp(rest) < 50 <=> rest < 50
  BY <1>3 DEF Clamp
<1> QED
  BY <1>2, <1>3, <1>4 DEF rest, t

LEMMA KnownMetrics ==
  ASSUME NEW x \in [Metric -> Known]
  PROVE  /\ x.rssi \in Known /\ x.snr \in Known /\ x.noise \in Known
         /\ x.ccq \in Known /\ x.loss \in Known /\ x.latency \in Known
  BY DEF Metric

\* Without a threshold alert at most 10 points are taken, for a loss and a latency that are
\* marginal to this engine only.
LEMMA UnraisedIsHealthy ==
  ASSUME NEW x \in [Metric -> Known], Raised(x) = {}
  PROVE  OverallHealth(x) = "healthy"
<1>1. /\ ~Below(x.rssi, -70, -80) /\ ~Below(x.snr, 20, 12) /\ ~Above(x.noise, -85, -75)
      /\ ~Below(x.ccq, 80, 60) /\ ~Above(x.loss, 10, 50) /\ ~Above(x.latency, 20, 100)
  BY DEF Raised
<1>2. Taken(x).rssi = 0
  BY <1>1, KnownMetrics DEF Taken, Low, Measured, Below, Known
<1>3. Taken(x).snr = 0
  BY <1>1, KnownMetrics DEF Taken, Low, Measured, Below, Known
<1>4. Taken(x).noise = 0
  BY <1>1, KnownMetrics DEF Taken, High, Measured, Above, Known
<1>5. Taken(x).ccq = 0
  BY <1>1, KnownMetrics DEF Taken, Low, Measured, Below, Known
<1>6. Taken(x).loss <= 5 /\ Taken(x).latency <= 5
  BY <1>1, KnownMetrics, UnknownAssumption DEF Taken, High, Measured, Above, Known
<1>7. HealthScore(x) >= 80
  BY <1>2, <1>3, <1>4, <1>5, <1>6, TakenRange, ScoreIsRest
<1> QED
  BY <1>7 DEF OverallHealth

\* The points of the bands.
Given(b) ==
  [rssi |-> Points(b.rssi, 20, 15, 8, 2), snr |-> Points(b.snr, 20, 15, 8, 2),
   noise |-> Points(b.noise, 15, 11, 6, 1), ccq |-> Points(b.ccq, 15, 12, 7, 2),
   loss |-> Points(b.loss, 15, 12, 6, 1), latency |-> Points(b.latency, 10, 8, 4, 1),
   symmetry |-> Points(b.symmetry, 5, 5, 3, 1)]

LEMMA SumIsGiven ==
  ASSUME NEW b
  PROVE  LET g == Given(b)
         IN  Sum(b) = g.rssi + g.snr + g.noise + g.ccq + g.loss + g.latency + g.symmetry
  BY DEF Sum, Given

LEMMA GivenRange ==
  ASSUME NEW b, IsBands(b)
  PROVE  /\ Given(b).rssi \in 2..20 /\ Given(b).snr \in 2..20 /\ Given(b).noise \in 1..15
         /\ Given(b).ccq \in 2..15 /\ Given(b).loss \in 1..15
         /\ Given(b).latency \in 1..10 /\ Given(b).symmetry \in 1..5
  BY DEF Given, Points, IsBands

\* Where the one engine takes little the other gives much, metric by metric.
LEMMA GivenForTaken ==
  ASSUME NEW x \in [Metric -> Known]
  PROVE  LET g == Given(Bands(x))
             t == Taken(x)
         IN  /\ t.rssi = 0 => g.rssi >= 8
             /\ t.snr = 0 => g.snr >= 8
             /\ t.noise = 0 => g.noise >= 6
             /\ t.ccq = 0 => g.ccq >= 7
             /\ t.loss = 0 => g.loss >= 12
             /\ t.loss = 5 => g.loss >= 6
             /\ t.latency = 0 => g.latency = 10
             /\ t.latency = 5 => g.latency >= 8
<1>1. Taken(x).rssi = 0 => Points(AtLeast(x.rssi, -60, -70, -80), 20, 15, 8, 2) >= 8
  BY KnownMetrics DEF Taken, Low, Measured, Known, AtLeast, Points
<1>2. Taken(x).snr = 0 => Points(AtLeast(x.snr, 30, 22, 14), 20, 15, 8, 2) >= 8
  BY KnownMetrics DEF Taken, Low, Measured, Known, AtLeast, Points
<1>3. Taken(x).noise = 0 => Points(AtMost(x.noise, -95, -88, -80), 15, 11, 6, 1) >= 6
  BY KnownMetrics DEF Taken, High, Measured, Known, AtMost, Points
<1>4. Taken(x).ccq = 0 => Points(AtLeast(x.ccq, 95, 85, 70), 15, 12, 7, 2) >= 7
  BY KnownMetrics DEF Taken, Low, Measured, Known, AtLeast, Points
<1>5. /\ Taken(x).loss = 0 => Points(AtMost(x.loss, 2, 10, 50), 15, 12, 6, 1) >= 12
      /\ Taken(x).loss = 5 => Points(AtMost(x.loss, 2, 10, 50), 15, 12, 6, 1) >= 6
  BY KnownMetrics DEF Taken, High, Measured, Known, AtMost, Points
<1>6. /\ Taken(x).latency = 0 => Points(AtMost(x.latency, 5, 20, 100), 10, 8, 4, 1) = 10
      /\ Taken(x).latency = 5 => Points(AtMost(x.latency, 5, 20, 100), 10, 8, 4, 1) >= 8
  BY KnownMetrics DEF Taken, High, Measured, Known, AtMost, Points
<1> DEFINE b == Bands(x)
<1>7. /\ b.rssi = AtLeast(x.rssi, -60, -70, -80) /\ b.snr = AtLeast(x.snr, 30, 22, 14)
      /\ b.noise = AtMost(x.noise, -95, -88, -80) /\ b.ccq = AtLeast(x.ccq, 95, 85, 70)
      /\ b.loss = AtMost(x.loss, 2, 10, 50) /\ b.latency = AtMost(x.latency, 5, 20, 100)
  BY DEF Bands
<1> HIDE DEF b
<1>8. /\ Given(b).rssi = Points(b.rssi, 20, 15, 8, 2) /\ Given(b).snr = Points(b.snr, 20, 15, 8, 2)
      /\ Given(b).noise = Points(b.noise, 15, 11, 6, 1) /\ Given(b).ccq = Points(b.ccq, 15, 12, 7, 2)
      /\ Given(b).loss = Points(b.loss, 15, 12, 6, 1)
      /\ Given(b).latency = Points(b.latency, 10, 8, 4, 1)
  BY DEF Given
<1> QED
  BY <1>1, <1>2, <1>3, <1>4, <1>5, <1>6, <1>7, <1>8 DEF b

\* What the one engine takes most for the other takes two fifths of at least.
LEMMA TakenIsLost ==
  ASSUME NEW x \in [Metric -> Known]
  PROVE  LET g == Given(Bands(x))
             t == Taken(x)
         IN  /\ 5 * (20 - g.rssi) >= 2 * t.rssi /\ 5 * (20 - g.snr) >= 2 * t.snr
             /\ 5 * (15 - g.noise) >= 2 * t.noise /\ 5 * (15 - g.ccq) >= 2 * t.ccq
             /\ 5 * (15 - g.loss) >= 2 * t.loss /\ 5 * (10 - g.latency) >= 2 * t.latency
<1>1. 5 * (20 - Points(AtLeast(x.rssi, -60, -70, -80), 20, 15, 8, 2)) >= 2 * Taken(x).rssi
  BY KnownMetrics DEF Taken, Low, Measured, Known, AtLeast, Points
<1>2. 5 * (20 - Points(AtLeast(x.snr, 30, 22, 14), 20, 15, 8, 2)) >= 2 * Taken(x).snr
  BY KnownMetrics DEF Taken, Low, Measured, Known, AtLeast, Points
<1>3. 5 * (15 - Points(AtMost(x.noise, -95, -88, -80), 15, 11, 6, 1)) >= 2 * Taken(x).noise
  BY KnownMetrics DEF Taken, High, Measured, Known, AtMost, Points
<1>4. 5 * (15 - Points(AtLeast(x.ccq, 95, 85, 70), 15, 12, 7, 2)) >= 2 * Taken(x).ccq
  BY KnownMetrics DEF Taken, Low, Measured, Known, AtLeast, Points
<1>5. 5 * (15 - Points(AtMost(x.loss, 2, 10, 50), 15, 12, 6, 1)) >= 2 * Taken(x).loss
  BY KnownMetrics DEF Taken, High, Measured, Known, AtMost, Points
<1>6. 5 * (10 - Points(AtMost(x.latency, 5, 20, 100), 10, 8, 4, 1)) >= 2 * Taken(x).latency
  BY KnownMetrics DEF Taken, High, Measured, Known, AtMost, Points
<1> QED
  BY <1>1, <1>2, <1>3, <1>4, <1>5, <1>6 DEF Given, Bands

\* Critical to this engine is not Excellent to the other.
LEMMA CriticalIsNotExcellent ==
  ASSUME NEW x \in [Metric -> Known], OverallHealth(x) = "critical"
  PROVE  Sum(Bands(x)) < 90
<1> DEFINE t == Taken(x)
           g == Given(Bands(x))
<1>1. 100 - t.rssi - t.noise - t.snr - t.ccq - t.latency - t.loss < 50
  BY ScoreIsRest DEF OverallHealth
<1>2. /\ t.rssi \in Int /\ t.noise \in Int /\ t.snr \in Int
      /\ t.ccq \in Int /\ t.latency \in Int /\ t.loss \in Int
  BY TakenRange
<1>3. /\ g.rssi \in Int /\ g.noise \in Int /\ g.snr \in Int /\ g.ccq \in Int
      /\ g.latency \in Int /\ g.loss \in Int /\ g.symmetry \in 1..5
  BY GivenRange, BandsType
<1>4. /\ 5 * (20 - g.rssi) >= 2 * t.rssi /\ 5 * (20 - g.snr) >= 2 * t.snr
      /\ 5 * (15 - g.noise) >= 2 * t.noise /\ 5 * (15 - g.ccq) >= 2 * t.ccq
      /\ 5 * (15 - g.loss) >= 2 * t.loss /\ 5 * (10 - g.latency) >= 2 * t.latency
  BY TakenIsLost
<1>5. Sum(Bands(x)) = g.rssi + g.snr + g.noise + g.ccq + g.loss + g.latency + g.symmetry
  BY SumIsGiven
<1> HIDE DEF t, g
<1> QED
  BY <1>1, <1>2, <1>3, <1>4, <1>5

\* Without a cause a weak signal has noise beside it, and a middling one noise or a low CCQ.
LEMMA UnexplainedSignal ==
  ASSUME NEW x \in [Metric -> Known], Causes(x, FALSE) = {}
  PROVE  /\ Taken(x).rssi # 0 => Taken(x).noise = 20
         /\ Given(Bands(x)).rssi = 20 \/ Taken(x).rssi # 0
              \/ Taken(x).noise = 20 \/ Taken(x).ccq = 15
<1>1. ~Misalignment(x) /\ ~Obstruction(x)
  BY ZenonT(40) DEF Causes
<1>2. Elevated(x) => Taken(x).noise = 20
  BY KnownMetrics DEF Taken, High, Measured, Known, Elevated
<1>3. Taken(x).rssi # 0 => Measured(x.rssi) /\ x.rssi < -72
  BY KnownMetrics DEF Taken, Low, Measured, Known
<1>4. ASSUME Taken(x).rssi = 0, ~Elevated(x), Taken(x).ccq # 15
      PROVE  Points(AtLeast(x.rssi, -60, -70, -80), 20, 15, 8, 2) = 20
  <2>1. ~Measured(x.ccq) \/ x.ccq >= 80
    BY <1>4, KnownMetrics DEF Taken, Low, Measured, Known
  <2>2. ~(Measured(x.rssi) /\ -72 <= x.rssi /\ x.rssi < -60)
    BY <1>1, <1>4, <2>1 DEF Obstruction
  <2>3. x.rssi = Unknown \/ (x.rssi \in Int /\ x.rssi >= -60)
    BY <1>4, <2>2, KnownMetrics DEF Taken, Low, Measured, Known
  <2> QED
    BY <2>3 DEF AtLeast, Points
<1> QED
  BY <1>1, <1>2, <1>3, <1>4 DEF Misalignment, Given, Bands

\* Healthy to this engine, without a cause, is not Critical to the other.
LEMMA HealthyIsNotCritical ==
  ASSUME NEW x \in [Metric -> Known], OverallHealth(x) = "healthy", Causes(x, FALSE) = {}
  PROVE  Sum(Bands(x)) >= 40
<1> DEFINE t == Taken(x)
           g == Given(Bands(x))
<1>1. 100 - t.rssi - t.noise - t.snr - t.ccq - t.latency - t.loss >= 80
  <2>1. HealthScore(x) >= 80
    BY ScoreIsRest DEF OverallHealth
  <2> QED
    BY <2>1, ScoreIsRest
<1>2. /\ t.rssi \in {0, 15, 35} /\ t.noise \in {0, 20} /\ t.snr \in {0, 10, 30}
      /\ t.ccq \in {0, 15} /\ t.latency \in {0, 5, 10} /\ t.loss \in {0, 5, 15}
  BY TakenRange
<1>3. /\ g.rssi \in 2..20 /\ g.snr \in 2..20 /\ g.noise \in 1..15 /\ g.ccq \in 2..15
      /\ g.loss \in 1..15 /\ g.latency \in 1..10 /\ g.symmetry \in 1..5
  BY GivenRange, BandsType
<1>4. /\ t.rssi = 0 => g.rssi >= 8
      /\ t.snr = 0 => g.snr >= 8
      /\ t.noise = 0 => g.noise >= 6
      /\ t.ccq = 0 => g.ccq >= 7
      /\ t.loss = 0 => g.loss >= 12
      /\ t.loss = 5 => g.loss >= 6
      /\ t.latency = 0 => g.latency = 10
      /\ t.latency = 5 => g.latency >= 8
  BY GivenForTaken
<1>5. /\ t.rssi # 0 => t.noise = 20
      /\ g.rssi = 20 \/ t.rssi # 0 \/ t.noise = 20 \/ t.ccq = 15
  BY UnexplainedSignal
<1>6. Sum(Bands(x)) = g.rssi + g.snr + g.noise + g.ccq + g.loss + g.latency + g.symmetry
  BY SumIsGiven
<1> HIDE DEF t, g
<1> QED
  BY <1>1, <1>2, <1>3, <1>4, <1>5, <1>6

-----------------------------------------------------------------------------

\* For all values of the metrics the three engines do not contradict each other.
THEOREM EnginesStayAgreed == Spec => []EnginesAgree
<1>1. IInv => EnginesAgree
  <2> SUFFICES ASSUME IInv PROVE EnginesAgree
      OBVIOUS
  <2>1. m \in [Metric -> Known] /\ diagnosis.raised = Raised(m)
    BY DEF IInv, Diagnose
  <2>2. diagnosis.raised = {} => OverallHealth(m) = "healthy"
    BY <2>1, UnraisedIsHealthy
  <2>3. diagnosis.status = 5 => OverallHealth(m) # "healthy" \/ Causes(m, FALSE) # {}
    <3>1. diagnosis.status = 5 => ~(Sum(Bands(m)) >= 40)
      BY DiagnosisFacts DEF Status
    <3> QED
      BY <2>1, <3>1, HealthyIsNotCritical
  <2>4. diagnosis.status < 2 => OverallHealth(m) # "critical"
    <3>1. Sum(Bands(m)) < 90 => ~(diagnosis.status < 2)
      BY DiagnosisFacts DEF Status
    <3> QED
      BY <2>1, <3>1, CriticalIsNotExcellent
  <2> QED
    BY <2>2, <2>3, <2>4 DEF EnginesAgree, EnginesAgreeOnTheWorst, UnhealthyPassesThreshold
<1> QED
  BY <1>1, Invariance, PTL

-----------------------------------------------------------------------------
(***************************************************************************)
(* RadioPoll's property for all integer values of the metrics.             *)
(*                                                                         *)
(* A snapshot keeps a metric or makes it Unknown, which is no worse, so it *)
(* scores no less than the measurement (RepairScores).  Two metrics in     *)
(* band 4 and the symmetry cost 40 points at most, and 60 is not alerted.  *)
(***************************************************************************)

LEMMA SnapshotType ==
  ASSUME NEW x \in [Metric -> Known], NEW known
  PROVE  Snapshot(x, known) \in [Metric -> Known]
  BY DEF Snapshot, Known

\* Whatever is left out, the score does not fall.
LEMMA SnapshotScores ==
  ASSUME NEW x \in [Metric -> Known], NEW known, {"tx", "rx"} \subseteq known
  PROVE  Sum(Bands(x)) <= Sum(Bands(Snapshot(x, known)))
<1> DEFINE y == Snapshot(x, known)
<1>1. y \in [Metric -> Known]
  BY SnapshotType
<1>2. y["tx"] = x["tx"] /\ y["rx"] = x["rx"]
  BY DEF Snapshot, Metric
<1>3. \A k \in Metric \ {"tx", "rx"} : NoWorse(k, y[k], x[k])
  BY DEF Snapshot, NoWorse
<1> HIDE DEF y
<1>4. Sum(Bands(x)) <= Sum(Bands(y))
  BY <1>1, <1>2, <1>3, RepairScores
<1> QED
  BY <1>4 DEF y

\* A metric that was left out, like one that cannot be known from RF, is in band 1.
LEMMA LeftOutIsBest ==
  ASSUME NEW x, NEW known \in SUBSET RF
  PROVE  LET b == Bands(Snapshot(x, known \cup {"tx", "rx"}))
         IN  /\ "rssi" \notin known => b.rssi = 1
             /\ "snr" \notin known => b.snr = 1
             /\ "noise" \notin known => b.noise = 1
             /\ "ccq" \notin known => b.ccq = 1
             /\ b.loss = 1 /\ b.latency = 1
<1> DEFINE y == Snapshot(x, known \cup {"tx", "rx"})
<1>1. \A k \in Metric \ {"tx", "rx"} : k \notin known => y[k] = Unknown
  BY DEF Snapshot
<1>2. y.loss = Unknown /\ y.latency = Unknown
  BY <1>1 DEF RF, Metric
<1>3. /\ "rssi" \notin known => y.rssi = Unknown
      /\ "snr" \notin known => y.snr = Unknown
      /\ "noise" \notin known => y.noise = Unknown
      /\ "ccq" \notin known => y.ccq = Unknown
  BY <1>1 DEF Metric
<1> HIDE DEF y
<1>4. /\ \A p, q, r : AtLeast(Unknown, p, q, r) = 1
      /\ \A p, q, r : AtMost(Unknown, p, q, r) = 1
  BY DEF AtLeast, AtMost
<1>5. /\ "rssi" \notin known => Bands(y).rssi = 1
      /\ "snr" \notin known => Bands(y).snr = 1
      /\ "noise" \notin known => Bands(y).noise = 1
      /\ "ccq" \notin known => Bands(y).ccq = 1
      /\ Bands(y).loss = 1 /\ Bands(y).latency = 1
  BY <1>2, <1>3, <1>4 DEF Bands
<1> QED
  BY <1>5 DEF y

\* Below 60 at least three of the four RF bands are not the best.
LEMMA ThreeBandsAreWorse ==
  ASSUME NEW b, IsBands(b), b.loss = 1, b.latency = 1, Sum(b) < 60
  PROVE  \/ b.rssi # 1 /\ b.snr # 1 /\ b.noise # 1
         \/ b.rssi # 1 /\ b.snr # 1 /\ b.ccq # 1
         \/ b.rssi # 1 /\ b.noise # 1 /\ b.ccq # 1
         \/ b.snr # 1 /\ b.noise # 1 /\ b.ccq # 1
<1>1. /\ Points(b.loss, 15, 12, 6, 1) = 15 /\ Points(b.latency, 10, 8, 4, 1) = 10
      /\ Points(b.symmetry, 5, 5, 3, 1) \in 1..5
  BY DEF Points, IsBands
<1>2. /\ Points(b.rssi, 20, 15, 8, 2) \in 2..20 /\ Points(b.snr, 20, 15, 8, 2) \in 2..20
      /\ Points(b.noise, 15, 11, 6, 1) \in 1..15 /\ Points(b.ccq, 15, 12, 7, 2) \in 2..15
  BY DEF Points, IsBands
<1>3. /\ b.rssi = 1 => Points(b.rssi, 20, 15, 8, 2) = 20
      /\ b.snr = 1 => Points(b.snr, 20, 15, 8, 2) = 20
      /\ b.noise = 1 => Points(b.noise, 15, 11, 6, 1) = 15
      /\ b.ccq = 1 => Points(b.ccq, 15, 12, 7, 2) = 15
  BY DEF Points
<1> QED
  BY <1>1, <1>2, <1>3 DEF Sum

LEMMA ThreeAreMoreThanTwo ==
  ASSUME NEW S, IsFiniteSet(S), NEW i \in S, NEW j \in S, NEW k \in S,
         i # j, j # k, i # k
  PROVE  Cardinality(S) > 2
<1>1. IsFiniteSet({i}) /\ Cardinality({i}) = 1
  BY FS_Singleton
<1>2. IsFiniteSet({i} \cup {j}) /\ Cardinality({i} \cup {j}) = 2
  <2> DEFINE T == {i}
  <2>1. IsFiniteSet(T) /\ Cardinality(T) = 1 /\ j \notin T
    BY <1>1
  <2> HIDE DEF T
  <2>2. IsFiniteSet(T \cup {j}) /\ Cardinality(T \cup {j}) = 2
    BY <2>1, FS_AddElement
  <2> QED
    BY <2>2 DEF T
<1>3. Cardinality(({i} \cup {j}) \cup {k}) = 3
  BY <1>2, FS_AddElement
<1>4. Cardinality(({i} \cup {j}) \cup {k}) <= Cardinality(S) /\ Cardinality(S) \in Nat
  <2>1. ({i} \cup {j}) \cup {k} \in SUBSET S
    OBVIOUS
  <2> QED
    BY <2>1, FS_Subset, FS_CardinalityType
<1> QED
  BY <1>3, <1>4

-----------------------------------------------------------------------------

LEMMA SnapshotAlertIsMeasured ==
  ASSUME IInv, NEW known, {"tx", "rx"} \subseteq known, HealthDegraded(Snapshot(m, known))
  PROVE  diagnosis.alerts /\ Sum(Bands(Snapshot(m, known))) < 60
<1> DEFINE b == Bands(Snapshot(m, known))
<1>1. IsBands(b) /\ Sum(b) \in Int /\ Clamp(Sum(b)) = Sum(b)
  BY BandsType, SumRange
<1>2. Status(Sum(b)) >= 4
  BY <1>1 DEF HealthDegraded
<1>3. Sum(b) < 60
  BY <1>1, <1>2 DEF Status
<1>4. Sum(Bands(m)) <= Sum(b) /\ Sum(Bands(m)) \in Int
  BY SnapshotScores, BandsType, SumRange DEF IInv
<1> QED
  BY <1>1, <1>3, <1>4, DiagnosisFacts

LEMMA AlertKnowsThree ==
  ASSUME IInv, NEW known \in SUBSET RF,
         HealthDegraded(Snapshot(m, known \cup {"tx", "rx"}))
  PROVE  Cardinality(known) > 2
<1> DEFINE b == Bands(Snapshot(m, known \cup {"tx", "rx"}))
<1>1. IsBands(b)
  BY BandsType
<1>2. Sum(b) < 60
  BY SnapshotAlertIsMeasured
<1>3. \/ {"rssi", "snr", "noise"} \subseteq known
      \/ {"rssi", "snr", "ccq"} \subseteq known
      \/ {"rssi", "noise", "ccq"} \subseteq known
      \/ {"snr", "noise", "ccq"} \subseteq known
  <2>1. /\ "rssi" \notin known => b.rssi = 1
        /\ "snr" \notin known => b.snr = 1
        /\ "noise" \notin known => b.noise = 1
        /\ "ccq" \notin known => b.ccq = 1
        /\ b.loss = 1 /\ b.latency = 1
    BY LeftOutIsBest
  <2> HIDE DEF b
  <2>2. \/ b.rssi # 1 /\ b.snr # 1 /\ b.noise # 1
        \/ b.rssi # 1 /\ b.snr # 1 /\ b.ccq # 1
        \/ b.rssi # 1 /\ b.noise # 1 /\ b.ccq # 1
        \/ b.snr # 1 /\ b.noise # 1 /\ b.ccq # 1
    BY <1>1, <1>2, <2>1, ThreeBandsAreWorse
  <2> QED
    BY <2>1, <2>2
<1>4. IsFiniteSet(known)
  <2>1. RF = ((({"rssi"} \cup {"snr"}) \cup {"noise"}) \cup {"ccq"})
    BY DEF RF
  <2>2. IsFiniteSet({"rssi"} \cup {"snr"})
    BY FS_Singleton, FS_AddElement
  <2>3. IsFiniteSet(({"rssi"} \cup {"snr"}) \cup {"noise"})
    BY <2>2, FS_AddElement
  <2>4. IsFiniteSet((({"rssi"} \cup {"snr"}) \cup {"noise"}) \cup {"ccq"})
    BY <2>3, FS_AddElement
  <2> QED
    BY <2>1, <2>4, FS_Subset
<1>5. Cardinality(known) > 2
  <2>1. CASE {"rssi", "snr", "noise"} \subseteq known
    BY <1>4, <2>1, ThreeAreMoreThanTwo
  <2>2. CASE {"rssi", "snr", "ccq"} \subseteq known
    BY <1>4, <2>2, ThreeAreMoreThanTwo
  <2>3. CASE {"rssi", "noise", "ccq"} \subseteq known
    BY <1>4, <2>3, ThreeAreMoreThanTwo
  <2>4. CASE {"snr", "noise", "ccq"} \subseteq known
    BY <1>4, <2>4, ThreeAreMoreThanTwo
  <2> QED
    BY <1>3, <2>1, <2>2, <2>3, <2>4
<1> QED
  BY <1>5

\* With a name for each, all interfaces are listed.
LEMMA NamedAreListed ==
  ASSUME NEW reply \in Reply, reply.names,
         \A i \in DOMAIN reply.interfaces : reply.interfaces[i].named
  PROVE  \A i \in DOMAIN reply.interfaces : i <= Listed(reply)
<1>1. PICK n \in 0..MaxInterfaces : reply.interfaces \in [1..n -> Interface]
  BY DEF Reply
<1>2. DOMAIN reply.interfaces = 1..n /\ n \in Nat
  BY <1>1, InterfacesAssumption
<1>3. {i \in DOMAIN reply.interfaces : reply.interfaces[i].named} = 1..n
  BY <1>2
<1>4. Cardinality(1..n) = n
  BY <1>2, FS_Interval
<1>5. Listed(reply) = n
  BY <1>3, <1>4 DEF Listed
<1> QED
  BY <1>2, <1>5

LEMMA SilentIsAnswered ==
  ASSUME NEW r \in RadioDevice, NEW c \in Credential, NEW reply \in Reply,
         Silent(r, c, reply)
  PROVE  /\ SelectAdapter(r, c) = "generic_snmp" /\ c.secret /\ reply.ok
         /\ ~InterfaceDown(reply)
<1>1. ~HasEnoughRF(Nothing)
  <2>1. {k \in RF : Nothing[k] # Unknown} = {}
    BY DEF Nothing, RF, Metric
  <2> QED
    BY <2>1, FS_EmptySet DEF HasEnoughRF
<1>2. Healthy(r, c, reply) /\ ~InterfaceDown(reply)
  BY DEF Silent, Rules
<1>3. SelectAdapter(r, c) \notin {"tplink_cpe", "ubiquiti_airmax", "mikrotik_routeros", "cambium"}
  BY <1>1, <1>2 DEF Silent, Rules, Healthy, RouterOSHealthy, RouterOSRuns, CambiumHealthy,
                    SnmpHealthy
<1>4. SelectAdapter(r, c) \in
        {"generic_snmp", "tplink_cpe", "ubiquiti_airmax", "mikrotik_routeros", "cambium"}
  BY DEF SelectAdapter
<1>5. SelectAdapter(r, c) = "generic_snmp"
  BY <1>3, <1>4
<1> QED
  BY <1>2, <1>5 DEF Healthy, SnmpHealthy, Community

LEMMA SilenceHolds == SilenceMeansUp
<1> SUFFICES ASSUME NEW r \in RadioDevice, NEW c \in Credential, NEW reply \in Reply,
                    Silent(r, c, reply)
             PROVE  /\ SelectAdapter(r, c) = "generic_snmp" /\ c.secret /\ reply.ok
                    /\ reply.names /\ reply.statuses =>
                         \/ \E i \in DOMAIN reply.interfaces : ~reply.interfaces[i].named
                         \/ \A i \in DOMAIN reply.interfaces : reply.interfaces[i].up
    BY DEF SilenceMeansUp
<1>1. ASSUME reply.names, reply.statuses,
             \A i \in DOMAIN reply.interfaces : reply.interfaces[i].named
      PROVE  \A i \in DOMAIN reply.interfaces : reply.interfaces[i].up
  <2>1. \A i \in DOMAIN reply.interfaces : i <= Listed(reply)
    BY <1>1, NamedAreListed
  <2>2. ~InterfaceDown(reply)
    BY SilentIsAnswered
  <2> QED
    BY <1>1, <2>1, <2>2 DEF InterfaceDown, ParsedStatus, UpStatus
<1> QED
  BY <1>1, SilentIsAnswered

LEMMA AlertHolds == AlertMeansDown
<1> SUFFICES ASSUME NEW r \in RadioDevice, NEW c \in Credential, NEW reply \in Reply
             PROVE  LET raised == "interface_down" \in Rules(r, c, reply, Nothing)
                    IN /\ raised => reply.mibs
                                    \/ \E i \in DOMAIN reply.interfaces : ~reply.interfaces[i].up
                       /\ reply.mibs /\ reply.statuses /\ Healthy(r, c, reply) =>
                            (raised <=> \E i \in DOMAIN reply.interfaces : i <= Listed(reply))
    BY DEF AlertMeansDown
<1>1. "interface_down" \in Rules(r, c, reply, Nothing) <=>
        Healthy(r, c, reply) /\ InterfaceDown(reply)
  BY DEF Rules
<1>2. InterfaceDown(reply) =>
        reply.mibs \/ \E i \in DOMAIN reply.interfaces : ~reply.interfaces[i].up
  BY DEF InterfaceDown, ParsedStatus, UpStatus
<1>3. ASSUME reply.mibs, reply.statuses
      PROVE  InterfaceDown(reply) <=> \E i \in DOMAIN reply.interfaces : i <= Listed(reply)
  <2>1. \A i \in DOMAIN reply.interfaces : ParsedStatus(reply, i) \notin UpStatus
    BY <1>3 DEF ParsedStatus, UpStatus
  <2> QED
    BY <1>3, <2>1 DEF InterfaceDown
<1> QED
  BY <1>1, <1>2, <1>3

\* For all values of the metrics, however many interfaces reply: a radio's silence means what
\* it says, an interface alert does unless the poller has its MIBs loaded, and what a poll
\* alerts on the field measurement alerts on.
THEOREM RadioPollsStayTrue == Spec => []RadioPollTells
<1>1. IInv => PollAlertsAreMeasured
  <2> SUFFICES ASSUME IInv,
                      NEW carried \in {TPLinkCarries, RouterOSCarries, UbiquitiCarries},
                      NEW known \in SUBSET RF,
                      HealthDegraded(Snapshot(m, known \cup (carried \ RF)))
               PROVE  /\ diagnosis.alerts
                      /\ {"loss", "latency"} \cap carried = {} => Cardinality(known) > 2
      BY DEF PollAlertsAreMeasured
  <2>1. {"tx", "rx"} \subseteq known \cup (carried \ RF)
    BY DEF TPLinkCarries, RouterOSCarries, UbiquitiCarries, RF, Metric
  <2>2. {"loss", "latency"} \cap carried = {} => carried \ RF = {"tx", "rx"}
    BY DEF TPLinkCarries, RouterOSCarries, UbiquitiCarries, RF, Metric
  <2> QED
    BY <2>1, <2>2, SnapshotAlertIsMeasured, AlertKnowsThree
<1>2. IInv => RadioPollTells
  BY <1>1, SilenceHolds, AlertHolds DEF RadioPollTells
<1> QED
  BY <1>2, Invariance, PTL

-----------------------------------------------------------------------------
(***************************************************************************)
(* Syslog's properties for every set of messages and senders.              *)
(*                                                                         *)
(* A stored log is the entry of some message and an alert was raised by    *)
(* one; with this, each property is about one or two messages and the      *)
(* order of the branches that classify them.                               *)
(***************************************************************************)

SyslogKeys == {Key(src, e) : src \in Source, e \in Message}

SyslogAlert == [key : SyslogKeys, kind : {Kind(e) : e \in Message},
                severity : Level, open : BOOLEAN, occurrences : Nat,
                evidence : SUBSET Nat]

\* A stored log is the entry of a message, and has an alert if that calls for one.
LogTold(log) ==
  \E src \in Source, e \in Message :
    /\ log = Entry(src, e)
    /\ ShouldAlert(e) => \E i \in DOMAIN alerts : alerts[i].key = log.key

\* An alert was alerts by a message that calls for one and whose log is stored.
AlertTold(a) ==
  \E src \in Source, e \in Message :
    /\ ShouldAlert(e)
    /\ a.key = Key(src, e) /\ a.kind = Kind(e)
    /\ a.severity = AlertSeverity(e)
    /\ \E n \in DOMAIN logs : logs[n] = Entry(src, e)

SyslogInv ==
  /\ logs \in Seq({Entry(src, e) : src \in Source, e \in Message})
  /\ alerts \in Seq(SyslogAlert)
  /\ \A n \in DOMAIN logs : LogTold(logs[n])
  /\ \A i \in DOMAIN alerts : AlertTold(alerts[i])

LEMMA CategoriesKnown ==
  ASSUME NEW e
  PROVE  Category(e) \in
           {"config_changed", "vpn_login_failure", "vpn_login_success", "admin_login_failure",
            "admin_login_success", "ips_attack_detected", "malware_detected",
            "web_filter_block", "firewall_blocked_traffic", "interface_down", "interface_up",
            "ha_failover", "system_event", "unknown_fortinet_event"}
  BY DEF Category

\* The branches of the classification, by what they decide.
LEMMA Classified ==
  ASSUME NEW e \in Message
  PROVE  /\ Severity(e) \in Level \/ ~ IsFortinet(e)
         /\ e.level \in Level
         /\ IsFortinet(e) /\ Category(e) \in AlertCategories =>
              Severity(e) \in {"critical", "high", "medium"}
         /\ IsFortinet(e) => Kind(e) = Category(e)
         /\ Category(e) # "syslog"
<1>1. /\ IsFortinet(e) => e \in Fortinet
      /\ e.level \in Level
  BY MessageAssumption DEF Fortinet, Generic, IsFortinet
<1>2. Category(e) \in
        {"config_changed", "vpn_login_failure", "vpn_login_success", "admin_login_failure",
         "admin_login_success", "ips_attack_detected", "malware_detected", "web_filter_block",
         "firewall_blocked_traffic", "interface_down", "interface_up", "ha_failover",
         "system_event", "unknown_fortinet_event"}
  BY CategoriesKnown
<1> DEFINE c == Category(e)
<1> HIDE DEF c
<1>3. Severity(e) \in Level
  BY <1>1, <1>2 DEF Severity, ByLevel, Level
<1> QED
  BY <1>1, <1>2, <1>3 DEF Severity, AlertCategories, ByLevel,
     Kind

\* Whatever is stored as an error has an alert, and what a FortiGate alerts is a warning at least.
LEMMA LevelsFit ==
  ASSUME NEW e \in Message
  PROVE  /\ LogLevel(e) \in {"critical", "high", "medium", "info"}
         /\ LogLevel(e) \in {"critical", "high"} => ShouldAlert(e)
         /\ IsFortinet(e) /\ ShouldAlert(e) => LogLevel(e) # "info"
         /\ AlertSeverity(e) \in Level
         /\ IsFortinet(e) =>
              LogLevel(e) \in {AlertSeverity(e), "info"}
         /\ ~ IsFortinet(e) => Kind(e) = "syslog"
<1>1. CASE IsFortinet(e)
  <2>1. /\ Severity(e) \in Level
        /\ Category(e) \in AlertCategories =>
             Severity(e) \in {"critical", "high", "medium"}
    BY <1>1, Classified
  <2>2. /\ LogLevel(e) = IF Severity(e) \in {"critical", "high", "medium"}
                                 THEN Severity(e) ELSE "info"
        /\ AlertSeverity(e) = Severity(e)
        /\ ShouldAlert(e) <=> \/ Category(e) \in AlertCategories
                                      \/ Severity(e) \in {"critical", "high"}
    BY <1>1 DEF LogLevel, AlertSeverity, ShouldAlert
  <2> QED
    BY <1>1, <2>1, <2>2
<1>2. CASE ~ IsFortinet(e)
  BY <1>2 DEF LogLevel, AlertSeverity, ShouldAlert, Kind,
     Level
<1> QED
  BY <1>1, <1>2

\* A log is marked as a threat by the words and subtypes of attacks and malware.
LEMMA ThreatTold ==
  ASSUME NEW src, NEW e, NEW log, log = Entry(src, e), log.threat
  PROVE  IsFortinet(e) /\ (Attack(e) \/ Malware(e))
  BY DEF Entry, IsFortinet, Attack, Malware

\* Where the level is not the sender's word, the category settles the severity.
LEMMA SettledSeverity ==
  ASSUME NEW e, NEW f, IsFortinet(e), IsFortinet(f),
         Kind(e) = Kind(f), Kind(e) \notin ByLevel
  PROVE  AlertSeverity(e) = AlertSeverity(f)
<1>1. Category(e) = Category(f) /\ Category(e) \notin ByLevel
  BY DEF Kind
<1>2. /\ AlertSeverity(e) = Severity(e)
      /\ AlertSeverity(f) = Severity(f)
  BY DEF AlertSeverity
<1> QED
  BY <1>1, <1>2, CategoriesKnown DEF Severity, ByLevel

\* An attack or malware event that raises no alert was filed as a login.
LEMMA ThreatsFit ==
  ASSUME NEW e \in Message, IsFortinet(e),
         Attack(e) \/ Malware(e), ~ ShouldAlert(e)
  PROVE  Category(e) \in {"vpn_login_success", "admin_login_success"}
  BY DEF Category, ShouldAlert, AlertCategories

LEMMA Ranks ==
  /\ Rank("critical") = 4 /\ Rank("high") = 3 /\ Rank("medium") = 2
  /\ Rank("low") = 1 /\ Rank("info") = 0
  BY DEF Rank

\* A key tells profiles and categories apart.
LEMMA KeysTell ==
  ASSUME NEW src, NEW e, NEW tgt, NEW f, Key(src, e) = Key(tgt, f)
  PROVE  /\ Kind(e) = Kind(f)
         /\ IsFortinet(e) <=> IsFortinet(f)
<1>1. CASE IsFortinet(e)
  <2>1. Key(src, e) = <<"fortinet", Category(e), src>>
    BY <1>1 DEF Key
  <2>2. IsFortinet(f)
    BY <2>1 DEF Key
  <2>3. Key(tgt, f) = <<"fortinet", Category(f), tgt>>
    BY <2>2 DEF Key
  <2>4. Category(e) = Category(f)
    <3> DEFINE c == Category(e)
               d == Category(f)
    <3> HIDE DEF c, d
    <3>1. <<"fortinet", c, src>> = <<"fortinet", d, tgt>>
      BY <2>1, <2>3 DEF c, d
    <3>2. c = d
      BY <3>1
    <3> QED
      BY <3>2 DEF c, d
  <2> QED
    BY <1>1, <2>2, <2>4 DEF Kind
<1>2. CASE ~ IsFortinet(e)
  <2>1. Key(src, e) = <<"syslog", src, e.head>>
    BY <1>2 DEF Key
  <2>2. ~ IsFortinet(f)
    BY <2>1 DEF Key
  <2> QED
    BY <1>2, <2>2 DEF Kind
<1> QED
  BY <1>1, <1>2

\* Entries and alerts keep their parts.
LEMMA SyslogParts ==
  ASSUME SyslogInv
  PROVE  /\ Len(logs) \in Nat /\ DOMAIN logs = 1..Len(logs)
         /\ Len(alerts) \in Nat /\ DOMAIN alerts = 1..Len(alerts)
         /\ \A i \in DOMAIN alerts : alerts[i] \in SyslogAlert
  BY DEF SyslogInv

LEMMA SyslogIngest ==
  ASSUME SyslogInv, NEW src \in Source, NEW e \in Message,
         Ingest(src, e)
  PROVE  SyslogInv'
<1> DEFINE entry == Entry(src, e)
           key == Key(src, e)
           same == {i \in DOMAIN alerts : alerts[i].key = key /\ alerts[i].open}
           new == Raise(src, e, Len(logs) + 1)
           more(i) == [alerts[i] EXCEPT !.occurrences = @ + 1]
<1>1. /\ logs' = Append(logs, entry)
      /\ alerts' = IF ShouldAlert(e) /\ same = {} THEN Append(alerts, new)
                   ELSE IF ShouldAlert(e)
                   THEN [i \in DOMAIN alerts |-> IF i \in same THEN more(i) ELSE alerts[i]]
                   ELSE alerts
  BY DEF Ingest
<1>2. entry.key = key
  BY DEF Entry
<1>3. /\ new \in SyslogAlert /\ new.key = key /\ new.kind = Kind(e)
      /\ new.severity = AlertSeverity(e)
  <2>1. AlertSeverity(e) \in Level /\ key \in SyslogKeys
    BY LevelsFit DEF SyslogKeys
  <2>2. Len(logs) + 1 \in Nat
    BY SyslogParts
  <2> QED
    BY <2>1, <2>2 DEF Raise, SyslogAlert
<1>4. ASSUME NEW i \in DOMAIN alerts
      PROVE  /\ more(i) \in SyslogAlert /\ more(i).key = alerts[i].key
             /\ more(i).kind = alerts[i].kind /\ more(i).severity = alerts[i].severity
  BY SyslogParts DEF SyslogAlert
<1> HIDE DEF entry, key, new, more
<1>5. /\ logs' \in Seq({Entry(s, msg) : s \in Source, msg \in Message})
      /\ DOMAIN logs' = 1..(Len(logs) + 1) /\ logs'[Len(logs) + 1] = entry
      /\ \A n \in DOMAIN logs : n \in DOMAIN logs' /\ logs'[n] = logs[n]
  <2>1. entry \in {Entry(s, msg) : s \in Source, msg \in Message}
    BY DEF entry
  <2> DEFINE Entries == {Entry(s, msg) : s \in Source, msg \in Message}
  <2>2. logs \in Seq(Entries) /\ entry \in Entries
    BY <2>1 DEF SyslogInv
  <2> HIDE DEF Entries
  <2>3. /\ logs' \in Seq(Entries)
        /\ DOMAIN logs' = 1..(Len(logs) + 1) /\ logs'[Len(logs) + 1] = entry
        /\ \A n \in 1..Len(logs) : n \in 1..(Len(logs) + 1) /\ logs'[n] = logs[n]
    BY <1>1, <2>2
  <2> QED
    BY <2>3, SyslogParts DEF Entries
<1>6. /\ alerts' \in Seq(SyslogAlert)
      /\ \A i \in DOMAIN alerts :
           /\ i \in DOMAIN alerts'
           /\ alerts'[i].key = alerts[i].key /\ alerts'[i].kind = alerts[i].kind
           /\ alerts'[i].severity = alerts[i].severity
      /\ \A i \in DOMAIN alerts' : i \in DOMAIN alerts
           \/ (ShouldAlert(e) /\ alerts'[i] = new)
      /\ ShouldAlert(e) => \E i \in DOMAIN alerts' : alerts'[i].key = key
  <2> HIDE DEF same
  <2>1. CASE ShouldAlert(e) /\ same = {}
    <3>1. alerts' = Append(alerts, new) /\ alerts \in Seq(SyslogAlert)
      BY <1>1, <2>1 DEF SyslogInv
    <3>2. /\ alerts' \in Seq(SyslogAlert) /\ DOMAIN alerts' = 1..(Len(alerts) + 1)
          /\ alerts'[Len(alerts) + 1] = new
          /\ \A i \in 1..Len(alerts) : alerts'[i] = alerts[i]
      BY <3>1, <1>3
    <3>3. /\ \A i \in 1..Len(alerts) : i \in 1..(Len(alerts) + 1)
          /\ \A i \in 1..(Len(alerts) + 1) : i \in 1..Len(alerts) \/ i = Len(alerts) + 1
          /\ Len(alerts) + 1 \in 1..(Len(alerts) + 1)
      BY SyslogParts
    <3> QED
      BY <2>1, <3>2, <3>3, <1>3, SyslogParts
  <2>2. CASE ShouldAlert(e) /\ same # {}
    <3>1. alerts' = [i \in DOMAIN alerts |-> IF i \in same THEN more(i) ELSE alerts[i]]
      BY <1>1, <2>2
    <3>2. \A i \in DOMAIN alerts :
            /\ alerts'[i] \in SyslogAlert /\ alerts'[i].key = alerts[i].key
            /\ alerts'[i].kind = alerts[i].kind /\ alerts'[i].severity = alerts[i].severity
      BY <3>1, <1>4, SyslogParts
    <3>3. alerts' \in Seq(SyslogAlert) /\ DOMAIN alerts' = DOMAIN alerts
      BY <3>1, <3>2, SyslogParts
    <3>4. PICK i \in DOMAIN alerts : alerts[i].key = key
      BY <2>2 DEF same
    <3> QED
      BY <3>2, <3>3, <3>4
  <2>3. CASE ~ ShouldAlert(e)
    BY <1>1, <2>3 DEF SyslogInv
  <2> QED
    BY <2>1, <2>2, <2>3
<1>7. ASSUME NEW n \in DOMAIN logs' PROVE LogTold(logs[n])'
  <2>1. CASE n \in DOMAIN logs
    <3>1. LogTold(logs[n])
      BY <2>1 DEF SyslogInv
    <3>2. logs'[n] = logs[n]
      BY <2>1, <1>5
    <3> QED
      BY <3>1, <3>2, <1>6 DEF LogTold
  <2>2. CASE n \notin DOMAIN logs
    <3>1. logs'[n] = entry
      <4>1. n = Len(logs) + 1
        BY <2>2, <1>5, SyslogParts
      <4> QED
        BY <4>1, <1>5
    <3>2. ShouldAlert(e) => \E i \in DOMAIN alerts' : alerts'[i].key = entry.key
      BY <1>2, <1>6
    <3> QED
      BY <3>1, <3>2 DEF LogTold, entry
  <2> QED
    BY <2>1, <2>2
<1>8. ASSUME NEW i \in DOMAIN alerts' PROVE AlertTold(alerts[i])'
  <2>1. CASE i \in DOMAIN alerts
    <3>1. PICK s \in Source, msg \in Message :
            /\ ShouldAlert(msg)
            /\ alerts[i].key = Key(s, msg) /\ alerts[i].kind = Kind(msg)
            /\ alerts[i].severity = AlertSeverity(msg)
            /\ \E n \in DOMAIN logs : logs[n] = Entry(s, msg)
      BY <2>1 DEF SyslogInv, AlertTold
    <3>2. \E n \in DOMAIN logs' : logs'[n] = Entry(s, msg)
      BY <3>1, <1>5
    <3> QED
      BY <2>1, <3>1, <3>2, <1>6 DEF AlertTold
  <2>2. CASE i \notin DOMAIN alerts
    <3>1. ShouldAlert(e) /\ alerts'[i] = new
      BY <2>2, <1>6
    <3>2. Len(logs) + 1 \in DOMAIN logs' /\ logs'[Len(logs) + 1] = Entry(src, e)
      BY <1>5, SyslogParts DEF entry
    <3> QED
      BY <3>1, <3>2, <1>3 DEF AlertTold, key
  <2> QED
    BY <2>1, <2>2
<1> QED
  BY <1>5, <1>6, <1>7, <1>8 DEF SyslogInv

LEMMA SyslogResolve ==
  ASSUME SyslogInv, NEW i \in DOMAIN alerts, Resolve(i) PROVE SyslogInv'
<1> DEFINE row == [alerts[i] EXCEPT !.open = FALSE]
<1>1. alerts' = [alerts EXCEPT ![i] = row] /\ logs' = logs
  BY DEF Resolve
<1>2. /\ row \in SyslogAlert /\ row.key = alerts[i].key /\ row.kind = alerts[i].kind
      /\ row.severity = alerts[i].severity
  BY SyslogParts DEF SyslogAlert
<1> HIDE DEF row
<1>3. /\ alerts' \in Seq(SyslogAlert) /\ DOMAIN alerts' = DOMAIN alerts
      /\ \A k \in DOMAIN alerts :
           /\ alerts'[k].key = alerts[k].key /\ alerts'[k].kind = alerts[k].kind
           /\ alerts'[k].severity = alerts[k].severity
  BY <1>1, <1>2, SyslogParts DEF SyslogInv
<1>4. ASSUME NEW n \in DOMAIN logs' PROVE LogTold(logs[n])'
  <2>1. LogTold(logs[n]) /\ logs'[n] = logs[n]
    BY <1>1 DEF SyslogInv
  <2> QED
    BY <2>1, <1>3 DEF LogTold
<1>5. ASSUME NEW k \in DOMAIN alerts' PROVE AlertTold(alerts[k])'
  <2>1. k \in DOMAIN alerts /\ AlertTold(alerts[k])
    BY <1>3 DEF SyslogInv
  <2> QED
    BY <2>1, <1>1, <1>3 DEF AlertTold
<1>6. logs' \in Seq({Entry(s, msg) : s \in Source, msg \in Message})
  BY <1>1 DEF SyslogInv
<1> QED
  BY <1>3, <1>4, <1>5, <1>6 DEF SyslogInv

THEOREM SyslogInvariance == SyslogSpec => []SyslogInv
<1>1. SyslogInit => SyslogInv
  BY DEF SyslogInit, SyslogInv
<1>2. SyslogInv /\ [SyslogNext]_syslogVars => SyslogInv'
  <2> SUFFICES ASSUME SyslogInv, [SyslogNext]_syslogVars PROVE SyslogInv'
      OBVIOUS
  <2>1. CASE SyslogNext
    BY <2>1, SyslogIngest, SyslogResolve DEF SyslogNext
  <2>2. CASE UNCHANGED syslogVars
    BY <2>2 DEF syslogVars, SyslogInv, LogTold, AlertTold
  <2> QED
    BY <2>1, <2>2
<1> QED
  BY <1>1, <1>2, PTL DEF SyslogSpec

\* Whatever device a severe log comes from, it has an alert, and a FortiGate's alert rests on
\* a log that is a warning at least (classify_fortinet_event, should_alert_fortinet).
THEOREM SevereLogsAreAlerted == SyslogSpec => []SevereIsAlerted
<1>1. ASSUME SyslogInv PROVE SevereIsAlerted
  <2>1. ASSUME NEW n \in DOMAIN logs, Rank(logs[n].level) >= 3
        PROVE  Of(logs[n]) # {}
    <3>1. PICK src \in Source, e \in Message :
            /\ logs[n] = Entry(src, e)
            /\ ShouldAlert(e) => \E i \in DOMAIN alerts : alerts[i].key = logs[n].key
      BY <1>1 DEF SyslogInv, LogTold
    <3>2. logs[n].level = LogLevel(e)
      BY <3>1 DEF Entry
    <3>3. ShouldAlert(e)
      BY <2>1, <3>2, LevelsFit, Ranks
    <3> QED
      BY <3>1, <3>3 DEF Of
  <2>2. ASSUME NEW i \in DOMAIN alerts, alerts[i].kind # "syslog"
        PROVE  \E n \in DOMAIN logs :
                 logs[n].key = alerts[i].key /\ Rank(logs[n].level) >= 2
    <3>1. PICK src \in Source, e \in Message :
            /\ ShouldAlert(e)
            /\ alerts[i].key = Key(src, e) /\ alerts[i].kind = Kind(e)
            /\ \E n \in DOMAIN logs : logs[n] = Entry(src, e)
      BY <1>1 DEF SyslogInv, AlertTold
    <3>2. PICK n \in DOMAIN logs : logs[n] = Entry(src, e)
      BY <3>1
    <3>3. logs[n].level = LogLevel(e) /\ logs[n].key = alerts[i].key
      BY <3>1, <3>2 DEF Entry
    <3>4. IsFortinet(e)
      BY <2>2, <3>1, LevelsFit
    <3>5. LogLevel(e) \in {"critical", "high", "medium"}
      BY <3>1, <3>4, LevelsFit
    <3> QED
      BY <3>3, <3>5, Ranks
  <2> QED
    BY <2>1, <2>2 DEF SevereIsAlerted
<1> QED
  BY <1>1, SyslogInvariance, PTL

\* A FortiGate's attack or malware event goes without an alert only when it was filed as a
\* successful login, by the order of the branches of classify_fortinet_event.
THEOREM ThreatsPassOnlyAsLogins == SyslogSpec => []ThreatMissedOnlyAsLogin
<1>1. ASSUME SyslogInv PROVE ThreatMissedOnlyAsLogin
  <2>1. ASSUME NEW n \in DOMAIN logs, logs[n].threat, Of(logs[n]) = {}
        PROVE  logs[n].kind \in {"vpn_login_success", "admin_login_success"}
    <3>1. PICK src \in Source, e \in Message :
            /\ logs[n] = Entry(src, e)
            /\ ShouldAlert(e) => \E i \in DOMAIN alerts : alerts[i].key = logs[n].key
      BY <1>1 DEF SyslogInv, LogTold
    <3>2. ~ ShouldAlert(e)
      BY <2>1, <3>1 DEF Of
    <3>3. IsFortinet(e) /\ (Attack(e) \/ Malware(e))
      BY <2>1, <3>1, ThreatTold
    <3>4. logs[n].kind = Category(e)
      BY <3>1, <3>3 DEF Entry, Kind
    <3> QED
      BY <3>2, <3>3, <3>4, ThreatsFit
  <2> QED
    BY <2>1 DEF ThreatMissedOnlyAsLogin
<1> QED
  BY <1>1, SyslogInvariance, PTL

\* What merges into an alert is of its kind (dedupe_key_for_fortinet), and is graver than the
\* alert only where the severity is the level the sender wrote.
THEOREM OnlyLevelsUnderstate == SyslogSpec => []UnderstatedOnlyByLevel
<1>1. ASSUME SyslogInv PROVE UnderstatedOnlyByLevel
  <2>1. ASSUME NEW i \in DOMAIN alerts, NEW n \in DOMAIN logs, alerts[i].key = logs[n].key
        PROVE  /\ alerts[i].kind = logs[n].kind
               /\ Rank(logs[n].level) > Rank(alerts[i].severity) =>
                    alerts[i].kind \in ByLevel \cup {"syslog"}
    <3>1. PICK src \in Source, e \in Message : logs[n] = Entry(src, e)
      BY <1>1 DEF SyslogInv, LogTold
    <3>2. PICK tgt \in Source, f \in Message :
            /\ alerts[i].key = Key(tgt, f) /\ alerts[i].kind = Kind(f)
            /\ alerts[i].severity = AlertSeverity(f)
      BY <1>1 DEF SyslogInv, AlertTold
    <3>3. /\ logs[n].key = Key(src, e) /\ logs[n].kind = Kind(e)
          /\ logs[n].level = LogLevel(e)
      BY <3>1 DEF Entry
    <3>4. /\ Kind(e) = Kind(f)
          /\ IsFortinet(e) <=> IsFortinet(f)
      <4>1. Key(src, e) = Key(tgt, f)
        BY <2>1, <3>2, <3>3
      <4> QED BY <4>1, KeysTell, Zenon
    <3>5. CASE ~ IsFortinet(e)
      BY <3>2, <3>3, <3>4, <3>5, LevelsFit
    <3>6. CASE IsFortinet(e) /\ Kind(e) \in ByLevel
      BY <3>2, <3>3, <3>4, <3>6
    <3>7. CASE IsFortinet(e) /\ Kind(e) \notin ByLevel
      <4>1. AlertSeverity(e) = AlertSeverity(f)
        BY <3>4, <3>7, SettledSeverity
      <4>2. LogLevel(e) \in {AlertSeverity(f), "info"}
        BY <3>7, <4>1, LevelsFit
      <4>3. AlertSeverity(f) \in Level
        BY LevelsFit
      <4>4. ~ Rank(LogLevel(e)) > Rank(AlertSeverity(f))
        BY <4>2, <4>3, Ranks DEF Level
      <4> QED
        BY <3>2, <3>3, <3>4, <4>4
    <3> QED
      BY <3>5, <3>6, <3>7
  <2> QED
    BY <2>1 DEF UnderstatedOnlyByLevel
<1> QED
  BY <1>1, SyslogInvariance, PTL

-----------------------------------------------------------------------------
(***************************************************************************)
(* RateLimiter's properties for any clients, window and limit.  The        *)
(* inductive invariant is LimiterInv; it says nothing of TimeAssumption.   *)
(***************************************************************************)

LimiterInv == /\ LimiterTypeOK
       /\ BucketRemembersTheWindow
       /\ WindowsAreLimited
       /\ RejectionsAreJustified

-----------------------------------------------------------------------------
(* Facts about sequences of stamps, free of the state.                     *)

\* The entry of a tail of length lb, n entries in, that a later index i is past.
LEMMA PastTheCut ==
  ASSUME NEW la \in Nat, NEW lb \in Nat, NEW n \in Nat, NEW i \in 1..la,
         lb <= la, n <= lb, la - lb + n < i
  PROVE  /\ n < lb /\ n + 1 \in 1..lb
         /\ la - lb + n + 1 \in 1..la /\ la - lb + n + 1 <= i
         /\ la - lb + (n + 1) = la - lb + n + 1
OBVIOUS

LEMMA LaterIsFresher ==
  ASSUME NEW t \in Nat, NEW w \in Nat, NEW x \in Nat, NEW y \in Nat, x <= y, t <= x + w
  PROVE  t <= y + w
OBVIOUS

LEMMA NextAfterLast ==
  ASSUME NEW n \in Nat, NEW j \in 1..n + 1, j > n PROVE j = n + 1
OBVIOUS

\* k is b without its first n entries.
IsRest(k, b, n) ==
  /\ Len(k) = Len(b) - n
  /\ \A i \in 1..Len(b) - n : k[i] = b[n + i]

\* What the popleft loop leaves is the rest of the bucket, in order.
LEMMA RemembersRest ==
  ASSUME NEW b \in Seq(Nat), NEW popped \in 0..Len(b)
  PROVE  Remembers(b, popped) \in Seq(Nat) /\ IsRest(Remembers(b, popped), b, popped)
<1>1. Len(b) \in Nat
  OBVIOUS
<1> QED BY <1>1 DEF Remembers, IsRest

\* k is what a ends with.
IsTail(k, a) ==
  /\ Len(k) <= Len(a)
  /\ \A i \in 1..Len(k) : k[i] = a[Len(a) - Len(k) + i]

Ascending(a) == \A i, j \in 1..Len(a) : i <= j => a[i] <= a[j]

NotAfter(a, t) == \A i \in 1..Len(a) : a[i] <= t

\* The first n stamps of a are older than the window that ends at t.
OldUpTo(a, n, t, w) == \A i \in 1..Len(a) : i <= n => t > a[i] + w
FreshFrom(a, n, t, w) == \A i \in 1..Len(a) : n < i => t <= a[i] + w

LEMMA TailOfTail ==
  ASSUME NEW a \in Seq(Nat), NEW b \in Seq(Nat), NEW k \in Seq(Nat),
         NEW n \in 0..Len(b), IsTail(b, a),
         IsRest(k, b, n)
  PROVE  /\ IsTail(k, a)
         /\ Len(a) - Len(k) \in 0..Len(a)
         /\ Len(a) - Len(k) = Len(a) - Len(b) + n
<1>1. /\ Len(a) \in Nat /\ Len(b) \in Nat /\ n \in Nat /\ n <= Len(b)
      /\ Len(b) <= Len(a) /\ Len(k) = Len(b) - n
  BY DEF IsTail, IsRest
<1>2. Len(a) - Len(k) = Len(a) - Len(b) + n /\ Len(a) - Len(k) \in 0..Len(a)
  BY <1>1
<1>3. ASSUME NEW i \in 1..Len(k) PROVE k[i] = a[Len(a) - Len(k) + i]
  <2>1. n + i \in 1..Len(b) /\ i \in 1..Len(b) - n
    BY <1>1
  <2>2. b[n + i] = a[Len(a) - Len(b) + (n + i)]
    BY <2>1 DEF IsTail
  <2>3. Len(a) - Len(b) + (n + i) = Len(a) - Len(k) + i
    BY <1>1, <1>2
  <2>4. k[i] = b[n + i]
    BY <2>1 DEF IsRest
  <2> QED BY <2>2, <2>3, <2>4
<1> QED BY <1>1, <1>2, <1>3 DEF IsTail

\* Where the bucket stops being stale, the whole history does.
LEMMA StalenessEndsOnce ==
  ASSUME NEW a \in Seq(Nat), NEW b \in Seq(Nat), NEW t \in Nat, NEW w \in Nat,
         NEW n \in 0..Len(b), IsTail(b, a), Ascending(a),
         OldUpTo(a, Len(a) - Len(b), t, w), OldUpTo(b, n, t, w),
         n < Len(b) => t <= b[n + 1] + w
  PROVE  LET cut == Len(a) - Len(b) + n
         IN OldUpTo(a, cut, t, w) /\ FreshFrom(a, cut, t, w)
<1> DEFINE cut == Len(a) - Len(b) + n
<1>1. /\ Len(a) \in Nat /\ Len(b) \in Nat /\ n \in Nat /\ n <= Len(b)
      /\ Len(b) <= Len(a) /\ cut \in Nat
  BY DEF IsTail
<1>2. ASSUME NEW i \in 1..Len(a), i <= cut PROVE t > a[i] + w
  <2>1. CASE i <= Len(a) - Len(b)
    BY <2>1 DEF OldUpTo
  <2>2. CASE i > Len(a) - Len(b)
    <3> DEFINE cap == i - (Len(a) - Len(b))
    <3>1. cap \in 1..Len(b) /\ cap <= n /\ Len(a) - Len(b) + cap = i
      BY <2>2, <1>1, <1>2
    <3>2. b[cap] = a[Len(a) - Len(b) + cap]
      BY <3>1 DEF IsTail
    <3>3. t > b[cap] + w
      BY <3>1 DEF OldUpTo
    <3> QED BY <3>1, <3>2, <3>3
  <2> QED BY <2>1, <2>2, <1>1
<1>4. \A i \in 1..Len(a) : a[i] \in Nat
  OBVIOUS
<1>3. ASSUME NEW i \in 1..Len(a), cut < i PROVE t <= a[i] + w
  <2>1. /\ n < Len(b) /\ n + 1 \in 1..Len(b)
        /\ cut + 1 \in 1..Len(a) /\ cut + 1 <= i
        /\ Len(a) - Len(b) + (n + 1) = cut + 1
    <3>1. /\ Len(a) \in Nat /\ Len(b) \in Nat /\ n \in Nat
          /\ Len(b) <= Len(a) /\ n <= Len(b)
      BY <1>1
    <3>2. i \in 1..Len(a) /\ Len(a) - Len(b) + n < i
      BY <1>3
    <3> HIDE <1>1, <1>3
    <3> QED BY <3>1, <3>2, PastTheCut, SMTT(20)
  <2>2. t <= b[n + 1] + w
    BY <2>1
  <2>3. b[n + 1] = a[Len(a) - Len(b) + (n + 1)]
    BY <2>1 DEF IsTail
  <2>4. t <= a[cut + 1] + w
    BY <2>1, <2>2, <2>3
  <2>5. a[cut + 1] <= a[i]
    BY <2>1 DEF Ascending
  <2>6. a[i] \in Nat /\ a[cut + 1] \in Nat
    BY <2>1, <1>4
  <2> QED BY <2>4, <2>5, <2>6, LaterIsFresher
<1> QED BY <1>2, <1>3 DEF OldUpTo, FreshFrom

\* s2 is s with e at its end.
IsAppend(s2, s, e) ==
  /\ Len(s2) = Len(s) + 1
  /\ s2[Len(s) + 1] = e
  /\ \A i \in 1..Len(s) : s2[i] = s[i]

LEMMA AppendAtEnd ==
  ASSUME NEW s \in Seq(Nat), NEW e \in Nat
  PROVE  Append(s, e) \in Seq(Nat) /\ IsAppend(Append(s, e), s, e)
BY DEF IsAppend

\* Any cap + 1 stamps in a row span more than w.
Spread(a, cap, w) == \A i, j \in 1..Len(a) : j = i + cap => a[j] > a[i] + w

\* At each instant of ts, cap stamps in a row were within the last w.
Covered(ts, a, cap, w) ==
  \A t \in ts : \E first \in 1..Len(a) :
    /\ first + cap - 1 <= Len(a)
    /\ \A i \in first..first + cap - 1 : a[i] <= t /\ t <= a[i] + w

LEMMA AppendKeepsTail ==
  ASSUME NEW a \in Seq(Nat), NEW k \in Seq(Nat), NEW a2 \in Seq(Nat),
         NEW k2 \in Seq(Nat), NEW t \in Nat, IsTail(k, a), IsAppend(a2, a, t), IsAppend(k2, k, t)
  PROVE  IsTail(k2, a2)
<1>1. /\ Len(a) \in Nat /\ Len(k) \in Nat /\ Len(k) <= Len(a)
      /\ Len(a2) = Len(a) + 1 /\ Len(k2) = Len(k) + 1
  BY DEF IsTail, IsAppend
<1>2. ASSUME NEW i \in 1..Len(k2) PROVE k2[i] = a2[Len(a2) - Len(k2) + i]
  <2>1. CASE i = Len(k) + 1
    <3>1. k2[i] = t
      BY <2>1 DEF IsAppend
    <3>2. Len(a2) - Len(k2) + i = Len(a) + 1
      BY <2>1, <1>1
    <3> QED BY <3>1, <3>2 DEF IsAppend
  <2>2. CASE i <= Len(k)
    <3>1. /\ i \in 1..Len(k) /\ Len(a2) - Len(k2) + i = Len(a) - Len(k) + i
          /\ Len(a) - Len(k) + i \in 1..Len(a)
      BY <2>2, <1>1
    <3>2. k2[i] = k[i] /\ k[i] = a[Len(a) - Len(k) + i]
      BY <3>1 DEF IsAppend, IsTail
    <3>3. a2[Len(a) - Len(k) + i] = a[Len(a) - Len(k) + i]
      BY <3>1 DEF IsAppend
    <3> QED BY <3>1, <3>2, <3>3
  <2>3. i = Len(k) + 1 \/ i <= Len(k)
    BY <1>1
  <2> QED BY <2>1, <2>2, <2>3
<1> QED BY <1>1, <1>2 DEF IsTail

LEMMA AppendKeepsOrder ==
  ASSUME NEW a \in Seq(Nat), NEW a2 \in Seq(Nat), NEW t \in Nat,
         IsAppend(a2, a, t), Ascending(a), NotAfter(a, t)
  PROVE  Ascending(a2) /\ NotAfter(a2, t)
<1>1. Len(a) \in Nat /\ Len(a2) = Len(a) + 1 /\ a2[Len(a) + 1] = t
  BY DEF IsAppend
<1>2. \A i \in 1..Len(a) : a2[i] = a[i] /\ a[i] <= t
  BY DEF IsAppend, NotAfter
<1>3. \A i \in 1..Len(a2) : a2[i] <= t
  <2> SUFFICES ASSUME NEW i \in 1..Len(a2) PROVE a2[i] <= t
    OBVIOUS
  <2>1. i \in 1..Len(a) \/ i = Len(a) + 1
    BY <1>1
  <2> QED BY <2>1, <1>1, <1>2
<1>4. ASSUME NEW i \in 1..Len(a2), NEW j \in 1..Len(a2), i <= j PROVE a2[i] <= a2[j]
  <2>1. (i \in 1..Len(a) /\ j \in 1..Len(a)) \/ j = Len(a) + 1
    BY <1>1, <1>4
  <2>2. CASE i \in 1..Len(a) /\ j \in 1..Len(a)
    BY <2>2, <1>2, <1>4 DEF Ascending
  <2>3. CASE j = Len(a) + 1
    BY <2>3, <1>1, <1>3
  <2> QED BY <2>1, <2>2, <2>3
<1> QED BY <1>3, <1>4 DEF Ascending, NotAfter

LEMMA AppendKeepsOld ==
  ASSUME NEW a \in Seq(Nat), NEW a2 \in Seq(Nat), NEW e \in Nat, NEW n \in Int,
         NEW t, NEW w, n <= Len(a), IsAppend(a2, a, e), OldUpTo(a, n, t, w)
  PROVE  OldUpTo(a2, n, t, w)
<1> SUFFICES ASSUME NEW i \in 1..Len(a2), i <= n PROVE t > a2[i] + w
  BY DEF OldUpTo
<1>1. i \in 1..Len(a)
  OBVIOUS
<1>2. a2[i] = a[i]
  BY <1>1 DEF IsAppend
<1> QED BY <1>1, <1>2 DEF OldUpTo

\* One more stamp keeps the stamps spread if fewer than cap are fresh.
LEMMA AppendKeepsSpread ==
  ASSUME NEW a \in Seq(Nat), NEW a2 \in Seq(Nat), NEW t \in Nat, NEW w \in Nat,
         NEW cap \in Int, cap > 0, NEW n \in Int, Len(a) - n < cap,
         IsAppend(a2, a, t), OldUpTo(a, n, t, w), Spread(a, cap, w)
  PROVE  Spread(a2, cap, w)
<1> SUFFICES ASSUME NEW i \in 1..Len(a2), i + cap \in 1..Len(a2)
             PROVE  a2[i + cap] > a2[i] + w
  BY DEF Spread
<1>1. Len(a) \in Nat /\ Len(a2) = Len(a) + 1
  BY DEF IsAppend
<1>2. i \in 1..Len(a)
  BY <1>1
<1>3. a2[i] = a[i]
  BY <1>2 DEF IsAppend
<1>4. CASE i + cap > Len(a)
  <2>1. i + cap = Len(a) + 1
    BY <1>1, <1>4, NextAfterLast
  <2>2. i <= n
    BY <1>1, <1>4
  <2>3. a2[i + cap] = t
    BY <2>1 DEF IsAppend
  <2> QED BY <2>2, <2>3, <1>2, <1>3 DEF OldUpTo
<1>5. CASE i + cap <= Len(a)
  <2>1. i + cap \in 1..Len(a)
    BY <1>1, <1>5
  <2>2. a2[i + cap] = a[i + cap]
    BY <2>1 DEF IsAppend
  <2> QED BY <2>1, <2>2, <1>2, <1>3 DEF Spread
<1> QED BY <1>1, <1>4, <1>5

LEMMA AppendKeepsCover ==
  ASSUME NEW a \in Seq(Nat), NEW a2 \in Seq(Nat), NEW e, NEW w, NEW ts,
         NEW cap \in Int, cap > 0, IsAppend(a2, a, e), Covered(ts, a, cap, w)
  PROVE  Covered(ts, a2, cap, w)
<1> SUFFICES ASSUME NEW t \in ts
             PROVE  \E first \in 1..Len(a2) :
                      /\ first + cap - 1 <= Len(a2)
                      /\ \A i \in first..first + cap - 1 : a2[i] <= t /\ t <= a2[i] + w
  BY DEF Covered
<1>1. PICK first \in 1..Len(a) :
        /\ first + cap - 1 <= Len(a)
        /\ \A i \in first..first + cap - 1 : a[i] <= t /\ t <= a[i] + w
  BY DEF Covered
<1>2. Len(a) \in Nat /\ Len(a2) = Len(a) + 1
  BY DEF IsAppend
<1>3. \A i \in first..first + cap - 1 : i \in 1..Len(a)
  BY <1>1, <1>2
<1>4. \A i \in first..first + cap - 1 : a2[i] = a[i]
  BY <1>3 DEF IsAppend
<1>5. \A i \in first..first + cap - 1 : a2[i] <= t /\ t <= a2[i] + w
  BY <1>1, <1>4
<1>6. first \in 1..Len(a2) /\ first + cap - 1 <= Len(a2)
  BY <1>1, <1>2
<1> QED BY <1>5, <1>6

-----------------------------------------------------------------------------
\* The invariant, one client at a time.
Settled(c) ==
  /\ Len(bucket[c]) <= MaxRequests
  /\ IsTail(bucket[c], admitted[c])
  /\ Ascending(admitted[c])
  /\ NotAfter(admitted[c], now)
  /\ OldUpTo(admitted[c], Popped(c), now, WindowSeconds)
  /\ Spread(admitted[c], MaxRequests, WindowSeconds)
  /\ Covered(rejected[c], admitted[c], MaxRequests, WindowSeconds)

LEMMA InvByClient == LimiterInv <=> LimiterTypeOK /\ \A c \in Client : Settled(c)
BY DEF LimiterInv, BucketRemembersTheWindow, WindowsAreLimited, RejectionsAreJustified,
       Settled, IsTail, Ascending, NotAfter, OldUpTo, Spread, Covered, Popped, Stale

LEMMA NextInvByClient ==
  ASSUME LimiterTypeOK', (\A c \in Client : Settled(c))' PROVE LimiterInv'
BY InvByClient, PTL

LEMMA LimiterInitEstablishes == LimiterInit => LimiterInv
<1> SUFFICES ASSUME LimiterInit PROVE LimiterInv
  OBVIOUS
<1>1. LimiterTypeOK
  BY DEF LimiterInit, LimiterTypeOK
<1>2. ASSUME NEW c \in Client PROVE Settled(c)
  <2>1. bucket[c] = <<>> /\ admitted[c] = <<>> /\ rejected[c] = {}
    BY DEF LimiterInit
  <2> QED BY <2>1, LimitAssumption DEF Settled, IsTail, Ascending, NotAfter,
                                       OldUpTo, Spread, Covered, Popped
<1> QED BY <1>1, <1>2, InvByClient

\* Time passing only makes more stamps stale.
LEMMA TickPreserves ==
  ASSUME LimiterInv, Tick PROVE LimiterInv'
<1>1. LimiterTypeOK'
  BY DEF LimiterInv, Tick, LimiterTypeOK
<1>2. ASSUME NEW c \in Client PROVE Settled(c)'
  <2>1. Settled(c)
    BY InvByClient
  <2>2. /\ bucket'[c] = bucket[c] /\ admitted'[c] = admitted[c]
        /\ rejected'[c] = rejected[c] /\ now' = now + 1
    BY DEF Tick
  <2>3. admitted[c] \in Seq(Nat) /\ now \in Nat /\ WindowSeconds \in Nat
    BY LimitAssumption DEF LimiterInv, LimiterTypeOK
  <2>4. \A i \in 1..Len(admitted[c]) : admitted[c][i] \in Nat
    BY <2>3
  <2>5. NotAfter(admitted[c], now')
    BY <2>1, <2>2, <2>3, <2>4 DEF Settled, NotAfter
  <2>6. OldUpTo(admitted[c], Popped(c), now', WindowSeconds)
    BY <2>1, <2>2, <2>3, <2>4 DEF Settled, OldUpTo
  <2> QED BY <2>1, <2>2, <2>5, <2>6 DEF Settled, Popped
<1>3. (\A c \in Client : Settled(c))'
  BY <1>2
<1> QED BY <1>1, <1>3, NextInvByClient

\* kept holds the stamps of the latest requests of c passed on, none of them
\* stale, and every earlier one is.
IsWindow(kept, c) ==
  /\ kept \in Seq(Nat)
  /\ Len(kept) <= MaxRequests
  /\ IsTail(kept, admitted[c])
  /\ OldUpTo(admitted[c], Len(admitted[c]) - Len(kept), now, WindowSeconds)
  /\ FreshFrom(admitted[c], Len(admitted[c]) - Len(kept), now, WindowSeconds)

\* That is what the loop leaves in the bucket.
LEMMA LoopLeavesTheWindow ==
  ASSUME LimiterInv, NEW c \in Client, NEW popped \in 0..Len(bucket[c]),
         Pops(bucket[c], popped)
  PROVE  IsWindow(Remembers(bucket[c], popped), c)
<1>1. /\ bucket[c] \in Seq(Nat) /\ admitted[c] \in Seq(Nat)
      /\ now \in Nat /\ WindowSeconds \in Nat
  BY LimitAssumption DEF LimiterInv, LimiterTypeOK
<1>2. Settled(c)
  BY InvByClient
<1>3. PICK kept \in Seq(Nat) : /\ kept = Remembers(bucket[c], popped)
                               /\ IsRest(kept, bucket[c], popped)
  BY <1>1, RemembersRest
<1>4. IsTail(bucket[c], admitted[c]) /\ Ascending(admitted[c])
  BY <1>2 DEF Settled
<1>5. OldUpTo(admitted[c], Len(admitted[c]) - Len(bucket[c]), now, WindowSeconds)
  BY <1>2 DEF Settled, Popped
<1>6. OldUpTo(bucket[c], popped, now, WindowSeconds)
  BY <1>1 DEF Pops, Stale, OldUpTo
<1>7. popped < Len(bucket[c]) => now <= bucket[c][popped + 1] + WindowSeconds
  <2>1. popped < Len(bucket[c]) => bucket[c][popped + 1] \in Nat
    BY <1>1
  <2> QED BY <2>1, <1>1, SMTT(30) DEF Pops, Stale
<1>8. /\ IsTail(kept, admitted[c])
      /\ Len(admitted[c]) - Len(kept) = Len(admitted[c]) - Len(bucket[c]) + popped
  <2>1. IsTail(kept, admitted[c])
    BY <1>1, <1>3, <1>4, TailOfTail
  <2>2. Len(admitted[c]) \in Nat /\ Len(bucket[c]) \in Nat /\ popped \in Nat
    BY <1>1
  <2>3. Len(kept) = Len(bucket[c]) - popped
    BY <1>3 DEF IsRest
  <2>4. Len(admitted[c]) - Len(kept) = Len(admitted[c]) - Len(bucket[c]) + popped
    BY <2>2, <2>3
  <2> QED BY <2>1, <2>4
<1>9. /\ OldUpTo(admitted[c], Len(admitted[c]) - Len(kept), now, WindowSeconds)
      /\ FreshFrom(admitted[c], Len(admitted[c]) - Len(kept), now, WindowSeconds)
  BY <1>1, <1>4, <1>5, <1>6, <1>7, <1>8, StalenessEndsOnce
<1>10. Len(kept) <= MaxRequests
  BY <1>1, <1>2, <1>3, LimitAssumption DEF Settled, IsRest
<1> QED BY <1>3, <1>8, <1>9, <1>10 DEF IsWindow

-----------------------------------------------------------------------------
LEMMA AdmitPreserves ==
  ASSUME LimiterInv, NEW c \in Client, NEW kept, IsWindow(kept, c),
         UNCHANGED now, Admit(c, kept)
  PROVE  LimiterInv'
<1>1. /\ kept \in Seq(Nat) /\ admitted[c] \in Seq(Nat) /\ now \in Nat
      /\ Len(kept) \in Nat /\ Len(admitted[c]) \in Nat
      /\ MaxRequests \in Int /\ MaxRequests > 0 /\ WindowSeconds \in Nat
  BY LimitAssumption DEF LimiterInv, LimiterTypeOK, IsWindow
<1>2. /\ Len(kept) < MaxRequests
      /\ bucket'[c] = Append(kept, now)
      /\ admitted'[c] = Append(admitted[c], now)
      /\ rejected' = rejected
  BY DEF LimiterInv, LimiterTypeOK, Admit
<1>3. ASSUME NEW d \in Client, d # c
      PROVE  bucket'[d] = bucket[d] /\ admitted'[d] = admitted[d]
  BY <1>3 DEF LimiterInv, LimiterTypeOK, Admit
<1>4. LimiterTypeOK'
  BY <1>1, AppendAtEnd DEF LimiterInv, LimiterTypeOK, Admit
<1>5. Settled(c)
  BY InvByClient
<1>6. /\ IsAppend(admitted'[c], admitted[c], now) /\ admitted'[c] \in Seq(Nat)
      /\ IsAppend(bucket'[c], kept, now) /\ bucket'[c] \in Seq(Nat)
  BY <1>1, <1>2, AppendAtEnd
<1>7. Settled(c)'
  <2>1. /\ IsTail(bucket'[c], admitted'[c])
        /\ Popped(c)' = Len(admitted[c]) - Len(kept)
    <3>1. /\ IsTail(bucket'[c], admitted'[c])
          /\ Len(admitted'[c]) - Len(bucket'[c]) = Len(admitted[c]) - Len(kept)
      <4>1. IsTail(kept, admitted[c])
        BY DEF IsWindow
      <4>2. IsTail(bucket'[c], admitted'[c])
        BY <4>1, <1>1, <1>6, AppendKeepsTail
      <4>3. /\ Len(admitted'[c]) = Len(admitted[c]) + 1
            /\ Len(bucket'[c]) = Len(kept) + 1
        BY <1>6 DEF IsAppend
      <4>4. Len(admitted'[c]) - Len(bucket'[c]) = Len(admitted[c]) - Len(kept)
        BY <4>3, <1>1
      <4> QED BY <4>2, <4>4
    <3> QED BY <3>1 DEF Popped
  <2>2. Ascending(admitted'[c]) /\ NotAfter(admitted'[c], now)
    BY <1>1, <1>5, <1>6, AppendKeepsOrder DEF Settled
  <2>3. OldUpTo(admitted'[c], Len(admitted[c]) - Len(kept), now, WindowSeconds)
    BY <1>1, <1>6, AppendKeepsOld DEF IsWindow
  <2>4. Spread(admitted'[c], MaxRequests, WindowSeconds)
    <3>1. /\ Len(admitted[c]) - Len(kept) \in Int
          /\ Len(admitted[c]) - (Len(admitted[c]) - Len(kept)) < MaxRequests
      BY <1>1, <1>2
    <3> QED BY <1>1, <1>5, <1>6, <3>1, AppendKeepsSpread DEF Settled, IsWindow
  <2>5. Covered(rejected[c], admitted'[c], MaxRequests, WindowSeconds)
    BY <1>1, <1>5, <1>6, AppendKeepsCover DEF Settled
  <2>6. Len(bucket'[c]) <= MaxRequests
    BY <1>1, <1>2, <1>6 DEF IsAppend
  <2> QED BY <1>2, <2>1, <2>2, <2>3, <2>4, <2>5, <2>6 DEF Settled
<1>8. ASSUME NEW d \in Client, d # c PROVE Settled(d)'
  BY <1>2, <1>3, <1>8, InvByClient DEF Settled, Popped
<1>9. (\A d \in Client : Settled(d))'
  BY <1>7, <1>8
<1> QED BY <1>4, <1>9, NextInvByClient

\* The first of the stamps kept is where MaxRequests fresh ones in a row begin.
LEMMA FullWindowCovers ==
  ASSUME NEW a \in Seq(Nat), NEW k \in Seq(Nat), NEW cap \in Int, cap > 0, NEW t \in Nat,
         NEW w \in Nat, IsTail(k, a), Len(k) = cap, NotAfter(a, t),
         FreshFrom(a, Len(a) - Len(k), t, w)
  PROVE  Covered({t}, a, cap, w)
<1> DEFINE first == Len(a) - cap + 1
<1>1. /\ Len(a) \in Nat /\ cap <= Len(a) /\ Len(k) = cap
      /\ first \in 1..Len(a) /\ first + cap - 1 <= Len(a)
  BY DEF IsTail
<1>2. \A i \in first..first + cap - 1 : i \in 1..Len(a) /\ Len(a) - Len(k) < i
  BY <1>1
<1>3. \A i \in first..first + cap - 1 : a[i] <= t /\ t <= a[i] + w
  BY <1>2 DEF NotAfter, FreshFrom
<1> QED BY <1>1, <1>3 DEF Covered

LEMMA RejectPreserves ==
  ASSUME LimiterInv, NEW c \in Client, NEW kept, IsWindow(kept, c),
         UNCHANGED now, Reject(c, kept)
  PROVE  LimiterInv'
<1>1. /\ kept \in Seq(Nat) /\ admitted[c] \in Seq(Nat) /\ now \in Nat
      /\ Len(kept) \in Nat /\ Len(admitted[c]) \in Nat
      /\ MaxRequests \in Int /\ MaxRequests > 0 /\ WindowSeconds \in Nat
  BY LimitAssumption DEF LimiterInv, LimiterTypeOK, IsWindow
<1>2. /\ Len(kept) = MaxRequests
      /\ bucket'[c] = kept /\ admitted' = admitted
      /\ rejected'[c] = rejected[c] \cup {now}
  BY <1>1 DEF LimiterInv, LimiterTypeOK, Reject, IsWindow
<1>3. ASSUME NEW d \in Client, d # c
      PROVE  bucket'[d] = bucket[d] /\ rejected'[d] = rejected[d]
  BY <1>3 DEF LimiterInv, LimiterTypeOK, Reject
<1>4. LimiterTypeOK'
  BY <1>1 DEF LimiterInv, LimiterTypeOK, Reject
<1>5. Settled(c)
  BY InvByClient
<1>6. Settled(c)'
  <2>1. Covered({now}, admitted[c], MaxRequests, WindowSeconds)
    BY <1>1, <1>2, <1>5, FullWindowCovers DEF Settled, IsWindow
  <2>2. Covered(rejected'[c], admitted[c], MaxRequests, WindowSeconds)
    BY <1>2, <1>5, <2>1 DEF Settled, Covered
  <2> QED BY <1>1, <1>2, <1>5, <2>2 DEF Settled, IsWindow, Popped
<1>7. ASSUME NEW d \in Client, d # c PROVE Settled(d)'
  BY <1>2, <1>3, <1>7, InvByClient DEF Settled, Popped
<1>8. (\A d \in Client : Settled(d))'
  BY <1>6, <1>7
<1> QED BY <1>4, <1>8, NextInvByClient

-----------------------------------------------------------------------------
\* The invariant holds in every reachable state.
THEOREM LimiterInvariance == LimiterSpec => []LimiterInv
<1>1. LimiterInit => LimiterInv
  BY LimiterInitEstablishes
<1>2. LimiterInv /\ [LimiterNext]_limiterVars => LimiterInv'
  <2> SUFFICES ASSUME LimiterInv, [LimiterNext]_limiterVars PROVE LimiterInv'
    OBVIOUS
  <2>1. CASE Tick
    BY <2>1, TickPreserves
  <2>2. ASSUME NEW c \in Client, ApiRequest(c) PROVE LimiterInv'
    <3>1. PICK popped \in 0..Len(bucket[c]) :
            /\ Pops(bucket[c], popped)
            /\ UNCHANGED now
            /\ \/ Admit(c, Remembers(bucket[c], popped))
               \/ Reject(c, Remembers(bucket[c], popped))
      BY <2>2 DEF ApiRequest
    <3>2. IsWindow(Remembers(bucket[c], popped), c)
      BY <3>1, LoopLeavesTheWindow
    <3> QED BY <3>1, <3>2, AdmitPreserves, RejectPreserves
  <2>3. CASE UNCHANGED limiterVars
    BY <2>3 DEF limiterVars, LimiterInv, LimiterTypeOK, BucketRemembersTheWindow, WindowsAreLimited,
                RejectionsAreJustified, Popped, Stale
  <2> QED BY <2>1, <2>2, <2>3 DEF LimiterNext
<1> QED BY <1>1, <1>2, PTL DEF LimiterSpec

(***************************************************************************)
(* For every window and limit: no client ever has more than MaxRequests    *)
(* requests passed on in a window (main.py: basic_rate_limit).             *)
(***************************************************************************)
THEOREM WindowsStayLimited == LimiterSpec => []WindowsAreLimited
<1>1. LimiterInv => WindowsAreLimited
  BY DEF LimiterInv
<1> QED BY <1>1, LimiterInvariance, PTL

\* A client is answered 429 only with MaxRequests of its requests in the window.
THEOREM RejectionsStayJustified == LimiterSpec => []RejectionsAreJustified
<1>1. LimiterInv => RejectionsAreJustified
  BY DEF LimiterInv
<1> QED BY <1>1, LimiterInvariance, PTL

\* Popping old stamps never forgets a request of the current window.
THEOREM BucketsRememberTheWindow == LimiterSpec => []BucketRemembersTheWindow
<1>1. LimiterInv => BucketRemembersTheWindow
  BY DEF LimiterInv
<1> QED BY <1>1, LimiterInvariance, PTL

-----------------------------------------------------------------------------
(* The limiter that forgets decides as the one of SlidingWindow, which     *)
(* counts over the whole history.                                          *)

LEMMA SizeOfInterval ==
  ASSUME NEW a \in Nat, NEW b \in Nat, b <= a
  PROVE  Cardinality(a - b + 1..a) = b
<1>1. Cardinality(a - b + 1..a) = IF a - b + 1 > a THEN 0 ELSE a - (a - b + 1) + 1
  BY FS_Interval
<1> QED BY <1>1

\* The abstract module counts as this one does.
LEMMA SameCount ==
  ASSUME NEW S PROVE Window!Cardinality(S) = Cardinality(S)
BY Zenon DEF Window!Cardinality, Cardinality

\* The stamps kept are the ones the abstract limiter finds in the window.
LEMMA WindowIsCounted ==
  ASSUME LimiterInv, NEW c \in Client, NEW kept, IsWindow(kept, c)
  PROVE  Window!Full(c) <=> Len(kept) >= MaxRequests
<1>1. /\ kept \in Seq(Nat) /\ admitted[c] \in Seq(Nat) /\ now \in Nat
      /\ Len(kept) \in Nat /\ Len(admitted[c]) \in Nat /\ WindowSeconds \in Nat
      /\ Len(kept) <= Len(admitted[c])
  BY LimitAssumption DEF LimiterInv, LimiterTypeOK, IsWindow, IsTail
<1>2. ASSUME NEW i \in 1..Len(admitted[c])
      PROVE  admitted[c][i] + WindowSeconds >= now <=> Len(admitted[c]) - Len(kept) < i
  <2>1. admitted[c][i] \in Nat
    BY <1>1
  <2>2. i <= Len(admitted[c]) - Len(kept) => now > admitted[c][i] + WindowSeconds
    BY DEF IsWindow, OldUpTo
  <2>3. Len(admitted[c]) - Len(kept) < i => now <= admitted[c][i] + WindowSeconds
    BY DEF IsWindow, FreshFrom
  <2> QED BY <1>1, <2>1, <2>2, <2>3, SMTT(20)
<1>3. Window!InWindow(c) = Len(admitted[c]) - Len(kept) + 1..Len(admitted[c])
  <2>1. \A i \in Int : /\ i \in 1..Len(admitted[c])
                       /\ Len(admitted[c]) - Len(kept) < i
          <=> i \in Len(admitted[c]) - Len(kept) + 1..Len(admitted[c])
    BY <1>1
  <2> QED BY <1>2, <2>1 DEF Window!InWindow
<1>4. Cardinality(Window!InWindow(c)) = Len(kept)
  BY <1>1, <1>3, SizeOfInterval
<1> QED BY <1>4, SameCount DEF Window!Full

(***************************************************************************)
(* For every window and limit, popping stale stamps is unobservable: the   *)
(* middleware implements the limiter that remembers every request          *)
(* (main.py: basic_rate_limit).                                            *)
(***************************************************************************)
THEOREM Refinement == LimiterSpec => ImplementsSlidingWindow
<1>1. LimiterInit => Window!Init
  BY DEF LimiterInit, Window!Init
<1>2. LimiterInv /\ [LimiterNext]_limiterVars => [Window!Next]_Window!vars
  <2> SUFFICES ASSUME LimiterInv, [LimiterNext]_limiterVars PROVE [Window!Next]_Window!vars
    OBVIOUS
  <2>1. CASE Tick
    BY <2>1 DEF Tick, Window!Tick, Window!Next
  <2>2. ASSUME NEW c \in Client, ApiRequest(c) PROVE Window!PassOn(c) \/ Window!TurnAway(c)
    <3>1. PICK popped \in 0..Len(bucket[c]) :
            /\ Pops(bucket[c], popped)
            /\ UNCHANGED now
            /\ \/ Admit(c, Remembers(bucket[c], popped))
               \/ Reject(c, Remembers(bucket[c], popped))
      BY <2>2 DEF ApiRequest
    <3> DEFINE kept == Remembers(bucket[c], popped)
    <3>2. IsWindow(kept, c)
      BY <3>1, LoopLeavesTheWindow
    <3>3. Window!Full(c) <=> Len(kept) >= MaxRequests
      BY <3>2, WindowIsCounted
    <3>4. Len(kept) \in Nat /\ MaxRequests \in Nat
      BY <3>2, LimitAssumption DEF IsWindow
    <3> HIDE DEF kept
    <3>5. CASE Admit(c, kept)
      BY <3>1, <3>3, <3>4, <3>5 DEF Admit, Window!PassOn
    <3>6. CASE Reject(c, kept)
      BY <3>1, <3>3, <3>6 DEF Reject, Window!TurnAway
    <3> QED BY <3>1, <3>5, <3>6 DEF kept
  <2>3. CASE UNCHANGED limiterVars
    BY <2>3 DEF limiterVars, Window!vars
  <2> QED BY <2>1, <2>2, <2>3 DEF LimiterNext, Window!Next
<1> QED BY <1>1, <1>2, LimiterInvariance, PTL DEF LimiterSpec, ImplementsSlidingWindow, Window!Spec
=============================================================================
