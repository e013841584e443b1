----------------------------- MODULE WirelessHealth -----------------------------
(***************************************************************************)
(* The two judgements create_field_measurement passes on a measurement of  *)
(* a wireless link: diagnose_wireless_measurement's score, status and      *)
(* field checks (services/wireless_health.py), with the health alert       *)
(* create_health_alert_if_needed raises from them, and the threshold       *)
(* alerts of evaluate_measurement (services/alert_engine.py).              *)
(*                                                                         *)
(* A metric falls in one of four bands: 1 and 2 are without a cause, 3 and *)
(* 4 name causes of a fault; a value that was not measured is in band 1.   *)
(* Measured values are integers here: packet loss in tenths of a percent.  *)
(* The texts of the causes are abstracted to the field checks which their  *)
(* words call for.                                                         *)
(***************************************************************************)
EXTENDS Integers

CONSTANTS
  Unknown,  \* None: the technician did not measure the metric
  Values    \* bound: per metric, the values measured

Metric == {"rssi", "snr", "noise", "ccq", "loss", "latency", "tx", "rx"}
Scored == {"rssi", "snr", "noise", "ccq", "loss", "latency", "symmetry"}

Known == Int \cup {Unknown}

ASSUME UnknownAssumption == Unknown \notin Int
ASSUME ValuesAssumption == Values \in [Metric -> SUBSET Known]

VARIABLES
  m,        \* the last field measurement of the link
  diagnosis \* what was diagnosed from it

vars == <<m, diagnosis>>

-----------------------------------------------------------------------------
(* Bands and points.                                                       *)

AtLeast(v, best, fair, low) ==
  IF v = Unknown THEN 1
  ELSE IF v >= best THEN 1 ELSE IF v >= fair THEN 2 ELSE IF v >= low THEN 3 ELSE 4

AtMost(v, best, fair, high) ==
  IF v = Unknown THEN 1
  ELSE IF v <= best THEN 1 ELSE IF v <= fair THEN 2 ELSE IF v <= high THEN 3 ELSE 4

\* _score_capacity_symmetry: low / high against 0.8 and 0.55; it has no band 2.
Symmetry(tx, rx) ==
  IF tx = Unknown \/ rx = Unknown THEN 1
  ELSE IF tx <= 0 \/ rx <= 0 THEN 1
  ELSE LET low == IF tx < rx THEN tx ELSE rx
           high == IF tx < rx THEN rx ELSE tx
       IN IF 10 * low >= 8 * high THEN 1
          ELSE IF 100 * low >= 55 * high THEN 3 ELSE 4

Bands(x) ==
  [rssi     |-> AtLeast(x.rssi, -60, -70, -80),
   snr      |-> AtLeast(x.snr, 30, 22, 14),
   noise    |-> AtMost(x.noise, -95, -88, -80),
   ccq      |-> AtLeast(x.ccq, 95, 85, 70),
   loss     |-> AtMost(x.loss, 2, 10, 50),
   latency  |-> AtMost(x.latency, 5, 20, 100),
   symmetry |-> Symmetry(x.tx, x.rx)]

Points(band, p1, p2, p3, p4) ==
  IF band = 1 THEN p1 ELSE IF band = 2 THEN p2 ELSE IF band = 3 THEN p3 ELSE p4

\* mutant: the points of the two worst bands are swapped
SumSwapped(b) ==
    Points(b.rssi, 20, 15, 8, 2) + Points(b.snr, 20, 15, 2, 8)
  + Points(b.noise, 15, 11, 6, 1) + Points(b.ccq, 15, 12, 7, 2)
  + Points(b.loss, 15, 12, 6, 1) + Points(b.latency, 10, 8, 4, 1)
  + Points(b.symmetry, 5, 5, 3, 1)

Sum(b) ==
    Points(b.rssi, 20, 15, 8, 2) + Points(b.snr, 20, 15, 8, 2)
  + Points(b.noise, 15, 11, 6, 1) + Points(b.ccq, 15, 12, 7, 2)
  + Points(b.loss, 15, 12, 6, 1) + Points(b.latency, 10, 8, 4, 1)
  + Points(b.symmetry, 5, 5, 3, 1)

Clamp(n) == IF n < 0 THEN 0 ELSE IF n > 100 THEN 100 ELSE n

\* mutant: Degraded begins higher
StatusStrict(score) ==
  IF score >= 90 THEN 1 ELSE IF score >= 75 THEN 2
  ELSE IF score >= 70 THEN 3 ELSE IF score >= 40 THEN 4 ELSE 5

\* _status_for_score: 1 Excellent, 2 Good, 3 Degraded, 4 Poor, 5 Critical
Status(score) ==
  IF score >= 90 THEN 1 ELSE IF score >= 75 THEN 2
  ELSE IF score >= 60 THEN 3 ELSE IF score >= 40 THEN 4 ELSE 5

-----------------------------------------------------------------------------
(* Causes and field checks.                                                *)

\* The metrics that name a cause.
Faults(b) == {k \in Scored : b[k] >= 3}

(***************************************************************************)
(* _actions_for_causes.  The causes of a CCQ in its last band ("unstable   *)
(* RF link", "high retransmission rate") have none of the words.           *)
(***************************************************************************)
Checks(b) ==
       (IF b["ccq"] = 3 \/ \E k \in {"snr", "noise", "symmetry"} : b[k] >= 3
        THEN {"spectrum scan"} ELSE {})
  \cup (IF b["rssi"] >= 3 THEN {"alignment"} ELSE {})
  \cup (IF b["rssi"] = 4 \/ b["symmetry"] = 4 THEN {"cables"} ELSE {})
  \cup (IF \E k \in {"loss", "latency"} : b[k] >= 3 THEN {"load"} ELSE {})
  \cup (IF b["symmetry"] = 4 THEN {"compare endpoints"} ELSE {})

-----------------------------------------------------------------------------
(* Threshold alerts.                                                       *)

\* mutant: the warning thresholds are not compared
BelowCritical(v, warning, critical) == v # Unknown /\ v < critical

\* An alert of severity high or critical, by a value below or above a threshold.
Below(v, warning, critical) == v # Unknown /\ (v < critical \/ v < warning)
Above(v, warning, critical) == v # Unknown /\ (v > critical \/ v > warning)

\* evaluate_measurement: the metrics that get an alert of their own
Raised(x) ==
       (IF Below(x.rssi, -70, -80) THEN {"rssi"} ELSE {})
  \cup (IF Below(x.snr, 20, 12) THEN {"snr"} ELSE {})
  \cup (IF Above(x.noise, -85, -75) THEN {"noise"} ELSE {})
  \cup (IF Below(x.ccq, 80, 60) THEN {"ccq"} ELSE {})
  \cup (IF Above(x.loss, 10, 50) THEN {"loss"} ELSE {})
  \cup (IF Above(x.latency, 20, 100) THEN {"latency"} ELSE {})

-----------------------------------------------------------------------------

\* create_health_alert_if_needed alerts on Poor and Critical.
Diagnose(x) ==
  LET b == Bands(x)
      score == Clamp(Sum(b))
  IN [score |-> score, status |-> Status(score), faults |-> Faults(b),
      checks |-> Checks(b), alerts |-> Status(score) >= 4, raised |-> Raised(x)]

Nothing == [k \in Metric |-> Unknown]

Init ==
  /\ m = Nothing
  /\ diagnosis = Diagnose(Nothing)

\* create_field_measurement; consecutive measurements differ in one metric.
Measure(k, v) ==
  /\ m' = [m EXCEPT ![k] = v]
  /\ diagnosis' = Diagnose(m')

Next == \E k \in Metric : \E v \in Values[k] : Measure(k, v)

Spec == Init /\ [][Next]_vars

-----------------------------------------------------------------------------
(* Properties.                                                             *)

\* The score stays within 10..100, so that max(0, min(100, ...)) never bites.
TypeOK ==
  /\ m \in [Metric -> Known]
  /\ diagnosis.score = Sum(Bands(m)) /\ diagnosis.score \in 10..100
  /\ diagnosis.status \in 1..5 /\ diagnosis.alerts \in BOOLEAN

(***************************************************************************)
(* A status of Degraded or worse always names a cause: the bands without a *)
(* cause cost too little, together, to leave Good.                         *)
(***************************************************************************)
FaultyIsExplained == diagnosis.status >= 3 => diagnosis.faults # {}

(***************************************************************************)
(* No single metric raises an alert, however bad: an alerted link has two  *)
(* metrics with a cause.                                                   *)
(***************************************************************************)
AlertNeedsTwoFaults ==
  diagnosis.alerts =>
    \E j, k \in Scored : j # k /\ {j, k} \subseteq diagnosis.faults

(***************************************************************************)
(* An alert never tells the technician only to continue monitoring: some   *)
(* word of its causes calls for a check in the field.                      *)
(***************************************************************************)
AlertHasFieldCheck == diagnosis.alerts => diagnosis.checks # {}

(***************************************************************************)
(* The two judgements cannot miss the same link: one diagnosed as Critical *)
(* has a threshold alert too.  (A Poor one may have none.)                 *)
(***************************************************************************)
CriticalPassesThreshold == diagnosis.status = 5 => diagnosis.raised # {}

\* v is no worse than w, as a value of metric k.
NoWorse(k, v, w) ==
  \/ v = Unknown \/ v = w
  \/ /\ w # Unknown
     /\ IF k \in {"rssi", "snr", "ccq"} THEN v >= w ELSE v <= w

(***************************************************************************)
(* A metric that improves, or is not measured any more, never lowers the   *)
(* score nor worsens the status: nothing a technician repairs makes the    *)
(* link look worse.  (Capacity counts by its balance, not by its value.)   *)
(***************************************************************************)
RepairsNeverHurt ==
  [][(\A k \in Metric \ {"tx", "rx"} : NoWorse(k, m'[k], m[k])) /\
     (m'["tx"] = m["tx"] /\ m'["rx"] = m["rx"])
       => /\ diagnosis'.score >= diagnosis.score
          /\ diagnosis'.status <= diagnosis.status]_vars
=============================================================================
