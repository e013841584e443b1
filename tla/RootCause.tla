-------------------------------- MODULE RootCause --------------------------------
(***************************************************************************)
(* The third judgement of a field measurement, analyze_measurement         *)
(* (services/rca_engine.py), beside the two of WirelessHealth: its score,  *)
(* its overall health, and the causes whose pattern the metrics fit.       *)
(*                                                                         *)
(* Points are those of the code, confidences hundredths, packet loss is in *)
(* tenths of a percent as in WirelessHealth.                               *)
(***************************************************************************)
EXTENDS WirelessHealth

Measured(v) == v # Unknown

\* What a value below (above) either limit takes from the score; the first limit is the worse.
Low(v, critical, most, marginal, some) ==
  IF ~Measured(v) THEN 0
  ELSE IF v < critical THEN most ELSE IF v < marginal THEN some ELSE 0

High(v, critical, most, marginal, some) ==
  IF ~Measured(v) THEN 0
  ELSE IF v > critical THEN most ELSE IF v > marginal THEN some ELSE 0

\* mutant: marginal latency costs as much as a weak signal
ScoreLatencyHeavy(x) ==
  Clamp(100 - Low(x.rssi, -80, 35, -72, 15) - High(x.noise, -85, 20, -85, 20)
            - Low(x.snr, 12, 30, 20, 10) - Low(x.ccq, 80, 15, 80, 15)
            - High(x.latency, 20, 10, 5, 20) - High(x.loss, 20, 15, 5, 5))

HealthScore(x) ==
  Clamp(100 - Low(x.rssi, -80, 35, -72, 15) - High(x.noise, -85, 20, -85, 20)
            - Low(x.snr, 12, 30, 20, 10) - Low(x.ccq, 80, 15, 80, 15)
            - High(x.latency, 20, 10, 5, 5) - High(x.loss, 20, 15, 5, 5))

\* mutant: a warning begins as late as a critical state
OverallLenient(x) == IF HealthScore(x) >= 50 THEN "healthy" ELSE "critical"

OverallHealth(x) ==
  IF HealthScore(x) >= 80 THEN "healthy" ELSE IF HealthScore(x) >= 50 THEN "warning" ELSE "critical"

-----------------------------------------------------------------------------
(* The patterns.                                                           *)

Elevated(x) == Measured(x.noise) /\ x.noise > -85
Acceptable(x) == ~Measured(x.rssi) \/ x.rssi > -72

Interference(x) == Elevated(x) /\ Measured(x.ccq) /\ x.ccq < 95 /\ Acceptable(x)

Misalignment(x) == Measured(x.rssi) /\ x.rssi < -72 /\ ~Elevated(x)

Obstruction(x) ==
  /\ Measured(x.rssi) /\ -72 <= x.rssi /\ x.rssi < -60
  /\ ~Elevated(x)
  /\ ~Measured(x.ccq) \/ x.ccq >= 80

Cabling(x) ==
  /\ Measured(x.loss) /\ x.loss > 20
  /\ Measured(x.latency) /\ x.latency > 20
  /\ Acceptable(x)

Hardware(x) == Measured(x.rssi) /\ x.rssi < -80 /\ Measured(x.snr) /\ x.snr < 20

\* Probable causes with their confidence; swaying: the notes have one of the words for it.
Causes(x, swaying) ==
       (IF Interference(x) THEN {<<"interference", 85>>} ELSE {})
  \cup (IF Misalignment(x) THEN {<<"misalignment", IF x.rssi < -80 THEN 85 ELSE 75>>} ELSE {})
  \cup (IF Obstruction(x) THEN {<<"obstruction", 50>>} ELSE {})
  \cup (IF Cabling(x) THEN {<<"cabling", 70>>} ELSE {})
  \cup (IF Hardware(x) THEN {<<"hardware", 60>>} ELSE {})
  \cup (IF swaying THEN {<<"instability", 75>>} ELSE {})

-----------------------------------------------------------------------------
(* Properties.                                                             *)

(***************************************************************************)
(* The two scores never contradict each other outright: what one engine    *)
(* calls critical the other neither calls healthy without naming a cause   *)
(* nor excellent.  (They may well differ: "healthy" with a cause beside    *)
(* "Critical", or "critical" beside "Good".)                               *)
(***************************************************************************)
EnginesAgreeOnTheWorst ==
  /\ diagnosis.status = 5 => OverallHealth(m) # "healthy" \/ Causes(m, FALSE) # {}
  /\ diagnosis.status < 2 => OverallHealth(m) # "critical"

(***************************************************************************)
(* No measurement is found unhealthy that the threshold alerts let pass:   *)
(* the limits of the two, chosen apart, leave too few points between them. *)
(***************************************************************************)
UnhealthyPassesThreshold == diagnosis.raised = {} => OverallHealth(m) = "healthy"

\* The three judgements of a measurement do not contradict each other.
EnginesAgree == EnginesAgreeOnTheWorst /\ UnhealthyPassesThreshold
=============================================================================
