------------------------------ MODULE AtomicUpsert ------------------------------
(***************************************************************************)
(* What the detectors of services/polling.py promise of a dedupe key: a    *)
(* detection is one step.  Either an alert with the key is active and      *)
(* counts one more occurrence, or none is and one is inserted.  Operators  *)
(* close, reopen and delete alerts in between.  AlertDedup, where a        *)
(* detection loads, selects and commits while other sessions run,          *)
(* implements it for the polls of an asset and of a reached radio.         *)
(***************************************************************************)
EXTENDS Naturals

CONSTANTS Key

VARIABLES
  raised,  \* alerts there are for each key
  active,  \* how many of them are active
  total    \* detections that took effect

vars == <<raised, active, total>>

Init ==
  /\ raised = [k \in Key |-> 0]
  /\ active = [k \in Key |-> 0]
  /\ total = [k \in Key |-> 0]

CountOccurrence(k) ==
  /\ active[k] > 0
  /\ total' = [total EXCEPT ![k] = @ + 1]
  /\ UNCHANGED <<raised, active>>

InsertAlert(k) ==
  /\ active[k] = 0
  /\ raised' = [raised EXCEPT ![k] = @ + 1]
  /\ active' = [active EXCEPT ![k] = 1]
  /\ total' = [total EXCEPT ![k] = @ + 1]

Close(k) ==
  /\ active[k] > 0
  /\ active' = [active EXCEPT ![k] = @ - 1]
  /\ UNCHANGED <<raised, total>>

Reopen(k) ==
  /\ active[k] < raised[k]
  /\ active' = [active EXCEPT ![k] = @ + 1]
  /\ UNCHANGED <<raised, total>>

\* An alert goes, active or not, and with it a detection that was about to be counted on it.
Delete(k) ==
  /\ raised[k] > 0
  /\ raised' = [raised EXCEPT ![k] = @ - 1]
  /\ \E was \in {0, 1} : active' = [active EXCEPT ![k] = @ - was]
  /\ \E undone \in {0, 1} : total' = [total EXCEPT ![k] = @ - undone]
  /\ active'[k] \in 0 .. raised'[k]

Next ==
  \E k \in Key : CountOccurrence(k) \/ InsertAlert(k) \/ Close(k) \/ Reopen(k) \/ Delete(k)

Spec == Init /\ [][Next]_vars
=============================================================================
