--------------------------- MODULE MCAlertWorkflow ---------------------------
(***************************************************************************)
(* Bounds of the model-checked instance of AlertWorkflow.                  *)
(***************************************************************************)
EXTENDS AlertWorkflow, TLC

\* Requests and alerts are interchangeable (safety runs only).
Symmetry == Permutations(Request) \cup Permutations(Alert)
=============================================================================
