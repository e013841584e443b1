---------------------------- MODULE MCAlertDedup ----------------------------
(***************************************************************************)
(* Bounds of the model-checked instance of AlertDedup.                     *)
(***************************************************************************)
EXTENDS AlertDedup, TLC

Symmetry == Permutations(Session)
=============================================================================
