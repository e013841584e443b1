---------------------------- MODULE MCEventStream ----------------------------
(* EventStream for one client and three transactions of one or two events. *)
EXTENDS EventStream
=============================================================================
