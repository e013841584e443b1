----------------------------- MODULE MCEdgeAgents -----------------------------
(* EdgeAgents for one agent and three concurrent requests.                 *)
EXTENDS EdgeAgents, TLC

Symmetry == Permutations(Request)
=============================================================================
