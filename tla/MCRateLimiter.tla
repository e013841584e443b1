---------------------------- MODULE MCRateLimiter ----------------------------
(* RateLimiter for two interchangeable clients and a short window. *)
EXTENDS RateLimiter, TLC

Symmetry == Permutations(Client)
=============================================================================
