----------------------------- MODULE SlidingWindow -----------------------------
(***************************************************************************)
(* What the rate limiter of backend/app/main.py promises its clients: a    *)
(* request is passed on exactly if fewer than MaxRequests of the client's  *)
(* were in the window that ends with it.  This limiter forgets nothing;    *)
(* RateLimiter, which pops its deques, implements it.                      *)
(***************************************************************************)
EXTENDS Integers, Sequences, FiniteSets

CONSTANTS Client, WindowSeconds, MaxRequests, MaxTime

VARIABLES now, passed, refused

vars == <<now, passed, refused>>

Init ==
  /\ now = 0
  /\ passed = [c \in Client |-> <<>>]
  /\ refused = [c \in Client |-> {}]

Tick ==
  /\ now < MaxTime
  /\ now' = now + 1
  /\ UNCHANGED <<passed, refused>>

InWindow(c) == {i \in 1..Len(passed[c]) : passed[c][i] + WindowSeconds >= now}

Full(c) == Cardinality(InWindow(c)) >= MaxRequests

PassOn(c) ==
  /\ ~Full(c)
  /\ passed' = [passed EXCEPT ![c] = Append(@, now)]
  /\ UNCHANGED <<now, refused>>

TurnAway(c) ==
  /\ Full(c)
  /\ refused' = [refused EXCEPT ![c] = @ \cup {now}]
  /\ UNCHANGED <<now, passed>>

Next == Tick \/ \E c \in Client : PassOn(c) \/ TurnAway(c)

Spec == Init /\ [][Next]_vars
=============================================================================
