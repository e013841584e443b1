----------------------------- MODULE RateLimiter -----------------------------
(***************************************************************************)
(* The in-memory rate limiter of backend/app/main.py, a middleware every   *)
(* request passes.  Between reading the clock and answering it awaits      *)
(* nothing, so one request is one step of the event loop.  Instants of     *)
(* time.monotonic() are natural numbers; two requests may share one.       *)
(***************************************************************************)
EXTENDS Integers, Sequences

CONSTANTS
  Client,        \* client addresses (request.client.host, or "unknown")
  WindowSeconds, \* RATE_LIMIT_WINDOW_SECONDS
  MaxRequests,   \* RATE_LIMIT_MAX_REQUESTS
  MaxTime        \* bound: the clock stops here

ASSUME LimitAssumption == WindowSeconds \in Nat /\ MaxRequests \in Nat \ {0}
ASSUME TimeAssumption == MaxTime \in Nat

VARIABLES
  now,      \* the clock
  bucket,   \* _request_log: per client, the stamps still remembered, oldest first
  admitted, \* per client, the stamps of all requests ever passed on (history)
  rejected  \* per client, the instants at which it was answered 429 (history)

limiterVars == <<now, bucket, admitted, rejected>>

LimiterInit ==
  /\ now = 0
  /\ bucket = [c \in Client |-> <<>>]
  /\ admitted = [c \in Client |-> <<>>]
  /\ rejected = [c \in Client |-> {}]

Tick ==
  /\ now < MaxTime
  /\ now' = now + 1
  /\ UNCHANGED <<bucket, admitted, rejected>>

\* mutant: stamps are forgotten when they are exactly one window old
StaleEarly(stamp) == now >= stamp + WindowSeconds

Stale(stamp) == now > stamp + WindowSeconds

\* What is left of the bucket b after popping its first entries.
Remembers(b, popped) == SubSeq(b, popped + 1, Len(b))

\* The popleft loop ends after this many entries: at the first that is not stale.
Pops(b, popped) ==
  /\ \A i \in 1..popped : Stale(b[i])
  /\ popped < Len(b) => ~Stale(b[popped + 1])

Admit(c, kept) ==
  /\ Len(kept) < MaxRequests
  /\ bucket' = [bucket EXCEPT ![c] = Append(kept, now)]
  /\ admitted' = [admitted EXCEPT ![c] = Append(@, now)]
  /\ UNCHANGED rejected

\* mutant: the stamp of a rejected request is remembered, too
RejectAndRemember(c, kept) ==
  /\ Len(kept) >= MaxRequests
  /\ bucket' = [bucket EXCEPT ![c] = Append(kept, now)]
  /\ rejected' = [rejected EXCEPT ![c] = @ \cup {now}]
  /\ UNCHANGED admitted

Reject(c, kept) ==
  /\ Len(kept) >= MaxRequests
  /\ bucket' = [bucket EXCEPT ![c] = kept]
  /\ rejected' = [rejected EXCEPT ![c] = @ \cup {now}]
  /\ UNCHANGED admitted

ApiRequest(c) ==
  \E popped \in 0..Len(bucket[c]) :
    /\ Pops(bucket[c], popped)
    /\ UNCHANGED now
    /\ \/ Admit(c, Remembers(bucket[c], popped))
       \/ Reject(c, Remembers(bucket[c], popped))

\* A request for /health is passed on before the limiter looks at anything.
LimiterNext == Tick \/ \E c \in Client : ApiRequest(c)

LimiterSpec == LimiterInit /\ [][LimiterNext]_limiterVars

-----------------------------------------------------------------------------
\* The type of each variable of the limiter (_request_log is a dict of deques).
LimiterTypeOK ==
  /\ now \in Nat
  /\ bucket \in [Client -> Seq(Nat)]
  /\ admitted \in [Client -> Seq(Nat)]
  /\ rejected \in [Client -> SUBSET Nat]

(***************************************************************************)
(* The limiter's promise: of any MaxRequests + 1 requests of a client that *)
(* were passed on, the first and the last are more than a window apart, so *)
(* no window holds more than MaxRequests, wherever it starts and though    *)
(* the code only ever looks at the stamps it has not popped.               *)
(***************************************************************************)
WindowsAreLimited ==
  \A c \in Client : \A i, j \in 1..Len(admitted[c]) :
    j = i + MaxRequests => admitted[c][j] > admitted[c][i] + WindowSeconds

(***************************************************************************)
(* A 429 is justified: a client is turned away only at an instant with     *)
(* MaxRequests requests of its own passed on in the window that ends then. *)
(* Rejected requests do not count: who keeps retrying is not locked out.   *)
(***************************************************************************)
RejectionsAreJustified ==
  \A c \in Client : \A t \in rejected[c] : \E first \in 1..Len(admitted[c]) :
    /\ first + MaxRequests - 1 <= Len(admitted[c])
    /\ \A i \in first..first + MaxRequests - 1 :
         admitted[c][i] <= t /\ t <= admitted[c][i] + WindowSeconds

Window == INSTANCE SlidingWindow WITH passed <- admitted, refused <- rejected

(***************************************************************************)
(* Forgetting is never seen: popping stale stamps, the limiter decides as  *)
(* one that counts all the requests it ever passed on would.               *)
(***************************************************************************)
ImplementsSlidingWindow == Window!Spec

-----------------------------------------------------------------------------
\* How many of the requests passed on have been popped off the bucket.
Popped(c) == Len(admitted[c]) - Len(bucket[c])

(***************************************************************************)
(* The deque remembers exactly the latest requests passed on, in the order *)
(* of time and never more than MaxRequests, and what it popped left the    *)
(* window for good: forgetting is safe.  The proofs rest on it.            *)
(***************************************************************************)
BucketRemembersTheWindow ==
  \A c \in Client :
    /\ Len(bucket[c]) <= MaxRequests
    /\ Len(bucket[c]) <= Len(admitted[c])
    /\ \A i \in 1..Len(bucket[c]) : bucket[c][i] = admitted[c][Popped(c) + i]
    /\ \A i \in 1..Len(admitted[c]) :
         /\ admitted[c][i] <= now
         /\ i <= Popped(c) => Stale(admitted[c][i])
    /\ \A i, j \in 1..Len(admitted[c]) : i <= j => admitted[c][i] <= admitted[c][j]
=============================================================================
