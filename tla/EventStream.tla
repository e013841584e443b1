------------------------------ MODULE EventStream ------------------------------
(***************************************************************************)
(* The live event stream (routers/events.py): activity events are written  *)
(* by the handlers' transactions, and every open stream polls the table    *)
(* for events newer than the last one it sent.                             *)
(*                                                                         *)
(* activity_events.created_at is the database's now(), the instant the     *)
(* writing transaction began, not the one it committed: all events of one  *)
(* transaction share it, and a later event may become visible earlier.     *)
(* A stream's generator waits between two polls and after every event it   *)
(* yields; a client may go away at any of these points, and its browser    *)
(* connects again.  Streams of one organization only: the SELECT filters.  *)
(***************************************************************************)
EXTENDS Naturals, Sequences, SequencesExt, FiniteSets

CONSTANTS
  Txn,        \* transactions that write activity events
  Stream,     \* clients of GET /events/stream
  BatchLimit, \* recent_org_events' limit (25)
  MaxEvents,  \* bound: events one transaction writes
  MaxTime     \* bound: the clock stops here

ASSUME LimitAssumption == BatchLimit \in Nat \ {0}
ASSUME BoundAssumption == MaxEvents \in Nat /\ MaxTime \in Nat

VARIABLES
  now,     \* the clock
  txn,     \* per transaction: state, stamp (created_at), number of events, and
           \* the streams that had gone past its stamp when it committed (history)
  stream   \* per client: the generator's variables, and what it sent (history)

vars == <<now, txn, stream>>

Event == Txn \X (1..MaxEvents)

NotBegun == [state |-> "none", stamp |-> 0, size |-> 0, late |-> {}]

\* cut: events the limit left behind with the stamp of the last one taken (history).
Closed == [pc |-> "closed", since |-> 0, last_seen |-> 0,
           batch |-> <<>>, sent |-> <<>>, cut |-> {}]

Init ==
  /\ now = 0
  /\ txn = [t \in Txn |-> NotBegun]
  /\ stream = [s \in Stream |-> Closed]

Tick ==
  /\ now < MaxTime
  /\ now' = now + 1
  /\ UNCHANGED <<txn, stream>>

-----------------------------------------------------------------------------
(* Writers.                                                                *)

\* The handler's first statement begins the transaction.
Begin(t, size) ==
  /\ txn[t].state = "none"
  /\ txn' = [txn EXCEPT ![t] = [state |-> "open", stamp |-> now, size |-> size,
                                late |-> {}]]
  /\ UNCHANGED <<now, stream>>

Committed == {e \in Event : txn[e[1]].state = "committed" /\ e[2] <= txn[e[1]].size}

created_at(e) == txn[e[1]].stamp

\* The stamp up to which a stream has read the table.
Horizon(s) ==
  IF stream[s].batch = <<>> THEN stream[s].last_seen ELSE created_at(Last(stream[s].batch))

CommitTxn(t) ==
  /\ txn[t].state = "open"
  /\ txn' = [txn EXCEPT ![t].state = "committed",
                        ![t].late = {s \in Stream : txn[t].stamp <= Horizon(s)}]
  /\ UNCHANGED <<now, stream>>

RollbackTxn(t) ==
  /\ txn[t].state = "open"
  /\ txn' = [txn EXCEPT ![t].state = "rolled back"]
  /\ UNCHANGED <<now, stream>>

-----------------------------------------------------------------------------
(* Streams.                                                                *)

\* stream_events begins, for the first time or after a lost connection.
Connect(s) ==
  /\ stream[s].pc = "closed"
  /\ stream' = [stream EXCEPT ![s] = [Closed EXCEPT !.pc = "polling", !.since = now,
                                      !.last_seen = now, !.sent = stream[s].sent]]
  /\ UNCHANGED <<now, txn>>

\* mutant: the comparison includes the event last seen
NewerOrSame(s) == {e \in Committed : created_at(e) >= stream[s].last_seen}

Newer(s) == {e \in Committed : created_at(e) > stream[s].last_seen}

(***************************************************************************)
(* A possible result of SELECT ... ORDER BY created_at LIMIT: rows with    *)
(* one stamp come in any order, and the limit may part them.               *)
(***************************************************************************)
InOrder(batch, rows) ==
  /\ IsInjective(batch)
  /\ ToSet(batch) \subseteq rows
  /\ \A i, j \in DOMAIN batch : i < j => created_at(batch[i]) <= created_at(batch[j])
  /\ \A e \in ToSet(batch), f \in rows \ ToSet(batch) : created_at(e) <= created_at(f)

Fewest(a, b) == IF a < b THEN a ELSE b

\* mutant: waits for a full batch
PollFullBatches(s) ==
  LET rows == Newer(s)
  IN /\ stream[s].pc = "polling"
     /\ Cardinality(rows) >= BatchLimit
     /\ \E batch \in [1..BatchLimit -> rows] :
          /\ InOrder(batch, rows)
          /\ stream' = [stream EXCEPT ![s].pc = "sending", ![s].batch = batch]
     /\ UNCHANGED <<now, txn>>

\* recent_org_events.
Poll(s) ==
  LET rows == Newer(s)
      taken == Fewest(Cardinality(rows), BatchLimit)
  IN /\ stream[s].pc = "polling"
     /\ rows # {}
     /\ \E batch \in [1..taken -> rows] :
          /\ InOrder(batch, rows)
          /\ stream' = [stream EXCEPT
               ![s].pc = "sending", ![s].batch = batch,
               ![s].cut = @ \cup {e \in rows \ ToSet(batch) :
                                    created_at(e) = created_at(batch[taken])}]
     /\ UNCHANGED <<now, txn>>

\* mutant: the position is the time of sending
SendAndStampNow(s) ==
  /\ stream[s].pc = "sending"
  /\ stream' = [stream EXCEPT
       ![s].sent = Append(@, Head(stream[s].batch)),
       ![s].last_seen = now,
       ![s].batch = Tail(@),
       ![s].pc = IF Len(stream[s].batch) = 1 THEN "polling" ELSE "sending"]
  /\ UNCHANGED <<now, txn>>

\* One event is yielded; the generator resumes when the client has taken it.
Send(s) ==
  /\ stream[s].pc = "sending"
  /\ stream' = [stream EXCEPT
       ![s].sent = Append(@, Head(stream[s].batch)),
       ![s].last_seen = created_at(Head(stream[s].batch)),
       ![s].batch = Tail(@),
       ![s].pc = IF Len(stream[s].batch) = 1 THEN "polling" ELSE "sending"]
  /\ UNCHANGED <<now, txn>>

\* The client goes away, between two polls or in the middle of a batch.
Disconnect(s) ==
  /\ stream[s].pc # "closed"
  /\ stream' = [stream EXCEPT ![s] = [Closed EXCEPT !.sent = stream[s].sent]]
  /\ UNCHANGED <<now, txn>>

Next ==
  \/ Tick
  \/ \E t \in Txn : \/ \E size \in 1..MaxEvents : Begin(t, size)
                    \/ CommitTxn(t)
                    \/ RollbackTxn(t)
  \/ \E s \in Stream : Connect(s) \/ Poll(s) \/ Send(s) \/ Disconnect(s)

Spec == Init /\ [][Next]_vars

\* An open stream's generator is resumed by the event loop (asyncio.sleep).
Fairness == \A s \in Stream : WF_vars(Poll(s)) /\ WF_vars(Send(s))

FairSpec == Spec /\ Fairness

-----------------------------------------------------------------------------
(* Properties.                                                             *)

\* Every variable keeps its shape.
TypeOK ==
  /\ now \in 0..MaxTime
  /\ txn \in [Txn -> [state: {"none", "open", "committed", "rolled back"},
                      stamp: 0..MaxTime, size: 0..MaxEvents, late: SUBSET Stream]]
  /\ \A s \in Stream :
       /\ stream[s].pc \in {"closed", "polling", "sending"}
       /\ stream[s].since \in 0..MaxTime /\ stream[s].last_seen \in 0..MaxTime
       /\ stream[s].batch \in Seq(Event) /\ stream[s].sent \in Seq(Event)
       /\ stream[s].pc = "sending" <=> stream[s].batch # <<>>

(***************************************************************************)
(* A client is shown no event twice, however often it loses its connection *)
(* in the middle of a batch and connects again, none that is not committed *)
(* and none out of the order of their stamps: a new connection continues   *)
(* after whatever the client was shown before.                             *)
(***************************************************************************)
SentOnceInOrder ==
  /\ TypeOK
  /\ \A s \in Stream :
       LET shown == stream[s].sent \o stream[s].batch
       IN /\ IsInjective(shown) /\ ToSet(shown) \subseteq Committed
          /\ \A i, j \in DOMAIN shown : i < j => created_at(shown[i]) <= created_at(shown[j])

(***************************************************************************)
(* What a connection misses has one of two causes.  A committed event that *)
(* began after the client connected and whose stamp the stream has passed  *)
(* was sent, or it became visible when the stream was already past it, or  *)
(* the limit parted it from an event with its stamp.                       *)
(***************************************************************************)
MissingHasCause ==
  \A s \in Stream, e \in Committed :
    /\ stream[s].pc # "closed"
    /\ stream[s].since < created_at(e)
    /\ created_at(e) <= stream[s].last_seen
    => \/ e \in ToSet(stream[s].sent) \cup ToSet(stream[s].batch)
       \/ s \in txn[e[1]].late
       \/ e \in stream[s].cut

(***************************************************************************)
(* A stream that stays connected is never stuck behind a batch: it passes  *)
(* every committed event it has yet to reach.                              *)
(***************************************************************************)
StreamsAdvance ==
  \A s \in Stream, e \in Event :
    (stream[s].pc # "closed" /\ e \in Newer(s))
      ~> (stream[s].pc = "closed" \/ created_at(e) <= stream[s].last_seen)

(***************************************************************************)
(* stream_events: organization-scoped activity events are streamed.  No    *)
(* connection passes a committed event, begun since it connected, without  *)
(* having sent it.                                                         *)
(***************************************************************************)
EveryEventIsStreamed ==
  \A s \in Stream, e \in Committed :
    /\ stream[s].pc # "closed"
    /\ stream[s].since < created_at(e)
    /\ created_at(e) <= stream[s].last_seen
    => e \in ToSet(stream[s].sent) \cup ToSet(stream[s].batch)
=============================================================================
