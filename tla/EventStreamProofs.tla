--------------------------- MODULE EventStreamProofs ---------------------------
(***************************************************************************)
(* Invariance proofs for EventStream, for every set of transactions and    *)
(* clients, every batch limit and every horizon of the clock.              *)
(*                                                                         *)
(* What a client was shown lies behind the stream's position and what it   *)
(* is about to be shown ahead of it: a poll takes only events past the     *)
(* position, so it cannot repeat one.  What the stream has read it either  *)
(* took or has a cause for not taking, and this must be said of everything *)
(* up to the end of the batch, not only up to the event sent last.         *)
(***************************************************************************)
EXTENDS EventStream, FiniteSetTheorems, TLAPS

TxnRec == [state: {"none", "open", "committed", "rolled back"},
           stamp: 0..MaxTime, size: 0..MaxEvents, late: SUBSET Stream]

StreamRec == [pc: {"closed", "polling", "sending"}, since: 0..MaxTime, last_seen: 0..MaxTime,
              batch: Seq(Event), sent: Seq(Event), cut: SUBSET Event]

Shapes ==
  /\ now \in 0..MaxTime
  /\ txn \in [Txn -> TxnRec]
  /\ stream \in [Stream -> StreamRec]
  /\ \A s \in Stream : stream[s].pc = "sending" <=> stream[s].batch # <<>>

\* At any time finitely many transactions have begun, none in the future.
Begun == {t \in Txn : txn[t].state # "none"}

StampsPast == IsFiniteSet(Begun) /\ \A t \in Txn : txn[t].stamp <= now

\* No element twice, and in the order of the stamps.
Ordered(q) ==
  \A i, j \in DOMAIN q : i < j => q[i] # q[j] /\ created_at(q[i]) <= created_at(q[j])

\* What has been sent has no later stamp; a closed stream will open at the present.
Position(r) == IF r.pc = "closed" THEN now ELSE r.last_seen

InPlace(r) ==
  /\ Ordered(r.sent) /\ Ordered(r.batch)
  /\ ToSet(r.sent) \cup ToSet(r.batch) \subseteq Committed
  /\ ToSet(r.sent) \cap ToSet(r.batch) = {}
  /\ \A e \in ToSet(r.sent) : created_at(e) <= Position(r)
  /\ \A e \in ToSet(r.batch) : Position(r) <= created_at(e)

\* Horizon, of the row.
Read(r) == IF r.batch = <<>> THEN r.last_seen ELSE created_at(Last(r.batch))

\* MissingHasCause, for everything the stream has read.
Explained(s, r) ==
  r.pc # "closed" =>
    \A e \in Committed :
      r.since < created_at(e) /\ created_at(e) <= Read(r)
        => \/ e \in ToSet(r.sent) \cup ToSet(r.batch)
           \/ s \in txn[e[1]].late
           \/ e \in r.cut

IInv == Shapes /\ StampsPast /\ \A s \in Stream : InPlace(stream[s]) /\ Explained(s, stream[s])

-----------------------------------------------------------------------------
(* Sequences.                                                              *)

LEMMA Elements ==
  ASSUME NEW S, NEW q \in Seq(S)
  PROVE  /\ Len(q) \in Nat /\ DOMAIN q = 1..Len(q)
         /\ ToSet(q) \subseteq S
         /\ \A i \in 1..Len(q) : q[i] \in S /\ q[i] \in ToSet(q)
         /\ \A e \in ToSet(q) : \E i \in 1..Len(q) : e = q[i]
<1>1. Len(q) \in Nat /\ DOMAIN q = 1..Len(q) /\ \A i \in 1..Len(q) : q[i] \in S
  OBVIOUS
<1> QED
  BY <1>1 DEF ToSet

LEMMA Nonempty ==
  ASSUME NEW S, NEW q \in Seq(S)
  PROVE  /\ q # <<>> => /\ 1 \in 1..Len(q) /\ Len(q) \in 1..Len(q)
                        /\ Last(q) = q[Len(q)] /\ Last(q) \in ToSet(q)
         /\ q = <<>> => ToSet(q) = {}
<1>1. q # <<>> => Len(q) \in Nat \ {0}
  OBVIOUS
<1>2. q # <<>> => 1 \in 1..Len(q) /\ Len(q) \in 1..Len(q)
  BY <1>1
<1>3. q # <<>> => Last(q) = q[Len(q)] /\ Last(q) \in ToSet(q)
  BY <1>2, Elements DEF Last
<1>4. q = <<>> => ToSet(q) = {}
  BY DEF ToSet
<1> QED
  BY <1>2, <1>3, <1>4

LEMMA HeadAndTail ==
  ASSUME NEW S, NEW q \in Seq(S), q # <<>>
  PROVE  /\ Head(q) = q[1] /\ Head(q) \in ToSet(q)
         /\ Tail(q) \in Seq(S) /\ Len(Tail(q)) = Len(q) - 1
         /\ \A i \in 1..Len(Tail(q)) : i + 1 \in 1..Len(q) /\ Tail(q)[i] = q[i + 1]
         /\ ToSet(q) = {Head(q)} \cup ToSet(Tail(q))
         /\ Tail(q) # <<>> => Last(Tail(q)) = Last(q)
         /\ Tail(q) = <<>> => Last(q) = Head(q)
         /\ Tail(q) = <<>> <=> Len(q) = 1
<1>1. Len(q) \in Nat \ {0} /\ Head(q) = q[1]
  OBVIOUS
<1>2. Tail(q) \in Seq(S) /\ Len(Tail(q)) = Len(q) - 1
  OBVIOUS
<1>3. \A i \in 1..Len(Tail(q)) : i + 1 \in 1..Len(q) /\ Tail(q)[i] = q[i + 1]
  BY <1>1, <1>2
<1>4. Tail(q) = <<>> <=> Len(q) = 1
  <2>1. \A t \in Seq(S) : t = <<>> <=> Len(t) = 0
    OBVIOUS
  <2>2. Tail(q) = <<>> <=> Len(Tail(q)) = 0
    BY <1>2, <2>1
  <2> QED
    BY <1>1, <1>2, <2>2
<1>5. Head(q) \in ToSet(q)
  BY <1>1, Nonempty, Elements
<1>6. ToSet(Tail(q)) \subseteq ToSet(q)
  <2> SUFFICES ASSUME NEW e \in ToSet(Tail(q)) PROVE e \in ToSet(q)
      OBVIOUS
  <2>1. PICK i \in 1..Len(Tail(q)) : e = Tail(q)[i]
    BY <1>2, Elements
  <2>2. i + 1 \in 1..Len(q) /\ e = q[i + 1]
    BY <2>1, <1>3
  <2> QED
    BY <2>2, Elements
<1>7. ASSUME NEW e \in ToSet(q), e # Head(q) PROVE e \in ToSet(Tail(q))
  <2>1. PICK i \in 1..Len(q) : e = q[i]
    BY Elements
  <2>2. i # 1
    BY <2>1, <1>1, <1>7
  <2>3. i - 1 \in 1..Len(Tail(q)) /\ (i - 1) + 1 = i
    BY <1>1, <1>2, <2>2
  <2>4. Tail(q)[i - 1] = e
    BY <1>3, <2>1, <2>3
  <2> QED
    BY <1>2, <2>3, <2>4, Elements
<1>8. ASSUME Tail(q) # <<>> PROVE Last(Tail(q)) = Last(q)
  <2>1. Len(Tail(q)) \in 1..Len(Tail(q)) /\ Len(Tail(q)) + 1 = Len(q)
    BY <1>1, <1>2, <1>8, Nonempty
  <2> QED
    BY <2>1, <1>3 DEF Last
<1>9. Tail(q) = <<>> => Last(q) = Head(q)
  BY <1>1, <1>4 DEF Last
<1> QED
  BY <1>1, <1>2, <1>3, <1>4, <1>5, <1>6, <1>7, <1>8, <1>9

LEMMA Appended ==
  ASSUME NEW S, NEW q \in Seq(S), NEW x \in S
  PROVE  /\ Append(q, x) \in Seq(S) /\ Len(Append(q, x)) = Len(q) + 1
         /\ \A i \in 1..Len(q) : Append(q, x)[i] = q[i]
         /\ Append(q, x)[Len(q) + 1] = x
         /\ ToSet(Append(q, x)) = ToSet(q) \cup {x}
<1> DEFINE a == Append(q, x)
<1>1. a \in Seq(S) /\ Len(a) = Len(q) + 1 /\ Len(q) \in Nat
  OBVIOUS
<1>2. \A i \in 1..Len(q) : a[i] = q[i]
  OBVIOUS
<1>3. a[Len(q) + 1] = x
  OBVIOUS
<1> HIDE DEF a
<1>4. \A i \in 1..Len(a) : i \in 1..Len(q) \/ i = Len(q) + 1
  BY <1>1
<1>5. ToSet(a) \subseteq ToSet(q) \cup {x}
  <2> SUFFICES ASSUME NEW e \in ToSet(a) PROVE e \in ToSet(q) \cup {x}
      OBVIOUS
  <2>1. PICK i \in 1..Len(a) : e = a[i]
    BY <1>1, Elements
  <2> QED
    BY <2>1, <1>2, <1>3, <1>4, Elements
<1>6. ToSet(q) \subseteq ToSet(a)
  <2>1. \A i \in 1..Len(q) : i \in 1..Len(a)
    BY <1>1
  <2> SUFFICES ASSUME NEW e \in ToSet(q) PROVE e \in ToSet(a)
      OBVIOUS
  <2>2. PICK i \in 1..Len(q) : e = q[i]
    BY Elements
  <2> QED
    BY <2>1, <2>2, <1>1, <1>2, Elements
<1>7. x \in ToSet(a)
  <2>1. Len(q) + 1 \in 1..Len(a)
    BY <1>1
  <2> QED
    BY <2>1, <1>1, <1>3, Elements
<1> QED
  BY <1>1, <1>2, <1>3, <1>5, <1>6, <1>7 DEF a

-----------------------------------------------------------------------------
(* The steps.                                                              *)

LEMMA EventParts ==
  ASSUME NEW e \in Event
  PROVE  e[1] \in Txn /\ e[2] \in 1..MaxEvents
  BY DEF Event

LEMMA Stamps ==
  ASSUME Shapes, NEW e \in Committed
  PROVE  e \in Event /\ e[1] \in Txn /\ created_at(e) \in Nat
<1>1. e \in Event /\ e[1] \in Txn
  BY EventParts DEF Committed
<1>2. txn[e[1]].stamp \in 0..MaxTime
  BY <1>1 DEF Shapes, TxnRec
<1> QED
  BY <1>1, <1>2, BoundAssumption DEF created_at

LEMMA RowTypes ==
  ASSUME Shapes, NEW s \in Stream
  PROVE  /\ stream[s] \in StreamRec
         /\ stream[s].batch \in Seq(Event) /\ stream[s].sent \in Seq(Event)
         /\ stream[s].last_seen \in Nat /\ now \in Nat
         /\ stream[s].pc # "sending" => stream[s].batch = <<>>
<1>1. stream[s] \in StreamRec
  BY DEF Shapes
<1> QED
  BY <1>1, BoundAssumption DEF Shapes, StreamRec

LEMMA InvInit == Init => IInv
<1> SUFFICES ASSUME Init PROVE IInv
    OBVIOUS
<1>1. Closed \in StreamRec /\ NotBegun \in TxnRec
  BY BoundAssumption DEF Closed, StreamRec, NotBegun, TxnRec
<1>2. Shapes
  BY <1>1, BoundAssumption DEF Init, Shapes, Closed
<1>3. StampsPast
  <2>1. Begun = {}
    BY DEF Init, Begun, NotBegun
  <2> QED
    BY <2>1, FS_EmptySet DEF Init, StampsPast, NotBegun
<1>4. ASSUME NEW s \in Stream PROVE InPlace(stream[s]) /\ Explained(s, stream[s])
  <2>1. stream[s] = Closed
    BY DEF Init
  <2>2. ToSet(<<>>) = {}
    BY DEF ToSet
  <2>3. Ordered(<<>>)
    BY DEF Ordered
  <2> QED
    BY <2>1, <2>2, <2>3 DEF InPlace, Explained, Closed
<1> QED
  BY <1>2, <1>3, <1>4 DEF IInv

\* A writer's step: what is committed keeps its stamp, and what commits late is noted.
LEMMA WriterStep ==
  ASSUME IInv, NEW t \in Txn, NEW row \in TxnRec,
         txn[t].state # "committed", row.stamp <= now,
         row.state = "committed" =>
           /\ row.stamp = txn[t].stamp
           /\ \A s \in Stream : row.stamp <= Horizon(s) => s \in row.late,
         txn' = [txn EXCEPT ![t] = row], UNCHANGED <<now, stream>>
  PROVE  IInv'
<1> USE DEF IInv
<1>1. /\ \A z \in Txn : txn'[z] = IF z = t THEN row ELSE txn[z]
      /\ txn' \in [Txn -> TxnRec]
  BY DEF Shapes
<1>2. ASSUME NEW e \in Committed
      PROVE  e[1] # t /\ e \in Committed' /\ txn'[e[1]] = txn[e[1]] /\ created_at(e)' = created_at(e)
  BY <1>1, EventParts DEF Committed, created_at
<1>3. ASSUME NEW e \in Committed', e \notin Committed
      PROVE  e[1] = t /\ row.state = "committed"
  BY <1>1, <1>3, EventParts DEF Committed
<1>4. Shapes'
  BY <1>1 DEF Shapes
<1>5. StampsPast'
  <2>1. Begun' \subseteq Begun \cup {t}
    BY <1>1 DEF Begun
  <2>2. IsFiniteSet(Begun')
    BY <2>1, FS_AddElement, FS_Subset DEF StampsPast
  <2> QED
    BY <2>2, <1>1 DEF StampsPast
<1>6. ASSUME NEW s \in Stream PROVE InPlace(stream[s])'
  <2> DEFINE r == stream[s]
  <2>1. r' = r /\ Position(r)' = Position(r)
    BY DEF Position
  <2>2. InPlace(r)
    OBVIOUS
  <2>3. r.batch \in Seq(Event) /\ r.sent \in Seq(Event)
    BY RowTypes
  <2>4. ASSUME NEW q \in Seq(Event), ToSet(q) \subseteq Committed, Ordered(q)
        PROVE  Ordered(q)'
    BY <2>4, <1>2, Elements DEF Ordered
  <2>5. Ordered(r.sent)' /\ Ordered(r.batch)'
    <3>1. /\ ToSet(r.sent) \subseteq Committed /\ Ordered(r.sent)
          /\ ToSet(r.batch) \subseteq Committed /\ Ordered(r.batch)
      BY <2>2 DEF InPlace
    <3>2. \A i, j \in DOMAIN r.sent :
            i < j => r.sent[i] # r.sent[j] /\ created_at(r.sent[i])' <= created_at(r.sent[j])'
      BY <2>3, <2>4, <3>1 DEF Ordered
    <3>3. \A i, j \in DOMAIN r.batch :
            i < j => r.batch[i] # r.batch[j] /\ created_at(r.batch[i])' <= created_at(r.batch[j])'
      BY <2>3, <2>4, <3>1 DEF Ordered
    <3> QED
      BY <2>1, <3>2, <3>3 DEF Ordered
  <2> QED
    BY <2>1, <2>2, <2>5, <1>2 DEF InPlace
<1>7. ASSUME NEW s \in Stream PROVE Explained(s, stream[s])'
  <2> DEFINE r == stream[s]
  <2>1. r' = r
    OBVIOUS
  <2>2. Read(r)' = Read(r) /\ Horizon(s) = Read(r)
    <3>1. r.batch # <<>> => Last(r.batch) \in Committed
      BY RowTypes, Nonempty DEF InPlace
    <3> QED
      BY <3>1, <2>1, <1>2 DEF Read, Horizon
  <2> SUFFICES ASSUME r.pc # "closed", NEW e \in Committed',
                      r.since < created_at(e)', created_at(e)' <= Read(r)
               PROVE  \/ e \in ToSet(r.sent) \cup ToSet(r.batch)
                      \/ s \in txn'[e[1]].late
                      \/ e \in r.cut
    BY <2>1, <2>2 DEF Explained
  <2>3. CASE e \in Committed
    BY <2>3, <1>2 DEF Explained
  <2>4. CASE e \notin Committed
    BY <2>4, <2>2, <1>1, <1>3 DEF created_at
  <2> QED
    BY <2>3, <2>4
<1> QED
  BY <1>4, <1>5, <1>6, <1>7

LEMMA TickStep == IInv /\ Tick => IInv'
<1> SUFFICES ASSUME IInv, Tick PROVE IInv'
    OBVIOUS
<1> USE DEF IInv
<1>1. now' = now + 1 /\ now \in Nat /\ txn' = txn /\ stream' = stream /\ now < MaxTime
  BY BoundAssumption DEF Tick, Shapes
<1>2. Committed' = Committed /\ \A e : created_at(e)' = created_at(e)
  BY <1>1 DEF Committed, created_at
<1>3. Shapes'
  BY <1>1, BoundAssumption DEF Shapes
<1>4. StampsPast'
  <2>1. ASSUME NEW t \in Txn PROVE txn[t].stamp \in Nat
    <3>1. txn[t].stamp \in 0..MaxTime
      BY DEF Shapes, TxnRec
    <3> QED
      BY <3>1, BoundAssumption
  <2> QED
    BY <1>1, <2>1 DEF StampsPast, Begun
<1>5. ASSUME NEW s \in Stream PROVE InPlace(stream[s])'
  <2> DEFINE r == stream[s]
  <2>1. InPlace(r)
    OBVIOUS
  <2>2. r.pc = "closed" => r.batch = <<>>
    BY DEF Shapes
  <2>3. \A e \in ToSet(r.sent) : created_at(e) <= Position(r)'
    BY <2>1, <1>1, Stamps DEF InPlace, Position
  <2>4. \A e \in ToSet(r.batch) : Position(r)' <= created_at(e)
    <3>1. ToSet(<<>>) = {}
      BY DEF ToSet
    <3> QED
      BY <2>1, <2>2, <3>1, <1>1 DEF InPlace, Position
  <2> QED
    BY <2>1, <2>3, <2>4, <1>1, <1>2 DEF InPlace, Ordered
<1>6. ASSUME NEW s \in Stream PROVE Explained(s, stream[s])'
  BY <1>1, <1>2 DEF Explained, Read
<1> QED
  BY <1>3, <1>4, <1>5, <1>6

\* A step of one stream's generator needs only the new row to be in place.
LEMMA GeneratorStep ==
  ASSUME IInv, NEW s \in Stream, NEW r \in StreamRec,
         r.pc = "sending" <=> r.batch # <<>>, InPlace(r), Explained(s, r),
         stream' = [stream EXCEPT ![s] = r], UNCHANGED <<now, txn>>
  PROVE  IInv'
<1> USE DEF IInv
<1>1. /\ \A z \in Stream : stream'[z] = IF z = s THEN r ELSE stream[z]
      /\ stream' \in [Stream -> StreamRec]
  BY DEF Shapes
<1>2. Committed' = Committed /\ \A e : created_at(e)' = created_at(e)
  BY DEF Committed, created_at
<1>3. Shapes'
  BY <1>1 DEF Shapes
<1>4. StampsPast'
  BY DEF StampsPast, Begun
<1>5. ASSUME NEW z \in Stream PROVE InPlace(stream[z])'
  <2>1. InPlace(stream'[z])
    BY <1>1
  <2> QED
    BY <2>1, <1>2 DEF InPlace, Ordered, Position
<1>6. ASSUME NEW z \in Stream PROVE Explained(z, stream[z])'
  <2>1. Explained(z, stream'[z])
    BY <1>1
  <2> QED
    BY <2>1, <1>2 DEF Explained, Read
<1> QED
  BY <1>3, <1>4, <1>5, <1>6

LEMMA EmptySequence == /\ <<>> \in Seq(Event)
                       /\ ToSet(<<>>) = {} /\ Ordered(<<>>)
<1>1. DOMAIN <<>> = {}
  OBVIOUS
<1> QED
  BY <1>1 DEF ToSet, Ordered

\* However often it connects, a client goes on where the present begins.
LEMMA ConnectStep == ASSUME IInv, NEW s \in Stream, Connect(s) PROVE IInv'
<1> DEFINE r == [Closed EXCEPT !.pc = "polling", !.since = now, !.last_seen = now,
                               !.sent = stream[s].sent]
<1>1. /\ r.pc = "polling" /\ r.since = now /\ r.last_seen = now
      /\ r.sent = stream[s].sent /\ r.batch = <<>>
  BY DEF Closed
<1>2. r \in StreamRec
  BY RowTypes, EmptySequence, BoundAssumption DEF IInv, Shapes, Closed, StreamRec
<1>3. stream' = [stream EXCEPT ![s] = r] /\ UNCHANGED <<now, txn>> /\ stream[s].pc = "closed"
  BY DEF Connect
<1> HIDE DEF r
<1>4. InPlace(stream[s])
  BY DEF IInv
<1>5. InPlace(r)
  BY <1>1, <1>3, <1>4, EmptySequence DEF InPlace, Position
<1>6. Explained(s, r)
  <2>1. Read(r) = now /\ now \in Nat
    BY <1>1, RowTypes DEF Read, IInv
  <2>2. \A e \in Committed : created_at(e) \in Nat
    BY Stamps DEF IInv
  <2> QED
    BY <2>1, <2>2, <1>1 DEF Explained
<1> QED
  BY <1>1, <1>2, <1>3, <1>5, <1>6, GeneratorStep

LEMMA DisconnectStep == ASSUME IInv, NEW s \in Stream, Disconnect(s) PROVE IInv'
<1> DEFINE r == [Closed EXCEPT !.sent = stream[s].sent]
<1>1. r.pc = "closed" /\ r.sent = stream[s].sent /\ r.batch = <<>>
  BY DEF Closed
<1>2. r \in StreamRec
  <2>1. stream[s].sent \in Seq(Event) /\ <<>> \in Seq(Event) /\ 0 \in 0..MaxTime
    BY RowTypes, EmptySequence, BoundAssumption DEF IInv
  <2> QED
    BY <2>1 DEF Closed, StreamRec
<1>3. stream' = [stream EXCEPT ![s] = r] /\ UNCHANGED <<now, txn>>
  BY DEF Disconnect
<1> HIDE DEF r
<1>4. InPlace(stream[s])
  BY DEF IInv
<1>5. \A e \in Committed : created_at(e) <= now
  BY Stamps DEF IInv, StampsPast, created_at
<1>6. InPlace(r)
  BY <1>1, <1>4, <1>5, EmptySequence DEF InPlace, Position
<1>7. Explained(s, r)
  BY <1>1 DEF Explained
<1> QED
  BY <1>1, <1>2, <1>3, <1>6, <1>7, GeneratorStep

\* Finitely many transactions have begun, so finitely many events are committed.
LEMMA CommittedFinite == IInv => IsFiniteSet(Committed)
<1> SUFFICES ASSUME IInv PROVE IsFiniteSet(Committed)
    OBVIOUS
<1>1. IsFiniteSet(Begun) /\ IsFiniteSet(1..MaxEvents)
  BY BoundAssumption, FS_Interval DEF IInv, StampsPast
<1>2. IsFiniteSet(Begun \X (1..MaxEvents))
  BY <1>1, FS_Product
<1>3. Committed \subseteq Begun \X (1..MaxEvents)
  BY DEF Committed, Begun, Event
<1> QED
  BY <1>2, <1>3, FS_Subset

\* A poll takes at least one row, and only new ones.
LEMMA Taken ==
  ASSUME IInv, NEW s \in Stream, Newer(s) # {},
         NEW taken, taken = Fewest(Cardinality(Newer(s)), BatchLimit),
         NEW batch \in [1..taken -> Newer(s)]
  PROVE  /\ taken \in Nat \ {0} /\ batch \in Seq(Event)
         /\ Len(batch) = taken /\ batch # <<>> /\ Last(batch) = batch[taken]
         /\ ToSet(batch) \subseteq Newer(s)
<1>1. IsFiniteSet(Newer(s))
  BY CommittedFinite, FS_Subset DEF Newer
<1>2. Cardinality(Newer(s)) \in Nat \ {0}
  BY <1>1, FS_EmptySet, FS_CardinalityType
<1>3. taken \in Nat \ {0}
  BY <1>2, LimitAssumption DEF Fewest
<1>4. Newer(s) \subseteq Event
  BY DEF Newer, Committed
<1>5. batch \in Seq(Newer(s)) /\ Len(batch) = taken
  BY <1>3
<1>6. batch \in Seq(Event)
  BY <1>3, <1>4
<1>7. batch # <<>>
  <2>1. Len(<<>>) = 0
    OBVIOUS
  <2> QED
    BY <2>1, <1>3, <1>5
<1> QED
  BY <1>3, <1>5, <1>6, <1>7, Elements DEF Last

LEMMA PollStep == ASSUME IInv, NEW s \in Stream, Poll(s) PROVE IInv'
<1> DEFINE rows == Newer(s)
           taken == Fewest(Cardinality(rows), BatchLimit)
           left(batch) == {e \in rows \ ToSet(batch) : created_at(e) = created_at(batch[taken])}
           r(batch) == [stream[s] EXCEPT !.pc = "sending", !.batch = batch,
                                         !.cut = @ \cup left(batch)]
<1>1. PICK batch \in [1..taken -> rows] :
        /\ InOrder(batch, rows)
        /\ stream' = [stream EXCEPT ![s].pc = "sending", ![s].batch = batch,
                                    ![s].cut = @ \cup left(batch)]
  BY DEF Poll
<1>2. stream[s].pc = "polling" /\ rows # {} /\ UNCHANGED <<now, txn>>
  BY DEF Poll
<1>3. /\ taken \in Nat \ {0} /\ batch \in Seq(Event)
      /\ Len(batch) = taken /\ batch # <<>> /\ Last(batch) = batch[taken]
      /\ ToSet(batch) \subseteq rows
  BY <1>2, Taken
<1>4. left(batch) \subseteq Event /\ rows \subseteq Committed
  BY DEF Newer, Committed
<1>5. r(batch) \in StreamRec
  BY <1>3, <1>4, RowTypes DEF IInv, StreamRec
<1>6. stream' = [stream EXCEPT ![s] = r(batch)]
  BY <1>1, RowTypes DEF IInv, Shapes, StreamRec
<1>7. /\ r(batch).pc = "sending" /\ r(batch).batch = batch /\ r(batch).sent = stream[s].sent
      /\ r(batch).last_seen = stream[s].last_seen /\ r(batch).since = stream[s].since
      /\ r(batch).cut = stream[s].cut \cup left(batch)
  BY RowTypes DEF IInv, StreamRec
<1>8. /\ stream[s].batch = <<>> /\ InPlace(stream[s]) /\ Explained(s, stream[s])
      /\ stream[s].last_seen \in Nat
  BY <1>2, RowTypes DEF IInv
<1>9. \A e \in Committed : created_at(e) \in Nat
  BY Stamps DEF IInv
<1>10. \A e \in rows : e \in Committed /\ created_at(e) > stream[s].last_seen
  BY DEF Newer
<1> HIDE DEF r
<1>11. InPlace(r(batch))
  <2>1. Ordered(batch)
    <3>1. DOMAIN batch = 1..taken
      BY <1>3, Elements
    <3> QED
      BY <1>1, <3>1 DEF InOrder, Ordered, IsInjective
  <2>2. \A e \in ToSet(stream[s].sent) : e \in Committed /\ created_at(e) <= stream[s].last_seen
    BY <1>2, <1>8 DEF InPlace, Position
  <2>3. ToSet(stream[s].sent) \cap ToSet(batch) = {}
    <3> SUFFICES ASSUME NEW e \in ToSet(stream[s].sent), e \in ToSet(batch) PROVE FALSE
        OBVIOUS
    <3> QED
      BY <1>3, <1>8, <1>9, <1>10, <2>2
  <2>4. \A e \in ToSet(batch) : stream[s].last_seen <= created_at(e)
    BY <1>3, <1>8, <1>9, <1>10
  <2> QED
    BY <1>3, <1>4, <1>7, <1>8, <2>1, <2>2, <2>3, <2>4 DEF InPlace, Position
<1>12. Explained(s, r(batch))
  <2> SUFFICES ASSUME NEW e \in Committed, stream[s].since < created_at(e),
                      created_at(e) <= created_at(batch[taken])
               PROVE  \/ e \in ToSet(stream[s].sent) \cup ToSet(batch)
                      \/ s \in txn[e[1]].late
                      \/ e \in stream[s].cut \cup left(batch)
    BY <1>3, <1>7 DEF Explained, Read
  <2>1. CASE created_at(e) <= stream[s].last_seen
    <3>1. Read(stream[s]) = stream[s].last_seen /\ ToSet(stream[s].batch) = {}
      BY <1>8, EmptySequence DEF Read
    <3> QED
      BY <3>1, <2>1, <1>2, <1>8 DEF Explained
  <2>2. CASE created_at(e) > stream[s].last_seen /\ e \notin ToSet(batch)
    <3>1. e \in rows \ ToSet(batch)
      BY <2>2 DEF Newer
    <3>2. batch[taken] \in ToSet(batch) /\ batch[taken] \in Committed
      BY <1>3, <1>4, Nonempty
    <3>3. created_at(batch[taken]) <= created_at(e)
      BY <1>1, <3>1, <3>2 DEF InOrder
    <3>4. created_at(e) = created_at(batch[taken])
      BY <3>2, <3>3, <1>9
    <3> QED
      BY <3>1, <3>4
  <2> QED
    BY <2>1, <2>2, <1>8, <1>9
<1> QED
  BY <1>2, <1>3, <1>5, <1>6, <1>7, <1>11, <1>12, GeneratorStep

LEMMA SendStep == ASSUME IInv, NEW s \in Stream, Send(s) PROVE IInv'
<1> DEFINE b == stream[s].batch
           e0 == Head(b)
           r == [stream[s] EXCEPT !.sent = Append(@, e0), !.last_seen = created_at(e0),
                                  !.batch = Tail(@),
                                  !.pc = IF Len(b) = 1 THEN "polling" ELSE "sending"]
<1>1. stream[s].pc = "sending" /\ UNCHANGED <<now, txn>>
  BY DEF Send
<1>2. /\ b \in Seq(Event) /\ stream[s].sent \in Seq(Event) /\ b # <<>>
      /\ InPlace(stream[s]) /\ Explained(s, stream[s])
  BY <1>1, RowTypes DEF IInv, Shapes
<1>3. /\ e0 \in ToSet(b) /\ Tail(b) \in Seq(Event) /\ ToSet(b) = {e0} \cup ToSet(Tail(b))
      /\ e0 = b[1] /\ (Tail(b) = <<>> <=> Len(b) = 1)
  BY <1>2, HeadAndTail
<1>4. e0 \in Committed /\ e0 \in Event /\ created_at(e0) \in 0..MaxTime
  <2>1. e0 \in Committed /\ e0 \in Event /\ e0[1] \in Txn
    BY <1>2, <1>3, Stamps DEF InPlace, IInv
  <2> QED
    BY <2>1 DEF IInv, Shapes, TxnRec, created_at
<1>5. r \in StreamRec
  <2>1. /\ stream[s] \in StreamRec
        /\ Append(stream[s].sent, e0) \in Seq(Event)
    BY <1>2, <1>4, RowTypes, Appended DEF IInv
  <2> HIDE DEF e0
  <2> QED
    BY <2>1, <1>3, <1>4 DEF StreamRec
<1>6. stream' = [stream EXCEPT ![s] = r]
  BY RowTypes DEF Send, IInv, Shapes, StreamRec
<1>7. /\ r.sent = Append(stream[s].sent, e0) /\ r.batch = Tail(b)
      /\ r.last_seen = created_at(e0) /\ r.since = stream[s].since /\ r.cut = stream[s].cut
      /\ r.pc = IF Len(b) = 1 THEN "polling" ELSE "sending"
  BY RowTypes DEF IInv, StreamRec
<1>8. ToSet(r.sent) = ToSet(stream[s].sent) \cup {e0}
  BY <1>2, <1>4, <1>7, Appended
<1> HIDE DEF r, e0
<1>9. InPlace(r)
  <2>1. /\ Ordered(stream[s].sent) /\ Ordered(b)
        /\ ToSet(stream[s].sent) \cup ToSet(b) \subseteq Committed
        /\ ToSet(stream[s].sent) \cap ToSet(b) = {}
        /\ \A e \in ToSet(stream[s].sent) : created_at(e) <= stream[s].last_seen
        /\ \A e \in ToSet(b) : stream[s].last_seen <= created_at(e)
        /\ stream[s].last_seen \in Nat
    BY <1>1, <1>2, RowTypes DEF InPlace, Position, IInv
  <2>2. \A e \in Committed : created_at(e) \in Nat
    BY Stamps DEF IInv
  <2>3. \A e \in ToSet(Tail(b)) : e # e0 /\ created_at(e0) <= created_at(e)
    <3> SUFFICES ASSUME NEW e \in ToSet(Tail(b))
                 PROVE  e # e0 /\ created_at(e0) <= created_at(e)
        OBVIOUS
    <3>1. PICK i \in 1..Len(Tail(b)) : e = Tail(b)[i]
      BY <1>3, Elements
    <3>2. i + 1 \in 1..Len(b) /\ e = b[i + 1]
      BY <1>2, <3>1, HeadAndTail
    <3>3. 1 \in DOMAIN b /\ i + 1 \in DOMAIN b /\ 1 < i + 1
      BY <1>2, <3>1, <3>2, Elements, Nonempty
    <3> QED
      BY <1>3, <2>1, <3>2, <3>3 DEF Ordered
  <2>4. Ordered(Tail(b))
    <3> SUFFICES ASSUME NEW i \in 1..Len(Tail(b)), NEW j \in 1..Len(Tail(b)), i < j
                 PROVE  /\ Tail(b)[i] # Tail(b)[j]
                        /\ created_at(Tail(b)[i]) <= created_at(Tail(b)[j])
      <4>1. DOMAIN Tail(b) = 1..Len(Tail(b))
        BY <1>3, Elements
      <4> QED
        BY <4>1 DEF Ordered
    <3>1. /\ i + 1 \in DOMAIN b /\ j + 1 \in DOMAIN b /\ i + 1 < j + 1
          /\ Tail(b)[i] = b[i + 1] /\ Tail(b)[j] = b[j + 1]
      BY <1>2, HeadAndTail, Elements
    <3> QED
      BY <2>1, <3>1 DEF Ordered
  <2>5. \A e \in ToSet(stream[s].sent) : e # e0 /\ created_at(e) <= created_at(e0)
    BY <1>3, <1>4, <2>1, <2>2
  <2>6. Ordered(r.sent)
    <3> DEFINE q == stream[s].sent
               a == Append(q, e0)
    <3>1. /\ Len(a) = Len(q) + 1 /\ a \in Seq(Event) /\ \A i \in 1..Len(q) : a[i] = q[i]
          /\ a[Len(q) + 1] = e0 /\ Len(q) \in Nat
      BY <1>2, <1>4, Appended, Elements
    <3> HIDE DEF a
    <3> SUFFICES ASSUME NEW i \in 1..Len(a), NEW j \in 1..Len(a), i < j
                 PROVE  a[i] # a[j] /\ created_at(a[i]) <= created_at(a[j])
      <4>1. DOMAIN a = 1..Len(a) /\ r.sent = a
        BY <1>7, <3>1, Elements DEF a
      <4> QED
        BY <4>1 DEF Ordered
    <3>2. i \in 1..Len(q) /\ a[i] = q[i] /\ q[i] \in ToSet(q) /\ DOMAIN q = 1..Len(q)
      BY <1>2, <3>1, Elements
    <3>3. CASE j = Len(q) + 1
      BY <3>1, <3>2, <3>3, <2>5
    <3>4. CASE j # Len(q) + 1
      <4>1. j \in 1..Len(q) /\ a[j] = q[j]
        BY <3>1, <3>4
      <4> QED
        BY <4>1, <3>2, <2>1 DEF Ordered
    <3> QED
      BY <3>3, <3>4
  <2>7. r.pc # "closed"
    BY <1>7
  <2>8. created_at(e0) <= created_at(e0)
    BY <1>4, <2>2
  <2> QED
    BY <1>3, <1>4, <1>7, <1>8, <2>1, <2>3, <2>4, <2>5, <2>6, <2>7, <2>8 DEF InPlace, Position
<1>10. Explained(s, r)
  <2>1. Read(r) = Read(stream[s])
    <3>1. CASE Tail(b) = <<>>
      BY <3>1, <1>2, <1>7, HeadAndTail DEF Read, e0
    <3>2. CASE Tail(b) # <<>>
      BY <3>2, <1>2, <1>7, HeadAndTail DEF Read
    <3> QED
      BY <3>1, <3>2
  <2>2. ToSet(r.sent) \cup ToSet(r.batch) = ToSet(stream[s].sent) \cup ToSet(b)
    BY <1>3, <1>7, <1>8
  <2> QED
    BY <1>1, <1>2, <1>7, <2>1, <2>2 DEF Explained
<1>11. r.pc = "sending" <=> r.batch # <<>>
  BY <1>3, <1>7
<1> QED
  BY <1>1, <1>5, <1>6, <1>9, <1>10, <1>11, GeneratorStep

LEMMA InvStep == IInv /\ [Next]_vars => IInv'
<1> SUFFICES ASSUME IInv, [Next]_vars PROVE IInv'
    OBVIOUS
<1>1. CASE Tick
  BY <1>1, TickStep
<1>2. ASSUME NEW t \in Txn, NEW size \in 1..MaxEvents, Begin(t, size) PROVE IInv'
  <2> DEFINE row == [state |-> "open", stamp |-> now, size |-> size, late |-> {}]
  <2>1. row \in TxnRec /\ row.stamp <= now /\ row.state = "open"
    <3>1. now \in 0..MaxTime /\ size \in 0..MaxEvents /\ now <= now
      BY BoundAssumption DEF IInv, Shapes
    <3> QED
      BY <3>1 DEF TxnRec
  <2>2. txn[t].state # "committed" /\ txn' = [txn EXCEPT ![t] = row] /\ UNCHANGED <<now, stream>>
    BY <1>2 DEF Begin
  <2> HIDE DEF row
  <2> QED
    BY <2>1, <2>2, WriterStep
<1>3. ASSUME NEW t \in Txn, CommitTxn(t) PROVE IInv'
  <2> DEFINE row == [txn[t] EXCEPT !.state = "committed",
                                   !.late = {s \in Stream : txn[t].stamp <= Horizon(s)}]
  <2>1. txn[t] \in TxnRec /\ txn[t].stamp <= now
    BY DEF IInv, Shapes, StampsPast
  <2>2. /\ row \in TxnRec /\ row.stamp = txn[t].stamp
        /\ \A s \in Stream : row.stamp <= Horizon(s) => s \in row.late
    BY <2>1 DEF TxnRec
  <2>3. txn[t].state # "committed" /\ UNCHANGED <<now, stream>>
    BY <1>3 DEF CommitTxn
  <2>4. txn' = [txn EXCEPT ![t] = row]
    BY <1>3, <2>1 DEF CommitTxn, TxnRec, IInv, Shapes
  <2> HIDE DEF row
  <2> QED
    BY <2>1, <2>2, <2>3, <2>4, WriterStep
<1>4. ASSUME NEW t \in Txn, RollbackTxn(t) PROVE IInv'
  <2> DEFINE row == [txn[t] EXCEPT !.state = "rolled back"]
  <2>1. txn[t] \in TxnRec /\ txn[t].stamp <= now
    BY DEF IInv, Shapes, StampsPast
  <2>2. row \in TxnRec /\ row.stamp = txn[t].stamp /\ row.state = "rolled back"
    BY <2>1 DEF TxnRec
  <2>3. /\ txn[t].state # "committed" /\ UNCHANGED <<now, stream>>
        /\ txn' = [txn EXCEPT ![t] = row]
    BY <1>4 DEF RollbackTxn
  <2> HIDE DEF row
  <2> QED
    BY <2>1, <2>2, <2>3, WriterStep
<1>5. ASSUME NEW s \in Stream, Connect(s) \/ Poll(s) \/ Send(s) \/ Disconnect(s) PROVE IInv'
  BY <1>5, ConnectStep, PollStep, SendStep, DisconnectStep
<1>6. CASE UNCHANGED vars
  <2>1. now' = now /\ txn' = txn /\ stream' = stream
    BY <1>6 DEF vars
  <2>2. Committed' = Committed /\ \A e : created_at(e)' = created_at(e)
    BY <2>1 DEF Committed, created_at
  <2>3. Shapes' /\ StampsPast'
    BY <2>1 DEF IInv, Shapes, StampsPast, Begun
  <2>4. ASSUME NEW s \in Stream PROVE InPlace(stream[s])' /\ Explained(s, stream[s])'
    BY <2>1, <2>2 DEF IInv, InPlace, Ordered, Position, Explained, Read
  <2> QED
    BY <2>3, <2>4 DEF IInv
<1> QED
  BY <1>1, <1>2, <1>3, <1>4, <1>5, <1>6 DEF Next

LEMMA Invariance == Spec => []IInv
  BY InvInit, InvStep, PTL DEF Spec

-----------------------------------------------------------------------------
(* The theorems.                                                           *)

LEMMA Joined ==
  ASSUME NEW S, NEW p \in Seq(S), NEW q \in Seq(S)
  PROVE  /\ p \o q \in Seq(S) /\ DOMAIN (p \o q) = 1..(Len(p) + Len(q))
         /\ \A i \in DOMAIN (p \o q) :
              \/ i \in DOMAIN p /\ (p \o q)[i] = p[i]
              \/ /\ i > Len(p) /\ i - Len(p) \in DOMAIN q
                 /\ (p \o q)[i] = q[i - Len(p)]
<1>1. /\ p \o q \in Seq(S) /\ Len(p) \in Nat /\ Len(q) \in Nat
      /\ Len(p \o q) = Len(p) + Len(q)
      /\ DOMAIN p = 1..Len(p) /\ DOMAIN q = 1..Len(q)
  OBVIOUS
<1>2. DOMAIN (p \o q) = 1..(Len(p) + Len(q))
  BY <1>1
<1>3. ASSUME NEW i \in 1..(Len(p) + Len(q))
      PROVE  (p \o q)[i] = IF i <= Len(p) THEN p[i] ELSE q[i - Len(p)]
  OBVIOUS
<1> QED
  BY <1>1, <1>2, <1>3

\* What a client was shown and is about to be shown, as one sequence.
LEMMA ShownInOrder ==
  ASSUME IInv, NEW s \in Stream
  PROVE  LET shown == stream[s].sent \o stream[s].batch
         IN  IsInjective(shown) /\ ToSet(shown) \subseteq Committed /\ Ordered(shown)
<1> DEFINE p == stream[s].sent
           q == stream[s].batch
           shown == p \o q
<1>1. /\ p \in Seq(Event) /\ q \in Seq(Event)
      /\ stream[s].last_seen \in Nat /\ now \in Nat
  BY RowTypes DEF IInv
<1>2. InPlace(stream[s]) /\ Position(stream[s]) \in Nat
  BY <1>1 DEF IInv, Position
<1>3. \A e \in Committed : created_at(e) \in Nat
  BY Stamps DEF IInv
<1>4. \A i \in DOMAIN p : p[i] \in ToSet(p) /\ p[i] \in Committed
  BY <1>2 DEF InPlace, ToSet
<1>5. \A i \in DOMAIN q : q[i] \in ToSet(q) /\ q[i] \in Committed
  BY <1>2 DEF InPlace, ToSet
<1>6. \A i \in DOMAIN p, j \in DOMAIN q : p[i] # q[j] /\ created_at(p[i]) <= created_at(q[j])
  <2> SUFFICES ASSUME NEW i \in DOMAIN p, NEW j \in DOMAIN q
               PROVE  p[i] # q[j] /\ created_at(p[i]) <= created_at(q[j])
      OBVIOUS
  <2>1. /\ created_at(p[i]) <= Position(stream[s]) /\ Position(stream[s]) <= created_at(q[j])
        /\ p[i] # q[j]
    BY <1>2, <1>4, <1>5 DEF InPlace
  <2> QED
    BY <2>1, <1>2, <1>3, <1>4, <1>5
<1>7. /\ shown \in Seq(Event)
      /\ DOMAIN shown = 1..(Len(p) + Len(q)) /\ Len(p) \in Nat /\ Len(q) \in Nat
      /\ DOMAIN p = 1..Len(p) /\ DOMAIN q = 1..Len(q)
      /\ \A i \in DOMAIN shown :
           \/ i \in DOMAIN p /\ shown[i] = p[i]
           \/ i > Len(p) /\ i - Len(p) \in DOMAIN q /\ shown[i] = q[i - Len(p)]
  <2>1. /\ Len(p) \in Nat /\ Len(q) \in Nat
        /\ DOMAIN p = 1..Len(p) /\ DOMAIN q = 1..Len(q)
    BY <1>1
  <2>2. shown \in Seq(Event) /\ DOMAIN shown = 1..(Len(p) + Len(q))
    BY <1>1, Joined
  <2>3. \A i \in DOMAIN shown :
           \/ i \in DOMAIN p /\ shown[i] = p[i]
           \/ i > Len(p) /\ i - Len(p) \in DOMAIN q /\ shown[i] = q[i - Len(p)]
    BY <1>1, Joined
  <2> HIDE DEF p, q, shown
  <2> QED
    BY <2>1, <2>2, <2>3
<1>8. Ordered(p) /\ Ordered(q)
  BY <1>2 DEF InPlace
<1> HIDE DEF p, q, shown
<1>9. ASSUME NEW i \in DOMAIN shown, NEW j \in DOMAIN shown, i < j
      PROVE  shown[i] # shown[j] /\ created_at(shown[i]) <= created_at(shown[j])
  <2>1. CASE /\ i \in DOMAIN p /\ shown[i] = p[i]
             /\ j \in DOMAIN p /\ shown[j] = p[j]
    BY <2>1, <1>8, <1>9 DEF Ordered
  <2>2. CASE /\ i \in DOMAIN p /\ shown[i] = p[i]
             /\ j - Len(p) \in DOMAIN q /\ shown[j] = q[j - Len(p)]
    BY <2>2, <1>6
  <2>3. CASE /\ i > Len(p) /\ i - Len(p) \in DOMAIN q /\ shown[i] = q[i - Len(p)]
             /\ j > Len(p) /\ j - Len(p) \in DOMAIN q /\ shown[j] = q[j - Len(p)]
    <3>1. i - Len(p) < j - Len(p)
      BY <1>7, <1>9
    <3> QED
      BY <2>3, <3>1, <1>8 DEF Ordered
  <2>4. ~(i > Len(p) /\ j \in DOMAIN p)
    BY <1>7, <1>9
  <2> QED
    BY <2>1, <2>2, <2>3, <2>4, <1>7
<1>10. Ordered(shown)
  BY <1>9 DEF Ordered
<1>11. IsInjective(shown)
  <2> SUFFICES ASSUME NEW i \in DOMAIN shown, NEW j \in DOMAIN shown,
                      shown[i] = shown[j], i # j
               PROVE  FALSE
      BY DEF IsInjective
  <2>1. i < j \/ j < i
    BY <1>7
  <2> QED
    BY <2>1, <1>9
<1>12. ToSet(shown) \subseteq Committed
  BY <1>4, <1>5, <1>7 DEF ToSet
<1> QED
  BY <1>10, <1>11, <1>12 DEF shown, p, q

(***************************************************************************)
(* Through any number of connections, broken off at any event, a client is *)
(* shown committed events only, none twice and in the order of their       *)
(* stamps (stream_events' cursor).                                         *)
(***************************************************************************)
THEOREM ShownOnceInOrder == Spec => []SentOnceInOrder
<1>1. ASSUME IInv PROVE SentOnceInOrder
  <2>1. TypeOK
    <3>1. now \in 0..MaxTime /\ txn \in [Txn -> TxnRec]
      BY <1>1 DEF IInv, Shapes
    <3>2. ASSUME NEW s \in Stream
          PROVE  /\ stream[s] \in StreamRec
                 /\ stream[s].pc = "sending" <=> stream[s].batch # <<>>
      BY <1>1 DEF IInv, Shapes
    <3> QED
      BY <3>1, <3>2 DEF TypeOK, TxnRec, StreamRec
  <2> QED
    BY <1>1, <2>1, ShownInOrder DEF SentOnceInOrder, Ordered
<1> QED
  BY <1>1, Invariance, PTL

(***************************************************************************)
(* An open connection that has passed a committed event without sending it *)
(* had passed its stamp before it committed, or took the batch the limit   *)
(* parted it from (stream_events polling recent_org_events).               *)
(***************************************************************************)
THEOREM NothingElseIsMissed == Spec => []MissingHasCause
<1>1. ASSUME IInv PROVE MissingHasCause
  <2> SUFFICES ASSUME NEW s \in Stream, NEW e \in Committed,
                      stream[s].pc # "closed", stream[s].since < created_at(e),
                      created_at(e) <= stream[s].last_seen
               PROVE  \/ e \in ToSet(stream[s].sent) \cup ToSet(stream[s].batch)
                      \/ s \in txn[e[1]].late
                      \/ e \in stream[s].cut
    BY DEF MissingHasCause
  <2>1. /\ InPlace(stream[s]) /\ Explained(s, stream[s]) /\ stream[s].batch \in Seq(Event)
        /\ stream[s].last_seen \in Nat /\ created_at(e) \in Nat
    BY <1>1, RowTypes, Stamps DEF IInv
  <2>2. created_at(e) <= Read(stream[s])
    <3>1. CASE stream[s].batch = <<>>
      BY <3>1 DEF Read
    <3>2. CASE stream[s].batch # <<>>
      <4>1. Last(stream[s].batch) \in ToSet(stream[s].batch)
        BY <2>1, <3>2, Nonempty
      <4>2. /\ stream[s].last_seen <= created_at(Last(stream[s].batch))
            /\ created_at(Last(stream[s].batch)) \in Nat
        BY <1>1, <2>1, <4>1, Stamps DEF InPlace, Position, IInv
      <4> QED
        BY <3>2, <4>2, <2>1 DEF Read
    <3> QED
      BY <3>1, <3>2
  <2> QED
    BY <2>1, <2>2 DEF Explained
<1> QED
  BY <1>1, Invariance, PTL
=============================================================================
