------------------------- MODULE GateConnectorProofs --------------------------
(***************************************************************************)
(* Theorems about GateConnector and the ring buffer of its events, for any *)
(* ring size, items, orders, requests, connections and lengths of the      *)
(* event queue: the ring buffer implements the bounded queue; the          *)
(* connector uses it as its two threads may; no caller waits for a         *)
(* connection that is gone; what a call returns was done; and              *)
(* fetch_open_orders knows the orders of the exchange once the events are  *)
(* drained.                                                                *)
(***************************************************************************)
EXTENDS GateConnector, TLAPS

-----------------------------------------------------------------------------
(* SpscQueue: where each side may be.                                      *)

\* Where each side may be: the producer never fills the last free slot, the consumer
\* never enters an empty ring, and what either has copied is still there.
Positions ==
  /\ ppc \in {"write", "publish"} => After(write_pos_) # read_pos_
  /\ ppc = "publish" => buf_[write_pos_] = item
  /\ cpc \in {"read", "release"} => read_pos_ # write_pos_
  /\ cpc = "release" => copy = buf_[read_pos_]

QueueInv == QueueTypeOK /\ Positions

-----------------------------------------------------------------------------
(* The arithmetic of the ring, without %.                                  *)

LEMMA NIsTwoOrMore == N \in Nat /\ N >= 2
BY QueueAssumption

LEMMA ModSmall ==
  ASSUME NEW a \in Nat, NEW n \in Nat \ {0}, a < 2 * n
  PROVE  a % n = IF a < n THEN a ELSE a - n
BY SMT

LEMMA AfterIs ==
  ASSUME NEW p \in RingSlots
  PROVE  After(p) \in RingSlots /\ After(p) = IF p = N - 1 THEN 0 ELSE p + 1
<1> DEFINE a == p + 1
<1>1. a \in Nat /\ a < 2 * N /\ N \in Nat \ {0} /\ After(p) = a % N
  BY NIsTwoOrMore DEF RingSlots, After
<1> HIDE DEF a
<1>2. After(p) = IF a < N THEN a ELSE a - N
  BY <1>1, ModSmall
<1> QED
  BY <1>2, NIsTwoOrMore DEF a, RingSlots

\* The number of items in the ring when it is written at w and read at r.
SizeOf(w, r) == IF r <= w THEN w - r ELSE w + N - r

\* Where the i-th item is when the ring is read at r.
PlaceOf(r, i) == IF r + i - 1 < N THEN r + i - 1 ELSE r + i - 1 - N

\* What is in ring b between them.
Contents(b, w, r) == [i \in 1 .. SizeOf(w, r) |-> b[PlaceOf(r, i)]]

LEMMA SizeIs ==
  ASSUME NEW w \in RingSlots, NEW r \in RingSlots
  PROVE  (w + N - r) % N = SizeOf(w, r) /\ SizeOf(w, r) \in 0 .. N - 1
<1> DEFINE a == w + N - r
<1>1. a \in Nat /\ a < 2 * N /\ N \in Nat \ {0}
  BY NIsTwoOrMore DEF RingSlots
<1> HIDE DEF a
<1>2. a % N = IF a < N THEN a ELSE a - N
  BY <1>1, ModSmall
<1> QED
  BY <1>2, NIsTwoOrMore DEF a, SizeOf, RingSlots

LEMMA PlaceIs ==
  ASSUME NEW r \in RingSlots, NEW i \in 1 .. N - 1
  PROVE  (r + i - 1) % N = PlaceOf(r, i) /\ PlaceOf(r, i) \in RingSlots
<1> DEFINE a == r + i - 1
<1>1. a \in Nat /\ a < 2 * N /\ N \in Nat \ {0}
  BY NIsTwoOrMore DEF RingSlots
<1> HIDE DEF a
<1>2. a % N = IF a < N THEN a ELSE a - N
  BY <1>1, ModSmall
<1> QED
  BY <1>2, NIsTwoOrMore DEF a, PlaceOf, RingSlots

LEMMA RingContents ==
  ASSUME NEW b \in [RingSlots -> Items], NEW w \in RingSlots, NEW r \in RingSlots
  PROVE  /\ [i \in 1 .. (w + N - r) % N |-> b[(r + i - 1) % N]] = Contents(b, w, r)
         /\ Contents(b, w, r) \in Seq(Items)
         /\ Len(Contents(b, w, r)) = SizeOf(w, r)
<1>1. (w + N - r) % N = SizeOf(w, r) /\ SizeOf(w, r) \in 0 .. N - 1
  BY SizeIs
<1>2. \A i \in 1 .. SizeOf(w, r) :
         (r + i - 1) % N = PlaceOf(r, i) /\ PlaceOf(r, i) \in RingSlots
  BY <1>1, PlaceIs, NIsTwoOrMore
<1> QED
  BY <1>1, <1>2 DEF Contents

LEMMA HeldIs ==
  QueueTypeOK => /\ Held = Contents(buf_, write_pos_, read_pos_)
                 /\ Held \in Seq(Items)
                 /\ Len(Held) = SizeOf(write_pos_, read_pos_)
BY RingContents DEF Held, Size, QueueTypeOK

LEMMA HeldNextIs ==
  QueueTypeOK' => Held' = Contents(buf_', write_pos_', read_pos_')
BY RingContents DEF Held, Size, QueueTypeOK

-----------------------------------------------------------------------------
(* The invariant.                                                          *)

LEMMA QueueStarts == QueueInit => QueueInv
BY NIsTwoOrMore DEF QueueInit, QueueInv, QueueTypeOK, Positions, RingSlots

LEMMA PushInv == QueueInv /\ Push => QueueInv'
<1> SUFFICES ASSUME QueueInv, Push PROVE QueueInv'
  OBVIOUS
<1>0. /\ write_pos_ \in RingSlots /\ read_pos_ \in RingSlots
      /\ After(write_pos_) \in RingSlots
  BY AfterIs DEF QueueInv, QueueTypeOK
<1>1. CASE \E x \in Items : PushStarts(x)
  BY <1>1 DEF PushStarts, QueueInv, QueueTypeOK, Positions, consumerVars
<1>2. CASE PushFull
  BY <1>2 DEF PushFull, queueVars, QueueInv, QueueTypeOK, Positions
<1>3. CASE PushWrites
  BY <1>3, <1>0 DEF PushWrites, QueueInv, QueueTypeOK, Positions, consumerVars
<1>4. CASE PushPublishes
  BY <1>4, <1>0 DEF PushPublishes, QueueInv, QueueTypeOK, Positions, consumerVars
<1> QED
  BY <1>1, <1>2, <1>3, <1>4 DEF Push

LEMMA PopInv == QueueInv /\ Pop => QueueInv'
<1> SUFFICES ASSUME QueueInv, Pop PROVE QueueInv'
  OBVIOUS
<1>0. /\ write_pos_ \in RingSlots /\ read_pos_ \in RingSlots
      /\ After(read_pos_) \in RingSlots
      /\ read_pos_ # write_pos_ => After(read_pos_) # After(write_pos_)
  BY AfterIs, NIsTwoOrMore DEF QueueInv, QueueTypeOK, RingSlots
<1>1. CASE PopStarts
  BY <1>1 DEF PopStarts, QueueInv, QueueTypeOK, Positions, producerVars
<1>2. CASE PopEmpty
  BY <1>2 DEF PopEmpty, queueVars, QueueInv, QueueTypeOK, Positions
<1>3. CASE PopReads
  BY <1>3, <1>0 DEF PopReads, QueueInv, QueueTypeOK, Positions, producerVars
<1>4. CASE PopReleases
  BY <1>4, <1>0 DEF PopReleases, QueueInv, QueueTypeOK, Positions, producerVars
<1> QED
  BY <1>1, <1>2, <1>3, <1>4 DEF Pop

LEMMA QueueSteps == QueueInv /\ [QueueNext]_queueVars => QueueInv'
<1>1. QueueInv /\ UNCHANGED queueVars => QueueInv'
  BY DEF queueVars, QueueInv, QueueTypeOK, Positions
<1> QED
  BY <1>1, PushInv, PopInv DEF QueueNext

\* SpscQueue: the acquire and release order of push and pop keeps producer and consumer
\* out of each other's slot.
THEOREM SlotsStayDisjoint == QueueSpec => []SlotsDisjoint
<1>1. QueueInv => SlotsDisjoint
  BY DEF QueueInv, Positions, SlotsDisjoint
<1> QED
  BY QueueStarts, QueueSteps, <1>1, PTL DEF QueueSpec

-----------------------------------------------------------------------------
(* The refinement.                                                         *)

LEMMA InitFifo == QueueInit => Fifo!Init
<1> SUFFICES ASSUME QueueInit PROVE Fifo!Init
  OBVIOUS
<1>1. QueueTypeOK
  BY QueueStarts DEF QueueInv
<1>2. SizeOf(write_pos_, read_pos_) = 0
  BY DEF QueueInit, SizeOf
<1>3. Held = <<>>
  BY <1>1, <1>2, HeldIs
<1> QED
  BY <1>1, <1>3 DEF Fifo!Init, QueueTypeOK

\* Writing a slot that is not published changes nothing in the queue.
LEMMA WriteUnseen ==
  ASSUME QueueInv, PushWrites
  PROVE  Held' = Held
<1>1. QueueTypeOK /\ QueueTypeOK'
  BY PushInv DEF QueueInv, Push
<1>2. write_pos_' = write_pos_ /\ read_pos_' = read_pos_
  BY DEF PushWrites, consumerVars
<1>3. \A i \in 1 .. SizeOf(write_pos_, read_pos_) :
         PlaceOf(read_pos_, i) \in RingSlots /\ PlaceOf(read_pos_, i) # write_pos_
  BY <1>1, NIsTwoOrMore DEF QueueTypeOK, SizeOf, PlaceOf, RingSlots
<1>4. \A i \in 1 .. SizeOf(write_pos_, read_pos_) :
         buf_'[PlaceOf(read_pos_, i)] = buf_[PlaceOf(read_pos_, i)]
  BY <1>1, <1>3 DEF PushWrites, QueueTypeOK
<1>5. Contents(buf_', write_pos_, read_pos_) = Contents(buf_, write_pos_, read_pos_)
  BY <1>4 DEF Contents
<1> QED
  BY <1>1, <1>2, <1>5, HeldIs, HeldNextIs

\* The store of write_pos_ appends the item to the queue.
LEMMA PublishAppends ==
  ASSUME QueueInv, PushPublishes
  PROVE  Fifo!Push(item)
<1> DEFINE size == SizeOf(write_pos_, read_pos_)
<1>1. QueueTypeOK /\ QueueTypeOK'
  BY PushInv DEF QueueInv, Push
<1>2. /\ write_pos_ \in RingSlots /\ read_pos_ \in RingSlots
      /\ write_pos_' = After(write_pos_) /\ read_pos_' = read_pos_
      /\ buf_' = buf_ /\ buf_[write_pos_] = item /\ popped' = popped
      /\ After(write_pos_) # read_pos_
  BY <1>1 DEF PushPublishes, consumerVars, QueueInv, Positions, QueueTypeOK
<1>3. /\ SizeOf(After(write_pos_), read_pos_) = size + 1
      /\ size \in Nat /\ size < N - 1
      /\ PlaceOf(read_pos_, size + 1) = write_pos_
  BY <1>2, AfterIs, NIsTwoOrMore DEF SizeOf, PlaceOf, RingSlots
<1>4. Held' = [i \in 1 .. size + 1 |-> buf_[PlaceOf(read_pos_, i)]]
  BY <1>1, <1>2, <1>3, HeldNextIs DEF Contents
<1>5. Held \in Seq(Items) /\ Len(Held) = size /\ Held = [i \in 1 .. size |-> buf_[PlaceOf(read_pos_, i)]]
  BY <1>1, HeldIs DEF Contents
<1> HIDE DEF size
<1>6. Append(Held, item) = [i \in 1 .. size + 1 |-> IF i <= size THEN Held[i] ELSE item]
  BY <1>3, <1>5
<1>7. Held' = Append(Held, item)
  BY <1>2, <1>3, <1>4, <1>5, <1>6
<1> QED
  BY <1>2, <1>3, <1>5, <1>7 DEF Fifo!Push

\* The store of read_pos_ takes the oldest item.
LEMMA ReleaseTakes ==
  ASSUME QueueInv, PopReleases
  PROVE  Fifo!Pop
<1> DEFINE size == SizeOf(write_pos_, read_pos_)
<1>1. QueueTypeOK /\ QueueTypeOK'
  BY PopInv DEF QueueInv, Pop
<1>2. /\ write_pos_ \in RingSlots /\ read_pos_ \in RingSlots
      /\ read_pos_' = After(read_pos_) /\ write_pos_' = write_pos_
      /\ buf_' = buf_ /\ popped' = buf_[read_pos_]
      /\ read_pos_ # write_pos_
  BY <1>1 DEF PopReleases, producerVars, QueueInv, Positions, QueueTypeOK
<1>3. /\ SizeOf(write_pos_, After(read_pos_)) = size - 1
      /\ size \in Nat /\ size > 0 /\ size < N
      /\ PlaceOf(read_pos_, 1) = read_pos_
  BY <1>2, AfterIs, NIsTwoOrMore DEF SizeOf, PlaceOf, RingSlots
<1>4. \A i \in 1 .. size - 1 : PlaceOf(After(read_pos_), i) = PlaceOf(read_pos_, i + 1)
  BY <1>2, <1>3, AfterIs, NIsTwoOrMore DEF PlaceOf, RingSlots
<1>5. Held' = [i \in 1 .. size - 1 |-> buf_[PlaceOf(After(read_pos_), i)]]
  BY <1>1, <1>2, <1>3, HeldNextIs DEF Contents
<1>6. Held \in Seq(Items) /\ Len(Held) = size /\ Held = [i \in 1 .. size |-> buf_[PlaceOf(read_pos_, i)]]
  BY <1>1, HeldIs DEF Contents
<1> HIDE DEF size
<1>7. Held # <<>> /\ Tail(Held) = [i \in 1 .. size - 1 |-> Held[i + 1]] /\ Head(Held) = Held[1]
  BY <1>3, <1>6
<1>8. Held' = Tail(Held)
  BY <1>3, <1>4, <1>5, <1>6, <1>7
<1>9. popped' = Head(Held)
  BY <1>2, <1>3, <1>6, <1>7
<1> QED
  BY <1>7, <1>8, <1>9 DEF Fifo!Pop

\* Every other step leaves the queue alone.
LEMMA OtherSteps ==
  ASSUME QueueInv,
         \/ \E x \in Items : PushStarts(x)
         \/ PushFull \/ PopStarts \/ PopEmpty \/ PopReads \/ UNCHANGED queueVars
  PROVE  UNCHANGED <<Held, popped>>
<1>1. UNCHANGED <<buf_, write_pos_, read_pos_, popped>>
  BY DEF PushStarts, PushFull, PopStarts, PopEmpty, PopReads, queueVars, consumerVars, producerVars
<1> QED
  BY <1>1 DEF Held, Size

LEMMA StepFifo == QueueInv /\ [QueueNext]_queueVars => [Fifo!Next]_(Fifo!vars)
<1> SUFFICES ASSUME QueueInv, [QueueNext]_queueVars PROVE [Fifo!Next]_(Fifo!vars)
  OBVIOUS
<1>1. CASE PushWrites
  BY <1>1, WriteUnseen DEF PushWrites, consumerVars, Fifo!vars
<1>2. CASE PushPublishes
  BY <1>2, PublishAppends DEF Fifo!Next, QueueInv, QueueTypeOK
<1>3. CASE PopReleases
  BY <1>3, ReleaseTakes DEF Fifo!Next
<1>4. CASE \/ \E x \in Items : PushStarts(x)
           \/ PushFull \/ PopStarts \/ PopEmpty \/ PopReads \/ UNCHANGED queueVars
  BY <1>4, OtherSteps DEF Fifo!vars
<1> QED
  BY <1>1, <1>2, <1>3, <1>4 DEF QueueNext, Push, Pop

\* SpscQueue is a bounded queue whose pushes and pops take effect at once: nothing is
\* lost, overwritten, read twice or reordered, across any number of wrap-arounds.
THEOREM RingIsFifo == QueueSpec => ImplementsFifo
BY QueueStarts, QueueSteps, InitFifo, StepFifo, PTL DEF QueueSpec, ImplementsFifo, Fifo!Spec

-----------------------------------------------------------------------------
(* The requests.                                                           *)

Messages ==
  [kind : {"answer"}, req : Requests, ok : BOOLEAN] \cup [kind : {"event"}, event : Events]

\* What the proofs need to know of the types.
GateTypeOK ==
  /\ QueueInv
  /\ live \subseteq Ids
  /\ inbox \subseteq Requests
  /\ stray \subseteq Requests
  /\ wire \in Seq(Messages)
  /\ made \in [Requests -> 0 .. MaxId]
  /\ conn \in Nat
  /\ boot \subseteq Ids
  /\ rq \in [Requests -> {"new", "registered", "waiting", "erasing", "raised", "returned"}]
  /\ sentOn \in [Requests -> Nat]
  /\ pending \subseteq Requests
  /\ promise \in [Requests -> {"empty", "value", "error"}]
  /\ orders \subseteq 0 .. MaxId

\* What there is of a connection while the io thread is in a place.
PlaceInv ==
  /\ ctl = "closed" => io = "off"
  /\ ws_ptr => Alive \/ io = "dead"
  /\ wire # <<>> \/ inbox # {} => Alive
  /\ subscribed => io \in {"receive", "recv"}
  /\ boot # {} => io = "pushing"

LEMMA GateInitTypes == GateInit => GateTypeOK /\ PlaceInv
  <1> SUFFICES ASSUME GateInit PROVE GateTypeOK /\ PlaceInv
    OBVIOUS
  <1>1. QueueInv
    BY QueueStarts DEF GateInit
  <1>2. live \subseteq Ids
    BY GateAssumption DEF GateInit, Ids
  <1>3. <<>> \in Seq(Messages) /\ 0 \in 0 .. MaxId
    BY GateAssumption
  <1>4. GateTypeOK
    BY <1>1, <1>2, <1>3 DEF GateInit, GateTypeOK
  <1>5. PlaceInv
    BY DEF GateInit, PlaceInv
  <1> QED
    BY <1>4, <1>5

\* The connector's threads use the queue as its header asks for: the io thread pushes,
\* the thread in fetch_open_orders pops.
LEMMA ConnectorUsesQueue ==
  ASSUME GateTypeOK, [GateNext]_gateVars
  PROVE  [QueueNext]_queueVars
  <1>1. CASE PushSnapshot
    <2>1. \A i \in boot : [type |-> "OPEN", id |-> i] \in Items
      BY GateAssumption DEF GateTypeOK, Events, Ids
    <2> QED
      BY <1>1, <2>1 DEF PushSnapshot, Enqueue, QueueNext, Push
  <1>2. CASE ReceiveEvent
    <2>1. Head(wire) \in Messages
      BY <1>2 DEF ReceiveEvent, GateTypeOK
    <2>2. Head(wire).event \in Items
      BY <1>2, <2>1, GateAssumption DEF ReceiveEvent, Messages
    <2> QED
      BY <1>2, <2>2 DEF ReceiveEvent, Enqueue, QueueNext, Push
  <1>3. CASE PushGoesOn
    BY <1>3 DEF PushGoesOn, QueueNext, Push
  <1>4. CASE Drain
    BY <1>4 DEF Drain, QueueNext, Pop
  <1>5. CASE \/ Connect \/ ConnectReturns \/ ConnectTimesOut \/ Disconnect \/ Join
             \/ LoopHead \/ FetchBalance \/ FetchSnapshot \/ FetchTicker \/ WsConnect \/ Login
             \/ Poll \/ RecvTimesOut \/ ReceiveAnswer \/ ReceiveTicker \/ Stop
             \/ ClearPointer \/ FailPending \/ ConnectionLost
    BY <1>5 DEF Connect, ConnectReturns, ConnectTimesOut, Disconnect, Join, LoopHead,
         FetchBalance, FetchSnapshot, FetchTicker, WsConnect, Login, Poll, RecvTimesOut,
         ReceiveAnswer, ReceiveTicker, Stop, ClearPointer, FailPending, ConnectionLost,
         LeaveTryBlock, Goto
  <1>6. CASE \/ \E r \in Requests : Request(r) \/ Execute(r) \/ Refuse(r)
             \/ FetchBegins \/ ExecSubscribe \/ LeaveBook \/ UNCHANGED gateVars
    BY <1>6 DEF Request, Register, Send, TimeOut, Erase, Get, Execute, Refuse, FetchBegins,
         ExecSubscribe, LeaveBook, gateVars
  <1> QED
    BY <1>1, <1>2, <1>3, <1>4, <1>5, <1>6 DEF GateNext, IoStep

LEMMA AppendIs ==
  ASSUME NEW S, NEW s \in Seq(S), NEW x \in S
  PROVE  s \o <<x>> = Append(s, x) /\ Append(s, x) \in Seq(S) /\ s \o <<>> = s
  OBVIOUS

AnswerOf(r, ok)   == [kind |-> "answer", req |-> r, ok |-> ok]
EventOf(type, i) == [kind |-> "event", event |-> [type |-> type, id |-> i]]

LEMMA MessagesSent ==
  /\ \A r \in Requests, ok \in BOOLEAN :
       AnswerOf(r, ok) \in Messages /\ Answer(r, ok) = <<AnswerOf(r, ok)>>
  /\ \A type \in {"OPEN", "CANCEL", "FILL"}, i \in Ids :
       /\ EventOf(type, i) \in Messages
       /\ Report(type, i) = IF subscribed THEN <<EventOf(type, i)>> ELSE <<>>
  <1>1. \A i \in Ids : i \in 0 .. MaxId
    BY GateAssumption DEF Ids
  <1>2. \A r \in Requests, ok \in BOOLEAN :
          AnswerOf(r, ok) \in Messages /\ Answer(r, ok) = <<AnswerOf(r, ok)>>
    BY DEF AnswerOf, Answer, Messages
  <1>3. \A type \in {"OPEN", "CANCEL", "FILL"}, i \in Ids :
          /\ EventOf(type, i) \in Messages
          /\ Report(type, i) = IF subscribed THEN <<EventOf(type, i)>> ELSE <<>>
    BY <1>1 DEF EventOf, Report, Messages, Events
  <1> QED
    BY <1>2, <1>3

\* What the exchange adds to the messages under way when it executes a request.
LEMMA ExecuteSends ==
  ASSUME GateTypeOK, NEW r \in Requests, NEW type \in {"OPEN", "CANCEL"}, NEW i \in Ids,
         \/ r \in inbox /\ wire' = wire \o Answer(r, TRUE) \o Report(type, i)
         \/ r \in inbox /\ wire' = wire \o Report(type, i) \o Answer(r, TRUE)
         \/ r \in stray /\ wire' = wire \o Report(type, i)
  PROVE  LET a == AnswerOf(r, TRUE)
             e == EventOf(type, i)
         IN  /\ a \in Messages /\ e \in Messages
             /\ subscribed => \/ wire' = Append(Append(wire, a), e)
                              \/ wire' = Append(Append(wire, e), a)
                              \/ wire' = Append(wire, e)
             /\ ~subscribed => wire' = wire \/ (r \in inbox /\ wire' = Append(wire, a))
  <1> DEFINE a == AnswerOf(r, TRUE)
             e == EventOf(type, i)
             report == Report(type, i)
  <1>1. a \in Messages /\ e \in Messages /\ Answer(r, TRUE) = <<a>>
    BY MessagesSent
  <1>2. report = IF subscribed THEN <<e>> ELSE <<>>
    BY MessagesSent
  <1>3. wire \in Seq(Messages)
    BY DEF GateTypeOK
  <1> HIDE DEF a, e, report
  <1>4. /\ wire \o <<a>> = Append(wire, a) /\ Append(wire, a) \in Seq(Messages)
        /\ wire \o <<e>> = Append(wire, e) /\ Append(wire, e) \in Seq(Messages)
        /\ wire \o <<>> = wire
    BY <1>1, <1>3, AppendIs
  <1>5. /\ Append(wire, a) \o <<e>> = Append(Append(wire, a), e)
        /\ Append(wire, e) \o <<a>> = Append(Append(wire, e), a)
        /\ Append(wire, a) \o <<>> = Append(wire, a)
    BY <1>1, <1>4, AppendIs
  <1>6. \/ r \in inbox /\ wire' = (wire \o <<a>>) \o report
        \/ r \in inbox /\ wire' = (wire \o report) \o <<a>>
        \/ r \in stray /\ wire' = wire \o report
    BY <1>1 DEF report
  <1>7. CASE subscribed
    <2>1. report = <<e>>
      BY <1>2, <1>7
    <2>2. \/ wire' = Append(Append(wire, a), e)
          \/ wire' = Append(Append(wire, e), a)
          \/ wire' = Append(wire, e)
      BY <1>4, <1>5, <1>6, <2>1, Zenon
    <2> QED
      BY <1>1, <1>7, <2>2 DEF a, e
  <1>8. CASE ~subscribed
    <2>1. report = <<>>
      BY <1>2, <1>8
    <2>2. wire' = wire \/ (r \in inbox /\ wire' = Append(wire, a))
      BY <1>4, <1>5, <1>6, <2>1, Zenon
    <2> QED
      BY <1>1, <1>8, <2>2 DEF a, e
  <1> QED
    BY <1>7, <1>8

LEMMA RefuseSends ==
  ASSUME GateTypeOK, NEW r \in Requests, Refuse(r)
  PROVE  wire' = wire \/ (r \in inbox /\ wire' = Append(wire, AnswerOf(r, FALSE)))
  <1> DEFINE a == AnswerOf(r, FALSE)
  <1>1. a \in Messages /\ Answer(r, FALSE) = <<a>>
    BY MessagesSent
  <1> HIDE DEF a
  <1>2. wire \o <<a>> = Append(wire, a)
    BY <1>1, AppendIs DEF GateTypeOK
  <1>3. wire' = wire \/ (r \in inbox /\ wire' = wire \o Answer(r, FALSE))
    BY DEF Refuse
  <1> QED
    BY <1>1, <1>2, <1>3 DEF a

LEMMA LeaveSends ==
  ASSUME GateTypeOK, NEW type \in {"FILL", "CANCEL"}, NEW i \in Ids,
         wire' = wire \o Report(type, i)
  PROVE  wire' = IF subscribed THEN Append(wire, EventOf(type, i)) ELSE wire
  <1> DEFINE e == EventOf(type, i)
  <1>1. e \in Messages /\ Report(type, i) = IF subscribed THEN <<e>> ELSE <<>>
    BY MessagesSent
  <1> HIDE DEF e
  <1>2. wire \o <<e>> = Append(wire, e) /\ wire \o <<>> = wire
    BY <1>1, AppendIs DEF GateTypeOK
  <1> QED
    BY <1>1, <1>2 DEF e

LEMMA WireType ==
  ASSUME GateTypeOK, [GateNext]_gateVars
  PROVE  wire' \in Seq(Messages)
  <1>a. wire \in Seq(Messages)
    BY DEF GateTypeOK
  <1>b. \A m, n \in Messages :
          /\ Append(wire, m) \in Seq(Messages)
          /\ Append(Append(wire, m), n) \in Seq(Messages)
    BY <1>a, AppendIs
  <1>1. ASSUME NEW r \in Requests, Execute(r) PROVE wire' \in Seq(Messages)
    <2>1. PICK i \in Ids, type \in {"OPEN", "CANCEL"} :
                 \/ r \in inbox /\ wire' = wire \o Answer(r, TRUE) \o Report(type, i)
                 \/ r \in inbox /\ wire' = wire \o Report(type, i) \o Answer(r, TRUE)
                 \/ r \in stray /\ wire' = wire \o Report(type, i)
      BY <1>1 DEF Execute
    <2> QED
      BY <1>a, <1>b, <2>1, ExecuteSends, Zenon
  <1>2. ASSUME NEW r \in Requests, Refuse(r) PROVE wire' \in Seq(Messages)
    BY <1>a, <1>b, <1>2, RefuseSends, MessagesSent, Zenon
  <1>3. CASE LeaveBook
    <2>1. PICK i \in live, type \in {"FILL", "CANCEL"} : wire' = wire \o Report(type, i)
      BY <1>3 DEF LeaveBook
    <2>2. i \in Ids
      BY DEF GateTypeOK
    <2>3. EventOf(type, i) \in Messages
      BY <2>2, MessagesSent
    <2> QED
      BY <1>a, <1>b, <2>1, <2>2, <2>3, LeaveSends, Zenon
  <1>4. CASE ReceiveAnswer \/ ReceiveEvent \/ Stop \/ ConnectionLost
    <2>1. wire' = <<>> \/ (wire # <<>> /\ wire' = Tail(wire))
      BY <1>4 DEF ReceiveAnswer, ReceiveEvent, Stop, ConnectionLost, LeaveTryBlock
    <2>2. <<>> \in Seq(Messages)
      OBVIOUS
    <2>3. wire # <<>> => Tail(wire) \in Seq(Messages)
      BY <1>a
    <2> QED
      BY <2>1, <2>2, <2>3
  <1>5. CASE \/ Connect \/ ConnectReturns \/ ConnectTimesOut \/ Disconnect \/ Join
             \/ LoopHead \/ FetchBalance \/ FetchSnapshot \/ PushSnapshot \/ PushGoesOn
             \/ FetchTicker \/ WsConnect \/ Login \/ Poll \/ RecvTimesOut \/ ReceiveTicker
             \/ ClearPointer \/ FailPending
    <2>1. wire' = wire
      BY <1>5 DEF Connect, ConnectReturns, ConnectTimesOut, Disconnect, Join, LoopHead,
         FetchBalance, FetchSnapshot, PushSnapshot, PushGoesOn, FetchTicker, WsConnect,
         Login, Poll, RecvTimesOut, ReceiveTicker, ClearPointer, FailPending, Goto,
         exchangeVars
    <2> QED
      BY <1>a, <2>1
  <1>6. CASE \/ \E r \in Requests : Request(r)
             \/ FetchBegins \/ Drain \/ ExecSubscribe \/ UNCHANGED gateVars
    <2>1. wire' = wire
      BY <1>6 DEF Request, Register, Send, TimeOut, Erase, Get, FetchBegins, Drain,
         ExecSubscribe, gateVars, exchangeVars
    <2> QED
      BY <1>a, <2>1
  <1> QED
    BY <1>1, <1>2, <1>3, <1>4, <1>5, <1>6 DEF GateNext, IoStep

\* What the io thread receives is a message.
LEMMA Received ==
  ASSUME GateTypeOK, wire # <<>>
  PROVE  /\ Head(wire) \in Messages
         /\ Head(wire).kind = "answer" => /\ Head(wire).req \in Requests
                                          /\ Head(wire).ok \in BOOLEAN
         /\ Head(wire).kind = "event" => Head(wire).event \in Events
  <1>1. Head(wire) \in Messages
    BY DEF GateTypeOK
  <1> QED
    BY <1>1 DEF Messages

LEMMA GateTypeStep ==
  ASSUME GateTypeOK, [GateNext]_gateVars
  PROVE  GateTypeOK'
  <1>1. QueueInv' /\ wire' \in Seq(Messages)
    BY ConnectorUsesQueue, QueueSteps, WireType DEF GateTypeOK
  <1>2. CASE \/ Connect \/ ConnectReturns \/ ConnectTimesOut \/ Disconnect \/ Join
             \/ LoopHead \/ FetchBalance \/ FetchTicker \/ Login \/ Poll \/ RecvTimesOut
             \/ ReceiveTicker \/ ClearPointer \/ FetchBegins \/ ExecSubscribe
             \/ UNCHANGED gateVars
    <2>1. UNCHANGED <<live, inbox, stray, made, conn, boot, requestVars, orders>>
      BY <1>2 DEF Connect, ConnectReturns, ConnectTimesOut, Disconnect, Join, LoopHead,
         FetchBalance, FetchTicker, Login, Poll, RecvTimesOut, ReceiveTicker,
         ClearPointer, FetchBegins, ExecSubscribe, Goto, gateVars, exchangeVars, ioVars,
         fetchVars
    <2> QED
      BY <1>1, <2>1 DEF GateTypeOK, requestVars
  <1>3. CASE \/ FetchSnapshot \/ PushSnapshot \/ PushGoesOn \/ WsConnect \/ Stop
             \/ ConnectionLost
    <2>1. UNCHANGED <<live, made, requestVars, orders>>
      BY <1>3 DEF FetchSnapshot, PushSnapshot, PushGoesOn, WsConnect, Stop, ConnectionLost,
         LeaveTryBlock, Goto, exchangeVars, ioVars, fetchVars
    <2>2. boot' \subseteq boot \cup live /\ conn' \in {conn, conn + 1}
      <3>1. CASE FetchSnapshot \/ PushSnapshot
        BY <3>1 DEF FetchSnapshot, PushSnapshot
      <3>2. CASE PushGoesOn \/ WsConnect \/ Stop \/ ConnectionLost
        BY <3>2 DEF PushGoesOn, WsConnect, Stop, ConnectionLost, LeaveTryBlock, Goto, ioVars
      <3> QED
        BY <1>3, <3>1, <3>2
    <2>3. inbox' \subseteq Requests /\ stray' \subseteq Requests
      BY <1>3 DEF FetchSnapshot, PushSnapshot, PushGoesOn, WsConnect, Stop, ConnectionLost,
         LeaveTryBlock, Goto, exchangeVars, GateTypeOK
    <2> QED
      BY <1>1, <2>1, <2>2, <2>3 DEF GateTypeOK, requestVars
  <1>4. CASE ReceiveAnswer \/ FailPending
    <2>1. UNCHANGED <<live, inbox, stray, made, conn, boot, rq, sentOn, orders>>
      BY <1>4 DEF ReceiveAnswer, FailPending, exchangeVars, fetchVars
    <2>2. promise' \in [Requests -> {"empty", "value", "error"}] /\ pending' \subseteq Requests
      BY <1>4 DEF ReceiveAnswer, FailPending, Fulfil, GateTypeOK
    <2> QED
      BY <1>1, <2>1, <2>2 DEF GateTypeOK
  <1>5. CASE ReceiveEvent
    BY <1>1, <1>5 DEF ReceiveEvent, GateTypeOK, requestVars, fetchVars
  <1>6. ASSUME NEW r \in Requests, Request(r) PROVE GateTypeOK'
    <2>1. UNCHANGED <<live, stray, made, conn, boot, promise, orders>>
      BY <1>6 DEF Request, Register, Send, TimeOut, Erase, Get, exchangeVars, ioVars, fetchVars
    <2>2. \E place \in {"registered", "waiting", "erasing", "raised", "returned"} :
            rq' = [rq EXCEPT ![r] = place]
      BY <1>6 DEF Request, Register, Send, TimeOut, Erase, Get
    <2>3. /\ inbox' \subseteq Requests /\ pending' \subseteq Requests
          /\ sentOn' \in [Requests -> Nat]
      BY <1>6 DEF Request, Register, Send, TimeOut, Erase, Get, exchangeVars, GateTypeOK
    <2> QED
      BY <1>1, <2>1, <2>2, <2>3 DEF GateTypeOK
  <1>7. ASSUME NEW r \in Requests, Execute(r) \/ Refuse(r) PROVE GateTypeOK'
    <2>1. UNCHANGED <<conn, boot, requestVars, orders>>
      BY <1>7 DEF Execute, Refuse, ioVars, fetchVars
    <2>2. inbox' \subseteq Requests /\ stray' \subseteq Requests
      BY <1>7 DEF Execute, Refuse, GateTypeOK
    <2>3. live' \subseteq Ids /\ made' \in [Requests -> 0 .. MaxId]
      <3>1. \A i \in Ids : i \in 0 .. MaxId
        BY GateAssumption DEF Ids
      <3>2. CASE Refuse(r)
        BY <3>2 DEF Refuse, GateTypeOK
      <3>3. CASE Execute(r)
        BY <3>1, <3>3 DEF Execute, GateTypeOK
      <3> QED
        BY <1>7, <3>2, <3>3
    <2> QED
      BY <1>1, <2>1, <2>2, <2>3 DEF GateTypeOK, requestVars
  <1>8. CASE LeaveBook
    <2>1. UNCHANGED <<inbox, stray, made, conn, boot, requestVars, orders>> /\ live' \subseteq live
      BY <1>8 DEF LeaveBook, ioVars, fetchVars
    <2> QED
      BY <1>1, <2>1 DEF GateTypeOK, requestVars
  <1>9. CASE Drain
    <2>1. UNCHANGED <<live, inbox, stray, made, conn, boot, requestVars>>
      BY <1>9 DEF Drain, exchangeVars, ioVars
    <2>2. orders' \subseteq 0 .. MaxId
      <3>1. copy \in Events /\ orders \subseteq 0 .. MaxId
        BY GateAssumption DEF GateTypeOK, QueueInv, QueueTypeOK
      <3>2. copy.id \in 0 .. MaxId
        BY <3>1 DEF Events
      <3> QED
        BY <1>9, <3>1, <3>2 DEF Drain, fetchVars, Applied
    <2> QED
      BY <1>1, <2>1, <2>2 DEF GateTypeOK, requestVars
  <1> QED
    BY <1>2, <1>3, <1>4, <1>5, <1>6, <1>7, <1>8, <1>9 DEF GateNext, IoStep

LEMMA PlaceStep ==
  ASSUME GateTypeOK, PlaceInv, [GateNext]_gateVars
  PROVE  PlaceInv'
  <1> USE DEF PlaceInv, Alive
  <1>1. CASE Connect \/ ConnectReturns \/ ConnectTimesOut \/ Disconnect \/ Join
    BY <1>1 DEF Connect, ConnectReturns, ConnectTimesOut, Disconnect, Join, exchangeVars,
       ioVars
  <1>2. CASE LoopHead \/ FetchBalance \/ FetchSnapshot \/ PushSnapshot \/ PushGoesOn
               \/ FetchTicker
    <2>1. UNCHANGED <<ctl, ws_ptr, wire, inbox, subscribed>>
      BY <1>2 DEF LoopHead, FetchBalance, FetchSnapshot, PushSnapshot, PushGoesOn,
         FetchTicker, Goto, exchangeVars, ctlVars, ioVars
    <2>2. CASE LoopHead \/ FetchBalance \/ FetchTicker
      <3>1. io \in {"loop", "balance", "pushing"} /\ boot = {} /\ boot' = {}
        BY <2>2 DEF LoopHead, FetchBalance, FetchTicker, Goto
      <3> QED
        BY <2>1, <3>1
    <2>3. CASE FetchSnapshot
      <3>1. io = "snapshot" /\ io' = "pushing"
        BY <2>3 DEF FetchSnapshot
      <3> QED
        BY <2>1, <3>1
    <2>4. CASE PushSnapshot \/ PushGoesOn
      <3>1. io' = io /\ boot' \subseteq boot
        BY <2>4 DEF PushSnapshot, PushGoesOn, ioVars
      <3> QED
        BY <2>1, <3>1
    <2> QED
      BY <1>2, <2>2, <2>3, <2>4
  <1>3. CASE WsConnect \/ Login \/ Poll \/ RecvTimesOut \/ ReceiveTicker
    BY <1>3 DEF WsConnect, Login, Poll, RecvTimesOut, ReceiveTicker, Goto, exchangeVars,
       ctlVars
  <1>4. CASE ReceiveAnswer \/ ReceiveEvent
    <2>1. /\ io = "recv" /\ io' = "receive"
          /\ UNCHANGED <<ctl, ws_ptr, inbox, subscribed, boot>>
      BY <1>4 DEF ReceiveAnswer, ReceiveEvent, ctlVars
    <2> QED
      BY <2>1
  <1>5. CASE ClearPointer \/ FailPending
    BY <1>5 DEF ClearPointer, FailPending, exchangeVars, ctlVars
  <1>11. CASE Stop \/ ConnectionLost
    <2>1. LeaveTryBlock /\ Alive
      BY <1>11 DEF Stop, ConnectionLost
    <2> QED
      BY <2>1 DEF LeaveTryBlock, ctlVars
  <1>6. CASE \E r \in Requests : Request(r)
    BY <1>6 DEF Request, Register, Send, TimeOut, Erase, Get, exchangeVars, ctlVars, ioVars
  <1>7. ASSUME NEW r \in Requests, Execute(r) PROVE PlaceInv'
    <2>1. UNCHANGED <<subscribed, ctlVars, ioVars>> /\ inbox' \subseteq inbox
      BY <1>7 DEF Execute
    <2>2. wire' # <<>> => Alive
      <3>1. PICK i \in Ids, type \in {"OPEN", "CANCEL"} :
                   \/ r \in inbox /\ wire' = wire \o Answer(r, TRUE) \o Report(type, i)
                   \/ r \in inbox /\ wire' = wire \o Report(type, i) \o Answer(r, TRUE)
                   \/ r \in stray /\ wire' = wire \o Report(type, i)
        BY <1>7 DEF Execute
      <3>2. subscribed \/ r \in inbox \/ wire' = wire
        BY <3>1, ExecuteSends
      <3> QED
        BY <3>2
    <2> QED
      BY <2>1, <2>2 DEF ctlVars, ioVars
  <1>8. ASSUME NEW r \in Requests, Refuse(r) PROVE PlaceInv'
    <2>1. UNCHANGED <<subscribed, ctlVars, ioVars>> /\ inbox' \subseteq inbox
      BY <1>8 DEF Refuse
    <2>2. wire' # <<>> => Alive
      BY <1>8, RefuseSends
    <2> QED
      BY <2>1, <2>2 DEF ctlVars, ioVars
  <1>9. CASE LeaveBook
    <2>1. UNCHANGED <<subscribed, ctlVars, ioVars, inbox>>
      BY <1>9 DEF LeaveBook
    <2>2. wire' # <<>> => Alive
      <3>1. PICK i \in live, type \in {"FILL", "CANCEL"} : wire' = wire \o Report(type, i)
        BY <1>9 DEF LeaveBook
      <3>2. i \in Ids
        BY DEF GateTypeOK
      <3>3. subscribed \/ wire' = wire
        BY <3>1, <3>2, LeaveSends
      <3> QED
        BY <3>3
    <2> QED
      BY <2>1, <2>2 DEF ctlVars, ioVars
  <1>10. CASE FetchBegins \/ Drain \/ ExecSubscribe \/ UNCHANGED gateVars
    BY <1>10 DEF FetchBegins, Drain, ExecSubscribe, gateVars, exchangeVars, ctlVars, ioVars
  <1> QED
    BY <1>1, <1>2, <1>3, <1>4, <1>5, <1>6, <1>7, <1>8, <1>9, <1>10, <1>11 DEF GateNext, IoStep

-----------------------------------------------------------------------------
(* Requests and their answers.                                             *)

\* Answers that say yes are about requests the exchange executed.
GoodMessages == {m \in Messages : m.kind = "answer" /\ m.ok => made[m.req] # 0}

\* A call that may still wait is either in the map of pending requests or has its
\* answer; without one it waits for the connection that is up or being torn down.
RequestInv(r) ==
  /\ rq[r] \in {"registered", "waiting"} => r \in pending \/ promise[r] # "empty"
  /\ rq[r] = "waiting" /\ promise[r] = "empty"
       => sentOn[r] = conn /\ (Alive \/ io \in {"dead", "failing"})
  /\ rq[r] = "returned" \/ promise[r] = "value" => made[r] # 0

GateInv ==
  /\ GateTypeOK
  /\ PlaceInv
  /\ wire \in Seq(GoodMessages)
  /\ \A r \in Requests : RequestInv(r)

LEMMA GoodStep ==
  ASSUME GateTypeOK, [GateNext]_gateVars
  PROVE  /\ \A r \in Requests : made[r] # 0 => made'[r] # 0
         /\ GoodMessages \subseteq GoodMessages'
  <1>1. \A r \in Requests : made[r] # 0 => made'[r] # 0
    <2>1. ASSUME NEW r \in Requests, Execute(r)
          PROVE  \A q \in Requests : made[q] # 0 => made'[q] # 0
      BY <2>1, GateAssumption DEF Execute, GateTypeOK, Ids
    <2>2. ASSUME ~\E r \in Requests : Execute(r) PROVE made' = made
      BY <2>2 DEF GateNext, IoStep, Connect, ConnectReturns, ConnectTimesOut, Disconnect,
         Join, LoopHead, FetchBalance, FetchSnapshot, PushSnapshot, PushGoesOn, FetchTicker,
         WsConnect, Login, Poll, RecvTimesOut, ReceiveAnswer, ReceiveEvent, ReceiveTicker,
         Stop, ConnectionLost, LeaveTryBlock, ClearPointer, FailPending, Goto, Request,
         Register, Send, TimeOut, Erase, Get, Refuse, FetchBegins, Drain, ExecSubscribe,
         LeaveBook, gateVars, exchangeVars
    <2> QED
      BY <2>1, <2>2
  <1> QED
    BY <1>1 DEF GoodMessages, Messages

LEMMA WireIsGood ==
  ASSUME GateTypeOK, wire \in Seq(GoodMessages), [GateNext]_gateVars
  PROVE  wire' \in Seq(GoodMessages')
  <1> DEFINE G == GoodMessages'
  <1> SUFFICES wire' \in Seq(G)
    OBVIOUS
  <1>a. wire \in Seq(G) /\ <<>> \in Seq(G)
    BY GoodStep
  <1>b. \A type \in {"OPEN", "CANCEL", "FILL"}, i \in Ids : EventOf(type, i) \in G
    BY MessagesSent DEF EventOf, GoodMessages
  <1>c. \A r \in Requests : AnswerOf(r, FALSE) \in G
    BY MessagesSent DEF AnswerOf, GoodMessages
  <1>d. \A r \in Requests : made'[r] # 0 => AnswerOf(r, TRUE) \in G
    BY MessagesSent DEF AnswerOf, GoodMessages
  <1> HIDE DEF G
  <1>e. \A m, n \in G : Append(wire, m) \in Seq(G) /\ Append(Append(wire, m), n) \in Seq(G)
    BY <1>a, AppendIs
  <1>1. ASSUME NEW r \in Requests, Execute(r) PROVE wire' \in Seq(G)
    <2>1. PICK i \in Ids, type \in {"OPEN", "CANCEL"} :
                 /\ made' = [made EXCEPT ![r] = i]
                 /\ \/ r \in inbox /\ wire' = wire \o Answer(r, TRUE) \o Report(type, i)
                    \/ r \in inbox /\ wire' = wire \o Report(type, i) \o Answer(r, TRUE)
                    \/ r \in stray /\ wire' = wire \o Report(type, i)
      BY <1>1 DEF Execute
    <2>2. made'[r] # 0
      BY <2>1, GateAssumption DEF GateTypeOK, Ids
    <2>3. AnswerOf(r, TRUE) \in G /\ EventOf(type, i) \in G
      BY <1>b, <1>d, <2>2
    <2> QED
      BY <1>a, <1>e, <2>1, <2>3, ExecuteSends, Zenon
  <1>2. ASSUME NEW r \in Requests, Refuse(r) PROVE wire' \in Seq(G)
    BY <1>a, <1>c, <1>e, <1>2, RefuseSends, Zenon
  <1>3. CASE LeaveBook
    <2>1. PICK i \in live, type \in {"FILL", "CANCEL"} : wire' = wire \o Report(type, i)
      BY <1>3 DEF LeaveBook
    <2>2. i \in Ids
      BY DEF GateTypeOK
    <2>3. EventOf(type, i) \in G
      BY <1>b, <2>2
    <2> QED
      BY <1>a, <1>e, <2>1, <2>2, <2>3, LeaveSends, Zenon
  <1>4. CASE ReceiveAnswer \/ ReceiveEvent \/ Stop \/ ConnectionLost
    <2>1. wire' = <<>> \/ (wire # <<>> /\ wire' = Tail(wire))
      BY <1>4 DEF ReceiveAnswer, ReceiveEvent, Stop, ConnectionLost, LeaveTryBlock
    <2>2. wire # <<>> => Tail(wire) \in Seq(G)
      BY <1>a
    <2> QED
      BY <1>a, <2>1, <2>2
  <1>5. CASE \/ Connect \/ ConnectReturns \/ ConnectTimesOut \/ Disconnect \/ Join
             \/ LoopHead \/ FetchBalance \/ FetchSnapshot \/ PushSnapshot \/ PushGoesOn
             \/ FetchTicker \/ WsConnect \/ Login \/ Poll \/ RecvTimesOut \/ ReceiveTicker
             \/ ClearPointer \/ FailPending
    <2>1. wire' = wire
      BY <1>5 DEF Connect, ConnectReturns, ConnectTimesOut, Disconnect, Join, LoopHead,
         FetchBalance, FetchSnapshot, PushSnapshot, PushGoesOn, FetchTicker, WsConnect,
         Login, Poll, RecvTimesOut, ReceiveTicker, ClearPointer, FailPending, Goto,
         exchangeVars
    <2> QED
      BY <1>a, <2>1
  <1>6. CASE \/ \E r \in Requests : Request(r)
             \/ FetchBegins \/ Drain \/ ExecSubscribe \/ UNCHANGED gateVars
    <2>1. wire' = wire
      BY <1>6 DEF Request, Register, Send, TimeOut, Erase, Get, FetchBegins, Drain,
         ExecSubscribe, gateVars, exchangeVars
    <2> QED
      BY <1>a, <2>1
  <1> QED
    BY <1>1, <1>2, <1>3, <1>4, <1>5, <1>6 DEF GateNext, IoStep

LEMMA RequestStep ==
  ASSUME GateInv, [GateNext]_gateVars, NEW r \in Requests
  PROVE  RequestInv(r)'
  <1> USE DEF GateInv
  <1>a. /\ RequestInv(r) /\ GateTypeOK /\ PlaceInv
        /\ made[r] # 0 => made'[r] # 0
    BY GoodStep
  <1>1. CASE \/ Connect \/ ConnectReturns \/ ConnectTimesOut \/ Disconnect \/ Join
             \/ LoopHead \/ FetchBalance \/ FetchSnapshot \/ PushSnapshot \/ PushGoesOn
             \/ FetchTicker \/ WsConnect \/ Login \/ Poll \/ RecvTimesOut \/ ReceiveEvent
             \/ ReceiveTicker \/ Stop \/ ConnectionLost \/ ClearPointer
             \/ FetchBegins \/ Drain \/ ExecSubscribe \/ LeaveBook \/ UNCHANGED gateVars
    <2>1. UNCHANGED requestVars
      BY <1>1 DEF Connect, ConnectReturns, ConnectTimesOut, Disconnect, Join, LoopHead,
         FetchBalance, FetchSnapshot, PushSnapshot, PushGoesOn, FetchTicker, WsConnect,
         Login, Poll, RecvTimesOut, ReceiveEvent, ReceiveTicker, Stop, ConnectionLost,
         LeaveTryBlock, ClearPointer, Goto, FetchBegins, Drain, ExecSubscribe, LeaveBook,
         gateVars
    <2>2. Alive \/ io \in {"dead", "failing"}
            => conn' = conn /\ (Alive' \/ io' \in {"dead", "failing"})
      <3> SUFFICES ASSUME Alive \/ io \in {"dead", "failing"}
                   PROVE  conn' = conn /\ (Alive' \/ io' \in {"dead", "failing"})
        OBVIOUS
      <3> USE DEF Alive
      <3>1. ~Connect /\ ~LoopHead /\ ~FetchBalance /\ ~FetchSnapshot /\ ~FetchTicker
              /\ ~WsConnect
        BY DEF Connect, LoopHead, FetchBalance, FetchSnapshot, FetchTicker, WsConnect, PlaceInv
      <3>2. CASE \/ ConnectReturns \/ ConnectTimesOut \/ Disconnect \/ Join \/ PushSnapshot
                 \/ PushGoesOn \/ FetchBegins \/ Drain \/ ExecSubscribe \/ LeaveBook
                 \/ UNCHANGED gateVars
        <4>1. UNCHANGED <<io, conn>>
          BY <3>2 DEF ConnectReturns, ConnectTimesOut, Disconnect, Join, PushSnapshot,
             PushGoesOn, FetchBegins, Drain, ExecSubscribe, LeaveBook, gateVars, ioVars
        <4> QED
          BY <4>1
      <3>3. CASE \/ Login \/ Poll \/ RecvTimesOut \/ ReceiveEvent \/ ReceiveTicker \/ Stop
                 \/ ConnectionLost \/ ClearPointer
        <4>1. conn' = conn /\ io' \in {"receive", "recv", "dead", "failing"}
          BY <3>3 DEF Login, Poll, RecvTimesOut, ReceiveEvent, ReceiveTicker, Stop,
             ConnectionLost, LeaveTryBlock, ClearPointer, Goto
        <4> QED
          BY <4>1
      <3> QED
        BY <1>1, <3>1, <3>2, <3>3
    <2> QED
      BY <1>a, <2>1, <2>2 DEF RequestInv, requestVars
  <1>2. CASE ReceiveAnswer
    <2>1. /\ UNCHANGED <<rq, sentOn, conn, made>> /\ io' = "receive"
          /\ pending' = pending \ {Head(wire).req}
          /\ promise' = Fulfil(Head(wire).req, Head(wire).ok)
          /\ wire # <<>> /\ Head(wire).kind = "answer"
      BY <1>2 DEF ReceiveAnswer
    <2>2. Head(wire).ok => made[Head(wire).req] # 0
      <3>1. Head(wire) \in GoodMessages
        BY <2>1
      <3> QED
        BY <2>1, <3>1 DEF GoodMessages
    <2>3. CASE r = Head(wire).req /\ r \in pending
      <3>1. promise'[r] = IF Head(wire).ok THEN "value" ELSE "error"
        BY <2>1, <2>3, <1>a DEF Fulfil, GateTypeOK
      <3> QED
        BY <1>a, <2>1, <2>2, <2>3, <3>1 DEF RequestInv
    <2>4. CASE ~(r = Head(wire).req /\ r \in pending)
      <3>1. promise'[r] = promise[r] /\ (r \in pending => r \in pending')
        BY <2>1, <2>4, <1>a DEF Fulfil, GateTypeOK
      <3> QED
        BY <1>a, <2>1, <3>1 DEF RequestInv, Alive
    <2> QED
      BY <2>3, <2>4
  <1>3. CASE FailPending
    <2>1. /\ UNCHANGED <<rq, sentOn, conn, made>> /\ io = "failing"
          /\ promise'[r] = IF r \in pending THEN "error" ELSE promise[r]
      BY <1>3 DEF FailPending, exchangeVars
    <2>2. rq'[r] \in {"registered", "waiting"} => promise'[r] # "empty"
      BY <1>a, <2>1 DEF RequestInv
    <2> QED
      BY <1>a, <2>1, <2>2 DEF RequestInv
  <1>4. ASSUME NEW q \in Requests, Request(q) PROVE RequestInv(r)'
    <2>1. UNCHANGED <<conn, io, promise, made>>
      BY <1>4 DEF Request, Register, Send, TimeOut, Erase, Get, exchangeVars, ioVars
    <2>2. CASE q # r
      <3>1. rq'[r] = rq[r] /\ sentOn'[r] = sentOn[r] /\ (r \in pending => r \in pending')
        BY <1>4, <1>a, <2>2 DEF Request, Register, Send, TimeOut, Erase, Get, GateTypeOK
      <3> QED
        BY <1>a, <2>1, <3>1 DEF RequestInv, Alive
    <2>3. CASE q = r
      <3>1. CASE Register(r)
        BY <1>a, <2>1, <3>1 DEF Register, RequestInv, GateTypeOK
      <3>2. CASE Send(r)
        <4>1. rq'[r] \in {"waiting", "raised", "erasing"} /\ pending' = pending
                /\ rq[r] = "registered"
          BY <1>a, <3>2 DEF Send, GateTypeOK
        <4>2. rq'[r] = "waiting" => ws_ptr /\ sentOn'[r] = conn
          BY <1>a, <3>2 DEF Send, GateTypeOK
        <4> QED
          BY <1>a, <2>1, <4>1, <4>2 DEF RequestInv, PlaceInv, Alive
      <3>3. CASE TimeOut(r) \/ Erase(r)
        BY <1>a, <2>1, <3>3 DEF TimeOut, Erase, RequestInv, GateTypeOK
      <3>4. CASE Get(r)
        BY <1>a, <2>1, <3>4 DEF Get, RequestInv, GateTypeOK
      <3> QED
        BY <1>4, <2>3, <3>1, <3>2, <3>3, <3>4 DEF Request
    <2> QED
      BY <2>2, <2>3
  <1>5. ASSUME NEW q \in Requests, Execute(q) \/ Refuse(q) PROVE RequestInv(r)'
    <2>1. UNCHANGED <<ioVars, requestVars>>
      BY <1>5 DEF Execute, Refuse
    <2> QED
      BY <1>a, <2>1 DEF RequestInv, ioVars, requestVars, Alive
  <1> QED
    BY <1>1, <1>2, <1>3, <1>4, <1>5 DEF GateNext, IoStep

LEMMA GateInvariant == GateSpec => []GateInv
  <1>1. GateInit => GateInv
    <2> SUFFICES ASSUME GateInit PROVE GateInv
      OBVIOUS
    <2>1. wire \in Seq(GoodMessages)
      <3>1. wire = <<>>
        BY DEF GateInit
      <3> QED
        BY <3>1
    <2>2. \A r \in Requests : RequestInv(r)
      BY DEF GateInit, RequestInv
    <2> QED
      BY <2>1, <2>2, GateInitTypes DEF GateInv
  <1>2. GateInv /\ [GateNext]_gateVars => GateInv'
    <2> SUFFICES ASSUME GateInv, [GateNext]_gateVars PROVE GateInv'
      OBVIOUS
    <2>1. GateTypeOK' /\ PlaceInv' /\ wire' \in Seq(GoodMessages')
      BY GateTypeStep, PlaceStep, WireIsGood DEF GateInv
    <2>2. \A r \in Requests : RequestInv(r)'
      BY RequestStep
    <2> QED
      BY <2>1, <2>2 DEF GateInv
  <1> QED
    BY <1>1, <1>2, PTL DEF GateSpec

\* No caller goes on waiting for a connection that is gone and torn down, however its
\* registration, its sending, the answer and the teardown interleave.
THEOREM GoneRequestsAreFailed == GateSpec => []GoneRequestsFail
  <1>1. GateInv => GoneRequestsFail
    <2> SUFFICES ASSUME GateInv, NEW r \in Requests, rq[r] = "waiting", Gone(r),
                        promise[r] = "empty"
                 PROVE  FALSE
      BY DEF GoneRequestsFail
    <2>1. sentOn[r] = conn /\ (Alive \/ io \in {"dead", "failing"}) /\ conn \in Nat
      BY DEF GateInv, RequestInv, GateTypeOK
    <2> QED
      BY <2>1 DEF Gone
  <1> QED
    BY <1>1, GateInvariant, PTL

\* A call that returns normally was executed by the exchange.
THEOREM ReturnedRequestsWereMade == GateSpec => []ReturnedMeansMade
  <1>1. GateInv => ReturnedMeansMade
    BY DEF GateInv, RequestInv, ReturnedMeansMade
  <1> QED
    BY <1>1, GateInvariant, PTL

-----------------------------------------------------------------------------
(* The queue.                                                              *)

\* The connector's threads use the event queue as its two threads may: io_loop alone pushes
\* and poll_events alone pops, through every connection, teardown and reconnection.
THEOREM ConnectorKeepsTheQueue == GateSpec => QueueSpec
  <1>1. GateInit => QueueInit
    BY DEF GateInit
  <1>2. GateInv /\ [GateNext]_gateVars => [QueueNext]_queueVars
    BY ConnectorUsesQueue DEF GateInv
  <1> QED
    BY <1>1, <1>2, GateInvariant, PTL DEF GateSpec, QueueSpec

\* try_push and try_pop inside the connector: no slot is written while it is read, and the
\* events come out as they went in, whatever the connection does meanwhile.
THEOREM ConnectorQueueIsFifo == GateSpec => []SlotsDisjoint /\ ImplementsFifo
  BY ConnectorKeepsTheQueue, SlotsStayDisjoint, RingIsFifo, PTL

-----------------------------------------------------------------------------
(* The book: what fetch_open_orders will know once what is under way has   *)
(* arrived.                                                                *)

\* The last of the messages s that is about an order (in About) says whether it is open
\* (in Opening); without one it stays as known.
Latest(s, About, Opening, known) ==
  IF \E k \in DOMAIN s : s[k] \in About
    THEN \E k \in DOMAIN s : s[k] \in Opening /\ \A l \in DOMAIN s : k < l => s[l] \notin About
    ELSE known

\* The same for one message.
Updated(x, About, Opening, known) == IF x \in About THEN x \in Opening ELSE known

LEMMA LatestOfNone ==
  ASSUME NEW About, NEW Opening, NEW known \in BOOLEAN
  PROVE  Latest(<<>>, About, Opening, known) <=> known
  BY DEF Latest

LEMMA LatestIsBoolean ==
  ASSUME NEW s, NEW About, NEW Opening, NEW known \in BOOLEAN
  PROVE  Latest(s, About, Opening, known) \in BOOLEAN
  BY DEF Latest

LEMMA UpdatedIsBoolean ==
  ASSUME NEW x, NEW About, NEW Opening, NEW known \in BOOLEAN
  PROVE  Updated(x, About, Opening, known) \in BOOLEAN
  <1>1. CASE x \in About
    <2>1. (x \in Opening) \in BOOLEAN
      OBVIOUS
    <2> QED
      BY <1>1, <2>1, Zenon DEF Updated
  <1>2. CASE x \notin About
    BY <1>2 DEF Updated
  <1> QED
    BY <1>1, <1>2

LEMMA LatestOfAppend ==
  ASSUME NEW S, NEW s \in Seq(S), NEW x \in S, NEW About, NEW Opening \in SUBSET About,
         NEW known \in BOOLEAN
  PROVE  Latest(Append(s, x), About, Opening, known)
           <=> Updated(x, About, Opening, Latest(s, About, Opening, known))
  <1> DEFINE t == Append(s, x)
             n == Len(s)
  <1>1. /\ n \in Nat /\ DOMAIN s = 1 .. n /\ DOMAIN t = 1 .. n + 1
        /\ t[n + 1] = x /\ \A k \in 1 .. n : t[k] = s[k]
    OBVIOUS
  <1> SUFFICES Latest(t, About, Opening, known)
                 <=> Updated(x, About, Opening, Latest(s, About, Opening, known))
    OBVIOUS
  <1> HIDE DEF t, n
  <1>2. CASE x \in About
    <2>1. \E k \in DOMAIN t : t[k] \in About
      BY <1>1, <1>2
    <2>2. ASSUME NEW k \in DOMAIN t, t[k] \in Opening, \A l \in DOMAIN t : k < l => t[l] \notin About
          PROVE  x \in Opening
      <3>1. k = n + 1
        BY <1>1, <1>2, <2>2
      <3> QED
        BY <1>1, <2>2, <3>1
    <2>3. ASSUME x \in Opening
          PROVE  \E k \in DOMAIN t : t[k] \in Opening /\ \A l \in DOMAIN t : k < l => t[l] \notin About
      BY <1>1, <2>3
    <2>4. (\E k \in DOMAIN t : t[k] \in Opening /\ \A l \in DOMAIN t : k < l => t[l] \notin About)
            <=> x \in Opening
      BY <2>2, <2>3
    <2> QED
      BY <1>2, <2>1, <2>4 DEF Latest, Updated
  <1>3. CASE x \notin About
    <2>1. (\E k \in DOMAIN t : t[k] \in About) <=> (\E k \in DOMAIN s : s[k] \in About)
      BY <1>1, <1>3
    <2>2. (\E k \in DOMAIN t : t[k] \in Opening /\ \A l \in DOMAIN t : k < l => t[l] \notin About)
            <=> (\E k \in DOMAIN s : s[k] \in Opening /\ \A l \in DOMAIN s : k < l => s[l] \notin About)
      <3>1. ASSUME NEW k \in DOMAIN t, t[k] \in Opening, \A l \in DOMAIN t : k < l => t[l] \notin About
            PROVE  k \in DOMAIN s /\ s[k] \in Opening /\ \A l \in DOMAIN s : k < l => s[l] \notin About
        BY <1>1, <1>3, <3>1
      <3>2. ASSUME NEW k \in DOMAIN s, s[k] \in Opening, \A l \in DOMAIN s : k < l => s[l] \notin About
            PROVE  k \in DOMAIN t /\ t[k] \in Opening /\ \A l \in DOMAIN t : k < l => t[l] \notin About
        BY <1>1, <1>3, <3>2
      <3> QED
        BY <3>1, <3>2
    <2> QED
      BY <1>3, <2>1, <2>2 DEF Latest, Updated
  <1> QED
    BY <1>2, <1>3

LEMMA LatestOfTail ==
  ASSUME NEW S, NEW s \in Seq(S), s # <<>>, NEW About, NEW Opening \in SUBSET About,
         NEW known \in BOOLEAN
  PROVE  Latest(s, About, Opening, known)
           <=> Latest(Tail(s), About, Opening, Updated(Head(s), About, Opening, known))
  <1> DEFINE t == Tail(s)
             n == Len(s)
             h == Head(s)
  <1>1. /\ n \in Nat /\ n > 0 /\ DOMAIN s = 1 .. n /\ DOMAIN t = 1 .. n - 1
        /\ s[1] = h /\ \A k \in 1 .. n - 1 : t[k] = s[k + 1]
    OBVIOUS
  <1>a. \A k \in 2 .. n : k - 1 \in 1 .. n - 1 /\ s[k] = t[k - 1]
    BY <1>1
  <1> SUFFICES Latest(s, About, Opening, known)
                 <=> Latest(t, About, Opening, Updated(h, About, Opening, known))
    OBVIOUS
  <1> HIDE DEF t, n, h
  <1>2. CASE \E k \in DOMAIN t : t[k] \in About
    <2>1. PICK m \in 1 .. n - 1 : t[m] \in About
      BY <1>1, <1>2
    <2>2. m + 1 \in DOMAIN s /\ s[m + 1] \in About /\ 1 < m + 1
      BY <1>1, <2>1
    <2>3. ASSUME NEW k \in DOMAIN s, s[k] \in Opening, \A l \in DOMAIN s : k < l => s[l] \notin About
          PROVE  \E j \in DOMAIN t : t[j] \in Opening /\ \A l \in DOMAIN t : j < l => t[l] \notin About
      <3>1. k # 1
        BY <2>2, <2>3
      <3>2. k \in 2 .. n
        BY <1>1, <3>1
      <3>3. \A l \in 1 .. n - 1 : k - 1 < l => l + 1 \in DOMAIN s /\ k < l + 1
        BY <1>1, <3>2
      <3>4. \A l \in DOMAIN t : k - 1 < l => t[l] \notin About
        BY <1>1, <2>3, <3>3
      <3>5. k - 1 \in DOMAIN t /\ t[k - 1] \in Opening
        BY <1>1, <1>a, <2>3, <3>2
      <3> QED
        BY <3>4, <3>5
    <2>4. ASSUME NEW k \in DOMAIN t, t[k] \in Opening, \A l \in DOMAIN t : k < l => t[l] \notin About
          PROVE  \E j \in DOMAIN s : s[j] \in Opening /\ \A l \in DOMAIN s : j < l => s[l] \notin About
      <3>1. k + 1 \in DOMAIN s /\ s[k + 1] \in Opening
        BY <1>1, <2>4
      <3>2. \A l \in DOMAIN s : k + 1 < l => l \in 2 .. n /\ k < l - 1
        BY <1>1, <2>4
      <3>3. \A l \in DOMAIN s : k + 1 < l => s[l] \notin About
        BY <1>1, <1>a, <2>4, <3>2
      <3> QED
        BY <3>1, <3>3
    <2> QED
      BY <1>2, <2>2, <2>3, <2>4 DEF Latest
  <1>3. CASE ~\E k \in DOMAIN t : t[k] \in About
    <2>1. \A k \in 2 .. n : s[k] \notin About
      BY <1>1, <1>a, <1>3
    <2>2. (\E k \in DOMAIN s : s[k] \in About) <=> h \in About
      BY <1>1, <2>1
    <2>3. (\E k \in DOMAIN s : s[k] \in Opening /\ \A l \in DOMAIN s : k < l => s[l] \notin About)
            <=> h \in Opening
      <3>1. ASSUME h \in Opening
            PROVE  1 \in DOMAIN s /\ s[1] \in Opening /\ \A l \in DOMAIN s : 1 < l => s[l] \notin About
        BY <1>1, <2>1, <3>1
      <3>2. ASSUME NEW k \in DOMAIN s, s[k] \in Opening PROVE h \in Opening
        BY <1>1, <2>1, <3>2
      <3> QED
        BY <3>1, <3>2
    <2>4. Latest(t, About, Opening, Updated(h, About, Opening, known))
            <=> IF h \in About THEN h \in Opening ELSE known
      BY <1>3 DEF Latest, Updated
    <2> QED
      BY <2>2, <2>3, <2>4 DEF Latest
  <1> QED
    BY <1>2, <1>3

LEMMA LatestOfSame ==
  ASSUME NEW s, NEW About, NEW Opening, NEW known \in BOOLEAN, NEW known2 \in BOOLEAN,
         known <=> known2
  PROVE  Latest(s, About, Opening, known) <=> Latest(s, About, Opening, known2)
  BY DEF Latest

EventsAbout(i)     == {e \in Events : e.id = i}
OpeningEvents(i)   == {e \in EventsAbout(i) : e.type = "OPEN"}
MessagesAbout(i)   == {m \in Messages : m.kind = "event" /\ m.event.id = i}
OpeningMessages(i) == {m \in MessagesAbout(i) : m.event.type = "OPEN"}

\* The queue, with the event being pushed.
Queued == IF ppc = "idle" THEN Held ELSE Append(Held, item)

\* What fetch_open_orders will know of order i once the queue is empty, and once the
\* rest of the snapshot and the messages have gone through it too.
Drained(i)  == Latest(Queued, EventsAbout(i), OpeningEvents(i), i \in orders)
Foreseen(i) == Latest(wire, MessagesAbout(i), OpeningMessages(i), Drained(i) \/ i \in boot)

BookInv(i) == i \in unseen \/ (Foreseen(i) <=> i \in live)

LEMMA QueuedType == GateTypeOK => Held \in Seq(Events) /\ item \in Events /\ Queued \in Seq(Events)
  <1> SUFFICES ASSUME GateTypeOK
               PROVE  Held \in Seq(Events) /\ item \in Events /\ Queued \in Seq(Events)
    OBVIOUS
  <1>1. Held \in Seq(Events) /\ item \in Events
    BY HeldIs, GateAssumption DEF GateTypeOK, QueueInv, QueueTypeOK
  <1>2. Append(Held, item) \in Seq(Events)
    BY <1>1, AppendIs
  <1> QED
    BY <1>1, <1>2 DEF Queued

LEMMA PushQueues ==
  ASSUME GateTypeOK, NEW e \in Events, PushStarts(e)
  PROVE  Queued' = Append(Queued, e)
  <1>1. Held' = Held
    BY OtherSteps, GateAssumption DEF GateTypeOK
  <1>2. ppc = "idle" /\ ppc' = "write" /\ item' = e
    BY DEF PushStarts
  <1> QED
    BY <1>1, <1>2 DEF Queued

LEMMA OthersKeepQueued ==
  ASSUME GateTypeOK,
         \/ PushFull \/ PushWrites \/ PushPublishes
         \/ PopStarts \/ PopEmpty \/ PopReads \/ UNCHANGED queueVars
  PROVE  Queued' = Queued
  <1>1. CASE PushPublishes
    <2>1. Held' = Append(Held, item)
      BY <1>1, PublishAppends DEF Fifo!Push, GateTypeOK
    <2> QED
      BY <1>1, <2>1 DEF PushPublishes, Queued
  <1>2. CASE PushWrites
    <2>1. Held' = Held
      BY <1>2, WriteUnseen DEF GateTypeOK
    <2> QED
      BY <1>2, <2>1 DEF PushWrites, Queued
  <1>3. CASE PushFull \/ PopStarts \/ PopEmpty \/ PopReads \/ UNCHANGED queueVars
    <2>1. Held' = Held
      BY <1>3, OtherSteps DEF GateTypeOK
    <2>2. ppc' = ppc /\ item' = item
      BY <1>3 DEF PushFull, PopStarts, PopEmpty, PopReads, queueVars, producerVars
    <2> QED
      BY <2>1, <2>2 DEF Queued
  <1> QED
    BY <1>1, <1>2, <1>3

LEMMA AppendThenTail ==
  ASSUME NEW S, NEW s \in Seq(S), s # <<>>, NEW x \in S
  PROVE  /\ Append(s, x) # <<>>
         /\ Head(Append(s, x)) = Head(s)
         /\ Tail(Append(s, x)) = Append(Tail(s), x)
  OBVIOUS

LEMMA PopUnqueues ==
  ASSUME GateTypeOK, PopReleases
  PROVE  Queued # <<>> /\ Queued' = Tail(Queued) /\ copy = Head(Queued)
  <1>1. Held # <<>> /\ Held' = Tail(Held) /\ copy = Head(Held)
    BY ReleaseTakes DEF Fifo!Pop, GateTypeOK, PopReleases
  <1>2. ppc' = ppc /\ item' = item
    BY DEF PopReleases, producerVars
  <1>3. /\ Append(Held, item) # <<>>
        /\ Head(Append(Held, item)) = Head(Held)
        /\ Tail(Append(Held, item)) = Append(Tail(Held), item)
    BY <1>1, QueuedType, AppendThenTail
  <1> QED
    BY <1>1, <1>2, <1>3 DEF Queued

LEMMA PushForeseen ==
  ASSUME GateTypeOK, NEW e \in Events, PushStarts(e), orders' = orders, NEW i \in 0 .. MaxId
  PROVE  Drained(i)' <=> IF e.id = i THEN e.type = "OPEN" ELSE Drained(i)
  <1> DEFINE known == i \in orders
             A == EventsAbout(i)
             O == OpeningEvents(i)
             q == Queued
  <1>1. q \in Seq(Events) /\ Queued' = Append(q, e)
    BY QueuedType, PushQueues
  <1>2. O \in SUBSET A /\ known \in BOOLEAN
    BY DEF OpeningEvents
  <1>3. (e \in A <=> e.id = i) /\ (e \in A => (e \in O <=> e.type = "OPEN"))
    BY DEF EventsAbout, OpeningEvents
  <1>4. (Drained(i) <=> Latest(q, A, O, known)) /\ (Drained(i)' <=> Latest(Queued', A, O, known))
    BY DEF Drained, EventsAbout, OpeningEvents
  <1> HIDE DEF q, A, O, known
  <1>5. Latest(Append(q, e), A, O, known) <=> Updated(e, A, O, Latest(q, A, O, known))
    BY <1>1, <1>2, LatestOfAppend
  <1> QED
    BY <1>1, <1>3, <1>4, <1>5 DEF Updated

LEMMA OthersKeepDrained ==
  ASSUME GateTypeOK, Queued' = Queued, orders' = orders, NEW i \in 0 .. MaxId
  PROVE  Drained(i)' <=> Drained(i)
  BY DEF Drained, EventsAbout, OpeningEvents

LEMMA PopKeepsDrained ==
  ASSUME GateTypeOK, PopReleases, orders' = Applied(orders, copy), NEW i \in 0 .. MaxId
  PROVE  Drained(i)' <=> Drained(i)
  <1> DEFINE known == i \in orders
             A == EventsAbout(i)
             O == OpeningEvents(i)
             q == Queued
             later == i \in orders'
  <1>1. q \in Seq(Events) /\ q # <<>> /\ Queued' = Tail(q) /\ copy = Head(q) /\ copy \in Events
    BY QueuedType, PopUnqueues, GateAssumption DEF GateTypeOK, QueueInv, QueueTypeOK
  <1>2. O \in SUBSET A /\ known \in BOOLEAN /\ later \in BOOLEAN
    BY DEF OpeningEvents
  <1>3. (copy \in A <=> copy.id = i) /\ (copy \in A => (copy \in O <=> copy.type = "OPEN"))
    BY <1>1 DEF EventsAbout, OpeningEvents
  <1>4. later <=> IF copy.id = i THEN copy.type = "OPEN" ELSE known
    BY DEF Applied
  <1>5. (Drained(i) <=> Latest(q, A, O, known)) /\ (Drained(i)' <=> Latest(Queued', A, O, later))
    BY DEF Drained, EventsAbout, OpeningEvents
  <1> DEFINE k == Updated(copy, A, O, known)
  <1> HIDE DEF q, A, O, known, later
  <1>6. k \in BOOLEAN /\ (k <=> later)
    <2>1. k <=> IF copy \in A THEN copy \in O ELSE known
      BY DEF Updated
    <2>2. k \in BOOLEAN
      BY <1>2, UpdatedIsBoolean
    <2> HIDE DEF k
    <2> QED
      BY <1>3, <1>4, <2>1, <2>2
  <1> HIDE DEF k
  <1>7. Latest(q, A, O, known) <=> Latest(Tail(q), A, O, k)
    BY <1>1, <1>2, LatestOfTail DEF k
  <1>8. Latest(Tail(q), A, O, k) <=> Latest(Tail(q), A, O, later)
    BY <1>2, <1>6, LatestOfSame
  <1> QED
    BY <1>1, <1>5, <1>7, <1>8

-----------------------------------------------------------------------------
(* The messages under way.                                                 *)

\* Only an event says something about an order, and only about its own.
LEMMA WhatMessagesSay ==
  ASSUME GateTypeOK, NEW i \in 0 .. MaxId, NEW m \in Messages, NEW known
  PROVE  Updated(m, MessagesAbout(i), OpeningMessages(i), known)
           <=> IF m.kind = "event" /\ m.event.id = i THEN m.event.type = "OPEN" ELSE known
  BY DEF Updated, MessagesAbout, OpeningMessages

\* What is known before the messages under way arrive.
Known(i) == Drained(i) \/ i \in boot

LEMMA ForeseenIs ==
  ASSUME NEW i
  PROVE  /\ Foreseen(i) <=> Latest(wire, MessagesAbout(i), OpeningMessages(i), Known(i))
         /\ Foreseen(i)' <=> Latest(wire', MessagesAbout(i), OpeningMessages(i), Known(i)')
         /\ OpeningMessages(i) \in SUBSET MessagesAbout(i)
         /\ Known(i) \in BOOLEAN /\ Known(i)' \in BOOLEAN
  BY DEF Foreseen, Known, OpeningMessages, MessagesAbout, Messages

LEMMA WireKept ==
  ASSUME GateTypeOK, NEW i \in 0 .. MaxId, Known(i)' <=> Known(i), wire' = wire
  PROVE  Foreseen(i)' <=> Foreseen(i)
  <1> DEFINE A == MessagesAbout(i)
             O == OpeningMessages(i)
             k == Known(i)
             l == Known(i)'
  <1>1. (Foreseen(i) <=> Latest(wire, A, O, k)) /\ (Foreseen(i)' <=> Latest(wire', A, O, l))
          /\ k \in BOOLEAN /\ l \in BOOLEAN
    BY ForeseenIs
  <1> HIDE DEF A, O, k, l
  <1>2. l <=> k
    BY DEF k, l
  <1>3. Latest(wire, A, O, k) <=> Latest(wire, A, O, l)
    BY <1>1, <1>2, LatestOfSame
  <1> QED
    BY <1>1, <1>3

LEMMA WireGrows ==
  ASSUME GateTypeOK, NEW i \in 0 .. MaxId, Known(i)' <=> Known(i),
         NEW m \in Messages, wire' = Append(wire, m)
  PROVE  Foreseen(i)'
           <=> IF m.kind = "event" /\ m.event.id = i THEN m.event.type = "OPEN" ELSE Foreseen(i)
  <1> DEFINE A == MessagesAbout(i)
             O == OpeningMessages(i)
             k == Known(i)
             l == Known(i)'
             f == Latest(wire, A, O, k)
             g == Updated(m, A, O, f)
  <1>1. (Foreseen(i) <=> f) /\ (Foreseen(i)' <=> Latest(wire', A, O, l))
          /\ O \in SUBSET A /\ k \in BOOLEAN /\ l \in BOOLEAN /\ wire \in Seq(Messages)
    BY ForeseenIs DEF GateTypeOK
  <1>2. g <=> IF m.kind = "event" /\ m.event.id = i THEN m.event.type = "OPEN" ELSE f
    BY WhatMessagesSay
  <1> HIDE DEF A, O, k, l
  <1>3. l <=> k
    BY DEF k, l
  <1>4. Latest(Append(wire, m), A, O, k) <=> g
    BY <1>1, LatestOfAppend
  <1>5. Latest(wire', A, O, k) <=> Latest(wire', A, O, l)
    BY <1>1, <1>3, LatestOfSame
  <1> HIDE DEF f, g
  <1> QED
    BY <1>1, <1>2, <1>4, <1>5

LEMMA WireGrowsTwice ==
  ASSUME GateTypeOK, NEW i \in 0 .. MaxId, Known(i)' <=> Known(i),
         NEW m \in Messages, NEW n \in Messages, wire' = Append(Append(wire, m), n)
  PROVE  Foreseen(i)'
           <=> IF n.kind = "event" /\ n.event.id = i THEN n.event.type = "OPEN"
               ELSE IF m.kind = "event" /\ m.event.id = i THEN m.event.type = "OPEN"
               ELSE Foreseen(i)
  <1> DEFINE A == MessagesAbout(i)
             O == OpeningMessages(i)
             k == Known(i)
             l == Known(i)'
             f == Latest(wire, A, O, k)
             g == Updated(m, A, O, f)
             h == Updated(n, A, O, g)
             w == Append(wire, m)
  <1>1. (Foreseen(i) <=> f) /\ (Foreseen(i)' <=> Latest(wire', A, O, l))
          /\ O \in SUBSET A /\ k \in BOOLEAN /\ l \in BOOLEAN /\ wire \in Seq(Messages)
    BY ForeseenIs DEF GateTypeOK
  <1>2. g <=> IF m.kind = "event" /\ m.event.id = i THEN m.event.type = "OPEN" ELSE f
    BY WhatMessagesSay
  <1>3. h <=> IF n.kind = "event" /\ n.event.id = i THEN n.event.type = "OPEN" ELSE g
    BY WhatMessagesSay
  <1>4. w \in Seq(Messages)
    BY <1>1, AppendIs
  <1> HIDE DEF A, O, k, l
  <1>5. Latest(w, A, O, k) <=> g
    BY <1>1, LatestOfAppend
  <1>6. Latest(Append(w, n), A, O, k) <=> Updated(n, A, O, Latest(w, A, O, k))
    <2> HIDE DEF w
    <2> QED
      BY <1>1, <1>4, LatestOfAppend
  <1>7. Updated(n, A, O, Latest(w, A, O, k)) <=> h
    BY <1>5 DEF Updated
  <1>8. Latest(wire', A, O, k) <=> Latest(wire', A, O, l)
    <2>1. l <=> k
      BY DEF k, l
    <2> QED
      BY <1>1, <2>1, LatestOfSame
  <1>9. wire' = Append(w, n)
    OBVIOUS
  <1> HIDE DEF f, g, h, w
  <1> QED
    BY <1>1, <1>2, <1>3, <1>6, <1>7, <1>8, <1>9

LEMMA WireShrinks ==
  ASSUME GateTypeOK, NEW i \in 0 .. MaxId, wire # <<>>, wire' = Tail(wire),
         LET m == Head(wire)
         IN  Known(i)' <=> IF m.kind = "event" /\ m.event.id = i THEN m.event.type = "OPEN"
                           ELSE Known(i)
  PROVE  Foreseen(i)' <=> Foreseen(i)
  <1> DEFINE A == MessagesAbout(i)
             O == OpeningMessages(i)
             k == Known(i)
             l == Known(i)'
             m == Head(wire)
             g == Updated(m, A, O, k)
             t == Tail(wire)
  <1>1. (Foreseen(i) <=> Latest(wire, A, O, k)) /\ (Foreseen(i)' <=> Latest(wire', A, O, l))
          /\ O \in SUBSET A /\ k \in BOOLEAN /\ l \in BOOLEAN /\ wire \in Seq(Messages)
    BY ForeseenIs DEF GateTypeOK
  <1>2. m \in Messages
    BY <1>1
  <1>3. g <=> IF m.kind = "event" /\ m.event.id = i THEN m.event.type = "OPEN" ELSE k
    BY <1>2, WhatMessagesSay
  <1>4. l <=> g
    BY <1>3
  <1>5. g \in BOOLEAN
    BY <1>1, UpdatedIsBoolean
  <1> HIDE DEF A, O, k, l
  <1>6. Latest(wire, A, O, k) <=> Latest(t, A, O, g)
    BY <1>1, LatestOfTail
  <1> HIDE DEF g
  <1>7. Latest(t, A, O, g) <=> Latest(t, A, O, l)
    BY <1>1, <1>4, <1>5, LatestOfSame
  <1>8. wire' = t
    OBVIOUS
  <1> HIDE DEF t
  <1> QED
    BY <1>1, <1>6, <1>7, <1>8

-----------------------------------------------------------------------------
(* What each step does to it.                                              *)

\* What the exchange changes it tells of, or nobody will know.
LEMMA ExchangeSteps ==
  ASSUME GateInv, NEW i \in 0 .. MaxId, BookInv(i),
         UNCHANGED <<ioVars, fetchVars, queueVars>>
  PROVE  (\E r \in Requests : Execute(r) \/ Refuse(r)) \/ LeaveBook => BookInv(i)'
  <1>a. GateTypeOK
    BY DEF GateInv
  <1>b. Known(i)' <=> Known(i)
    <2>1. Drained(i)' <=> Drained(i)
      BY <1>a, OthersKeepQueued, OthersKeepDrained DEF fetchVars
    <2> QED
      BY <2>1 DEF Known, ioVars
  <1>1. ASSUME NEW r \in Requests, Execute(r) PROVE BookInv(i)'
    <2>1. PICK j \in Ids, type \in {"OPEN", "CANCEL"} :
            /\ \/ type = "OPEN" /\ live' = live \cup {j}
               \/ type = "CANCEL" /\ live' = live \ {j}
            /\ Told(j)
            /\ \/ r \in inbox /\ wire' = wire \o Answer(r, TRUE) \o Report(type, j)
               \/ r \in inbox /\ wire' = wire \o Report(type, j) \o Answer(r, TRUE)
               \/ r \in stray /\ wire' = wire \o Report(type, j)
      BY <1>1 DEF Execute
    <2> DEFINE a == AnswerOf(r, TRUE)
               e == EventOf(type, j)
    <2>2. /\ a \in Messages /\ e \in Messages
          /\ subscribed => \/ wire' = Append(Append(wire, a), e)
                           \/ wire' = Append(Append(wire, e), a)
                           \/ wire' = Append(wire, e)
          /\ ~subscribed => wire' = wire \/ wire' = Append(wire, a)
      BY <1>a, <2>1, ExecuteSends
    <2>3. a.kind = "answer" /\ e.kind = "event" /\ e.event.id = j /\ e.event.type = type
      BY DEF AnswerOf, EventOf
    <2>4. (i \in live' <=> IF i = j THEN type = "OPEN" ELSE i \in live)
      BY <2>1
    <2> HIDE DEF a, e
    <2>5. CASE subscribed
      <3>1. Foreseen(i)' <=> IF i = j THEN type = "OPEN" ELSE Foreseen(i)
        <4>1. CASE wire' = Append(Append(wire, a), e)
          BY <1>a, <1>b, <2>2, <2>3, <4>1, WireGrowsTwice
        <4>2. CASE wire' = Append(Append(wire, e), a)
          BY <1>a, <1>b, <2>2, <2>3, <4>2, WireGrowsTwice
        <4>3. CASE wire' = Append(wire, e)
          BY <1>a, <1>b, <2>2, <2>3, <4>3, WireGrows
        <4> QED
          BY <2>2, <2>5, <4>1, <4>2, <4>3
      <3>2. i # j => (i \in unseen <=> i \in unseen')
        BY <2>1, <2>5 DEF Told
      <3> QED
        BY <2>4, <3>1, <3>2 DEF BookInv
    <2>6. CASE ~subscribed
      <3>1. Foreseen(i)' <=> Foreseen(i)
        <4>1. CASE wire' = wire
          BY <1>a, <1>b, <4>1, WireKept
        <4>2. CASE wire' = Append(wire, a)
          BY <1>a, <1>b, <2>2, <2>3, <4>2, WireGrows
        <4> QED
          BY <2>2, <2>6, <4>1, <4>2
      <3>2. j \in unseen' /\ (i \in unseen => i \in unseen')
        BY <2>1, <2>6 DEF Told
      <3> QED
        BY <2>4, <3>1, <3>2 DEF BookInv
    <2> QED
      BY <2>5, <2>6
  <1>2. ASSUME NEW r \in Requests, Refuse(r) PROVE BookInv(i)'
    <2> DEFINE a == AnswerOf(r, FALSE)
    <2>1. a \in Messages /\ (wire' = wire \/ wire' = Append(wire, a))
      BY <1>a, <1>2, MessagesSent, RefuseSends
    <2>2. a.kind = "answer"
      BY DEF AnswerOf
    <2> HIDE DEF a
    <2>3. Foreseen(i)' <=> Foreseen(i)
      <3>1. CASE wire' = wire
        BY <1>a, <1>b, <3>1, WireKept
      <3>2. CASE wire' = Append(wire, a)
        BY <1>a, <1>b, <2>1, <2>2, <3>2, WireGrows
      <3> QED
        BY <2>1, <3>1, <3>2
    <2>4. UNCHANGED <<live, unseen>>
      BY <1>2 DEF Refuse
    <2> QED
      BY <2>3, <2>4 DEF BookInv
  <1>3. CASE LeaveBook
    <2>1. PICK j \in live, type \in {"FILL", "CANCEL"} :
            live' = live \ {j} /\ Told(j) /\ wire' = wire \o Report(type, j)
      BY <1>3 DEF LeaveBook
    <2>2. j \in Ids
      BY <1>a DEF GateTypeOK
    <2> DEFINE e == EventOf(type, j)
    <2>3. e \in Messages /\ wire' = IF subscribed THEN Append(wire, e) ELSE wire
      BY <1>a, <2>1, <2>2, MessagesSent, LeaveSends
    <2>4. e.kind = "event" /\ e.event.id = j /\ e.event.type # "OPEN"
      BY DEF EventOf
    <2> HIDE DEF e
    <2>5. CASE subscribed
      <3>1. Foreseen(i)' <=> IF i = j THEN FALSE ELSE Foreseen(i)
        BY <1>a, <1>b, <2>3, <2>4, <2>5, WireGrows
      <3>2. i # j => (i \in unseen <=> i \in unseen')
        BY <2>1, <2>5 DEF Told
      <3> QED
        BY <2>1, <3>1, <3>2 DEF BookInv
    <2>6. CASE ~subscribed
      <3>1. Foreseen(i)' <=> Foreseen(i)
        BY <1>a, <1>b, <2>3, <2>6, WireKept
      <3>2. j \in unseen' /\ (i \in unseen => i \in unseen')
        BY <2>1, <2>6 DEF Told
      <3> QED
        BY <2>1, <3>1, <3>2 DEF BookInv
    <2> QED
      BY <2>5, <2>6
  <1> QED
    BY <1>b, <1>1, <1>2, <1>3

LEMMA SnapshotSteps ==
  ASSUME GateInv, NEW i \in 0 .. MaxId, BookInv(i), FetchSnapshot \/ PushSnapshot
  PROVE  BookInv(i)'
  <1>a. GateTypeOK /\ PlaceInv
    BY DEF GateInv
  <1>1. CASE FetchSnapshot
    <2>1. /\ io = "snapshot" /\ boot' \in SUBSET live /\ unseen' = unseen \ boot'
          /\ UNCHANGED <<live, wire, orders, queueVars>>
      BY <1>1 DEF FetchSnapshot, fetchVars
    <2>2. boot = {} /\ wire = <<>>
      BY <1>a, <2>1 DEF PlaceInv, Alive
    <2>3. Drained(i)' <=> Drained(i)
      BY <1>a, <2>1, OthersKeepQueued, OthersKeepDrained
    <2>4. (Foreseen(i) <=> Known(i)) /\ (Foreseen(i)' <=> Known(i)')
      <3> DEFINE A == MessagesAbout(i)
                 O == OpeningMessages(i)
                 k == Known(i)
                 l == Known(i)'
      <3>1. (Foreseen(i) <=> Latest(<<>>, A, O, k)) /\ (Foreseen(i)' <=> Latest(<<>>, A, O, l))
              /\ k \in BOOLEAN /\ l \in BOOLEAN
        BY <2>1, <2>2, ForeseenIs
      <3> HIDE DEF A, O, k, l
      <3>2. (Foreseen(i) <=> k) /\ (Foreseen(i)' <=> l)
        BY <3>1, LatestOfNone
      <3> QED
        BY <3>2 DEF k, l
    <2> QED
      BY <2>1, <2>2, <2>3, <2>4 DEF BookInv, Known
  <1>2. CASE PushSnapshot
    <2>1. PICK j \in boot : Enqueue([type |-> "OPEN", id |-> j]) /\ boot' = boot \ {j}
      BY <1>2 DEF PushSnapshot
    <2>2. UNCHANGED <<live, wire, orders>>
      BY <1>2 DEF PushSnapshot, fetchVars
    <2> DEFINE e == [type |-> "OPEN", id |-> j]
    <2>3. e \in Events
      BY <1>a, GateAssumption DEF GateTypeOK, Events, Ids
    <2>4. e.id = j /\ e.type = "OPEN" /\ Enqueue(e)
      BY <2>1
    <2> HIDE DEF e
    <2>5. CASE PushStarts(e) /\ UNCHANGED unseen
      <3>1. Drained(i)' <=> IF j = i THEN TRUE ELSE Drained(i)
        BY <1>a, <2>2, <2>3, <2>4, <2>5, PushForeseen
      <3>2. Known(i)' <=> Known(i)
        BY <2>1, <3>1 DEF Known
      <3>3. Foreseen(i)' <=> Foreseen(i)
        BY <1>a, <2>2, <3>2, WireKept
      <3> QED
        BY <2>2, <2>5, <3>3 DEF BookInv
    <2>6. CASE PushFull /\ unseen' = unseen \cup {e.id}
      <3>1. Drained(i)' <=> Drained(i)
        BY <1>a, <2>2, <2>6, OthersKeepQueued, OthersKeepDrained
      <3>2. i # j => (Known(i)' <=> Known(i))
        BY <2>1, <3>1 DEF Known
      <3>3. i # j => (Foreseen(i)' <=> Foreseen(i))
        BY <1>a, <2>2, <3>2, WireKept
      <3> QED
        BY <2>2, <2>4, <2>6, <3>3 DEF BookInv
    <2> QED
      BY <2>4, <2>5, <2>6 DEF Enqueue
  <1> QED
    BY <1>1, <1>2

LEMMA ReceiveSteps ==
  ASSUME GateInv, NEW i \in 0 .. MaxId, BookInv(i), ReceiveAnswer \/ ReceiveEvent
  PROVE  BookInv(i)'
  <1> DEFINE m == Head(wire)
  <1>a. GateTypeOK /\ PlaceInv
    BY DEF GateInv
  <1>b. /\ io = "recv" /\ wire # <<>> /\ wire' = Tail(wire)
        /\ UNCHANGED <<live, orders, boot>>
    BY DEF ReceiveAnswer, ReceiveEvent, fetchVars
  <1>c. boot = {} /\ m \in Messages
    BY <1>a, <1>b DEF PlaceInv, GateTypeOK
  <1>1. CASE ReceiveAnswer
    <2>1. m.kind = "answer" /\ UNCHANGED <<unseen, queueVars>>
      BY <1>1 DEF ReceiveAnswer
    <2>2. Known(i)' <=> Known(i)
      <3>1. Drained(i)' <=> Drained(i)
        BY <1>a, <1>b, <2>1, OthersKeepQueued, OthersKeepDrained
      <3> QED
        BY <1>b, <3>1 DEF Known
    <2>3. Foreseen(i)' <=> Foreseen(i)
      BY <1>a, <1>b, <2>1, <2>2, WireShrinks
    <2> QED
      BY <1>b, <2>1, <2>3 DEF BookInv
  <1>2. CASE ReceiveEvent
    <2>1. m.kind = "event" /\ Enqueue(m.event) /\ m.event \in Events
      BY <1>c, <1>2 DEF ReceiveEvent, Messages
    <2>2. CASE PushStarts(m.event) /\ UNCHANGED unseen
      <3>1. Drained(i)' <=> IF m.event.id = i THEN m.event.type = "OPEN" ELSE Drained(i)
        BY <1>a, <1>b, <2>1, <2>2, PushForeseen
      <3>2. Known(i)' <=> IF m.event.id = i THEN m.event.type = "OPEN" ELSE Known(i)
        BY <1>b, <1>c, <3>1 DEF Known
      <3>3. Foreseen(i)' <=> Foreseen(i)
        BY <1>a, <1>b, <2>1, <3>2, WireShrinks
      <3> QED
        BY <1>b, <2>2, <3>3 DEF BookInv
    <2>3. CASE PushFull /\ unseen' = unseen \cup {m.event.id}
      <3>1. Drained(i)' <=> Drained(i)
        BY <1>a, <1>b, <2>3, OthersKeepQueued, OthersKeepDrained
      <3>2. Known(i)' <=> Known(i)
        BY <1>b, <3>1 DEF Known
      <3>3. i # m.event.id => (Foreseen(i)' <=> Foreseen(i))
        BY <1>a, <1>b, <3>2, WireShrinks
      <3> QED
        BY <1>b, <2>3, <3>3 DEF BookInv
    <2> QED
      BY <2>1, <2>2, <2>3 DEF Enqueue
  <1> QED
    BY <1>1, <1>2

\* What is lost with a connection is unseen.
LEMMA LeaveStep ==
  ASSUME GateInv, NEW i \in 0 .. MaxId, BookInv(i), LeaveTryBlock
  PROVE  BookInv(i)'
  <1>a. GateTypeOK /\ wire \in Seq(Messages)
    BY DEF GateInv, GateTypeOK
  <1>1. /\ wire' = <<>> /\ unseen' = unseen \cup EventIds(wire)
        /\ UNCHANGED <<live, boot, orders, queueVars>>
    BY DEF LeaveTryBlock, fetchVars
  <1>2. CASE i \in EventIds(wire)
    BY <1>1, <1>2 DEF BookInv
  <1>3. CASE i \notin EventIds(wire)
    <2>1. Known(i)' <=> Known(i)
      <3>1. Drained(i)' <=> Drained(i)
        BY <1>a, <1>1, OthersKeepQueued, OthersKeepDrained
      <3> QED
        BY <1>1, <3>1 DEF Known
    <2>2. \A n \in DOMAIN wire : wire[n] \notin MessagesAbout(i)
      BY <1>3 DEF EventIds, MessagesAbout
    <2>3. Foreseen(i) <=> Known(i)
      BY <2>2 DEF Foreseen, Latest, Known
    <2>4. Foreseen(i)' <=> Known(i)'
      BY <1>1 DEF Foreseen, Latest, Known
    <2> QED
      BY <1>1, <2>1, <2>3, <2>4 DEF BookInv
  <1> QED
    BY <1>2, <1>3

LEMMA BookStep ==
  ASSUME GateInv, NEW i \in 0 .. MaxId, BookInv(i), [GateNext]_gateVars
  PROVE  BookInv(i)'
  <1>a. GateTypeOK
    BY DEF GateInv
  <1>b. ASSUME UNCHANGED <<wire, boot, unseen, live>>, Drained(i)' <=> Drained(i)
        PROVE  BookInv(i)'
    <2>1. Known(i)' <=> Known(i)
      BY <1>b DEF Known
    <2>2. Foreseen(i)' <=> Foreseen(i)
      BY <1>a, <1>b, <2>1, WireKept
    <2> QED
      BY <1>b, <2>2 DEF BookInv
  <1>1. CASE (\E r \in Requests : Execute(r) \/ Refuse(r)) \/ LeaveBook
    <2>1. UNCHANGED <<ioVars, fetchVars, queueVars>>
      BY <1>1 DEF Execute, Refuse, LeaveBook
    <2> QED
      BY <1>1, <2>1, ExchangeSteps
  <1>2. CASE FetchSnapshot \/ PushSnapshot
    BY <1>2, SnapshotSteps
  <1>3. CASE ReceiveAnswer \/ ReceiveEvent
    BY <1>3, ReceiveSteps
  <1>4. CASE Stop \/ ConnectionLost
    BY <1>4, LeaveStep DEF Stop, ConnectionLost
  <1>5. CASE PushGoesOn
    <2>1. UNCHANGED <<wire, boot, unseen, live, orders>>
      BY <1>5 DEF PushGoesOn, exchangeVars, ioVars, fetchVars
    <2>2. Drained(i)' <=> Drained(i)
      BY <1>a, <1>5, <2>1, OthersKeepQueued, OthersKeepDrained DEF PushGoesOn
    <2> QED
      BY <1>b, <2>1, <2>2
  <1>6. CASE Drain
    <2>1. UNCHANGED <<wire, boot, unseen, live>>
      BY <1>6 DEF Drain, exchangeVars, ioVars
    <2>2. Drained(i)' <=> Drained(i)
      <3>1. CASE PopReleases /\ orders' = Applied(orders, copy)
        BY <1>a, <3>1, PopKeepsDrained
      <3>2. CASE (PopStarts \/ PopReads \/ PopEmpty) /\ orders' = orders
        BY <1>a, <3>2, OthersKeepQueued, OthersKeepDrained
      <3> QED
        BY <1>6, <3>1, <3>2 DEF Drain, fetchVars
    <2> QED
      BY <1>b, <2>1, <2>2
  <1>7. CASE \/ Connect \/ ConnectReturns \/ ConnectTimesOut \/ Disconnect \/ Join
             \/ LoopHead \/ FetchBalance \/ FetchTicker \/ WsConnect \/ Login \/ Poll
             \/ RecvTimesOut \/ ReceiveTicker \/ ClearPointer \/ FailPending
             \/ (\E r \in Requests : Request(r))
             \/ FetchBegins \/ ExecSubscribe \/ UNCHANGED gateVars
    <2>1. UNCHANGED <<wire, boot, unseen, live, orders, queueVars>>
      BY <1>7 DEF Connect, ConnectReturns, ConnectTimesOut, Disconnect, Join, LoopHead,
         FetchBalance, FetchTicker, WsConnect, Login, Poll, RecvTimesOut, ReceiveTicker,
         ClearPointer, FailPending, Goto, Request, Register, Send, TimeOut, Erase, Get,
         FetchBegins, ExecSubscribe, gateVars, exchangeVars, ioVars, fetchVars
    <2>2. Drained(i)' <=> Drained(i)
      BY <1>a, <2>1, OthersKeepQueued, OthersKeepDrained
    <2> QED
      BY <1>b, <2>1, <2>2
  <1> QED
    BY <1>1, <1>2, <1>3, <1>4, <1>5, <1>6, <1>7 DEF GateNext, IoStep

\* Once nothing is under way, what fetch_open_orders knows is the book, up to what
\* nobody was told: no event is missed, applied twice or out of order across
\* reconnects, old snapshots, a full queue and answers that race with their event.
THEOREM ConnectorKnowsTheBook == GateSpec => []KnowsTheBook
  <1> DEFINE Inv == \A i \in 0 .. MaxId : BookInv(i)
  <1>1. GateInit => Inv
    <2> SUFFICES ASSUME GateInit, NEW i \in 0 .. MaxId PROVE BookInv(i)
      OBVIOUS
    <2>1. wire = <<>> /\ boot = {} /\ orders = {} /\ ppc = "idle" /\ unseen = live
      BY DEF GateInit, QueueInit
    <2>2. Held = <<>>
      BY InitFifo DEF GateInit, Fifo!Init
    <2>3. ~Foreseen(i)
      BY <2>1, <2>2 DEF Foreseen, Drained, Latest, Queued
    <2> QED
      BY <2>1, <2>3 DEF BookInv
  <1>2. GateInv /\ Inv /\ [GateNext]_gateVars => Inv'
    <2> SUFFICES ASSUME GateInv, Inv, [GateNext]_gateVars, NEW i \in 0 .. MaxId
                 PROVE  BookInv(i)'
      BY DEF Inv
    <2>1. BookInv(i)
      OBVIOUS
    <2> HIDE DEF Inv
    <2> QED
      BY <2>1, BookStep
  <1>3. GateInv /\ Inv => KnowsTheBook
    <2> SUFFICES ASSUME GateInv, Inv, Quiet PROVE (orders \ live) \cup (live \ orders) \subseteq unseen
      BY DEF KnowsTheBook
    <2>a. orders \subseteq 0 .. MaxId /\ live \subseteq 0 .. MaxId
      BY GateAssumption DEF GateInv, GateTypeOK, Ids
    <2> SUFFICES ASSUME NEW i \in 0 .. MaxId
                 PROVE  i \in unseen \/ (i \in orders <=> i \in live)
      BY <2>a
    <2>1. wire = <<>> /\ ppc = "idle" /\ boot = {}
      BY DEF Quiet, GateInv, PlaceInv
    <2>2. Held = <<>>
      BY DEF Quiet, Held
    <2>3. Foreseen(i) <=> i \in orders
      BY <2>1, <2>2 DEF Foreseen, Drained, Latest, Queued
    <2>4. BookInv(i)
      OBVIOUS
    <2> QED
      BY <2>3, <2>4 DEF BookInv
  <1> QED
    BY <1>1, <1>2, <1>3, GateInvariant, PTL DEF GateSpec

=============================================================================
