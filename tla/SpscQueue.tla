------------------------------ MODULE SpscQueue ------------------------------
(***************************************************************************)
(* exchange/cpp/include/spsc_queue.h: SpscQueue<T, N>, the ring buffer     *)
(* through which the gate connector's io thread (the producer) hands order *)
(* events to fetch_open_orders (the consumer).                             *)
(*                                                                         *)
(* Copying an item takes the time between two actions: from "write" to the *)
(* store of write_pos_ the producer is in its slot, from "read" to the     *)
(* store of read_pos_ the consumer is in its own.  Acquire and release     *)
(* keep the accesses in program order.                                     *)
(***************************************************************************)
EXTENDS Naturals, Sequences

CONSTANTS
  Items,  \* the values of T
  N       \* slots of the ring, a power of two: & kMask is % N

ASSUME QueueAssumption == N \in Nat /\ N >= 2 /\ \E k \in 1 .. N : N = 2 ^ k

VARIABLES
  buf_,  \* the ring
  write_pos_,
  read_pos_,
  ppc,    \* the producer: "idle", "write", "publish"
  item,   \* its argument
  cpc,    \* the consumer: "idle", "read", "release"
  copy,   \* its out parameter while pop runs
  popped  \* its out parameter once pop returned true

producerVars == <<write_pos_, ppc, item>>
consumerVars == <<read_pos_, cpc, copy, popped>>
queueVars    == <<buf_, write_pos_, read_pos_, ppc, item, cpc, copy, popped>>

RingSlots == 0 .. N - 1

After(pos) == (pos + 1) % N

QueueInit ==
  /\ buf_ \in [RingSlots -> Items]
  /\ \A i, j \in RingSlots : buf_[i] = buf_[j]
  /\ write_pos_ = 0
  /\ read_pos_ = 0
  /\ ppc = "idle"
  /\ item = buf_[0]
  /\ cpc = "idle"
  /\ copy = buf_[0]
  /\ popped = buf_[0]

\* A push that does not look whether the ring is full.
PushUnchecked(x) ==
  /\ ppc = "idle"
  /\ ppc' = "write"
  /\ item' = x
  /\ UNCHANGED <<buf_, write_pos_, consumerVars>>

\* push, up to the comparison with read_pos_.
PushStarts(x) ==
  /\ ppc = "idle"
  /\ After(write_pos_) # read_pos_
  /\ ppc' = "write"
  /\ item' = x
  /\ UNCHANGED <<buf_, write_pos_, consumerVars>>

\* push returns false.
PushFull ==
  /\ ppc = "idle"
  /\ After(write_pos_) = read_pos_
  /\ UNCHANGED queueVars

\* The item is in its slot; the store of write_pos_ follows, on its own.
PushWrites ==
  /\ ppc = "write"
  /\ buf_' = [buf_ EXCEPT ![write_pos_] = item]
  /\ ppc' = "publish"
  /\ UNCHANGED <<write_pos_, item, consumerVars>>

PushPublishes ==
  /\ ppc = "publish"
  /\ write_pos_' = After(write_pos_)
  /\ ppc' = "idle"
  /\ UNCHANGED <<buf_, item, consumerVars>>

Push == (\E x \in Items : PushStarts(x)) \/ PushFull \/ PushWrites \/ PushPublishes

\* A pop that does not look whether the ring is empty.
PopUnchecked ==
  /\ cpc = "idle"
  /\ cpc' = "read"
  /\ UNCHANGED <<buf_, read_pos_, copy, popped, producerVars>>

\* pop, up to the comparison with write_pos_.
PopStarts ==
  /\ cpc = "idle"
  /\ read_pos_ # write_pos_
  /\ cpc' = "read"
  /\ UNCHANGED <<buf_, read_pos_, copy, popped, producerVars>>

\* pop returns false.
PopEmpty ==
  /\ cpc = "idle"
  /\ read_pos_ = write_pos_
  /\ UNCHANGED queueVars

PopReads ==
  /\ cpc = "read"
  /\ copy' = buf_[read_pos_]
  /\ cpc' = "release"
  /\ UNCHANGED <<buf_, read_pos_, popped, producerVars>>

PopReleases ==
  /\ cpc = "release"
  /\ read_pos_' = After(read_pos_)
  /\ popped' = copy
  /\ cpc' = "idle"
  /\ UNCHANGED <<buf_, copy, producerVars>>

Pop == PopStarts \/ PopEmpty \/ PopReads \/ PopReleases

QueueNext == Push \/ Pop

QueueSpec == QueueInit /\ [][QueueNext]_queueVars

-----------------------------------------------------------------------------
(* The queue the code implements: the items from read_pos_ to write_pos_.  *)

\* size_approx read at one instant.
Size == (write_pos_ + N - read_pos_) % N
Held == [i \in 1 .. Size |-> buf_[(read_pos_ + i - 1) % N]]

Fifo == INSTANCE BoundedFifo
          WITH Capacity <- N - 1, items <- Held, taken <- popped

-----------------------------------------------------------------------------
(* Properties.                                                             *)

\* Every variable keeps its type.
QueueTypeOK ==
  /\ buf_ \in [RingSlots -> Items]
  /\ write_pos_ \in RingSlots
  /\ read_pos_ \in RingSlots
  /\ ppc \in {"idle", "write", "publish"}
  /\ item \in Items
  /\ cpc \in {"idle", "read", "release"}
  /\ copy \in Items
  /\ popped \in Items

\* Producer and consumer are never in the same slot: the store that publishes a
\* slot, or frees it, comes after the last access to it.
SlotsDisjoint == ppc = "write" /\ cpc = "read" => write_pos_ # read_pos_

\* Push and pop take effect in one step each, at their store of a position: what is
\* pushed is never lost, overwritten, read twice or reordered across wrap-around, and
\* the ring never holds more than N - 1 items.
ImplementsFifo == Fifo!Spec

=============================================================================
