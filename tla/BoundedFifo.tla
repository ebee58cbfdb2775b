----------------------------- MODULE BoundedFifo -----------------------------
(***************************************************************************)
(* What exchange/cpp/include/spsc_queue.h promises: a first-in first-out   *)
(* queue of at most Capacity items whose operations take effect in one     *)
(* step.  A push on a full queue and a pop on an empty one change nothing. *)
(***************************************************************************)
EXTENDS Naturals, Sequences

CONSTANTS
  Items,     \* what can be pushed
  Capacity   \* capacity()

VARIABLES
  items,     \* the queue, oldest first
  taken      \* the item the last successful pop returned

vars == <<items, taken>>

Init == items = <<>> /\ taken \in Items

Push(x) ==
  /\ Len(items) < Capacity
  /\ items' = Append(items, x)
  /\ UNCHANGED taken

Pop ==
  /\ items # <<>>
  /\ taken' = Head(items)
  /\ items' = Tail(items)

Next == (\E x \in Items : Push(x)) \/ Pop

Spec == Init /\ [][Next]_vars

=============================================================================
