---------------------------- MODULE OrderManager ----------------------------
(***************************************************************************)
(* core/order_manager.py: the open-order grid of one exchange.             *)
(*                                                                         *)
(* Two kinds of coroutine share one OrderManager on the asyncio loop:      *)
(*   - the tick, which runs diff_and_repost (at most one at a time);       *)
(*   - the callers of cancel_all (emergency stop, heartbeat, shutdown).    *)
(* A coroutine runs without interruption from one await to the next, so    *)
(* one action here is the code between two awaits.  A request to the       *)
(* exchange has three moments: it is sent, the exchange executes it, and   *)
(* the answer is handled.  Everything else may happen between them.        *)
(*                                                                         *)
(* An order is the number the exchange (or dry-run mode) gives it; what it *)
(* is for never changes and is kept in order[id].  Waiting for the rate    *)
(* limiter is part of a request being on its way: nothing is read between  *)
(* the two.                                                                *)
(***************************************************************************)
EXTENDS Naturals, Sequences

CONSTANTS
  Grids,        \* the grids the quant model can produce: sequences of levels
  Prices,       \* the prices that occur in them, in ticks
  Cancellers,   \* the calls of cancel_all that can be made
  Faults,       \* what may go wrong: a subset of FaultKinds
  Modes,        \* the values OrderManager.dry_run may have
  MaxId         \* bound: number of orders ever accepted

Sides  == {"buy", "sell"}
Levels == [side : Sides, price : Prices, amount : Nat]
Ids    == 1 .. MaxId

\* "fetch":  fetch_open_orders raises.
\* "reject": create_limit_order raises and no order exists.
\* "lost":   create_limit_order raises after the exchange accepted the order.
\* "late":   create_limit_order raises and the request is executed later.
\* "cancel": cancel_order or cancel_all_orders raises, executed or not.
\* "db":     a database statement raises.
FaultKinds == {"fetch", "reject", "lost", "late", "cancel", "db"}

ASSUME ConstantsAssumption ==
  /\ Prices \subseteq Nat
  /\ Grids \subseteq Seq(Levels)
  /\ Faults \subseteq FaultKinds
  /\ Modes \subseteq BOOLEAN
  /\ MaxId \in Nat

VARIABLES
  \* the exchange
  nextId,      \* the id of the next order
  order,       \* order[id]: the level an accepted order was sent for
  live,        \* ids resting on the book
  late,        \* levels whose create request was given up but is still on its way
  \* the database
  db,          \* db[id]: the status column, "none" if there is no row
  \* OrderManager
  dry_run,     \* dry_run, set once
  open,        \* _open_orders
  created,     \* keys of _order_created_at
  aged,        \* those of them created more than max_order_age_seconds ago
  \* the coroutine of diff_and_repost
  pc,          \* where it awaits
  stage,       \* "age" in _cancel_stale_by_age, "diff" after it
  grid,        \* its argument
  cur,         \* the order or the grid index the awaited call is about
  snap,        \* live_map
  markQ,       \* stale_ids of _sync_open_orders still to be removed
  ageQ,        \* stale_ids of _cancel_stale_by_age still to be cancelled
  toCancel,    \* to_cancel, remaining
  toPlace,     \* to_place, remaining (indices of grid)
  raised,      \* the last diff_and_repost ended with an exception
  \* the coroutines of cancel_all
  cpc,         \* cpc[c]: where call c awaits
  cq           \* cq[c]: orders whose row it still has to update

exchangeVars == <<nextId, order, live, late>>
memoryVars   == <<dry_run, open, created, aged>>
localVars    == <<stage, grid, cur, snap, markQ, ageQ, toCancel, toPlace, raised>>
tickVars     == <<pc, stage, grid, cur, snap, markQ, ageQ, toCancel, toPlace, raised>>
cancelVars   == <<cpc, cq>>
omVars       == <<nextId, order, live, late, db, dry_run, open, created, aged, pc,
                  stage, grid, cur, snap, markQ, ageQ, toCancel, toPlace, raised, cpc, cq>>

Init ==
  /\ nextId = 1
  /\ order = [i \in Ids |-> [side |-> "buy", price |-> 0, amount |-> 0]]
  /\ live = {}
  /\ late = {}
  /\ db = [i \in Ids |-> "none"]
  /\ dry_run \in Modes
  /\ open = {}
  /\ created = {}
  /\ aged = {}
  /\ pc = "idle"
  /\ stage = "diff"
  /\ grid = <<>>
  /\ cur = 0
  /\ snap = {}
  /\ markQ = {}
  /\ ageQ = {}
  /\ toCancel = {}
  /\ toPlace = {}
  /\ raised = FALSE
  /\ cpc = [c \in Cancellers |-> "idle"]
  /\ cq = [c \in Cancellers |-> {}]

-----------------------------------------------------------------------------
(* Comparing orders with the grid.                                         *)

\* abs(price - desired) / max(desired, 1e-8) * 100 <= PRICE_TOLERANCE_PCT,
\* with PRICE_TOLERANCE_PCT = 0.03: within 3 in 10000 of the desired price.
Near(price, desired) ==
  LET distance == IF price >= desired THEN price - desired ELSE desired - price
  IN  10000 * distance <= 3 * desired

\* Open orders near no level of the grid, whatever its side.
FindStaleOrders(open_orders, g) ==
  {i \in open_orders : \A k \in DOMAIN g : ~Near(order[i].price, g[k].price)}

\* Levels of the grid no open order is near to, whatever its side.
FindMissingLevels(open_orders, g) ==
  {k \in DOMAIN g : \A i \in open_orders : ~Near(order[i].price, g[k].price)}

\* The sync with its condition inverted, or left out.
OpenAsReported(open_orders) == open_orders \cap snap
NeverRemoved(open_orders)   == {}

\* stale_ids of _sync_open_orders.
NoLongerOpen(open_orders) == open_orders \ snap

\* An UPDATE that would create the row.
Upsert(id, status) == [db EXCEPT ![id] = status]

\* update_order_status: an UPDATE, without effect if there is no such row.
UpdateOrderStatus(id, status) ==
  [db EXCEPT ![id] = IF @ = "none" THEN @ ELSE status]

-----------------------------------------------------------------------------
(* What the tick does between one await and the next.                      *)

Return(exception) ==
  /\ pc' = "idle"
  /\ stage' = "diff"
  /\ grid' = <<>>
  /\ cur' = 0
  /\ snap' = {}
  /\ markQ' = {}
  /\ ageQ' = {}
  /\ toCancel' = {}
  /\ toPlace' = {}
  /\ raised' = exception

\* _place_one returns at once for an amount or a price that is not positive.
Placeable(g, k) == g[k].amount > 0 /\ g[k].price > 0

\* The next definition with a level that is not removed from the list.
PlaceSameAgain(todo) ==
  LET real == {k \in todo : Placeable(grid, k)}
  IN  \/ real = {} /\ Return(FALSE)
      \/ \E k \in real :
           /\ pc' = "create"
           /\ cur' = k
           /\ toPlace' = real
           /\ stage' = "diff"
           /\ snap' = {}
           /\ markQ' = {}
           /\ ageQ' = {}
           /\ toCancel' = {}
           /\ UNCHANGED <<grid, raised>>

\* The next _place_one that reaches an await; levels are taken in grid order.
PlaceNext(todo) ==
  LET real == {k \in todo : Placeable(grid, k)}
  IN  \/ /\ real = {}
         /\ Return(FALSE)
      \/ \E k \in real :
           /\ \A j \in real : k <= j
           /\ pc' = "create"
           /\ cur' = k
           /\ toPlace' = real \ {k}
           /\ stage' = "diff"
           /\ snap' = {}
           /\ markQ' = {}
           /\ ageQ' = {}
           /\ toCancel' = {}
           /\ UNCHANGED <<grid, raised>>

\* The next _cancel_one of the stale orders, then the placements.
CancelNext(stale, missing) ==
  \/ /\ stale = {}
     /\ PlaceNext(missing)
  \/ \E i \in stale :
       /\ pc' = "cancel"
       /\ cur' = i
       /\ toCancel' = stale \ {i}
       /\ toPlace' = missing
       /\ stage' = "diff"
       /\ snap' = {}
       /\ markQ' = {}
       /\ ageQ' = {}
       /\ UNCHANGED <<grid, raised>>

\* The comparison: both lists are computed before the first cancellation.
Diff(open_orders) ==
  CancelNext(FindStaleOrders(open_orders, grid), FindMissingLevels(open_orders, grid))

\* The next aged order that is still open, then the comparison.
AgeNext(todo, open_orders) ==
  \/ /\ todo \cap open_orders = {}
     /\ Diff(open_orders)
  \/ \E i \in todo \cap open_orders :
       /\ pc' = "cancel"
       /\ cur' = i
       /\ ageQ' = todo \ {i}
       /\ stage' = "age"
       /\ snap' = {}
       /\ markQ' = {}
       /\ toCancel' = {}
       /\ toPlace' = {}
       /\ UNCHANGED <<grid, raised>>

\* _cancel_stale_by_age from its start.
CancelStaleByAge(open_orders) ==
  AgeNext(aged \cap open_orders, open_orders)

\* The rest of _sync_open_orders once nothing is left to remove: adopt what the
\* exchange reported.  Adopted orders get no creation time.
Adopt(open_orders) ==
  /\ open' = open_orders \cup snap
  /\ CancelStaleByAge(open_orders \cup snap)

-----------------------------------------------------------------------------
(* diff_and_repost.                                                        *)

Begin(g) ==
  /\ pc = "idle"
  /\ pc' = "fetch"
  /\ grid' = g
  /\ UNCHANGED <<stage, cur, snap, markQ, ageQ, toCancel, toPlace, raised>>
  /\ UNCHANGED <<exchangeVars, db, memoryVars, cancelVars>>

\* The exchange answers fetch_open_orders with what rests on the book now.
ExecFetch ==
  /\ ~dry_run
  /\ pc = "fetch"
  /\ pc' = "fetched"
  /\ snap' = live
  /\ UNCHANGED <<stage, grid, cur, markQ, ageQ, toCancel, toPlace, raised>>
  /\ UNCHANGED <<exchangeVars, db, memoryVars, cancelVars>>

\* The answer is handled: remove the first order that is no longer open, or
\* adopt the others if there is none.
SyncOpenOrders ==
  /\ pc = "fetched"
  /\ \/ /\ NoLongerOpen(open) = {}
        /\ Adopt(open)
     \/ \E i \in NoLongerOpen(open) :
          /\ open' = open \ {i}
          /\ markQ' = NoLongerOpen(open) \ {i}
          /\ cur' = i
          /\ pc' = "mark"
          /\ UNCHANGED <<stage, grid, snap, ageQ, toCancel, toPlace, raised>>
  /\ UNCHANGED <<exchangeVars, db, dry_run, created, aged, cancelVars>>

\* The row of a removed order becomes "filled" (no row, no effect) and the loop
\* goes on.  `del` of an order that cancel_all cleared meanwhile raises KeyError,
\* which the handler of _sync_open_orders swallows: nothing is adopted.
SyncMark ==
  /\ pc = "mark"
  /\ db' = UpdateOrderStatus(cur, "filled")
  /\ \/ /\ markQ = {}
        /\ Adopt(open)
     \/ \E i \in markQ :
          \/ /\ i \in open
             /\ open' = open \ {i}
             /\ markQ' = markQ \ {i}
             /\ cur' = i
             /\ UNCHANGED <<pc, stage, grid, snap, ageQ, toCancel, toPlace, raised>>
          \/ /\ i \notin open
             /\ CancelStaleByAge(open)
             /\ UNCHANGED open
  /\ UNCHANGED <<exchangeVars, dry_run, created, aged, cancelVars>>

\* dry_run: _sync_open_orders returns after the rate limiter.  Otherwise: an
\* exception of the request or of the statement is swallowed.
SyncSkipped ==
  /\ \/ pc = "fetch" /\ dry_run
     \/ pc \in {"fetch", "fetched"} /\ ~dry_run /\ "fetch" \in Faults
     \/ pc = "mark" /\ "db" \in Faults
  /\ CancelStaleByAge(open)
  /\ UNCHANGED <<exchangeVars, db, memoryVars, cancelVars>>

\* The exchange executes cancel_order; the connector treats an order that is
\* not on the book (any more) as cancelled.
ExecCancel ==
  /\ ~dry_run
  /\ pc = "cancel"
  /\ live' = live \ {cur}
  /\ pc' = "cancelled"
  /\ UNCHANGED <<nextId, order, late, db, memoryVars, localVars, cancelVars>>

\* _cancel_one forgets the order.
CancelOne ==
  /\ pc = IF dry_run THEN "cancel" ELSE "cancelled"
  /\ open' = open \ {cur}
  /\ created' = created \ {cur}
  /\ aged' = aged \ {cur}
  /\ pc' = "cancelRow"
  /\ UNCHANGED <<exchangeVars, db, dry_run, localVars, cancelVars>>

\* Its row is updated and the enclosing loop goes on.
CancelOneRow ==
  /\ pc = "cancelRow"
  /\ db' = UpdateOrderStatus(cur, "canceled")
  /\ \/ stage = "age" /\ AgeNext(ageQ, open)
     \/ stage = "diff" /\ CancelNext(toCancel, toPlace)
  /\ UNCHANGED <<exchangeVars, memoryVars, cancelVars>>

\* cancel_order or the statement raises: nothing catches it before _run_loop.
CancelOneRaises ==
  /\ \/ pc \in {"cancel", "cancelled"} /\ ~dry_run /\ "cancel" \in Faults
     \/ pc = "cancelRow" /\ "db" \in Faults
  /\ Return(TRUE)
  /\ UNCHANGED <<exchangeVars, db, memoryVars, cancelVars>>

\* The same without a fresh id.
AcceptSameId(level) ==
  /\ nextId <= MaxId
  /\ order' = [order EXCEPT ![nextId] = level]
  /\ UNCHANGED nextId

\* An order is accepted under a fresh id.
Accept(level) ==
  /\ nextId <= MaxId
  /\ nextId' = nextId + 1
  /\ order' = [order EXCEPT ![nextId] = level]

ExecCreate ==
  /\ ~dry_run
  /\ pc = "create"
  /\ Accept(grid[cur])
  /\ live' = live \cup {nextId}
  /\ cur' = nextId
  /\ pc' = "createdAck"
  /\ UNCHANGED <<late, db, memoryVars, stage, grid, snap, markQ, ageQ,
                 toCancel, toPlace, raised, cancelVars>>

\* The new order is remembered; dry-run mode invents it.
PlaceOne ==
  /\ \/ /\ pc = "createdAck"
        /\ open' = open \cup {cur}
        /\ created' = created \cup {cur}
        /\ UNCHANGED <<nextId, order, cur>>
     \/ /\ dry_run
        /\ pc = "create"
        /\ Accept(grid[cur])
        /\ open' = open \cup {nextId}
        /\ created' = created \cup {nextId}
        /\ cur' = nextId
  /\ pc' = "createRow"
  /\ UNCHANGED <<live, late, db, dry_run, aged, stage, grid, snap, markQ, ageQ,
                 toCancel, toPlace, raised, cancelVars>>

\* Its row is inserted and the loop goes on.
PlaceOneRow ==
  /\ pc = "createRow"
  /\ db' = [db EXCEPT ![cur] = "open"]
  /\ PlaceNext(toPlace)
  /\ UNCHANGED <<exchangeVars, memoryVars, cancelVars>>

\* An exception of the request is caught; the level is skipped.  In live mode so
\* is one of the INSERT, but dry-run mode has no handler for it.
PlaceOneRaises ==
  /\ \/ /\ pc = "create"
        /\ ~dry_run
        /\ "reject" \in Faults
        /\ UNCHANGED late
        /\ PlaceNext(toPlace)
     \/ /\ pc = "create"
        /\ ~dry_run
        /\ "late" \in Faults
        /\ late' = late \cup {grid[cur]}
        /\ PlaceNext(toPlace)
     \/ /\ pc = "createdAck"
        /\ "lost" \in Faults
        /\ UNCHANGED late
        /\ PlaceNext(toPlace)
     \/ /\ pc = "createRow"
        /\ "db" \in Faults
        /\ UNCHANGED late
        /\ IF dry_run THEN Return(TRUE) ELSE PlaceNext(toPlace)
  /\ UNCHANGED <<nextId, order, live, db, memoryVars, cancelVars>>

TickStep ==
  \/ SyncOpenOrders
  \/ SyncMark
  \/ SyncSkipped
  \/ CancelOne
  \/ CancelOneRow
  \/ CancelOneRaises
  \/ PlaceOne
  \/ PlaceOneRow
  \/ PlaceOneRaises

Tick == TickStep \/ \E g \in Grids : Begin(g)

-----------------------------------------------------------------------------
(* cancel_all.                                                             *)

\* The code after the request: the keys are listed; with none of them there is
\* no await before the maps are cleared.
ListOpen(c) ==
  \/ /\ open = {}
     /\ cpc' = [cpc EXCEPT ![c] = "done"]
     /\ created' = {}
     /\ aged' = {}
     /\ UNCHANGED <<dry_run, open, cq>>
  \/ /\ open # {}
     /\ cpc' = [cpc EXCEPT ![c] = "rows"]
     /\ cq' = [cq EXCEPT ![c] = open]
     /\ UNCHANGED memoryVars

CancelAll(c) ==
  /\ cpc[c] = "idle"
  /\ \/ /\ dry_run
        /\ ListOpen(c)
     \/ /\ ~dry_run
        /\ cpc' = [cpc EXCEPT ![c] = "request"]
        /\ UNCHANGED <<cq, memoryVars>>
  /\ UNCHANGED <<exchangeVars, db, tickVars>>

ExecCancelAll(c) ==
  /\ cpc[c] = "request"
  /\ live' = {}
  /\ cpc' = [cpc EXCEPT ![c] = "answered"]
  /\ UNCHANGED <<nextId, order, late, db, memoryVars, tickVars, cq>>

CancelAllAnswered(c) ==
  /\ cpc[c] = "answered"
  /\ ListOpen(c)
  /\ UNCHANGED <<exchangeVars, db, tickVars>>

\* One row; after the last one both maps are cleared, whatever they hold by then.
CancelAllRow(c) ==
  /\ cpc[c] = "rows"
  /\ \E i \in cq[c] :
       /\ db' = UpdateOrderStatus(i, "canceled")
       /\ cq' = [cq EXCEPT ![c] = @ \ {i}]
       /\ \/ /\ cq[c] = {i}
             /\ open' = {}
             /\ created' = {}
             /\ aged' = {}
             /\ cpc' = [cpc EXCEPT ![c] = "done"]
             /\ UNCHANGED dry_run
          \/ /\ cq[c] # {i}
             /\ UNCHANGED <<memoryVars, cpc>>
  /\ UNCHANGED <<exchangeVars, tickVars>>

CancelAllRaises(c) ==
  /\ \/ cpc[c] \in {"request", "answered"} /\ "cancel" \in Faults
     \/ cpc[c] = "rows" /\ "db" \in Faults
  /\ cpc' = [cpc EXCEPT ![c] = "failed"]
  /\ cq' = [cq EXCEPT ![c] = {}]
  /\ UNCHANGED <<exchangeVars, db, memoryVars, tickVars>>

CancelAllStep(c) ==
  \/ CancelAllAnswered(c)
  \/ CancelAllRow(c)
  \/ CancelAllRaises(c)

-----------------------------------------------------------------------------
(* The exchange and time.                                                  *)

\* An order leaves the book: filled, or cancelled by someone else.
Leave ==
  /\ \E i \in live : live' = live \ {i}
  /\ UNCHANGED <<nextId, order, late, db, memoryVars, tickVars, cancelVars>>

\* A create request the bot had given up on is executed after all.
ExecLate ==
  /\ \E level \in late :
       /\ Accept(level)
       /\ late' = late \ {level}
  /\ live' = live \cup {nextId}
  /\ UNCHANGED <<db, memoryVars, tickVars, cancelVars>>

\* max_order_age_seconds pass for an order.
AgeOut ==
  /\ \E i \in created \ aged : aged' = aged \cup {i}
  /\ UNCHANGED <<exchangeVars, db, dry_run, open, created, tickVars, cancelVars>>

Exchange ==
  \/ ExecFetch
  \/ ExecCancel
  \/ ExecCreate
  \/ \E c \in Cancellers : ExecCancelAll(c)

Environment == Leave \/ ExecLate \/ AgeOut

Next ==
  \/ Tick
  \/ \E c \in Cancellers : CancelAll(c) \/ CancelAllStep(c)
  \/ Exchange
  \/ Environment

Spec == Init /\ [][Next]_omVars

\* The parts of the loop that run on their own: the coroutines are resumed, the
\* exchange answers.  Orders leaving the book, late requests, ageing and calls of
\* cancel_all are never forced.
Fairness ==
  /\ WF_omVars(Tick)
  /\ WF_omVars(Exchange)
  /\ \A c \in Cancellers : WF_omVars(CancelAllStep(c))

FairSpec == Spec /\ Fairness

-----------------------------------------------------------------------------
(* Properties.                                                             *)

Status == {"none", "open", "filled", "canceled"}
Info   == [side : Sides, price : Nat, amount : Nat]

ExchangeTypeOK ==
  /\ nextId \in 1 .. MaxId + 1
  /\ order \in [Ids -> Info]
  /\ live \subseteq 1 .. nextId - 1
  /\ late \subseteq Levels

MemoryTypeOK ==
  /\ dry_run \in BOOLEAN
  /\ db \in [Ids -> Status]
  /\ open \subseteq 1 .. nextId - 1
  /\ created \subseteq 1 .. nextId - 1
  /\ aged \subseteq created

TickTypeOK ==
  /\ pc \in {"idle", "fetch", "fetched", "mark", "cancel", "cancelled", "cancelRow",
             "create", "createdAck", "createRow"}
  /\ stage \in {"age", "diff"}
  /\ grid \in Seq(Levels)
  /\ cur \in Nat
  /\ pc \in {"mark", "cancel", "cancelled", "cancelRow", "createdAck", "createRow"}
       => cur \in 1 .. nextId - 1
  /\ pc = "create" => cur \in DOMAIN grid
  /\ snap \subseteq 1 .. nextId - 1
  /\ markQ \subseteq 1 .. nextId - 1
  /\ ageQ \subseteq 1 .. nextId - 1
  /\ toCancel \subseteq 1 .. nextId - 1
  /\ toPlace \subseteq DOMAIN grid
  /\ pc = "idle" => toPlace = {}
  /\ raised \in BOOLEAN

CancelTypeOK ==
  /\ cpc \in [Cancellers -> {"idle", "request", "answered", "rows", "done", "failed"}]
  /\ cq \in [Cancellers -> SUBSET (1 .. nextId - 1)]

\* Every variable keeps its type; the ids the bot remembers were handed out.
TypeOK ==
  /\ ExchangeTypeOK
  /\ MemoryTypeOK
  /\ TickTypeOK
  /\ CancelTypeOK

\* _sync_open_orders infers "filled" from an order's absence in a list that is
\* old when it is handled: whatever cancel_all, lost or late requests did in
\* between, an order recorded as filled is not on the book.
FilledMeansGone == \A i \in Ids : db[i] = "filled" => i \notin live

\* A row that reached a terminal status never becomes "open" again, although the
\* INSERT of _place_one, the UPDATEs of sync, cancel and cancel_all reach the
\* database from different coroutines in any order.
TerminalRowsStayTerminal ==
  [][\A i \in Ids : db[i] \in {"filled", "canceled"} => db'[i] \in {"filled", "canceled"}]_db

\* What the bot's orders are: on the exchange, or only in memory.
Book == IF dry_run THEN open ELSE live

\* No two orders of the book lie within the tolerance of each other:
\* diff_and_repost never places a level twice, across ticks, repricing, lost
\* answers and fills.
NoDuplicateLevel ==
  \A i, j \in Book : i < j => ~Near(order[i].price, order[j].price)

\* The book shows the grid g: every placeable level has an order near it and
\* every order is near a level.
Matches(g) ==
  /\ \A k \in DOMAIN g : Placeable(g, k) => \E i \in Book : Near(order[i].price, g[k].price)
  /\ \A i \in Book : \E k \in DOMAIN g : Near(order[i].price, g[k].price)

\* With one grid and an exchange that answers, the ticks settle on a book that
\* shows the grid, even after orders left the book, grew old, or were cancelled
\* by a cancel_all that interleaved with a tick (a snapshot older than the cancel
\* is adopted, a new order is forgotten).  Orders may leave and be replaced until
\* the bound on ids is met.
SettlesOnGrid == <>[](nextId > MaxId \/ \E g \in Grids : Matches(g))

=============================================================================
