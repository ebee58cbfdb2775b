----------------------------- MODULE PaperTrading -----------------------------
(***************************************************************************)
(* core/paper_trader.py on the streams of exchange/ccxt_ws_connector.py:   *)
(* simulated fills of the bot's orders against live order books.           *)
(*                                                                         *)
(* Coroutines: the two watch loops, which keep the last snapshot in a      *)
(* queue of one, the trader's poll loop, the bot, which hands over its     *)
(* open orders after each tick, and the shutdown.                          *)
(***************************************************************************)
EXTENDS FillSimulator, FiniteSets

CONSTANTS
  Snapshots,    \* Snapshots[s]: what stream s may deliver
  OrderSets,    \* the sets of open orders the bot may hand over
  MaxWsRetries, \* _MAX_RETRIES
  MaxFills      \* bound on the fills counted

Streams == {"book", "ticker"}

ASSUME PaperAssumption ==
  /\ {MaxWsRetries, MaxFills} \subseteq Nat
  /\ DOMAIN Snapshots = Streams
  /\ \A book \in Snapshots["book"] : {book.bids, book.asks} \subseteq Seq(Int \X Nat)
  /\ \A orders \in OrderSets :
       /\ IsFiniteSet(orders)
       /\ orders \subseteq [id : Int, side : {"buy", "sell"}, price : Int, amount : Nat]
       /\ \A a, b \in orders : a.id = b.id => a = b

VARIABLES
  feed,     \* feed[s]: watch loop of s: "off", "watch", "backoff" or "ended"
  retries,  \* its retries
  box,      \* _book_queue and _ticker_queue
  newest,   \* the last snapshot received, as <<it>>
  wsFlag,   \* _ws_connected
  trader,   \* poll loop: "no", "poll", "persist", "emit" or "ended"
  polling,  \* PaperTrader._running
  open,     \* _open_orders_ref
  batch,    \* the last simulation: [orders, book, fills], a fill being
            \* [order, amount, pnl] with twice the profit
  todo,     \* its fills that are not dealt with
  stats     \* PaperTradingStats: [fills, qty, pnl], pnl doubled

feedVars   == <<feed, retries, box, newest, wsFlag>>
traderVars == <<trader, polling, batch, todo, stats>>
paperVars  == <<feedVars, traderVars, open>>

NoBatch == [orders |-> {}, book |-> [bids |-> <<>>, asks |-> <<>>], fills |-> <<>>]

PaperInit ==
  /\ feed = [s \in Streams |-> "off"]
  /\ retries = [s \in Streams |-> 0]
  /\ box = [s \in Streams |-> <<>>]
  /\ newest = [s \in Streams |-> <<>>]
  /\ wsFlag = FALSE
  /\ trader = "no" /\ polling = FALSE
  /\ open = {}
  /\ batch = NoBatch /\ todo = <<>>
  /\ stats = [fills |-> 0, qty |-> 0, pnl |-> 0]

-----------------------------------------------------------------------------
(* The streams.                                                            *)

\* The snapshot replaces the one nobody took.
KeepLast(s, x) == box' = [box EXCEPT ![s] = <<x>>]

Snapshot(s) ==
  /\ feed[s] = "watch"
  /\ \E x \in Snapshots[s] : KeepLast(s, x) /\ newest' = [newest EXCEPT ![s] = <<x>>]
  /\ retries' = [retries EXCEPT ![s] = 0]
  /\ UNCHANGED <<feed, wsFlag, traderVars, open>>

\* After the last retry the loop ends; that of the books says so.
GiveUp(s) ==
  /\ feed' = [feed EXCEPT ![s] = "ended"]
  /\ wsFlag' = IF s = "book" THEN FALSE ELSE wsFlag

NetworkError(s) ==
  /\ feed[s] = "watch"
  /\ retries' = [retries EXCEPT ![s] = @ + 1]
  /\ \/ /\ retries[s] + 1 > MaxWsRetries
        /\ GiveUp(s)
     \/ /\ retries[s] + 1 <= MaxWsRetries
        /\ feed' = [feed EXCEPT ![s] = "backoff"]
        /\ UNCHANGED wsFlag
  /\ UNCHANGED <<box, newest, traderVars, open>>

\* Any other exception, such as a malformed update: a second's sleep, not counted.
OtherError(s) ==
  /\ feed[s] = "watch"
  /\ feed' = [feed EXCEPT ![s] = "backoff"]
  /\ UNCHANGED <<retries, box, newest, wsFlag, traderVars, open>>

BackoffOver(s) ==
  /\ feed[s] = "backoff"
  /\ feed' = [feed EXCEPT ![s] = "watch"]
  /\ UNCHANGED <<retries, box, newest, wsFlag, traderVars, open>>

Watch(s) == Snapshot(s) \/ NetworkError(s) \/ OtherError(s) \/ BackoffOver(s)

-----------------------------------------------------------------------------
(* The trader.                                                             *)

\* start: connect_ws, which ends with both loops running.
TraderStarts ==
  /\ trader = "no"
  /\ feed' = [s \in Streams |-> "watch"]
  /\ retries' = [s \in Streams |-> 0]
  /\ wsFlag' = TRUE
  /\ polling' = TRUE
  /\ trader' = "poll"
  /\ UNCHANGED <<box, newest, batch, todo, stats, open>>

\* The poll loop: the book, if there is one and orders are open, is tried on them.
Poll ==
  /\ trader = "poll"
  /\ polling
  /\ box' = [box EXCEPT !["book"] = <<>>]
  /\ IF box["book"] = <<>> \/ open = {}
       THEN UNCHANGED <<batch, todo, trader>>
       ELSE LET b == box["book"][1]
                fills == Simulate(open, b)
            IN /\ stats.fills + Len(fills) <= MaxFills
               /\ batch' = [orders |-> open, book |-> b, fills |-> fills]
               /\ todo' = fills
               /\ trader' = IF fills = <<>> THEN "poll" ELSE "persist"
  /\ UNCHANGED <<feed, retries, newest, wsFlag, polling, stats, open>>

\* insert_fill returned, or failed, which is logged; the event is broadcast.
Persisted ==
  /\ trader = "persist"
  /\ trader' = "emit"
  /\ UNCHANGED <<feedVars, polling, batch, todo, stats, open>>

\* The event is out; the statistics; the next fill.
Emitted ==
  /\ trader = "emit"
  /\ stats' = [fills |-> stats.fills + 1, qty |-> stats.qty + Head(todo).amount,
                pnl |-> stats.pnl + Head(todo).pnl]
  /\ todo' = Tail(todo)
  /\ trader' = IF Tail(todo) = <<>> THEN "poll" ELSE "persist"
  /\ UNCHANGED <<feedVars, polling, batch, open>>

\* `while self._running`
PollEnds ==
  /\ trader = "poll"
  /\ ~polling
  /\ trader' = "ended"
  /\ UNCHANGED <<feedVars, polling, batch, todo, stats, open>>

\* set_open_orders, by the bot after diff_and_repost.
SetOpenOrders ==
  /\ open' \in OrderSets
  /\ UNCHANGED <<feedVars, traderVars>>

\* stop: disconnect_ws cancels both loops.
TraderStops ==
  /\ polling
  /\ polling' = FALSE
  /\ feed' = [s \in Streams |-> "off"]
  /\ wsFlag' = FALSE
  /\ UNCHANGED <<retries, box, newest, trader, batch, todo, stats, open>>

\* Orchestrator.stop cancels the task afterwards, which may be dealing with a fill.
TraderCancelled ==
  /\ trader \in {"poll", "persist", "emit"}
  /\ ~polling
  /\ trader' = "ended"
  /\ UNCHANGED <<feedVars, polling, batch, todo, stats, open>>

PaperNext ==
  \/ \E s \in Streams : Watch(s)
  \/ TraderStarts \/ Poll \/ Persisted \/ Emitted \/ PollEnds
  \/ SetOpenOrders
  \/ TraderStops \/ TraderCancelled

PaperSpec == PaperInit /\ [][PaperNext]_paperVars

-----------------------------------------------------------------------------
(* Properties.                                                             *)

\* What levels offer at o's price or better, what fills are of o, and what they are of the
\* orders of its side no more aggressive than o.
Offered(o, levels) ==
  SumFunction([i \in DOMAIN levels |-> IF Crosses(o, levels[i][1]) THEN levels[i][2] ELSE 0])

FilledOf(o, fills) ==
  SumFunction([i \in DOMAIN fills |-> IF fills[i].order = o THEN fills[i].amount ELSE 0])

Near(o, p) == p.side = o.side /\ Crosses(o, p.price)

FilledNear(o, fills) ==
  SumFunction([i \in DOMAIN fills |-> IF Near(o, fills[i].order) THEN fills[i].amount ELSE 0])

Filled(o) == FilledOf(o, batch.fills)

Levels(o) == IF o.side = "buy" THEN batch.book.asks ELSE batch.book.bids

\* FillSimulator.simulate: the orders share what the book offers, best price first.  The
\* ones no more aggressive than o take together no more than what is offered at o's
\* price or better, and an order with a worse price is filled only when those with a
\* better one are filled whole.
MatchingIsFair ==
  /\ \A o \in batch.orders : FilledNear(o, batch.fills) <= Offered(o, Levels(o))
  /\ \A a, b \in batch.orders :
       a.side = b.side /\ a.price # b.price /\ Crosses(a, b.price) /\ Filled(b) > 0
         => Filled(a) = a.amount

=============================================================================
