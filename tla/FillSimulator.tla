---------------------------- MODULE FillSimulator ----------------------------
(***************************************************************************)
(* core/fill_simulator.py: the orders that a book would fill.              *)
(*                                                                         *)
(* An order is [id, side, price, amount]; a book has its bids and asks,    *)
(* best first, as sequences of <<price, quantity>>.                        *)
(***************************************************************************)
EXTENDS Integers, SequencesExt

Crosses(o, price) == IF o.side = "buy" THEN price <= o.price ELSE price >= o.price

\* One turn of the loop of _try_fill_buy and _try_fill_sell: the order takes from a level
\* at its price or better; a level taken whole is removed.
TakeLevel(o, acc, l) ==
  LET t == IF Crosses(o, l[1]) /\ acc.rest > 0
             THEN IF l[2] < acc.rest THEN l[2] ELSE acc.rest ELSE 0
  IN [rest   |-> acc.rest - t,
      levels |-> IF l[2] > t THEN Append(acc.levels, <<l[1], l[2] - t>>) ELSE acc.levels]

\* The loop, over the levels, best first.
Consume(levels, o) ==
  FoldLeft(LAMBDA acc, l : TakeLevel(o, acc, l), [rest |-> o.amount, levels |-> <<>>], levels)

Older(a, b) == a.id < b.id

\* The best price first; the orders of one price in the order they were placed.
Ahead(a, b) ==
  \/ a.price = b.price /\ Older(a, b)
  \/ a.side = "buy"  /\ a.price > b.price
  \/ a.side = "sell" /\ a.price < b.price

Arranged(orders, before(_, _)) ==
  CHOOSE s \in [1 .. Cardinality(orders) -> orders] :
    \A i, j \in DOMAIN s : i < j => before(s[i], s[j])

\* Orders in the order they were placed.
ByAge(orders) == Arranged(orders, Older)

Sorted(orders) == Arranged(orders, Ahead)

\* Twice `book.mid or 0.0`, which the poll loop passes as the current mid.
TwiceMid(book) ==
  IF book.bids = <<>> \/ book.asks = <<>> THEN 0 ELSE book.bids[1][1] + book.asks[1][1]

\* One order against the levels left.  The profit of a sale is its price over the mid,
\* that of a purchase is 0; fees are left out.
Serve(mid2, acc, o) ==
  LET c   == Consume(acc.levels, o)
      got == o.amount - c.rest
      pnl == IF o.side = "sell" THEN (2 * o.price - mid2) * got ELSE 0
  IN [levels |-> c.levels,
      fills  |-> IF got > 0 THEN Append(acc.fills, [order |-> o, amount |-> got, pnl |-> pnl])
                            ELSE acc.fills]

\* The orders of one side against the other side of the book.
FillSide(orders, levels, mid2) ==
  FoldLeft(LAMBDA acc, o : Serve(mid2, acc, o), [levels |-> levels, fills |-> <<>>],
           Sorted(orders)).fills

\* FillSimulator.simulate
Simulate(orders, book) ==
  FillSide({o \in orders : o.side = "buy"}, book.asks, TwiceMid(book))
    \o FillSide({o \in orders : o.side = "sell"}, book.bids, TwiceMid(book))

=============================================================================
