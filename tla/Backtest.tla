------------------------------- MODULE Backtest -------------------------------
(***************************************************************************)
(* scripts/backtest.py: the download of the candles, page by page, and the *)
(* replay of the strategy on a book made up from each candle.              *)
(*                                                                         *)
(* Prices are integers, in a unit so small that half of the least spread,  *)
(* half a thousandth, is not nothing; spreads are in thousandths, money in *)
(* thousandths of a price unit; the fee is one thousandth.                 *)
(***************************************************************************)
EXTENDS FillSimulator, FiniteSets

CONSTANTS
  Shots,        \* what a candle may show: [close, range, volume]
  ReplayGrids,  \* grids: sequences of [spread, money], a negative spread for a buy
  BookSide,     \* BOOK_LEVELS (20 in the code)
  WarmupLen,    \* candles before trading (window_minutes)
  PageLen,      \* candles in a page (1000 in the code)
  LastMinute,   \* the minutes asked for are 0 .. LastMinute
  Capital       \* the initial balances: [usd, token]

ASSUME BacktestAssumption ==
  /\ PageLen \in Nat \ {0, 1} /\ BookSide \in Nat \ {0} /\ {WarmupLen, LastMinute} \subseteq Nat
  /\ {Capital.usd, Capital.token} \subseteq Nat
  /\ \A s \in Shots : {s.close, s.range, s.volume} \subseteq Nat /\ s.close >= 2000
  /\ \A g \in ReplayGrids :
       g \in Seq({l \in [spread : Int, money : Nat] : l.spread > -1000})

VARIABLES
  history,   \* the minutes the exchange has candles of
  cursor,    \* fetch_candles: the minute asked for next
  rows,      \* all_rows
  stage,     \* "fetch", "replay" or "done"
  sampled,   \* the candles replayed
  balances,  \* usd_balance and token_balance: [usd, token]
  traded     \* the fills: BacktestStats.total_fills

btVars == <<history, cursor, rows, stage, sampled, balances, traded>>

BacktestInit ==
  /\ history \in SUBSET (0 .. LastMinute)
  /\ cursor = 0 /\ rows = <<>> /\ stage = "fetch"
  /\ sampled = <<>> /\ balances = Capital /\ traded = 0

-----------------------------------------------------------------------------
(* fetch_candles.                                                          *)

Smaller(a, b) == IF a < b THEN a ELSE b
Larger(a, b)  == IF a < b THEN b ELSE a

Increasing(s) == \A i, j \in DOMAIN s : i < j => s[i] < s[j]

\* fetch_ohlcv: the first candles from a minute on, a page of them if there are as many.
Pages(since) ==
  {page \in UNION {[1 .. n -> history] : n \in 0 .. PageLen} :
     LET left == {m \in history : m >= since} \ Range(page)
     IN /\ Increasing(page)
        /\ \A i \in DOMAIN page : page[i] >= since /\ \A m \in left : page[i] < m
        /\ left = {} \/ Len(page) = PageLen}

\* A next page that begins with the last candle of this one.
FromLast(minute) == minute

\* The minute after the last candle.
After(minute) == minute + 1

FetchPage ==
  /\ stage = "fetch"
  /\ \E page \in Pages(cursor) :
       IF cursor > LastMinute \/ page = <<>>
         THEN /\ stage' = IF rows = <<>> THEN "done" ELSE "replay"
              /\ UNCHANGED <<cursor, rows>>
         ELSE /\ rows' = rows \o page
              /\ IF Last(page) <= cursor THEN stage' = "replay" /\ UNCHANGED cursor
                 ELSE cursor' = After(Last(page)) /\ UNCHANGED stage
  /\ UNCHANGED <<history, sampled, balances, traded>>

-----------------------------------------------------------------------------
(* run_backtest.                                                           *)

\* synthesise_book: a ladder of levels around the close, as wide as the candle; each
\* level holds 85 % of the one before.
SynthesiseBook(shot) ==
  LET half  == Larger(shot.close \div 1000, Smaller(shot.close \div 50, shot.range)) \div 2
      step  == shot.close \div 2000
      depth[i \in 0 .. BookSide] ==
        IF i = 0 THEN Larger(shot.volume, 1000) \div BookSide ELSE (depth[i - 1] * 17) \div 20
  IN [bids |-> [i \in 1 .. BookSide |-> <<shot.close - half - (i - 1) * step, depth[i - 1]>>],
      asks |-> [i \in 1 .. BookSide |-> <<shot.close + half + (i - 1) * step, depth[i - 1]>>]]

\* The grid around a mid, capped by the balances: each buy by all the money there is, each
\* sell by all the tokens.  An order of nothing is not made.
MakeGridOrders(mid, levels) ==
  LET price(l) == mid + (mid * l.spread) \div 1000
      amount(l) == LET whole == l.money \div price(l)
                   IN IF l.spread < 0
                        THEN Smaller(whole, Larger(0, balances.usd \div (1000 * price(l))))
                        ELSE Smaller(whole, Larger(0, balances.token))
  IN {[id |-> i, side |-> IF levels[i].spread < 0 THEN "buy" ELSE "sell",
       price |-> price(levels[i]), amount |-> amount(levels[i])] :
         i \in {j \in DOMAIN levels : amount(levels[j]) > 0}}

\* The orders of the tick before.
OrdersOfLast(shot, levels) ==
  IF sampled = <<>> THEN {} ELSE MakeGridOrders(Last(sampled).close, levels)

\* The orders of this candle, which meet the book of this candle.
OrdersOf(shot, levels) == MakeGridOrders(shot.close, levels)

Settled(b, fill) ==
  LET notional == 1000 * fill.order.price * fill.amount
      fee      == fill.order.price * fill.amount
  IN IF fill.order.side = "buy"
       THEN [usd |-> b.usd - notional - fee, token |-> b.token + fill.amount]
       ELSE [usd |-> b.usd + notional - fee, token |-> b.token - fill.amount]

ReplayCandle ==
  /\ stage = "replay"
  /\ Len(sampled) < Len(rows)
  /\ \E shot \in Shots, levels \in ReplayGrids :
       /\ sampled' = Append(sampled, shot)
       /\ LET fills == IF Len(sampled') < WarmupLen THEN <<>>
                       ELSE Simulate(OrdersOf(shot, levels), SynthesiseBook(shot))
          IN /\ balances' = FoldLeft(Settled, balances, fills)
             /\ traded' = traded + Len(fills)
  /\ UNCHANGED <<history, cursor, rows, stage>>

ReplayEnds ==
  /\ stage = "replay"
  /\ Len(sampled) = Len(rows)
  /\ stage' = "done"
  /\ UNCHANGED <<history, cursor, rows, sampled, balances, traded>>

BacktestNext == FetchPage \/ ReplayCandle \/ ReplayEnds

BacktestSpec == BacktestInit /\ [][BacktestNext]_btVars

-----------------------------------------------------------------------------
(* Properties.                                                             *)

\* fetch_candles: whatever the exchange lacks, its candles are replayed once each and in
\* order, and none is left out.
EveryCandleOnce == stage # "fetch" => Increasing(rows) /\ Range(rows) = history

\* run_backtest: the grid of a candle never meets the book made up from the same candle,
\* since both lie around its close: whatever the market does, nothing is bought or sold.
NothingTrades == traded = 0 /\ balances = Capital

=============================================================================
