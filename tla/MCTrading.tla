------------------------------ MODULE MCTrading ------------------------------
(***************************************************************************)
(* The trading side of the program for TLC: how the market state reaches   *)
(* the bots, the regime, the features, the grid, the inventory and the     *)
(* circuit breaker, the fills, paper trading, the connector comparison and *)
(* the backtest.  These modules share no variable, so a behaviour follows  *)
(* one of them, chosen at the start, and the others keep one initial state.*)
(***************************************************************************)
EXTENDS Orchestrator, Regime, Candles, Grid, Equity, Fills, PaperTrading, Comparison, Backtest

VARIABLE part  \* the module followed

marketVars  == <<orchVars, regimeVars, candlesVars>>
moneyVars   == <<equityVars, fillsVars, paperVars>>
scriptVars  == <<abVars, btVars>>
tradingVars == <<marketVars, gridVars, moneyVars, scriptVars, part>>

TradingInit ==
  /\ part \in {"states", "regime", "candles", "grid", "equity", "fills", "paper",
               "comparison", "backtest"}
  /\ OrchInit /\ RegimeInit /\ FillsInit /\ PaperInit /\ ComparisonInit
  /\ CandlesInit
  /\ part = "candles" \/ (minutes = 1 /\ learned /\ bars[1] = CHOOSE s \in Shapes : TRUE)
  /\ EquityInit
  /\ part = "equity" \/ (configured = None /\ account = CHOOSE b \in Balances : TRUE)
  /\ BacktestInit
  /\ part = "backtest" \/ history = {}
  /\ IF part = "grid" THEN GridInit ELSE given = <<>> /\ grid = NoGrid

MarketNext ==
  \/ part = "states" /\ OrchNext /\ UNCHANGED <<regimeVars, candlesVars>>
  \/ part = "regime" /\ RegimeNext /\ UNCHANGED <<orchVars, candlesVars>>
  \/ part = "candles" /\ CandlesNext /\ UNCHANGED <<orchVars, regimeVars>>

MoneyNext ==
  \/ part = "equity" /\ EquityNext /\ UNCHANGED <<fillsVars, paperVars>>
  \/ part = "fills" /\ FillsNext /\ UNCHANGED <<equityVars, paperVars>>
  \/ part = "paper" /\ PaperNext /\ UNCHANGED <<equityVars, fillsVars>>

ScriptNext ==
  \/ part = "comparison" /\ ComparisonNext /\ UNCHANGED btVars
  \/ part = "backtest" /\ BacktestNext /\ UNCHANGED abVars

TradingNext ==
  \/ MarketNext /\ UNCHANGED <<gridVars, moneyVars, scriptVars, part>>
  \/ part = "grid" /\ GridNext /\ UNCHANGED <<marketVars, moneyVars, scriptVars, part>>
  \/ MoneyNext /\ UNCHANGED <<marketVars, gridVars, scriptVars, part>>
  \/ ScriptNext /\ UNCHANGED <<marketVars, gridVars, moneyVars, part>>

TradingSpec == TradingInit /\ [][TradingNext]_tradingVars

-----------------------------------------------------------------------------
\* Orchestrator: two exchanges, before and after one of them is disabled.
BothEnabled == [weights |-> [e \in {"gate", "mexc"} |-> IF e = "gate" THEN 2 ELSE 1],
                enabled |-> {"gate", "mexc"}]
OneEnabled  == [weights |-> [e \in {"gate", "mexc"} |-> IF e = "gate" THEN 0 ELSE 1],
                enabled |-> {"mexc"}]
MCConfigs   == {BothEnabled, OneEnabled}

\* Regime: a calm market, a rising one, a falling one and a wild one.
Reading(vol, zz, regime) == [vol |-> vol, zz |-> zz, regime |-> regime]
MCReadings == {Reading(100, 5, "choppy"), Reading(100, 5, "up"), Reading(300, 20, "down"),
               Reading(600, 60, "choppy")}

\* Candles: quiet, crashing and recovering minutes.
MCShapes == {[range |-> 5, move |-> 1], [range |-> 120, move |-> -50], [range |-> 80, move |-> 60]}

\* Grid: the usual configuration; its own level counts and minimum steps; a small
\* budget; a minimum order close to the budget.
UsualGrid ==
  [buyLevels |-> 0, sellLevels |-> 0, depthLevels |-> 4, buyTightest |-> -10, buyWidest |-> -500,
   sellTightest |-> 30, sellWidest |-> 700, buyStep |-> 0, sellStep |-> 0, tick |-> 7,
   budget |-> 1000, depthCurve |-> 4, minOrder |-> 5, minStepUsd |-> 0,
   volLow |-> 1, volHigh |-> 3, power |-> 2, base |-> 1000,
   crashBuyFloor |-> 600, crashSellCeiling |-> 100, crashBuyDepth |-> 1500,
   crashSellDepth |-> 300, recoveryBuy |-> 1200, recoverySell |-> 700]
MCGridConfigs ==
  {UsualGrid,
   [UsualGrid EXCEPT !.buyLevels = 3, !.buyStep = 50, !.sellStep = 50, !.base = 400, !.minStepUsd = 100],
   [UsualGrid EXCEPT !.budget = 100, !.minOrder = 12, !.minStepUsd = 20],
   [UsualGrid EXCEPT !.minOrder = 70]}
MCMarkets ==
  [mid : {10000}, vol : {1, 2, 3}, zz : {"choppy", "trending_up", "trending_down"},
   hmm : {"LOW_VOL", "NORMAL", "HIGH_VOL", "HIGH_VOL_CRASH", "RECOVERY"}, confidence : {250, 700},
   mm : {[spread |-> 1000, depth |-> 1000, skew |-> 0], [spread |-> 3000, depth |-> 300, skew |-> 20]}]
MCDrifts == {-60, 25}

\* Equity: balances above and below the minimum.
MCBalances == {[usd |-> 100, token |-> 10], [usd |-> 80, token |-> 30], [usd |-> 20, token |-> 50]}

\* Paper trading: an empty book, two books the orders cross, one they do not share.
Order(i, s, p, a) == [id |-> i, side |-> s, price |-> p, amount |-> a]
Book(b, a) == [bids |-> b, asks |-> a]
MCSnapshots ==
  [book |-> {Book(<<>>, <<>>), Book(<<<<2, 1>>>>, <<<<4, 2>>, <<5, 1>>>>),
             Book(<<<<6, 3>>, <<4, 1>>>>, <<>>), Book(<<<<1, 1>>>>, <<<<2, 1>>, <<3, 2>>>>)},
   ticker |-> {1, 2}]
MCOrderSets ==
  {{Order(1, "buy", 3, 2), Order(2, "buy", 4, 2), Order(3, "sell", 6, 2)},
   {Order(4, "buy", 2, 1), Order(5, "buy", 5, 3), Order(6, "sell", 5, 1), Order(7, "sell", 4, 2)}}

\* Comparison: a narrow and a wide grid.
MCABGrids == {{-3, -20, 3, 20}, {-8, -50, 8, 50}}

\* Backtest: a flat, a wide, a falling and a rising candle.
Shot(c, r) == [close |-> c, range |-> r, volume |-> 100]
MCShots == {Shot(10000, 0), Shot(10000, 900), Shot(8000, 100), Shot(12000, 100)}
Quote(s, m) == [spread |-> s, money |-> m]
MCReplayGrids == {<<Quote(-1, 400000), Quote(-50, 900000), Quote(3, 400000), Quote(70, 900000)>>}
MCCapital == [usd |-> 400000000, token |-> 100]
=============================================================================
