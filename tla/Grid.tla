--------------------------------- MODULE Grid ---------------------------------
(***************************************************************************)
(* The order grid of one tick: core/exchange_bot.py between the safety     *)
(* checks and diff_and_repost, with quant/aggressiveness.py,               *)
(* quant/spread_engine.py, quant/depth_engine.py, the skew of              *)
(* core/inventory_tracker.py and utils/math_utils.py.                      *)
(*                                                                         *)
(* Nothing is awaited in between: one action computes the grid from the    *)
(* bot's configuration, the market state and the inventory.  Floats are    *)
(* integers: aggressiveness, confidence and multipliers in thousandths,    *)
(* skew in hundredths, spreads in hundredths of a percent, amounts in      *)
(* dollars; divisions truncate.  The power curve of the spreads is any     *)
(* sequence that goes from 0 to 1 without falling.                         *)
(***************************************************************************)
EXTENDS Integers, Sequences, SequencesExt

CONSTANTS
  GridConfigs, \* configurations: the fields of SpreadConfig, DepthConfig, VolatilityConfig
               \* and HMMConfig that the grid depends on
  Markets,     \* market states: [mid, vol, zz, hmm, confidence, mm]
  Drifts,      \* token drifts from the initial balance, in hundredths
  CurveValues  \* the values, in thousandths, a power curve may take

\* What config/schema.py lets pass, and a little more; 0 levels of a side are None.
LevelCounts == 3 .. 30

GridSettings ==
  [depthLevels : LevelCounts, buyLevels : {0} \cup LevelCounts, sellLevels : {0} \cup LevelCounts,
   buyTightest : Int, buyWidest : Int, sellTightest : Int, sellWidest : Int,
   buyStep : Nat, sellStep : Nat, tick : Nat \ {0},
   budget : Nat, depthCurve : Nat \ {0}, minOrder : Nat, minStepUsd : Nat,
   volLow : Nat, volHigh : Nat, power : Nat \ {0}, base : 0 .. 1000,
   crashBuyFloor : 0 .. 1000, crashSellCeiling : 0 .. 1000,
   crashBuyDepth : Nat, crashSellDepth : Nat, recoveryBuy : Nat, recoverySell : Nat]

MarketStates ==
  [mid : Nat, vol : Nat, zz : {"choppy", "trending_up", "trending_down"},
   hmm : {"LOW_VOL", "NORMAL", "HIGH_VOL", "HIGH_VOL_CRASH", "RECOVERY"},
   confidence : 0 .. 1000, mm : [spread : Nat, depth : Nat, skew : Int]]

ASSUME GridAssumption ==
  /\ CurveValues \subseteq 0 .. 1000 /\ Drifts \subseteq Int
  /\ GridConfigs \subseteq {c \in GridSettings : c.buyWidest < 0 /\ c.buyTightest < 0}
  /\ Markets \subseteq MarketStates

VARIABLES
  given, \* [config, market, drift, buyCurve, sellCurve]
  grid   \* the grid computed, or NoGrid

gridVars == <<given, grid>>

NoGrid == [buyPrices |-> <<>>]

Lesser(a, b)  == IF a < b THEN a ELSE b
Greater(a, b) == IF a > b THEN a ELSE b
Clip(x, lo, hi) == Greater(lo, Lesser(hi, x))

\* `x or default`, None being 0
Or(x, default) == IF x = 0 THEN default ELSE x

BuyLevels(c)  == Or(c.buyLevels, c.depthLevels)
SellLevels(c) == Or(c.sellLevels, c.depthLevels)

\* t ** gamma over n evenly spaced points.
Curves(n) ==
  {f \in [1 .. n -> CurveValues] :
     f[1] = 0 /\ f[n] = 1000 /\ \A i \in 1 .. n - 1 : f[i] <= f[i + 1]}

GridInit ==
  /\ \E c \in GridConfigs, m \in Markets, d \in Drifts :
       \E b \in Curves(BuyLevels(c)), s \in Curves(SellLevels(c)) :
         given = [config |-> c, market |-> m, drift |-> d, buyCurve |-> b, sellCurve |-> s]
  /\ grid = NoGrid

-----------------------------------------------------------------------------
(* Aggressiveness.                                                         *)

Thousandths(x, y) == (x * y) \div 1000

\* x ** p of thousandths, for p of at least 1
PowerOf(x, p) ==
  LET power[k \in 0 .. p - 1] == IF k = 0 THEN x ELSE Thousandths(power[k - 1], x)
  IN power[p - 1]

\* AggressivenessModel.compute
BaseAgg(c, vol) ==
  IF vol <= c.volLow THEN 1000
  ELSE IF vol >= c.volHigh THEN 0
  ELSE Clip(1000 - PowerOf(((vol - c.volLow) * 1000) \div (c.volHigh - c.volLow), c.power), 0, 1000)

\* compute_with_regime: <<buy, sell>>
ZzAgg(c, m) ==
  LET base == BaseAgg(c, m.vol)
      less == Clip(Thousandths(base, 800), 0, 1000)
      more == Clip(Thousandths(base, 1100), 0, 1000)
  IN CASE m.zz = "trending_up"   -> <<less, more>>
       [] m.zz = "trending_down" -> <<more, less>>
       [] OTHER                  -> <<base, base>>

\* crash_buy_agg_floor
CrashFloor(c, buy) == Greater(buy, c.crashBuyFloor)

\* compute_with_hmm_regime: below a confidence of a half the overlay fades.
HmmAgg(c, m) ==
  LET zz == ZzAgg(c, m)
      over == CASE m.hmm = "LOW_VOL"  -> <<Thousandths(zz[1], 1100), Thousandths(zz[2], 1100)>>
                [] m.hmm = "HIGH_VOL" -> <<Thousandths(zz[1], 700), Thousandths(zz[2], 600)>>
                [] m.hmm = "HIGH_VOL_CRASH" ->
                     <<CrashFloor(c, zz[1]), Lesser(zz[2], c.crashSellCeiling)>>
                [] m.hmm = "RECOVERY" ->
                     <<Thousandths(zz[1], c.recoveryBuy), Thousandths(zz[2], c.recoverySell)>>
      blend == IF m.confidence < 500 THEN 2 * m.confidence ELSE 1000
  IN IF m.hmm = "NORMAL" THEN zz
     ELSE [i \in 1 .. 2 |-> Clip(zz[i] + ((over[i] - zz[i]) * blend) \div 1000, 0, 1000)]

\* The two sides, scaled by base_aggressiveness.
Aggressiveness(c, m) == [i \in 1 .. 2 |-> Thousandths(HmmAgg(c, m)[i], c.base)]

-----------------------------------------------------------------------------
(* Spreads and prices.                                                     *)

\* _compute_side_levels between the boundaries that the regime scales
SideLevels(tightest, widest, mult, curve) ==
  [i \in DOMAIN curve |->
     (tightest * mult) \div 1000 + ((((widest - tightest) * mult) \div 1000) * curve[i]) \div 1000]

\* A level too close to the one before it moves away from it.
Pushed(levels, step) ==
  LET push(acc, l) == LET prev == acc[Len(acc)]
                          gap  == IF l > prev THEN l - prev ELSE prev - l
                      IN Append(acc, IF gap >= step THEN l
                                     ELSE IF prev > 0 THEN prev + step ELSE prev - step)
  IN FoldLeft(push, <<levels[1]>>, Tail(levels))

\* enforce_min_step
EnforceMinStep(levels, step) == IF step <= 0 THEN levels ELSE Pushed(levels, step)

\* compute_levels_huy, for each side
BuySpreads(c, m, curve) ==
  EnforceMinStep(SideLevels(c.buyTightest, c.buyWidest, Greater(100, m.mm.spread), curve),
                 c.buyStep)

SellSpreads(c, m, curve) ==
  EnforceMinStep(SideLevels(c.sellTightest, c.sellWidest, Greater(100, m.mm.spread), curve),
                 c.sellStep)

\* The price of a spread, rounded to the tick.
PriceOf(c, m, spread) ==
  LET x == (m.mid * (10000 + spread)) \div 10000
  IN c.tick * ((2 * x + c.tick) \div (2 * c.tick))

-----------------------------------------------------------------------------
(* Depth.                                                                  *)

\* geometric_decay, before it is normalised
Decay(n) ==
  LET weight[k \in 0 .. n - 1] == IF k = 0 THEN 1000 ELSE (4 * weight[k - 1]) \div 5
  IN [i \in 1 .. n |-> weight[i - 1]]

Total(s) == SumFunction(s)

\* The blend of the passive and the equal distribution, over the budget of the side.
RawAmounts(c, agg, n, budget) ==
  LET blend == PowerOf(agg, c.depthCurve)
      decay == Decay(n)
      share(i) == ((1000 - blend) * decay[i]) \div Total(decay) + blend \div n
  IN [i \in 1 .. n |-> (share(i) * budget) \div 1000]

\* min_step_usd: a level is smaller than the one before it by the step, or empty.
FallBySteps(amounts, step) ==
  LET cut[k \in 0 .. Len(amounts) - 1] ==
        IF k = 0 THEN amounts[1] ELSE Lesser(amounts[k + 1], Greater(cut[k - 1] - step, 0))
  IN IF step <= 0 THEN amounts ELSE [i \in DOMAIN amounts |-> cut[i - 1]]

AtLeast(amounts, least) == [i \in DOMAIN amounts |-> Greater(amounts[i], least)]

\* What exceeds the budget is scaled down to it, unless that leaves a level too small.
Capped(amounts, budget, least) ==
  LET scaled == [i \in DOMAIN amounts |-> (amounts[i] * budget) \div Total(amounts)]
  IN IF Total(amounts) > budget /\ \A i \in DOMAIN scaled : scaled[i] >= least
       THEN scaled ELSE amounts

SideBudget(c, m, skew) ==
  ((((c.budget \div 2) * m.mm.depth) \div 1000) * Clip(skew, 50, 200)) \div 100

\* The minimum order size applied before the steps.
AmountsFloorFirst(c, m, agg, n, skew) ==
  LET budget == SideBudget(c, m, skew)
      raw == FallBySteps(AtLeast(RawAmounts(c, agg, n, budget), c.minOrder), c.minStepUsd)
  IN Capped(raw, budget, c.minOrder)

\* DepthEngine.compute_amounts
Amounts(c, m, agg, n, skew) ==
  LET budget == SideBudget(c, m, skew)
      raw == FallBySteps(RawAmounts(c, agg, n, budget), c.minStepUsd)
  IN Capped(AtLeast(raw, c.minOrder), budget, c.minOrder)

\* InventoryTracker.skew_factor, then the regime's inventory_skew.
Skew(m, drift) ==
  LET skew == Clip(100 - 2 * drift, 50, 200)
  IN IF m.mm.skew = 0 THEN skew ELSE Clip(skew + m.mm.skew, 50, 200)

\* A crash that moves the capital to the other side.
CrashSwapped(c, m, amounts, side) ==
  LET factor == IF side = "sell" THEN c.crashBuyDepth ELSE c.crashSellDepth
  IN IF m.hmm # "HIGH_VOL_CRASH" THEN amounts
     ELSE [i \in DOMAIN amounts |-> Thousandths(amounts[i], factor)]

\* HIGH_VOL_CRASH: capital moves from the sell to the buy side.
CrashDepth(c, m, amounts, side) ==
  LET factor == IF side = "buy" THEN c.crashBuyDepth ELSE c.crashSellDepth
  IN IF m.hmm # "HIGH_VOL_CRASH" THEN amounts
     ELSE [i \in DOMAIN amounts |-> Thousandths(amounts[i], factor)]

-----------------------------------------------------------------------------
\* _tick, between the safety checks and diff_and_repost.
ComputeGrid ==
  /\ grid = NoGrid
  /\ LET c == given.config
         m == given.market
         agg == Aggressiveness(c, m)
         skew == Skew(m, given.drift)
         buys == BuySpreads(c, m, given.buyCurve)
         sells == SellSpreads(c, m, given.sellCurve)
         buyUsd == Amounts(c, m, agg[1], BuyLevels(c), skew)
         sellUsd == Amounts(c, m, agg[2], SellLevels(c), 200 - skew)
     IN grid' = [buyAgg |-> agg[1], sellAgg |-> agg[2],
                 buySpreads |-> buys, sellSpreads |-> sells,
                 buyPrices |-> [i \in DOMAIN buys |-> PriceOf(c, m, buys[i])],
                 sellPrices |-> [i \in DOMAIN sells |-> PriceOf(c, m, sells[i])],
                 buyFull |-> buyUsd, sellFull |-> sellUsd,
                 buyUsd |-> CrashDepth(c, m, buyUsd, "buy"),
                 sellUsd |-> CrashDepth(c, m, sellUsd, "sell")]
  /\ UNCHANGED given

GridNext == ComputeGrid

GridSpec == GridInit /\ [][GridNext]_gridVars

-----------------------------------------------------------------------------
(* Properties.                                                             *)

Falling(s) == \A i \in 1 .. Len(s) - 1 : s[i] >= s[i + 1]
Rising(s)  == \A i \in 1 .. Len(s) - 1 : s[i] <= s[i + 1]

\* The bounds lie as their descriptions say: the schema does not check it.
BoundsInOrder(c) ==
  /\ c.buyWidest <= c.buyTightest
  /\ c.buyTightest <= c.sellTightest
  /\ c.sellTightest <= c.sellWidest

\* compute_levels_huy, the tick rounding: without minimum steps the levels go outward
\* from the mid on both sides, and no purchase is dearer than a sale, whatever the
\* regime makes of the bounds.  compute_amounts: no level is smaller than the exchange
\* takes, none is larger than the one before it, whatever steps, minimum and budget make
\* of each other.
GridFansOut ==
  grid # NoGrid =>
    /\ BoundsInOrder(given.config) /\ given.config.buyStep = 0 /\ given.config.sellStep = 0 =>
         /\ Falling(grid.buyPrices) /\ Rising(grid.sellPrices)
         /\ grid.buyPrices[1] <= grid.sellPrices[1]
    /\ \A s \in {grid.buyFull, grid.sellFull} :
         Falling(s) /\ \A i \in DOMAIN s : s[i] >= given.config.minOrder

\* _tick, crash_depth_override: in a crash the bids are worth more than the asks, even
\* when the inventory asks for sales.
CrashLeansOnBids ==
  grid # NoGrid /\ given.market.hmm = "HIGH_VOL_CRASH"
    /\ BuyLevels(given.config) = SellLevels(given.config) =>
    Total(grid.buyUsd) >= Total(grid.sellUsd)

=============================================================================
