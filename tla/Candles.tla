------------------------------- MODULE Candles -------------------------------
(***************************************************************************)
(* quant/volatility.py and quant/hmm_regime.py, as _tick_prices of         *)
(* core/orchestrator.py drives them: the window of one-minute candles, the *)
(* features taken from it, and the regime decoded from them.               *)
(*                                                                         *)
(* A candle is its minute, its range and its move, in units of 0.01%; the  *)
(* squares of the Zhang-Zhang estimator are in millionths of a percent.    *)
(***************************************************************************)
EXTENDS Integers, SequencesExt

CONSTANTS
  Shapes,         \* the candles of the market: [range, move]
  WindowMinutes,  \* window_minutes, any of these
  FetchLimit,     \* candles fetched at once (15 in the code)
  Lookback,       \* hmm_lookback
  MinObs,         \* hmm_min_observations
  MaxMinutes,     \* bound on the minutes, those of the history included
  MaxObs          \* bound on the price ticks in a minute

ASSUME CandlesAssumption ==
  /\ WindowMinutes \subseteq Nat \ {0}
  /\ {FetchLimit, Lookback, MinObs} \subseteq Nat \ {0}
  /\ MinObs <= Lookback
  /\ \A s \in Shapes : s.range \in Nat /\ s.move \in Int

VARIABLES
  minutes,  \* window_minutes of this run
  learned,  \* hmmlearn is installed
  bars,     \* the candles of the market so far
  fetched,  \* the minute of the last fetch that succeeded, 0 for none
  candles,  \* VolatilityEngine._candles: minutes
  obs,      \* HMMRegimeDetector._observations: the features, with their minute
  ticks,    \* price ticks since the minute began
  hmm       \* HMMRegimeDetector._current_regime

candlesVars == <<minutes, learned, bars, fetched, candles, obs, ticks, hmm>>

HmmRegimes == {"LOW_VOL", "NORMAL", "HIGH_VOL", "HIGH_VOL_CRASH", "RECOVERY"}
Now == Len(bars)

\* The market has a history, of one shape.
CandlesInit ==
  /\ minutes \in WindowMinutes /\ learned \in BOOLEAN
  /\ \E s \in Shapes : bars = [i \in 1 .. FetchLimit |-> s]
  /\ fetched = 0 /\ candles = <<>> /\ obs = <<>> /\ ticks = 0 /\ hmm = "NORMAL"

\* The last n of a sequence: what a deque with maxlen n keeps.
LastOf(n, s) == SubSeq(s, Max({1, Len(s) - n + 1}), Len(s))

\* A window without a bound.
Unbounded(window, new) == window \o new

\* update_candles, on a deque with maxlen window_minutes + 5.
Loaded(window, new) == LastOf(minutes + 5, window \o new)

\* fetch_candles: the last ones, by their minutes.
Newest == LastOf(FetchLimit, [i \in 1 .. Now |-> i])

SumOf(f(_), window) == FoldLeft(LAMBDA sum, m : sum + f(bars[m]), 0, window)

\* zhang_zhang_vol, of one candle.
Estimate(b) == (500 * b.range * b.range - 386 * b.move * b.move) \div 1000

\* zhang_zhang_vol and hmm_features: the variance, the mean direction and the change
\* over the window, each times the number of candles.
Features(window) ==
  [n |-> Len(window),
   variance |-> SumOf(Estimate, window),
   direction |-> SumOf(LAMBDA b : b.move, window),
   roc |-> SumOf(LAMBDA b : b.move, Tail(window))]

\* zz_vol > v
Above(f, v) == f.variance > v * v * f.n

\* The rules with the crash behind the high volatility it comes with.
VolatilityFirst(f) ==
  IF Above(f, 30) THEN "HIGH_VOL"
  ELSE IF Above(f, 50) /\ f.direction < -30 * f.n /\ f.roc < -40 THEN "HIGH_VOL_CRASH"
  ELSE IF ~Above(f, 8) THEN "LOW_VOL"
  ELSE "NORMAL"

\* _fallback_decode
Fallback(f) ==
  IF Above(f, 50) /\ f.direction < -30 * f.n /\ f.roc < -40 THEN "HIGH_VOL_CRASH"
  ELSE IF /\ hmm \in {"HIGH_VOL_CRASH", "RECOVERY"}
          /\ Above(f, 20) /\ f.direction > 10 * f.n /\ f.roc > 10 THEN "RECOVERY"
  ELSE IF Above(f, 30) THEN "HIGH_VOL"
  ELSE IF ~Above(f, 8) THEN "LOW_VOL"
  ELSE "NORMAL"

\* A minute of the market.
MinutePasses ==
  /\ Now < MaxMinutes
  /\ \E s \in Shapes : bars' = Append(bars, s)
  /\ ticks' = 0
  /\ UNCHANGED <<minutes, learned, fetched, candles, obs, hmm>>

\* _tick_prices, from the price to the regime.  A minute after the last fetch candles
\* are fetched again, which may fail.  The detector is updated once there are three; the
\* model may decode any regime, and what it raises falls back on the rules.
PriceTick ==
  /\ ticks < MaxObs
  /\ ticks' = ticks + 1
  /\ \/ /\ Now > fetched
        /\ candles' = Loaded(candles, Newest)
        /\ fetched' = Now
     \/ UNCHANGED <<candles, fetched>>
  /\ IF Len(candles') < 3 THEN UNCHANGED <<obs, hmm>>
     ELSE LET f == Features(candles')
          IN /\ obs' = LastOf(Lookback, Append(obs, f @@ [minute |-> fetched']))
             /\ IF Len(obs') < MinObs THEN UNCHANGED hmm
                ELSE hmm' \in {Fallback(f)} \cup (IF learned THEN HmmRegimes ELSE {})
  /\ UNCHANGED <<minutes, learned, bars>>

CandlesNext == MinutePasses \/ PriceTick

CandlesSpec == CandlesInit /\ [][CandlesNext]_candlesVars

-----------------------------------------------------------------------------
(* Properties.                                                             *)

\* update_candles: the batches overlap, but while a batch fills the window each minute is
\* in it once, in order, and the newest is that of the last fetch.
WindowHoldsEachOnce ==
  minutes + 5 <= FetchLimit =>
    \A i \in DOMAIN candles : candles[i] = fetched - Len(candles) + i

\* _fallback_decode, zhang_zhang_vol, hmm_features: a window of wide candles that fall
\* is a crash, however often each of them is in it, unless a model says otherwise.
CrashIsSeen ==
  /\ ~learned
  /\ Len(candles) >= 3 /\ Len(obs) >= MinObs
  /\ \A i \in DOMAIN candles : bars[candles[i]].range >= 110 /\ bars[candles[i]].move \in -60 .. -40
  => hmm = "HIGH_VOL_CRASH"

=============================================================================
