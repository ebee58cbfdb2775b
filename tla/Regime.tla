-------------------------------- MODULE Regime --------------------------------
(***************************************************************************)
(* quant/regime_detector.py with _process_state of core/regime_master.py:  *)
(* the hidden Markov filter over four regimes, and how its regime is       *)
(* reconciled with the Zhang-Zhang one.                                    *)
(*                                                                         *)
(* Probabilities are in percent and the belief in thousandths, normalised  *)
(* after each factor.  Volatilities and the spread proxy are in units of   *)
(* 0.01%.  The order book imbalance and the funding rate are constants of  *)
(* the caller.                                                             *)
(***************************************************************************)
EXTENDS Integers, SequencesExt

CONSTANTS
  Readings,    \* what a state of the market may show: [vol, zz, regime]
  GlobalMids,  \* the mid prices
  MaxUpdates   \* bound on the updates

ASSUME RegimeAssumption ==
  /\ GlobalMids \subseteq Nat \ {0}
  /\ \A r \in Readings : {r.vol, r.zz} \subseteq Nat /\ r.regime \in {"up", "down", "choppy"}

VARIABLES
  belief,    \* RegimeDetector._belief
  prevMid,   \* RegimeMaster._prev_mid, 0 for None
  published, \* RegimeMaster._current: [regime, zz, params]
  streak,    \* the reading shown last, and how many times in a row
  updates    \* the number of updates

regimeVars == <<belief, prevMid, published, streak, updates>>

Regimes == <<"RANGING", "TRENDING", "HIGH_VOL", "THIN_BOOK">>
Hidden  == 1 .. 4

\* MM_PARAMETERS and _CONSERVATIVE_PARAMS, in tenths.
Params(r) ==
  CASE r = "RANGING"   -> [spread |-> 10, depth |-> 10]
    [] r = "TRENDING"  -> [spread |-> 15, depth |-> 7]
    [] r = "HIGH_VOL"  -> [spread |-> 30, depth |-> 3]
    [] r = "THIN_BOOK" -> [spread |-> 20, depth |-> 5]
Conservative == [spread |-> 20, depth |-> 5]

\* pi, A and the factors of B: volatility, spread, imbalance, funding, price change.
Prior   == <<500, 250, 150, 100>>
Goes    == << <<75, 12, 8, 5>>, <<20, 65, 10, 5>>, <<15, 10, 65, 10>>, <<25, 10, 15, 50>> >>
Factors ==
  << << <<55, 35, 10>>, <<20, 50, 30>>, <<5, 20, 75>>, <<30, 40, 30>> >>,
     << <<60, 35, 5>>, <<25, 55, 20>>, <<5, 30, 65>>, <<10, 30, 60>> >>,
     << <<20, 60, 20>>, <<20, 30, 50>>, <<35, 40, 25>>, <<25, 50, 25>> >>,
     << <<20, 60, 20>>, <<10, 30, 60>>, <<40, 30, 30>>, <<30, 50, 20>> >>,
     << <<10, 35, 45, 10>>, <<10, 15, 40, 35>>, <<20, 25, 25, 30>>, <<15, 30, 40, 15>> >> >>
Sizes == <<3, 3, 3, 3, 4>>

RegimeInit ==
  /\ belief = Prior
  /\ prevMid = 0
  /\ published = [regime |-> "RANGING", zz |-> "choppy", params |-> Params("RANGING")]
  /\ streak = [reading |-> [vol |-> 0, zz |-> 0, regime |-> "choppy"], times |-> 0]
  /\ updates = 0

\* discretise_...: the bins, counted from 0.
VolBin(vol)    == IF vol < 200 THEN 0 ELSE IF vol < 500 THEN 1 ELSE 2
SpreadBin(zz)  == IF zz < 10 THEN 0 ELSE IF zz < 50 THEN 1 ELSE 2
ChangeBin(from, to) ==
  LET change == 100 * (to - from)
  IN IF change < -from THEN 0 ELSE IF change < 0 THEN 1 ELSE IF change <= from THEN 2 ELSE 3

\* encode_observation: mixed radix over the sizes of the alphabets.
EncodeObservation(bin) ==
  LET code[k \in 0 .. 5] == IF k = 0 THEN 0 ELSE code[k - 1] * Sizes[k] + bin[k] IN code[5]

\* The bins of a column of B, which _default_B fills.
Column(obs) ==
  LET rest[k \in 0 .. 5] == IF k = 0 THEN obs ELSE rest[k - 1] \div Sizes[6 - k]
  IN [k \in 1 .. 5 |-> rest[5 - k] % Sizes[k]]

Vector(F(_)) == <<F(1), F(2), F(3), F(4)>>

Normalised(v) == LET sum == v[1] + v[2] + v[3] + v[4] IN Vector(LAMBDA s : (1000 * v[s]) \div sum)

\* An update that forgets the transition.
PredictedStays(b) == b

\* belief @ A
Predicted(b) ==
  Normalised(Vector(LAMBDA s : MapThenSumSet(LAMBDA from : b[from] * Goes[from][s], Hidden)))

\* RegimeDetector.update.  No likelihood is zero.
Updated(b, obs) ==
  LET bin == Column(obs)
      Weighed(post, k) == Normalised(Vector(LAMBDA s : post[s] * Factors[k][s][bin[k] + 1]))
  IN FoldLeft(Weighed, Predicted(b), <<1, 2, 3, 4, 5>>)

\* get_regime: argmax, the first of equals.
MostLikely(b) ==
  Regimes[Min({s \in Hidden : \A other \in Hidden : b[other] <= b[s]})]

Mapped(zz) == IF zz \in {"up", "down"} THEN "TRENDING" ELSE "RANGING"

\* Rules under which a detector that sees a range always agrees.
AgreeOnRange(hmm, zz) == hmm # "TRENDING" \/ hmm = Mapped(zz)

\* _regimes_agree
Agree(hmm, zz) == hmm \in {"HIGH_VOL", "THIN_BOOK"} \/ hmm = Mapped(zz)

\* _process_state
ProcessReading(r, mid) ==
  /\ updates < MaxUpdates
  /\ updates' = updates + 1
  /\ LET change == IF prevMid = 0 THEN 2 ELSE ChangeBin(prevMid, mid)
         hmm    == MostLikely(belief')
     IN /\ belief' = Updated(belief,
                       EncodeObservation(<<VolBin(r.vol), SpreadBin(r.zz), 1, 1, change>>))
        /\ published' = [regime |-> hmm, zz |-> r.regime,
                         params |-> IF Agree(hmm, r.regime) THEN Params(hmm) ELSE Conservative]
  /\ prevMid' = mid
  /\ streak' = [reading |-> r, times |-> IF streak.reading = r THEN streak.times + 1 ELSE 1]

RegimeNext == \E r \in Readings, mid \in GlobalMids : ProcessReading(r, mid)

RegimeSpec == RegimeInit /\ [][RegimeNext]_regimeVars

-----------------------------------------------------------------------------
(* Properties.                                                             *)

\* RegimeDetector.update: no regime is so certain that it outlasts the market.  Whatever
\* was believed before, three high volatilities with a wide spread in a row end in a
\* defensive regime, and three low ones with a tight spread in RANGING or TRENDING.
BeliefFollows ==
  streak.times >= 3 =>
    LET bins == <<VolBin(streak.reading.vol), SpreadBin(streak.reading.zz)>>
    IN /\ bins = <<2, 2>> => published.regime \in {"HIGH_VOL", "THIN_BOOK"}
       /\ bins = <<0, 0>> => published.regime \in {"RANGING", "TRENDING"}

\* _process_state: whatever the two detectors say of the same state, the spread published
\* is no tighter, and the depth no greater, than for the regime of either.
NeverTighterThanEither ==
  updates > 0 =>
    \A r \in {published.regime, Mapped(published.zz)} :
      /\ published.params.spread >= Params(r).spread
      /\ published.params.depth <= Params(r).depth

=============================================================================
