---------------------------- MODULE TradingProofs -----------------------------
(***************************************************************************)
(* Theorems about the money: the circuit breaker, the fills that reach the *)
(* database, the simulated fills of paper trading, the connector comparison*)
(* and the backtest, each for any balances, books, orders, candles, limits *)
(* and lengths.                                                            *)
(***************************************************************************)
EXTENDS Equity, Fills, PaperTrading, Comparison, Backtest, FoldProofs

-----------------------------------------------------------------------------
(* Equity: the circuit breaker.                                            *)

\* The balances a tick can see are balances of the account.
Known ==
  /\ account \in Balances
  /\ balance \subseteq Balances
  /\ seen \in Seq(Nat)
  /\ tripped \in BOOLEAN

\* What the breaker measures from, when it has recorded something.
Measured ==
  /\ seen = <<>> => startEquity = None /\ peakEquity = None
  /\ seen # <<>> =>
       /\ startEquity = seen[1]
       /\ \E j \in 1 .. Len(seen) : peakEquity = seen[j]
       /\ \A j \in 1 .. Len(seen) : peakEquity >= seen[j]

BreakerInv == Known /\ Measured /\ BreakerIsExact

-----------------------------------------------------------------------------
(* Arithmetic and maxima.                                                  *)

LEMMA NotBelowItself ==
  ASSUME NEW e \in Nat, NEW pct \in 1 .. 100
  PROVE  ~PctBelow(e, e, pct)
<1>1. e > 0 => pct * e > 0
  BY SMT
<1> QED
  BY <1>1 DEF PctBelow

LEMMA MaxIs ==
  ASSUME NEW S \in SUBSET Nat, NEW m \in S, \A y \in S : m >= y
  PROVE  Max(S) = m
<1>1. \A x \in S : (\A y \in S : x >= y) => x = m
  OBVIOUS
<1> QED
  BY <1>1 DEF Max

\* The equity of a balance.
LEMMA EquityIsNat ==
  ASSUME NEW b \in Balances, NEW mid \in Mids
  PROVE  b.usd + b.token * mid \in Nat
<1>1. b.usd \in Nat /\ b.token \in Nat /\ mid \in Nat
  BY EquityAssumption
<1>2. \A x, y \in Nat : x * y \in Nat
  BY SMT
<1> QED
  BY <1>1, <1>2

-----------------------------------------------------------------------------
(* Recording one equity.                                                   *)

LEMMA BrokeOfOne ==
  ASSUME NEW e \in Nat
  PROVE  ~Broke(<<e>>)
<1> DEFINE s == <<e>>
<1>1. Len(s) = 1 /\ s[1] = e
  OBVIOUS
<1>2. \A i \in 1 .. Len(s) : i = 1 /\ {s[j] : j \in 1 .. i} = {e}
  BY <1>1
<1>3. Max({e}) = e
  BY MaxIs
<1>4. ~PctBelow(e, e, LossPct) /\ ~PctBelow(e, e, DrawPct)
  BY NotBelowItself, EquityAssumption
<1> HIDE DEF s
<1>5. ~Broke(s)
  BY <1>1, <1>2, <1>3, <1>4 DEF Broke
<1> QED
  BY <1>5 DEF s

LEMMA BrokeOfNone == ~Broke(<<>>)
BY DEF Broke

\* One more equity breaks a limit now, or an earlier one did.
LEMMA BrokeOfAppend ==
  ASSUME NEW s \in Seq(Nat), s # <<>>, NEW e \in Nat, NEW peak \in Nat,
         NEW t, t = Append(s, e),
         \E j \in 1 .. Len(t) : peak = t[j],
         \A j \in 1 .. Len(t) : peak >= t[j]
  PROVE  Broke(t) <=> Broke(s) \/ PctBelow(e, s[1], LossPct) \/ PctBelow(e, peak, DrawPct)
<1>1. /\ Len(t) = Len(s) + 1 /\ Len(s) \in Nat /\ Len(s) >= 1
      /\ t \in Seq(Nat) /\ t[Len(t)] = e /\ \A j \in 1 .. Len(s) : t[j] = s[j]
  OBVIOUS
<1>2. Max({t[j] : j \in 1 .. Len(t)}) = peak
  <2> DEFINE S == {t[j] : j \in 1 .. Len(t)}
  <2>1. S \in SUBSET Nat /\ peak \in S /\ \A y \in S : peak >= y
    BY <1>1
  <2> HIDE DEF S
  <2>2. Max(S) = peak
    BY <2>1, MaxIs
  <2> QED
    BY <2>2 DEF S
<1>3. \A i \in 1 .. Len(s) : {t[j] : j \in 1 .. i} = {s[j] : j \in 1 .. i}
  BY <1>1
<1> DEFINE At(u, i) == \/ PctBelow(u[i], u[1], LossPct)
                       \/ PctBelow(u[i], Max({u[j] : j \in 1 .. i}), DrawPct)
<1>4. \A i \in 1 .. Len(s) : At(t, i) <=> At(s, i)
  <2> SUFFICES ASSUME NEW i \in 1 .. Len(s) PROVE At(t, i) <=> At(s, i)
    OBVIOUS
  <2>1. t[i] = s[i] /\ t[1] = s[1]
    BY <1>1
  <2>2. Max({t[j] : j \in 1 .. i}) = Max({s[j] : j \in 1 .. i})
    BY <1>3, Zenon
  <2> QED
    BY <2>1, <2>2, Zenon
<1>5. At(t, Len(t)) <=> PctBelow(e, s[1], LossPct) \/ PctBelow(e, peak, DrawPct)
  <2>1. t[Len(t)] = e /\ t[1] = s[1]
    BY <1>1
  <2> QED
    BY <1>2, <2>1, Zenon
<1>6. Broke(t) <=> \E i \in 1 .. Len(t) : At(t, i)
  BY DEF Broke
<1>7. Broke(s) <=> \E i \in 1 .. Len(s) : At(s, i)
  BY DEF Broke
<1> HIDE DEF At
<1>8. \A i \in 1 .. Len(t) : i \in 1 .. Len(s) \/ i = Len(t)
  BY <1>1
<1>9. 1 .. Len(s) \subseteq 1 .. Len(t) /\ Len(t) \in 1 .. Len(t)
  BY <1>1
<1> QED
  BY <1>4, <1>5, <1>6, <1>7, <1>8, <1>9

\* What recording an equity leaves.
Recorded == seen' \in Seq(Nat) /\ tripped' \in BOOLEAN /\ Measured' /\ BreakerIsExact'

LEMMA RecordNewDay ==
  ASSUME BreakerInv, NEW e \in Nat, NewDay(e), seen' = <<e>>
  PROVE  Recorded
<1>1. startEquity' = e /\ peakEquity' = e /\ tripped' = FALSE
  BY DEF NewDay
<1>2. seen' \in Seq(Nat) /\ Len(seen') = 1 /\ seen'[1] = e /\ seen' # <<>>
  OBVIOUS
<1>3. \A j \in 1 .. Len(seen') : seen'[j] = e
  BY <1>2
<1>4. Measured'
  BY <1>1, <1>2, <1>3 DEF Measured
<1>5. ~Broke(seen')
  BY BrokeOfOne
<1> QED
  BY <1>1, <1>2, <1>4, <1>5 DEF Recorded, BreakerIsExact

LEMMA RecordSameDay ==
  ASSUME BreakerInv, NEW e \in Nat, SameDay(e), seen' = Append(seen, e)
  PROVE  Recorded
<1>0. seen \in Seq(Nat) /\ tripped \in BOOLEAN /\ (tripped <=> Broke(seen))
  BY DEF BreakerInv, Known, BreakerIsExact
<1>1. CASE seen = <<>>
  <2>1. startEquity' = e /\ peakEquity' = e /\ seen' = <<e>>
    BY <1>1 DEF SameDay, BreakerInv, Measured
  <2>2. tripped' = FALSE
    BY <1>0, <1>1, <2>1, BrokeOfNone, NotBelowItself, EquityAssumption
       DEF SameDay, BreakerInv, Measured
  <2>3. seen' \in Seq(Nat) /\ Len(seen') = 1 /\ seen'[1] = e /\ seen' # <<>>
    BY <2>1
  <2>4. \A j \in 1 .. Len(seen') : seen'[j] = e
    BY <2>3
  <2>5. Measured'
    BY <2>1, <2>3, <2>4 DEF Measured
  <2>6. ~Broke(seen')
    BY <2>1, BrokeOfOne
  <2> QED
    BY <2>2, <2>3, <2>5, <2>6 DEF Recorded, BreakerIsExact
<1>2. CASE seen # <<>>
  <2>1. /\ startEquity = seen[1] /\ startEquity \in Nat /\ startEquity # None
        /\ peakEquity \in Nat /\ peakEquity # None
    BY <1>0, <1>2 DEF BreakerInv, Measured, None
  <2>2. /\ startEquity' = seen[1]
        /\ peakEquity' = IF e > peakEquity THEN e ELSE peakEquity
        /\ tripped' = (tripped \/ PctBelow(e, seen[1], LossPct)
                               \/ PctBelow(e, peakEquity', DrawPct))
    BY <2>1 DEF SameDay
  <2>3. /\ seen' \in Seq(Nat) /\ seen' # <<>> /\ Len(seen') = Len(seen) + 1
        /\ Len(seen) \in Nat /\ Len(seen) >= 1
        /\ seen'[Len(seen')] = e /\ \A j \in 1 .. Len(seen) : seen'[j] = seen[j]
    BY <1>0, <1>2
  <2>4. \A j \in 1 .. Len(seen) : peakEquity >= seen[j] /\ seen[j] \in Nat
    BY <1>0, <1>2 DEF BreakerInv, Measured
  <2>5. PICK k \in 1 .. Len(seen) : peakEquity = seen[k]
    BY <1>2 DEF BreakerInv, Measured
  <2>6. /\ peakEquity' \in Nat
        /\ \A j \in 1 .. Len(seen') : peakEquity' >= seen'[j]
    <3>1. \A j \in 1 .. Len(seen') : j \in 1 .. Len(seen) \/ j = Len(seen')
      BY <2>3
    <3> QED
      BY <2>1, <2>2, <2>3, <2>4, <3>1
  <2>7. \E j \in 1 .. Len(seen') : peakEquity' = seen'[j]
    <3>1. k \in 1 .. Len(seen') /\ Len(seen') \in 1 .. Len(seen')
      BY <2>3
    <3> QED
      BY <2>2, <2>3, <2>5, <3>1
  <2>8. Broke(seen') <=> Broke(seen) \/ PctBelow(e, seen[1], LossPct)
                                     \/ PctBelow(e, peakEquity', DrawPct)
    BY <1>0, <1>2, <2>6, <2>7, BrokeOfAppend
  <2>9. Measured'
    <3>1. seen'[1] = seen[1]
      BY <2>3
    <3> QED
      BY <2>2, <2>3, <2>6, <2>7, <3>1 DEF Measured
  <2>10. tripped' \in BOOLEAN /\ (tripped' <=> Broke(seen'))
    BY <1>0, <2>2, <2>8, Zenon DEF PctBelow
  <2> QED
    BY <2>3, <2>9, <2>10 DEF Recorded, BreakerIsExact
<1> QED
  BY <1>1, <1>2

-----------------------------------------------------------------------------
(* The invariant.                                                          *)

LEMMA BreakerInit == EquityInit => BreakerInv
<1> SUFFICES ASSUME EquityInit PROVE BreakerInv
  OBVIOUS
<1>1. account \in Balances /\ balance = {} /\ tripped = FALSE /\ seen = <<>>
  BY DEF EquityInit
<1>2. <<>> \in Seq(Nat)
  OBVIOUS
<1>3. Known
  BY <1>1, <1>2 DEF Known
<1>4. Measured
  BY DEF EquityInit, Measured
<1>5. ~Broke(seen) /\ ~tripped
  BY BrokeOfNone DEF EquityInit
<1> QED
  BY <1>3, <1>4, <1>5 DEF BreakerInv, BreakerIsExact

LEMMA BreakerTick ==
  ASSUME BreakerInv, BalanceTick
  PROVE  BreakerInv'
<1>1. PICK b \in Fetched, mid \in Mids :
        /\ balance' = {b}
        /\ \/ UNCHANGED breakerVars
           \/ RecordEquity(b.usd + b.token * mid)
  BY DEF BalanceTick
<1>2. b \in Balances /\ account' = account
  BY DEF Fetched, BreakerInv, Known, BalanceTick
<1>3. account' \in Balances /\ balance' \subseteq Balances
  BY <1>1, <1>2 DEF BreakerInv, Known
<1>4. CASE UNCHANGED breakerVars
  BY <1>3, <1>4 DEF breakerVars, BreakerInv, Known, Measured, BreakerIsExact
<1>5. CASE RecordEquity(b.usd + b.token * mid)
  <2>1. Recorded
    BY <1>2, <1>5, EquityIsNat, RecordNewDay, RecordSameDay DEF RecordEquity
  <2> QED
    BY <1>3, <2>1 DEF Recorded, BreakerInv, Known
<1> QED
  BY <1>1, <1>4, <1>5

LEMMA BreakerStep == BreakerInv /\ [EquityNext]_equityVars => BreakerInv'
<1> SUFFICES ASSUME BreakerInv, [EquityNext]_equityVars PROVE BreakerInv'
  OBVIOUS
<1>1. CASE Warmup \/ AccountMoves \/ DayEnds \/ UNCHANGED equityVars
  BY <1>1 DEF Warmup, AccountMoves, DayEnds, equityVars, breakerVars, BreakerInv, Known, Measured,
              BreakerIsExact
<1>2. CASE ResumeBot
  <2>1. /\ account' = account /\ balance' = balance /\ seen' = <<>> /\ tripped' = FALSE
        /\ startEquity' = None /\ peakEquity' = None
    BY <1>2 DEF ResumeBot
  <2>2. <<>> \in Seq(Nat)
    OBVIOUS
  <2>3. Known' /\ Measured'
    BY <2>1, <2>2 DEF BreakerInv, Known, Measured
  <2>4. ~Broke(seen')
    BY <2>1, BrokeOfNone
  <2> QED
    BY <2>1, <2>3, <2>4 DEF BreakerInv, BreakerIsExact
<1> QED
  BY <1>1, <1>2, BreakerTick DEF EquityNext

\* CircuitBreaker: tripped says exactly that a limit was broken since the day began or the
\* API reset it, for any course of balances, prices, days, halts and resumes.
THEOREM BreakerExact == EquitySpec => []BreakerIsExact
BY BreakerInit, BreakerStep, PTL DEF EquitySpec, BreakerInv

\* InventoryTracker: after the warm-up nothing replaces a baseline.
THEOREM BaselineStays == EquitySpec => BaselineSettled
<1>1. [EquityNext]_equityVars => (warm /\ baseline # None => baseline' = baseline)
  BY DEF EquityNext, Warmup, BalanceTick, Update, ResumeBot, AccountMoves, DayEnds, equityVars,
         stockVars
<1> QED
  BY <1>1, PTL DEF EquitySpec, BaselineSettled

-----------------------------------------------------------------------------
(* Fills: the fills that reach the database.                               *)

\* The trades are in the order of their times.
Ordered ==
  /\ clock \in Nat
  /\ trades \in Seq(Nat)
  /\ \A i \in DOMAIN trades : trades[i] <= clock
  /\ \A i, j \in DOMAIN trades : i < j => trades[i] <= trades[j]

\* The fills that wait are consecutive trades, and the cursor is a trade with a row.
FetchedInv ==
  /\ fillRows \subseteq DOMAIN trades
  /\ toInsert \in Seq(Nat)
  /\ \A k \in DOMAIN toInsert :
       toInsert[k] \in DOMAIN trades /\ toInsert[k] = toInsert[1] + k - 1
  /\ since0 \in Nat \cup {NoTs}
  /\ lastTs # NoTs => \E j \in fillRows : trades[j] = lastTs

HasRow(i) == \E j \in fillRows : trades[j] = trades[i]

\* What the poll under way has passed over, and what lies before the cursor.
Passed ==
  since0 # NoTs =>
    \A i \in DOMAIN trades :
      since0 <= trades[i] /\ (trades[i] < lastTs \/ (toInsert # <<>> /\ i < toInsert[1]))
        => HasRow(i)

FillsInv == Ordered /\ FetchedInv /\ Passed

LEMMA FillsInitInv == FillsInit => FillsInv
  <1> SUFFICES ASSUME FillsInit PROVE FillsInv
    OBVIOUS
  <1>1. <<>> \in Seq(Nat) /\ DOMAIN <<>> = {}
    OBVIOUS
  <1> QED
    BY <1>1 DEF FillsInit, FillsInv, Ordered, FetchedInv, Passed

\* A trade is the newest so far.
LEMMA TradeStep ==
  ASSUME FillsInv, TradeHappens
  PROVE  FillsInv'
  <1>1. /\ trades' = Append(trades, clock)
        /\ UNCHANGED <<clock, fillRows, lastTs, since0, toInsert>>
    BY DEF TradeHappens
  <1>2. /\ clock \in Nat /\ trades \in Seq(Nat) /\ Len(trades) \in Nat
        /\ DOMAIN trades = 1 .. Len(trades)
    BY DEF FillsInv, Ordered
  <1>3. /\ trades' \in Seq(Nat) /\ DOMAIN trades' = 1 .. Len(trades) + 1
        /\ trades'[Len(trades) + 1] = clock
        /\ \A i \in 1 .. Len(trades) : trades'[i] = trades[i]
    BY <1>1, <1>2
  <1>4. Ordered'
    BY <1>1, <1>2, <1>3 DEF FillsInv, Ordered
  <1>5. FetchedInv'
    BY <1>1, <1>2, <1>3 DEF FillsInv, FetchedInv
  <1>6. Passed'
    <2> SUFFICES ASSUME since0 # NoTs, NEW i \in DOMAIN trades', since0 <= trades'[i],
                        trades'[i] < lastTs \/ (toInsert # <<>> /\ i < toInsert[1])
                 PROVE  HasRow(i)'
      BY <1>1 DEF Passed
    <2>1. i \in 1 .. Len(trades)
      <3>1. CASE trades'[i] < lastTs
        <4>1. lastTs # NoTs
          BY <1>3, <3>1 DEF NoTs
        <4>2. lastTs <= clock
          BY <4>1 DEF FillsInv, FetchedInv, Ordered
        <4>3. lastTs \in Nat
          BY <1>2, <4>1 DEF FillsInv, FetchedInv
        <4> QED
          BY <1>2, <1>3, <3>1, <4>2, <4>3
      <3>2. CASE toInsert # <<>> /\ i < toInsert[1]
        <4>1. 1 \in DOMAIN toInsert
          BY <3>2 DEF FillsInv, FetchedInv
        <4>2. toInsert[1] \in 1 .. Len(trades)
          BY <1>2, <4>1 DEF FillsInv, FetchedInv
        <4> QED
          BY <1>2, <1>3, <3>2, <4>2
      <3> QED
        BY <3>1, <3>2
    <2>2. HasRow(i)
      BY <1>2, <1>3, <2>1 DEF FillsInv, Passed
    <2>3. \A j \in fillRows : j \in 1 .. Len(trades)
      BY <1>2 DEF FillsInv, FetchedInv
    <2> QED
      BY <1>1, <1>3, <2>1, <2>2, <2>3 DEF HasRow
  <1> QED
    BY <1>4, <1>5, <1>6 DEF FillsInv

\* A poll passes over what lies before its cursor only.
LEMMA IngestStep ==
  ASSUME FillsInv, Ingest
  PROVE  FillsInv'
  <1>1. PICK since \in Since, first \in 1 .. Len(trades) + 1 :
          /\ \A i \in DOMAIN trades : i < first <=> trades[i] < since
          /\ toInsert' = From(first) /\ lastTs' = lastTs
          /\ since0' = IF lastTs = NoTs THEN since ELSE since0
    BY DEF Ingest, FetchFills, Polled
  <1>2. UNCHANGED <<clock, trades, fillRows>>
    BY DEF Ingest
  <1>3. trades \in Seq(Nat) /\ Len(trades) \in Nat /\ DOMAIN trades = 1 .. Len(trades)
    BY DEF FillsInv, Ordered
  <1> DEFINE n == IF Len(trades) < first + FillLimit THEN Len(trades) - first + 1 ELSE FillLimit
  <1>4. /\ n \in Nat /\ \A k \in 1 .. n : first + k - 1 \in 1 .. Len(trades)
        /\ toInsert' = [k \in 1 .. n |-> first + k - 1]
    BY <1>1, <1>3, FillsAssumption DEF From
  <1> HIDE DEF n
  <1>5. /\ toInsert' \in Seq(Nat) /\ DOMAIN toInsert' = 1 .. n
        /\ \A k \in 1 .. n : toInsert'[k] = first + k - 1
    BY <1>3, <1>4
  <1>6. toInsert' # <<>> => toInsert'[1] = first /\ 1 \in 1 .. n
    BY <1>3, <1>4, <1>5
  <1>7. lastTs # NoTs => lastTs \in Nat
    BY <1>3 DEF FillsInv, FetchedInv
  <1>8. since \in Nat
    BY <1>7, FillsAssumption DEF Since, FillsInv, Ordered
  <1>9. Ordered'
    BY <1>2 DEF FillsInv, Ordered
  <1>10. FetchedInv'
    BY <1>1, <1>2, <1>3, <1>4, <1>5, <1>6, <1>8 DEF FillsInv, FetchedInv
  <1>11. Passed'
    <2> SUFFICES ASSUME NEW i \in DOMAIN trades, since0' # NoTs, since0' <= trades[i],
                        trades[i] < lastTs \/ (toInsert' # <<>> /\ i < toInsert'[1])
                 PROVE  HasRow(i)
      BY <1>1, <1>2 DEF Passed, HasRow
    <2>1. trades[i] \in Nat
      BY <1>3
    <2>2. CASE lastTs = NoTs
      BY <1>1, <1>6, <1>8, <2>1, <2>2 DEF NoTs
    <2>3. CASE lastTs # NoTs
      <3>1. since <= lastTs + 1 /\ since0' = since0
        BY <1>1, <1>7, <2>3 DEF Since
      <3>2. trades[i] <= lastTs
        BY <1>1, <1>6, <1>7, <1>8, <2>1, <2>3, <3>1
      <3>3. CASE trades[i] = lastTs
        BY <2>3, <3>3 DEF HasRow, FillsInv, FetchedInv
      <3>4. CASE trades[i] < lastTs
        BY <3>1, <3>4 DEF FillsInv, Passed
      <3> QED
        BY <1>7, <2>1, <2>3, <3>2, <3>3, <3>4
    <2> QED
      BY <2>2, <2>3
  <1> QED
    BY <1>9, <1>10, <1>11 DEF FillsInv

\* A fill moves the cursor over its own row alone.
LEMMA InsertStep ==
  ASSUME FillsInv, InsertFill
  PROVE  FillsInv'
  <1>1. toInsert # <<>> /\ UNCHANGED <<clock, trades, since0>>
    BY DEF InsertFill
  <1>2. /\ trades \in Seq(Nat) /\ Len(trades) \in Nat /\ DOMAIN trades = 1 .. Len(trades)
        /\ toInsert \in Seq(Nat) /\ Len(toInsert) \in Nat /\ DOMAIN toInsert = 1 .. Len(toInsert)
    BY DEF FillsInv, Ordered, FetchedInv
  <1>3. Ordered'
    BY <1>1 DEF FillsInv, Ordered
  <1>4. CASE toInsert' = <<>> /\ UNCHANGED <<fillRows, lastTs>>
    <2>1. <<>> \in Seq(Nat) /\ DOMAIN <<>> = {}
      OBVIOUS
    <2>2. FetchedInv'
      BY <1>1, <1>4, <2>1 DEF FillsInv, FetchedInv
    <2>3. Passed'
      BY <1>1, <1>4 DEF FillsInv, Passed, HasRow
    <2> QED
      BY <1>3, <2>2, <2>3 DEF FillsInv
  <1>5. CASE /\ fillRows' = fillRows \cup {Head(toInsert)}
             /\ lastTs' = IF trades[Head(toInsert)] > lastTs THEN trades[Head(toInsert)] ELSE lastTs
             /\ toInsert' = Tail(toInsert)
    <2> DEFINE h == Head(toInsert)
               t == Tail(toInsert)
    <2>1. /\ h = toInsert[1] /\ 1 \in DOMAIN toInsert
          /\ t \in Seq(Nat) /\ DOMAIN t = 1 .. Len(toInsert) - 1
          /\ \A k \in 1 .. Len(toInsert) - 1 : t[k] = toInsert[k + 1]
      BY <1>1, <1>2
    <2>2. h \in DOMAIN trades /\ trades[h] \in Nat
      BY <1>2, <2>1 DEF FillsInv, FetchedInv
    <2> HIDE DEF h, t
    <2>3. fillRows' = fillRows \cup {h} /\ toInsert' = t
          /\ lastTs' = IF trades[h] > lastTs THEN trades[h] ELSE lastTs
      BY <1>5 DEF h, t
    <2>4. \A k \in 1 .. Len(toInsert) - 1 :
            t[k] \in DOMAIN trades /\ t[k] = toInsert[1] + k /\ k + 1 \in DOMAIN toInsert
      <3> SUFFICES ASSUME NEW k \in 1 .. Len(toInsert) - 1
                   PROVE  t[k] \in DOMAIN trades /\ t[k] = toInsert[1] + k /\ k + 1 \in DOMAIN toInsert
        OBVIOUS
      <3>1. k + 1 \in DOMAIN toInsert /\ t[k] = toInsert[k + 1]
        BY <1>2, <2>1
      <3>2. toInsert[k + 1] \in DOMAIN trades /\ toInsert[k + 1] = toInsert[1] + (k + 1) - 1
        BY <3>1 DEF FillsInv, FetchedInv
      <3> QED
        BY <1>2, <2>1, <2>2, <3>1, <3>2
    <2>5. t # <<>> => 1 \in DOMAIN t /\ t[1] = h + 1
      BY <1>2, <2>1, <2>2, <2>4
    <2>6. FetchedInv'
      <3>1. \A k \in DOMAIN t : t[k] \in DOMAIN trades /\ t[k] = t[1] + k - 1
        <4> SUFFICES ASSUME NEW k \in 1 .. Len(toInsert) - 1
                     PROVE  t[k] \in DOMAIN trades /\ t[k] = t[1] + k - 1
          BY <2>1
        <4>1. 1 \in 1 .. Len(toInsert) - 1 /\ t # <<>> /\ h \in Nat /\ toInsert[1] = h
          BY <1>2, <2>1, <2>2
        <4>2. t[k] = h + k /\ t[1] = h + 1 /\ t[k] \in DOMAIN trades
          BY <2>4, <2>5, <4>1
        <4> QED
          BY <1>2, <4>1, <4>2
      <3>2. lastTs' # NoTs => \E j \in fillRows' : trades[j] = lastTs'
        BY <2>3 DEF FillsInv, FetchedInv
      <3> QED
        BY <1>1, <2>1, <2>2, <2>3, <3>1, <3>2 DEF FillsInv, FetchedInv
    <2>7. Passed'
      <3> SUFFICES ASSUME NEW i \in DOMAIN trades, since0 # NoTs, since0 <= trades[i],
                          trades[i] < lastTs' \/ (t # <<>> /\ i < t[1])
                   PROVE  HasRow(i)'
        BY <1>1, <2>3 DEF Passed
      <3>1. HasRow(i) => HasRow(i)'
        BY <1>1, <2>3 DEF HasRow
      <3>2. trades[i] \in Nat /\ (i < h => HasRow(i))
        BY <1>1, <1>2, <2>1 DEF FillsInv, Passed
      <3>3. i = h => HasRow(i)'
        BY <1>1, <2>3 DEF HasRow
      <3>4. CASE t # <<>> /\ i < t[1]
        BY <1>2, <2>2, <2>5, <3>1, <3>2, <3>3, <3>4
      <3>5. CASE trades[i] < lastTs'
        <4>1. CASE trades[h] > lastTs
          <5>1. i < h
            BY <1>2, <2>2, <2>3, <3>2, <3>5, <4>1 DEF FillsInv, Ordered
          <5> QED
            BY <3>1, <3>2, <5>1
        <4>2. CASE ~(trades[h] > lastTs)
          BY <2>3, <3>1, <3>5, <4>2 DEF FillsInv, Passed
        <4> QED
          BY <4>1, <4>2
      <3> QED
        BY <3>4, <3>5
    <2> QED
      BY <1>3, <2>6, <2>7 DEF FillsInv
  <1> QED
    BY <1>4, <1>5 DEF InsertFill

LEMMA FillsStep == FillsInv /\ [FillsNext]_fillsVars => FillsInv'
  <1> SUFFICES ASSUME FillsInv, [FillsNext]_fillsVars PROVE FillsInv'
    OBVIOUS
  <1>1. CASE TimePasses \/ UNCHANGED fillsVars
    <2>1. /\ clock' \in Nat /\ clock' >= clock
          /\ UNCHANGED <<trades, fillRows, lastTs, since0, toInsert>>
      BY <1>1 DEF TimePasses, fillsVars, FillsInv, Ordered
    <2>2. Ordered'
      BY <2>1 DEF FillsInv, Ordered
    <2> QED
      BY <2>1, <2>2 DEF FillsInv, FetchedInv, Passed, HasRow
  <1>2. CASE Restart
    <2>1. /\ toInsert' = <<>> /\ lastTs' = NoTs /\ since0' = NoTs
          /\ UNCHANGED <<clock, trades, fillRows>>
      BY <1>2 DEF Restart
    <2>2. <<>> \in Seq(Nat) /\ DOMAIN <<>> = {}
      OBVIOUS
    <2> QED
      BY <2>1, <2>2 DEF FillsInv, Ordered, FetchedInv, Passed
  <1> QED
    BY <1>1, <1>2, TradeStep, IngestStep, InsertStep DEF FillsNext

\* _ingest_fills: whatever failed, was cut off by the limit or interrupted by a restart,
\* of what lies between the first poll and the cursor only trades of a millisecond that
\* has a row are missing, for any limit and any course of trades.
THEOREM OnlyTheInstantIsMissed == FillsSpec => []MissedShareTheInstant
  <1>1. FillsInv => MissedShareTheInstant
    BY DEF FillsInv, Passed, HasRow, MissedShareTheInstant
  <1> QED
    BY <1>1, FillsInitInv, FillsStep, PTL DEF FillsSpec

-----------------------------------------------------------------------------
(* Comparison: the connector comparison.                                   *)

\* The counters that are compared exist.
Counted ==
  /\ metrics = [c \in Conns |-> metrics[c]]
  /\ \A c \in Conns : "fills" \in DOMAIN metrics[c]
  /\ even \in BOOLEAN

FairInv == Counted /\ FairComparison

LEMMA FairInit == ComparisonInit => FairInv
  BY DEF ComparisonInit, FairInv, Counted, FairComparison, Conns

\* A new grid is given to both connectors, or to the one that answered; the fills are
\* those of the orders both had.
LEMMA ReplacedIsFair ==
  ASSUME FairInv, Replaced
  PROVE  FairInv'
  <1> DEFINE mid  == IF mids["ccxt"] > 0 THEN mids["ccxt"] ELSE mids["cpp"]
             prev == IF midNow > 0 THEN midNow ELSE mid
             both == (mids["ccxt"] > 0) = (mids["cpp"] > 0)
             hits == Matched(prev, mid)
  <1>1. PICK spreads \in ABGrids :
          resting' = [c \in Conns |-> IF mids[c] > 0 THEN BuildGrid(mid, spreads) ELSE {}]
    BY DEF Replaced
  <1>2. metrics' = [c \in Conns |->
             [metrics[c] EXCEPT !.fills  = @ + Cardinality(hits[c]),
                                !.placed = IF mids[c] > 0 THEN @ + GridSize ELSE @,
                                !.errors = IF mids[c] > 0 THEN @ ELSE @ + 1]]
    BY DEF Replaced
  <1>3. even' = (even /\ both)
    BY DEF Replaced
  <1>4. mid > 0
    BY DEF Replaced
  <1>5. hits = [c \in Conns |-> IF prev = mid THEN {} ELSE FilledBetween(resting[c], prev, mid)]
    BY DEF Matched
  <1> HIDE DEF hits, prev
  <1>6. Counted'
    <2>1. metrics' = [c \in Conns |-> metrics'[c]]
      BY <1>2
    <2>2. \A c \in Conns : DOMAIN metrics'[c] = DOMAIN metrics[c]
      BY <1>2
    <2>3. even' \in BOOLEAN
      BY <1>3
    <2> QED
      BY <2>1, <2>2, <2>3 DEF FairInv, Counted
  <1>7. ASSUME even'
        PROVE  resting'["ccxt"] = resting'["cpp"] /\ metrics'["ccxt"].fills = metrics'["cpp"].fills
    <2>1. even /\ both
      BY <1>3, <1>7
    <2>2. mids["ccxt"] > 0 /\ mids["cpp"] > 0
      BY <1>4, <2>1
    <2>3. resting["ccxt"] = resting["cpp"] /\ metrics["ccxt"].fills = metrics["cpp"].fills
      BY <2>1 DEF FairInv, FairComparison
    <2>4. hits["ccxt"] = hits["cpp"]
      BY <1>5, <2>3 DEF Conns
    <2>5. \A c \in Conns : metrics'[c].fills = metrics[c].fills + Cardinality(hits[c])
      BY <1>2 DEF FairInv, Counted
    <2> QED
      BY <1>1, <2>2, <2>3, <2>4, <2>5 DEF Conns
  <1>8. resting'["ccxt"] = {} \/ resting'["cpp"] = {} \/ resting'["ccxt"] = resting'["cpp"]
    BY <1>1 DEF Conns
  <1> QED
    BY <1>6, <1>7, <1>8 DEF FairInv, FairComparison

LEMMA FairStep == FairInv /\ [ComparisonNext]_abVars => FairInv'
  <1> SUFFICES ASSUME FairInv, [ComparisonNext]_abVars PROVE FairInv'
    OBVIOUS
  <1> USE DEF FairInv, Counted, FairComparison
  <1>1. CASE \/ Connected \/ StopComparator \/ Expires \/ LoopOver \/ ReporterOver
             \/ Disconnected \/ Report \/ UNCHANGED abVars
    <2>1. UNCHANGED <<resting, metrics, even>>
      BY <1>1 DEF Connected, StopComparator, Expires, LoopOver, ReporterOver, Disconnected,
         Report, abVars, abTick
    <2> QED
      BY <2>1
  <1>2. CASE TickBegins
    <2>1. /\ UNCHANGED <<resting, even>>
          /\ metrics' = [c \in Conns |-> [metrics[c] EXCEPT !.tried = @ + 1]]
      BY <1>2 DEF TickBegins
    <2>2. \A c \in Conns : DOMAIN metrics'[c] = DOMAIN metrics[c]
                           /\ metrics'[c].fills = metrics[c].fills
      BY <2>1
    <2> QED
      BY <2>1, <2>2 DEF Conns
  <1>3. ASSUME NEW c \in Conns, TickerCame(c) PROVE FairInv'
    <2>1. UNCHANGED <<resting, even>>
      BY <1>3 DEF TickerCame
    <2>2. \/ metrics' = [metrics EXCEPT ![c].got = @ + 1, ![c].up = TRUE]
          \/ metrics' = [metrics EXCEPT ![c].up = FALSE,
                                        ![c].outages = IF metrics[c].up THEN @ + 1 ELSE @]
      BY <1>3 DEF TickerCame
    <2>3. /\ metrics' = [d \in Conns |-> metrics'[d]]
          /\ \A d \in Conns : DOMAIN metrics'[d] = DOMAIN metrics[d]
                              /\ metrics'[d].fills = metrics[d].fills
      BY <2>2
    <2> QED
      BY <2>1, <2>3 DEF Conns
  <1>4. CASE NoPrice
    <2>1. /\ UNCHANGED <<resting, even>>
          /\ metrics' = [c \in Conns |-> [metrics[c] EXCEPT !.errors = @ + 1]]
      BY <1>4 DEF NoPrice
    <2>2. \A c \in Conns : DOMAIN metrics'[c] = DOMAIN metrics[c]
                           /\ metrics'[c].fills = metrics[c].fills
      BY <2>1
    <2> QED
      BY <2>1, <2>2 DEF Conns
  <1>5. CASE Replaced
    BY <1>5, ReplacedIsFair
  <1> QED
    BY <1>1, <1>2, <1>3, <1>4, <1>5 DEF ComparisonNext

\* ABComparator: two connectors that answered in the same ticks had the same orders and
\* were counted the same fills, however prices move and whatever each tick's grid is.
THEOREM ComparisonIsFair == ComparisonSpec => []FairComparison
  BY FairInit, FairStep, PTL DEF ComparisonSpec, FairInv

-----------------------------------------------------------------------------
(* PaperTrading: who is ahead of whom.                                     *)

\* A strict order of S lines its elements up.
LinesUp(S, R, s) ==
  /\ s \in [1 .. Cardinality(S) -> S]
  /\ \A i, j \in 1 .. Cardinality(S) : i < j => <<s[i], s[j]>> \in R

StrictOrder(S, R) ==
  /\ \A x, y \in S : <<x, y>> \in R \/ <<y, x>> \in R \/ x = y
  /\ \A x \in S : <<x, x>> \notin R
  /\ \A x, y, z \in S : <<x, y>> \in R /\ <<y, z>> \in R => <<x, z>> \in R

LEMMA LastInOrder ==
  ASSUME NEW S, IsFiniteSet(S), NEW R, StrictOrder(S, R), S # {}
  PROVE  \E m \in S : \A y \in S \ {m} : <<y, m>> \in R
<1> DEFINE Good == {t \in SUBSET S : t # {} => \E m \in t : \A y \in t \ {m} : <<y, m>> \in R}
<1>1. {} \in Good
  OBVIOUS
<1>2. ASSUME NEW t \in SUBSET S, t # {}, \A x \in t : t \ {x} \in Good
      PROVE  t \in Good
  <2>1. PICK x \in t : TRUE
    BY <1>2
  <2>2. CASE t \ {x} = {}
    BY <2>1, <2>2
  <2>3. CASE t \ {x} # {}
    <3>1. PICK m \in t \ {x} : \A y \in (t \ {x}) \ {m} : <<y, m>> \in R
      BY <1>2, <2>1, <2>3
    <3>2. x \in S /\ m \in S /\ x # m
      BY <2>1, <3>1
    <3>3. CASE <<x, m>> \in R
      <4>1. \A y \in t \ {m} : <<y, m>> \in R
        BY <3>1, <3>3
      <4> QED
        BY <3>1, <4>1
    <3>4. CASE <<m, x>> \in R
      <4>1. \A y \in t \ {x} : <<y, x>> \in R
        BY <3>1, <3>2, <3>4 DEF StrictOrder
      <4> QED
        BY <2>1, <4>1
    <3> QED
      BY <3>2, <3>3, <3>4 DEF StrictOrder
  <2> QED
    BY <2>2, <2>3
<1> HIDE DEF Good
<1>3. \A t \in SUBSET S : t \in Good
  BY <1>1, <1>2, SetBySet
<1> QED
  BY <1>3 DEF Good

LEMMA LineExists ==
  ASSUME NEW S, IsFiniteSet(S), NEW R, StrictOrder(S, R)
  PROVE  \E s : LinesUp(S, R, s)
<1> DEFINE Good == {t \in SUBSET S : \E s : LinesUp(t, R, s)}
<1>1. {} \in Good
  <2>1. Cardinality({}) = 0 /\ <<>> \in [1 .. 0 -> {}]
    BY FS_EmptySet
  <2>2. LinesUp({}, R, <<>>)
    BY <2>1 DEF LinesUp
  <2> QED
    BY <2>2
<1>2. ASSUME NEW t \in SUBSET S, t # {}, \A x \in t : t \ {x} \in Good
      PROVE  t \in Good
  <2>1. IsFiniteSet(t) /\ StrictOrder(t, R)
    BY FS_Subset DEF StrictOrder
  <2>2. PICK m \in t : \A y \in t \ {m} : <<y, m>> \in R
    BY <1>2, <2>1, LastInOrder
  <2> DEFINE u == t \ {m}
             k == Cardinality(u)
  <2>3. k \in Nat /\ Cardinality(t) = k + 1
    <3>1. IsFiniteSet(u) /\ Cardinality(u) = Cardinality(t) - 1
      BY <2>1, <2>2, FS_RemoveElement
    <3>2. Cardinality(t) \in Nat /\ Cardinality(u) \in Nat
      BY <2>1, <3>1, FS_CardinalityType
    <3> QED
      BY <3>1, <3>2
  <2>4. PICK s : LinesUp(u, R, s)
    BY <1>2, <2>2
  <2>5. s \in [1 .. k -> u] /\ \A i, j \in 1 .. k : i < j => <<s[i], s[j]>> \in R
    BY <2>4 DEF LinesUp
  <2>6. u \subseteq t /\ \A y \in u : <<y, m>> \in R
    BY <2>2
  <2> HIDE DEF k, u
  <2> DEFINE r == [i \in 1 .. k + 1 |-> IF i = k + 1 THEN m ELSE s[i]]
  <2>7. \A i \in 1 .. k + 1 : i # k + 1 => i \in 1 .. k
    BY <2>3
  <2>8. r \in [1 .. k + 1 -> t]
    BY <2>2, <2>5, <2>6, <2>7
  <2>9. ASSUME NEW i \in 1 .. k + 1, NEW j \in 1 .. k + 1, i < j
        PROVE  <<r[i], r[j]>> \in R
    <3>1. i \in 1 .. k /\ r[i] = s[i] /\ s[i] \in u
      BY <2>3, <2>5, <2>9
    <3>2. CASE j = k + 1
      BY <2>6, <3>1, <3>2
    <3>3. CASE j # k + 1
      BY <2>5, <2>7, <2>9, <3>1, <3>3
    <3> QED
      BY <3>2, <3>3
  <2> HIDE DEF r
  <2>10. LinesUp(t, R, r)
    BY <2>3, <2>8, <2>9 DEF LinesUp
  <2> QED
    BY <2>10
<1> HIDE DEF Good
<1>3. \A t \in SUBSET S : t \in Good
  BY <1>1, <1>2, SetBySet
<1> QED
  BY <1>3 DEF Good

\* It has each of them.
LEMMA LineIsFull ==
  ASSUME NEW S, IsFiniteSet(S), NEW R, StrictOrder(S, R), NEW s, LinesUp(S, R, s)
  PROVE  /\ Cardinality(S) \in Nat
         /\ \A x \in S : \E i \in 1 .. Cardinality(S) : s[i] = x
         /\ \A i, j \in 1 .. Cardinality(S) : s[i] = s[j] => i = j
<1> DEFINE n == Cardinality(S)
<1>1. n \in Nat
  BY FS_CardinalityType
<1>2. s \in [1 .. n -> S] /\ \A i, j \in 1 .. n : i < j => <<s[i], s[j]>> \in R
  BY DEF LinesUp
<1>3. \A i, j \in 1 .. n : s[i] = s[j] => i = j
  <2> SUFFICES ASSUME NEW i \in 1 .. n, NEW j \in 1 .. n, s[i] = s[j], i # j PROVE FALSE
    OBVIOUS
  <2>1. i < j \/ j < i
    OBVIOUS
  <2>2. s[i] \in S /\ <<s[i], s[i]>> \in R
    BY <1>2, <2>1
  <2> QED
    BY <2>2 DEF StrictOrder
<1> DEFINE I == 1 .. n
<1>4. IsFiniteSet(I) /\ Cardinality(I) = n
  BY <1>1, FS_Interval
<1>5. s \in Injection(I, S)
  BY <1>2, <1>3 DEF Injection, IsInjective
<1> HIDE DEF I
<1>6. s \in Surjection(I, S)
  BY <1>4, <1>5, FS_Injection
<1> QED
  BY <1>1, <1>3, <1>6 DEF Surjection, I

-----------------------------------------------------------------------------
(* The order the orders are served in.                                     *)

SimOrders == [id : Int, side : {"buy", "sell"}, price : Int, amount : Nat]

Distinct(orders) ==
  /\ IsFiniteSet(orders)
  /\ orders \subseteq SimOrders
  /\ \A a, b \in orders : a.id = b.id => a = b

OneSided(orders) == Distinct(orders) /\ \A a, b \in orders : a.side = b.side

LEMMA SortedIs ==
  ASSUME NEW orders, OneSided(orders)
  PROVE  LET n == Cardinality(orders)
             s == Sorted(orders)
         IN  /\ n \in Nat
             /\ s \in [1 .. n -> orders]
             /\ \A i, j \in 1 .. n : i < j => Ahead(s[i], s[j])
             /\ \A o \in orders : \E i \in 1 .. n : s[i] = o
             /\ \A i, j \in 1 .. n : s[i] = s[j] => i = j
<1> DEFINE n == Cardinality(orders)
           R == {p \in orders \X orders : Ahead(p[1], p[2])}
<1>1. \A a, b \in orders : <<a, b>> \in R <=> Ahead(a, b)
  OBVIOUS
<1>2. \A a \in orders : a \in SimOrders
  BY DEF OneSided, Distinct
<1>3. \A a \in orders : a.id \in Int /\ a.price \in Int /\ a.side \in {"buy", "sell"}
  BY <1>2 DEF SimOrders
<1>4. \A a, b \in orders : a.side = b.side /\ (a.id = b.id => a = b)
  BY DEF OneSided, Distinct
<1>5. StrictOrder(orders, R)
  <2> HIDE DEF R
  <2>1. \A x, y \in orders : Ahead(x, y) \/ Ahead(y, x) \/ x = y
    BY <1>3, <1>4 DEF Ahead, Older
  <2>2. \A x \in orders : ~Ahead(x, x)
    BY <1>3 DEF Ahead, Older
  <2>3. \A x, y, z \in orders : Ahead(x, y) /\ Ahead(y, z) => Ahead(x, z)
    BY <1>3, <1>4 DEF Ahead, Older
  <2> QED
    BY <1>1, <2>1, <2>2, <2>3 DEF StrictOrder
<1>6. IsFiniteSet(orders)
  BY DEF OneSided, Distinct
<1>7. n \in Nat
  BY <1>6, FS_CardinalityType
<1> HIDE DEF R
<1> DEFINE InOrder(s) == \A i, j \in DOMAIN s : i < j => Ahead(s[i], s[j])
           c == CHOOSE s \in [1 .. n -> orders] : InOrder(s)
<1>8. Sorted(orders) = c
  BY DEF Sorted, Arranged
<1>9. \A s \in [1 .. n -> orders] : InOrder(s) <=> \A i, j \in 1 .. n : i < j => <<s[i], s[j]>> \in R
  BY <1>1
<1>10. \E s \in [1 .. n -> orders] : InOrder(s)
  <2>1. PICK s : LinesUp(orders, R, s)
    BY <1>5, <1>6, LineExists
  <2>2. s \in [1 .. n -> orders]
    BY <2>1 DEF LinesUp
  <2> HIDE DEF InOrder
  <2>3. InOrder(s)
    BY <1>9, <2>1, <2>2 DEF LinesUp
  <2> QED
    BY <2>2, <2>3
<1> HIDE DEF InOrder
<1>11. c \in [1 .. n -> orders] /\ InOrder(c)
  BY <1>10
<1> HIDE DEF c
<1>12. LinesUp(orders, R, c)
  BY <1>9, <1>11 DEF LinesUp
<1>13. \A i, j \in 1 .. n : i < j => Ahead(c[i], c[j])
  BY <1>11 DEF InOrder
<1>14. /\ \A x \in orders : \E i \in 1 .. n : c[i] = x
       /\ \A i, j \in 1 .. n : c[i] = c[j] => i = j
  BY <1>5, <1>6, <1>12, LineIsFull
<1> QED
  BY <1>7, <1>8, <1>11, <1>13, <1>14

-----------------------------------------------------------------------------
(* An order takes from the levels.                                         *)

Lv   == Int \X Nat
Accs == [rest : Nat, levels : Seq(Lv)]

\* What TakeLevel takes.
TakenOf(o, rest, l) ==
  IF Crosses(o, l[1]) /\ rest > 0 THEN IF l[2] < rest THEN l[2] ELSE rest ELSE 0

LEMMA TakeLevelIs ==
  ASSUME NEW o \in SimOrders, NEW acc \in Accs, NEW l \in Lv
  PROVE  LET t == TakenOf(o, acc.rest, l)
             r == TakeLevel(o, acc, l)
         IN  /\ t \in Nat /\ t <= acc.rest /\ t <= l[2] /\ l[1] \in Int /\ l[2] \in Nat
             /\ r.rest = acc.rest - t
             /\ r.levels = IF l[2] > t THEN Append(acc.levels, <<l[1], l[2] - t>>) ELSE acc.levels
             /\ r \in Accs
<1> DEFINE t == TakenOf(o, acc.rest, l)
           r == TakeLevel(o, acc, l)
<1>1. l[1] \in Int /\ l[2] \in Nat /\ acc.rest \in Nat /\ acc.levels \in Seq(Lv)
  BY DEF Lv, Accs
<1>2. t \in Nat /\ t <= acc.rest /\ t <= l[2]
  BY <1>1 DEF TakenOf
<1>3. r = [rest |-> acc.rest - t,
           levels |-> IF l[2] > t THEN Append(acc.levels, <<l[1], l[2] - t>>) ELSE acc.levels]
  BY DEF TakeLevel, TakenOf
<1> HIDE DEF t, r
<1>4. acc.rest - t \in Nat
  BY <1>1, <1>2
<1>5. l[2] > t => <<l[1], l[2] - t>> \in Lv
  BY <1>1, <1>2 DEF Lv
<1>6. (IF l[2] > t THEN Append(acc.levels, <<l[1], l[2] - t>>) ELSE acc.levels) \in Seq(Lv)
  <2>1. CASE l[2] > t
    <3> DEFINE x == <<l[1], l[2] - t>>
    <3>1. x \in Lv
      BY <1>5, <2>1
    <3> HIDE DEF x
    <3>2. Append(acc.levels, x) \in Seq(Lv)
      BY <1>1, <3>1
    <3> QED
      BY <2>1, <3>2 DEF x
  <2>2. CASE ~(l[2] > t)
    BY <1>1, <2>2
  <2> QED
    BY <2>1, <2>2
<1>7. r \in Accs
  BY <1>3, <1>4, <1>6 DEF Accs
<1> QED
  BY <1>1, <1>2, <1>3, <1>7 DEF t, r

\* acc holds what is left of o and of the first levels.
ConsumesBy(levels, o, acc) ==
  /\ acc[0] = [rest |-> o.amount, levels |-> <<>>]
  /\ \A k \in 1 .. Len(levels) : acc[k] = TakeLevel(o, acc[k - 1], levels[k])
  /\ Consume(levels, o) = acc[Len(levels)]

LEMMA ConsumeTrace ==
  ASSUME NEW levels \in Seq(Lv), NEW o \in SimOrders
  PROVE  \E acc \in [0 .. Len(levels) -> Accs] : ConsumesBy(levels, o, acc)
<1> DEFINE n == Len(levels)
           T == Accs
           base == [rest |-> o.amount, levels |-> <<>>]
           IsFold(D, iter) == iter = [t \in SUBSET D |->
                                IF t = {} THEN base
                                ELSE TakeLevel(o, iter[t \ {Max(t)}], levels[Max(t)])]
           op == [p \in T \X (1 .. n) |-> TakeLevel(o, p[1], levels[p[2]])]
<1>1. Consume(levels, o) = (CHOOSE iter : IsFold(DOMAIN levels, iter))[DOMAIN levels]
  BY DEF Consume, FoldLeft, MapThenFoldSet
<1>2. n \in Nat /\ DOMAIN levels = 1 .. n
  OBVIOUS
<1>3. base \in T
  <2>1. o.amount \in Nat /\ <<>> \in Seq(Lv)
    BY DEF SimOrders
  <2> QED
    BY <2>1 DEF Accs
<1>4. \A a \in T, k \in 1 .. n : TakeLevel(o, a, levels[k]) \in T
  <2> SUFFICES ASSUME NEW a \in T, NEW k \in 1 .. n PROVE TakeLevel(o, a, levels[k]) \in T
    OBVIOUS
  <2>1. levels[k] \in Lv
    BY <1>2
  <2> QED
    BY <2>1, TakeLevelIs
<1> DEFINE c == CHOOSE iter : IsFold(1 .. n, iter)
<1>5. Consume(levels, o) = c[1 .. n]
  <2> HIDE DEF IsFold
  <2> QED
    BY <1>1, <1>2
<1> HIDE DEF T, base, n
<1>6. op \in [T \X (1 .. n) -> T] /\ \A a \in T, k \in 1 .. n : op[<<a, k>>] = TakeLevel(o, a, levels[k])
  BY <1>4
<1> HIDE DEF op
<1>7. \E iter : IsFold(1 .. n, iter)
  <2>1. PICK iter \in [SUBSET (1 .. n) -> T] : FoldsLeft(n, base, op, iter)
    BY <1>2, <1>3, <1>6, LeftFoldExists, Zenon
  <2>2. \A t \in SUBSET (1 .. n) : t # {} => Max(t) \in 1 .. n
    BY <1>2, MaxIsIn
  <2>3. \A t \in SUBSET (1 .. n) : t # {} =>
          iter[t] = TakeLevel(o, iter[t \ {Max(t)}], levels[Max(t)])
    <3>1. \A t \in SUBSET (1 .. n) : t # {} => iter[t] = op[<<iter[t \ {Max(t)}], Max(t)>>]
      BY <2>1 DEF FoldsLeft
    <3>2. \A t \in SUBSET (1 .. n) : iter[t \ {Max(t)}] \in T
      OBVIOUS
    <3> QED
      BY <1>6, <2>2, <3>1, <3>2
  <2>4. iter[{}] = base
    BY <2>1 DEF FoldsLeft
  <2>5. iter = [t \in SUBSET (1 .. n) |-> iter[t]]
    OBVIOUS
  <2> QED
    BY <2>3, <2>4, <2>5
<1>8. IsFold(1 .. n, c)
  BY <1>7
<1> HIDE DEF c
<1>9. c[1 .. 0] = base
  BY <1>8
<1>10. \A k \in 1 .. n : c[1 .. k] = TakeLevel(o, c[1 .. k - 1], levels[k])
  <2>1. \A t \in SUBSET (1 .. n) : t # {} => c[t] = TakeLevel(o, c[t \ {Max(t)}], levels[Max(t)])
    BY <1>8
  <2>2. \A k \in 1 .. n : /\ Max(1 .. k) = k /\ (1 .. k) \ {k} = 1 .. k - 1
                          /\ 1 .. k # {} /\ 1 .. k \in SUBSET (1 .. n)
    BY <1>2, PrefixOf
  <2> QED
    BY <2>1, <2>2
<1> HIDE DEF IsFold
<1> DEFINE Good == {k \in 0 .. n : c[1 .. k] \in T}
<1>11. 0 \in Good
  BY <1>2, <1>3, <1>9
<1>12. ASSUME NEW k \in 0 .. n - 1, k \in Good
       PROVE  k + 1 \in Good
  <2>1. k + 1 \in 1 .. n /\ (k + 1) - 1 = k /\ k + 1 \in 0 .. n
    BY <1>2
  <2>2. c[1 .. k + 1] = TakeLevel(o, c[1 .. k], levels[k + 1])
    BY <1>10, <2>1
  <2> QED
    BY <1>4, <1>12, <2>1, <2>2
<1> HIDE DEF Good
<1>13. \A k \in 0 .. n : k \in Good
  BY <1>2, <1>11, <1>12, CountUp
<1> DEFINE acc == [k \in 0 .. n |-> c[1 .. k]]
<1>14. acc \in [0 .. n -> T]
  BY <1>13 DEF Good
<1>15. acc[0] = base /\ acc[n] = c[1 .. n]
  BY <1>2, <1>9
<1>16. \A k \in 1 .. n : acc[k] = TakeLevel(o, acc[k - 1], levels[k])
  <2>1. \A k \in 1 .. n : k \in 0 .. n /\ k - 1 \in 0 .. n
    BY <1>2
  <2> QED
    BY <1>10, <2>1
<1> HIDE DEF acc
<1>17. ConsumesBy(levels, o, acc)
  BY <1>5, <1>15, <1>16 DEF ConsumesBy, base, n
<1> QED
  BY <1>14, <1>17 DEF T, n

\* What an order leaves: if it is not filled, nothing it crosses, and if it crosses
\* nothing, all there was.
LEMMA ConsumeLeaves ==
  ASSUME NEW levels \in Seq(Lv), NEW o \in SimOrders
  PROVE  LET c == Consume(levels, o)
         IN  /\ c \in Accs /\ c.rest <= o.amount
             /\ c.rest > 0 => \A i \in 1 .. Len(c.levels) : ~Crosses(o, c.levels[i][1])
             /\ \A i \in 1 .. Len(c.levels) : \E j \in 1 .. Len(levels) : c.levels[i][1] = levels[j][1]
             /\ (\A j \in 1 .. Len(levels) : ~Crosses(o, levels[j][1])) => c.rest = o.amount
<1> DEFINE n == Len(levels)
           Leaves(a) ==
             /\ a \in Accs /\ a.rest <= o.amount
             /\ a.rest > 0 => \A i \in 1 .. Len(a.levels) : ~Crosses(o, a.levels[i][1])
             /\ \A i \in 1 .. Len(a.levels) : \E j \in 1 .. n : a.levels[i][1] = levels[j][1]
             /\ (\A j \in 1 .. n : ~Crosses(o, levels[j][1])) => a.rest = o.amount
<1>1. n \in Nat /\ \A k \in 1 .. n : levels[k] \in Lv
  OBVIOUS
<1> HIDE DEF n
<1>2. PICK acc \in [0 .. n -> Accs] : ConsumesBy(levels, o, acc)
  BY ConsumeTrace DEF n
<1> DEFINE Good == {k \in 0 .. n : Leaves(acc[k])}
<1>3. 0 \in Good
  <2>1. acc[0].rest = o.amount /\ acc[0].levels = <<>> /\ 0 \in 0 .. n
    BY <1>1, <1>2 DEF ConsumesBy
  <2>2. acc[0] \in Accs /\ o.amount \in Nat
    BY <1>2, <2>1 DEF SimOrders
  <2> QED
    BY <2>1, <2>2
<1>4. ASSUME NEW k \in 0 .. n - 1, k \in Good
      PROVE  k + 1 \in Good
  <2>1. k + 1 \in 1 .. n /\ (k + 1) - 1 = k /\ k + 1 \in 0 .. n /\ k \in 0 .. n
    BY <1>1
  <2> DEFINE a == acc[k]
             b == acc[k + 1]
             l == levels[k + 1]
             t == TakenOf(o, a.rest, l)
             x == <<l[1], l[2] - t>>
  <2>2. a \in Accs /\ Leaves(a) /\ b = TakeLevel(o, a, l) /\ l \in Lv
    <3>1. Leaves(a)
      BY <1>4
    <3> HIDE DEF Leaves
    <3>2. b = TakeLevel(o, a, l)
      BY <1>2, <2>1 DEF ConsumesBy, n
    <3> QED
      BY <1>1, <1>2, <2>1, <3>1, <3>2
  <2> HIDE DEF a, b, l, Leaves
  <2>3. /\ t \in Nat /\ t <= a.rest /\ t <= l[2] /\ l[2] \in Nat
        /\ b.rest = a.rest - t
        /\ b.levels = IF l[2] > t THEN Append(a.levels, x) ELSE a.levels
        /\ b \in Accs
    BY <2>2, TakeLevelIs
  <2>4. a.rest \in Nat /\ a.levels \in Seq(Lv) /\ o.amount \in Nat /\ b.rest \in Nat
    BY <2>2, <2>3 DEF Accs, SimOrders
  <2>5. b.rest > 0 /\ Crosses(o, l[1]) => t = l[2]
    BY <2>3, <2>4 DEF TakenOf
  <2>6. ~Crosses(o, l[1]) => t = 0
    BY DEF TakenOf
  <2>7. x[1] = l[1]
    OBVIOUS
  <2> HIDE DEF t, x
  <2>8. b.rest <= a.rest /\ (b.rest > 0 => a.rest > 0) /\ (t = 0 => b.rest = a.rest)
    BY <2>3, <2>4
  <2>9. /\ a.rest <= o.amount
        /\ a.rest > 0 => \A i \in 1 .. Len(a.levels) : ~Crosses(o, a.levels[i][1])
        /\ \A i \in 1 .. Len(a.levels) : \E j \in 1 .. n : a.levels[i][1] = levels[j][1]
        /\ (\A j \in 1 .. n : ~Crosses(o, levels[j][1])) => a.rest = o.amount
    BY <2>2 DEF Leaves
  <2>10. (\A j \in 1 .. n : ~Crosses(o, levels[j][1])) => b.rest = o.amount
    BY <2>1, <2>6, <2>8, <2>9 DEF l
  <2>11. b.rest <= o.amount
    BY <2>4, <2>8, <2>9
  <2>12. CASE ~(l[2] > t)
    <3>1. b.levels = a.levels
      BY <2>3, <2>12
    <3> QED
      BY <2>1, <2>3, <2>8, <2>9, <2>10, <2>11, <3>1 DEF Leaves, b
  <2>13. CASE l[2] > t
    <3> DEFINE m == Len(a.levels)
    <3>1. b.levels = Append(a.levels, x)
      BY <2>3, <2>13
    <3>2. /\ m \in Nat /\ Len(b.levels) = m + 1
          /\ \A i \in 1 .. m : b.levels[i] = a.levels[i]
          /\ b.levels[m + 1] = x
      BY <2>4, <3>1
    <3> HIDE DEF m
    <3>3. \A i \in 1 .. Len(b.levels) : i \in 1 .. m \/ i = m + 1
      BY <3>2
    <3>4. ASSUME b.rest > 0, NEW i \in 1 .. Len(b.levels)
          PROVE  ~Crosses(o, b.levels[i][1])
      <4>1. CASE i \in 1 .. m
        BY <2>8, <2>9, <3>2, <3>4, <4>1 DEF m
      <4>2. CASE i = m + 1
        <5>1. t # l[2]
          BY <2>3, <2>13
        <5> QED
          BY <2>5, <2>7, <3>2, <3>4, <4>2, <5>1
      <4> QED
        BY <3>3, <4>1, <4>2
    <3>5. ASSUME NEW i \in 1 .. Len(b.levels)
          PROVE  \E j \in 1 .. n : b.levels[i][1] = levels[j][1]
      <4>1. CASE i \in 1 .. m
        BY <2>9, <3>2, <4>1 DEF m
      <4>2. CASE i = m + 1
        BY <2>1, <2>7, <3>2, <4>2 DEF l
      <4> QED
        BY <3>3, <4>1, <4>2
    <3> QED
      BY <2>1, <2>3, <2>10, <2>11, <3>4, <3>5 DEF Leaves, b
  <2> QED
    BY <2>12, <2>13
<1> HIDE DEF Good
<1>5. \A k \in 0 .. n : k \in Good
  BY <1>1, <1>3, <1>4, CountUp
<1>6. n \in Good /\ Consume(levels, o) = acc[n]
  BY <1>1, <1>2, <1>5 DEF ConsumesBy, n
<1>7. Leaves(Consume(levels, o))
  BY <1>6 DEF Good
<1> QED
  BY <1>7 DEF Leaves, n

\* What levels offer.
LevelOffer(p, l) == IF Crosses(p, l[1]) THEN l[2] ELSE 0

LEMMA OfferedIs ==
  ASSUME NEW p, NEW levels \in Seq(Lv)
  PROVE  /\ Offered(p, levels) \in Nat
         /\ \A l \in Lv : Offered(p, Append(levels, l)) = Offered(p, levels) + LevelOffer(p, l)
         /\ Offered(p, <<>>) = 0
<1> DEFINE w == [l \in Lv |-> LevelOffer(p, l)]
           S == Lv
<1>1. \A s \in Seq(S) : Offered(p, s) = Tally(w, s)
  <2> SUFFICES ASSUME NEW s \in Seq(S) PROVE Offered(p, s) = Tally(w, s)
    OBVIOUS
  <2>1. \A i \in DOMAIN s : s[i] \in S
    OBVIOUS
  <2>2. \A i \in DOMAIN s : w[s[i]] = LevelOffer(p, s[i])
    BY <2>1
  <2> HIDE DEF w
  <2> QED
    BY <2>2 DEF Offered, Tally, LevelOffer
<1>2. w \in [S -> Nat] /\ \A l \in S : w[l] = LevelOffer(p, l)
  BY DEF LevelOffer, Lv
<1>3. <<>> \in Seq(S) /\ levels \in Seq(S) /\ \A l \in S : Append(levels, l) \in Seq(S)
  OBVIOUS
<1> HIDE DEF w, S
<1>4. /\ Tally(w, levels) \in Nat
      /\ \A l \in S : Tally(w, Append(levels, l)) = Tally(w, levels) + w[l]
      /\ Tally(w, <<>>) = 0
  BY <1>2, <1>3, TallyIs
<1> QED
  BY <1>1, <1>2, <1>3, <1>4 DEF S

\* The first of some levels.
FirstOf(levels, k) == SubSeq(levels, 1, k)

\* What an order no more aggressive than p takes, it takes from what is offered at p's
\* price or better.
LEMMA ConsumeShares ==
  ASSUME NEW levels \in Seq(Lv), NEW o \in SimOrders, NEW p \in SimOrders, p.side = o.side
  PROVE  Offered(p, Consume(levels, o).levels)
           + (IF Crosses(p, o.price) THEN o.amount - Consume(levels, o).rest ELSE 0)
             <= Offered(p, levels)
<1> DEFINE n == Len(levels)
           took(a) == IF Crosses(p, o.price) THEN o.amount - a.rest ELSE 0
<1>1. n \in Nat /\ \A k \in 1 .. n : levels[k] \in Lv
  OBVIOUS
<1>2. /\ FirstOf(levels, 0) = <<>> /\ FirstOf(levels, n) = levels
      /\ \A k \in 0 .. n : FirstOf(levels, k) \in Seq(Lv)
      /\ \A k \in 0 .. n - 1 : FirstOf(levels, k + 1) = Append(FirstOf(levels, k), levels[k + 1])
  <2>1. SubSeq(levels, 1, 0) = <<>> /\ SubSeq(levels, 1, n) = levels
    BY SubSeqFull
  <2>2. \A k \in 0 .. n : SubSeq(levels, 1, k) \in Seq(Lv)
    OBVIOUS
  <2>3. \A k \in 0 .. n - 1 : SubSeq(levels, 1, k + 1) = Append(SubSeq(levels, 1, k), levels[k + 1])
    OBVIOUS
  <2> QED
    BY <2>1, <2>2, <2>3 DEF FirstOf
<1> HIDE DEF n
<1>3. PICK acc \in [0 .. n -> Accs] : ConsumesBy(levels, o, acc)
  BY ConsumeTrace DEF n
<1> DEFINE Good == {k \in 0 .. n : Offered(p, acc[k].levels) + took(acc[k]) <= Offered(p, FirstOf(levels, k))}
<1>4. /\ p.side \in {"buy", "sell"} /\ p.price \in Int /\ o.price \in Int /\ o.amount \in Nat
  BY DEF SimOrders
<1>5. 0 \in Good
  <2>1. acc[0].rest = o.amount /\ acc[0].levels = <<>> /\ 0 \in 0 .. n
    BY <1>1, <1>3 DEF ConsumesBy
  <2>2. Offered(p, <<>>) = 0
    BY OfferedIs
  <2> QED
    BY <1>2, <1>4, <2>1, <2>2
<1>6. ASSUME NEW k \in 0 .. n - 1, k \in Good
      PROVE  k + 1 \in Good
  <2>1. k + 1 \in 1 .. n /\ (k + 1) - 1 = k /\ k + 1 \in 0 .. n /\ k \in 0 .. n
    BY <1>1
  <2> DEFINE a == acc[k]
             b == acc[k + 1]
             l == levels[k + 1]
             t == TakenOf(o, a.rest, l)
             x == <<l[1], l[2] - t>>
             f == FirstOf(levels, k)
             g == FirstOf(levels, k + 1)
  <2>2. a \in Accs /\ b = TakeLevel(o, a, l) /\ l \in Lv /\ Offered(p, a.levels) + took(a) <= Offered(p, f)
    <3>1. Offered(p, a.levels) + took(a) <= Offered(p, f)
      BY <1>6
    <3> HIDE DEF took, f
    <3>2. b = TakeLevel(o, a, l)
      BY <1>3, <2>1 DEF ConsumesBy, n
    <3> QED
      BY <1>1, <1>3, <2>1, <3>1, <3>2
  <2>3. f \in Seq(Lv) /\ g = Append(f, l)
    BY <1>2, <2>1
  <2> HIDE DEF a, b, l, f, g, took
  <2>4. /\ t \in Nat /\ t <= a.rest /\ t <= l[2] /\ l[1] \in Int /\ l[2] \in Nat
        /\ b.rest = a.rest - t
        /\ b.levels = IF l[2] > t THEN Append(a.levels, x) ELSE a.levels
        /\ b \in Accs
    BY <2>2, TakeLevelIs
  <2>5. a.rest \in Nat /\ a.levels \in Seq(Lv) /\ b.rest \in Nat
    BY <2>2, <2>4 DEF Accs
  <2>6. Crosses(p, o.price) /\ t > 0 => Crosses(p, l[1])
    <3> SUFFICES ASSUME Crosses(p, o.price), t > 0 PROVE Crosses(p, l[1])
      OBVIOUS
    <3>1. Crosses(o, l[1])
      BY DEF TakenOf
    <3> HIDE DEF t
    <3> QED
      BY <1>4, <2>4, <3>1 DEF Crosses
  <2>7. x[1] = l[1] /\ x[2] = l[2] - t
    OBVIOUS
  <2>8. l[2] > t => x \in Lv
    BY <2>4 DEF Lv
  <2> HIDE DEF t, x
  <2> DEFINE A == Offered(p, a.levels)
             B == Offered(p, b.levels)
             F == Offered(p, f)
             G == Offered(p, g)
             U == IF Crosses(p, l[1]) THEN l[2] - t ELSE 0
             W == IF Crosses(p, l[1]) THEN l[2] ELSE 0
  <2>9. A \in Nat /\ F \in Nat /\ G = F + W
    BY <2>2, <2>3, <2>5, OfferedIs DEF LevelOffer
  <2>10. B = A + U
    <3>1. CASE l[2] > t
      <4>1. B = A + LevelOffer(p, x)
        BY <2>4, <2>5, <2>8, <3>1, OfferedIs
      <4> QED
        BY <2>7, <4>1 DEF LevelOffer
    <3>2. CASE ~(l[2] > t)
      <4>1. l[2] - t = 0 /\ B = A
        BY <2>4, <3>2
      <4> QED
        BY <2>9, <4>1
    <3> QED
      BY <3>1, <3>2
  <2>11. took(a) = (IF Crosses(p, o.price) THEN o.amount - a.rest ELSE 0)
         /\ took(b) = (IF Crosses(p, o.price) THEN o.amount - b.rest ELSE 0)
    BY DEF took
  <2>12. A + took(a) <= F
    BY <2>2
  <2> DEFINE r == a.rest
             s == b.rest
             q == o.amount
             v == took(a)
             y == took(b)
             z == l[2]
             C == Crosses(p, o.price)
             D == Crosses(p, l[1])
  <2>13. /\ v = (IF C THEN q - r ELSE 0) /\ y = (IF C THEN q - s ELSE 0)
         /\ U = (IF D THEN z - t ELSE 0) /\ W = (IF D THEN z ELSE 0)
         /\ (C /\ t > 0 => D) /\ s = r - t /\ t \in Nat /\ r \in Nat /\ q \in Nat /\ z \in Nat /\ t <= z
         /\ A + v <= F
    BY <1>4, <2>4, <2>5, <2>6, <2>11, <2>12
  <2> HIDE DEF A, B, F, G, U, W, r, s, q, v, y, z, C, D
  <2>14. B + y <= G
    <3>1. CASE C
      <4>1. CASE D
        BY <2>9, <2>10, <2>12, <2>13, <3>1, <4>1
      <4>2. CASE ~D
        BY <2>9, <2>10, <2>12, <2>13, <3>1, <4>2
      <4> QED
        BY <4>1, <4>2
    <3>2. CASE ~C
      <4>1. CASE D
        BY <2>9, <2>10, <2>12, <2>13, <3>2, <4>1
      <4>2. CASE ~D
        BY <2>9, <2>10, <2>12, <2>13, <3>2, <4>2
      <4> QED
        BY <4>1, <4>2
    <3> QED
      BY <3>1, <3>2
  <2> QED
    BY <2>1, <2>14 DEF B, y, G, b, g
<1> HIDE DEF Good
<1>7. \A k \in 0 .. n : k \in Good
  BY <1>1, <1>5, <1>6, CountUp
<1>8. n \in Good /\ Consume(levels, o) = acc[n]
  BY <1>1, <1>3, <1>7 DEF ConsumesBy, n
<1> QED
  BY <1>2, <1>8 DEF Good

-----------------------------------------------------------------------------
(* The orders of one side are served in turn.                              *)

FillsOf(orders) == [order : orders, amount : Nat, pnl : Int]
Servings(orders) == [levels : Seq(Lv), fills : Seq(FillsOf(orders))]

LEMMA ServeIs ==
  ASSUME NEW orders, orders \subseteq SimOrders, NEW o \in orders, NEW acc \in Servings(orders), NEW mid2 \in Int
  PROVE  LET c == Consume(acc.levels, o)
             r == Serve(mid2, acc, o)
         IN  /\ r \in Servings(orders)
             /\ o.amount - c.rest \in Nat
             /\ r.levels = c.levels
             /\ IF o.amount - c.rest > 0
                  THEN \E f \in FillsOf(orders) :
                         f.order = o /\ f.amount = o.amount - c.rest /\ r.fills = Append(acc.fills, f)
                  ELSE r.fills = acc.fills
<1> DEFINE c == Consume(acc.levels, o)
           r == Serve(mid2, acc, o)
           got == o.amount - c.rest
           pnl == IF o.side = "sell" THEN (2 * o.price - mid2) * got ELSE 0
           f == [order |-> o, amount |-> got, pnl |-> pnl]
<1>1. acc.levels \in Seq(Lv) /\ acc.fills \in Seq(FillsOf(orders)) /\ o \in SimOrders
  BY DEF Servings
<1>2. c \in Accs /\ c.rest <= o.amount
  BY <1>1, ConsumeLeaves
<1>3. c.rest \in Nat /\ c.levels \in Seq(Lv) /\ o.amount \in Nat /\ o.price \in Int
  BY <1>1, <1>2 DEF Accs, SimOrders
<1>4. r = [levels |-> c.levels, fills |-> IF got > 0 THEN Append(acc.fills, f) ELSE acc.fills]
  BY DEF Serve
<1> HIDE DEF c, r
<1>5. got \in Nat
  BY <1>2, <1>3
<1>6. pnl \in Int
  <2>1. \A a, b \in Int : a * b \in Int
    OBVIOUS
  <2>2. 2 * o.price - mid2 \in Int /\ got \in Int
    BY <1>3, <1>5
  <2> HIDE DEF got
  <2> QED
    BY <2>1, <2>2
<1> HIDE DEF got, pnl
<1>7. f \in FillsOf(orders) /\ f.order = o /\ f.amount = got
  BY <1>5, <1>6 DEF FillsOf
<1> HIDE DEF f
<1>8. Append(acc.fills, f) \in Seq(FillsOf(orders))
  BY <1>1, <1>7
<1>9. r \in Servings(orders)
  BY <1>1, <1>3, <1>4, <1>8 DEF Servings
<1>10. r.levels = c.levels /\ r.fills = IF got > 0 THEN Append(acc.fills, f) ELSE acc.fills
  BY <1>4
<1> QED
  BY <1>5, <1>7, <1>9, <1>10 DEF c, r, got

\* served holds what is left of the book, and the fills, after the first orders.
ServesBy(orders, levels, mid2, served) ==
  /\ served[0] = [levels |-> levels, fills |-> <<>>]
  /\ \A k \in 1 .. Cardinality(orders) : served[k] = Serve(mid2, served[k - 1], Sorted(orders)[k])
  /\ FillSide(orders, levels, mid2) = served[Cardinality(orders)].fills

LEMMA ServeTrace ==
  ASSUME NEW orders, OneSided(orders), NEW levels \in Seq(Lv), NEW mid2 \in Int
  PROVE  \E served \in [0 .. Cardinality(orders) -> Servings(orders)] :
           ServesBy(orders, levels, mid2, served)
<1> DEFINE n == Cardinality(orders)
           line == Sorted(orders)
           T == Servings(orders)
           base == [levels |-> levels, fills |-> <<>>]
           IsFold(D, iter) == iter = [t \in SUBSET D |->
                                IF t = {} THEN base
                                ELSE Serve(mid2, iter[t \ {Max(t)}], line[Max(t)])]
           op == [p \in T \X (1 .. n) |-> Serve(mid2, p[1], line[p[2]])]
<1>1. FillSide(orders, levels, mid2) = (CHOOSE iter : IsFold(DOMAIN line, iter))[DOMAIN line].fills
  BY DEF FillSide, FoldLeft, MapThenFoldSet
<1>2. n \in Nat /\ line \in [1 .. n -> orders] /\ DOMAIN line = 1 .. n
  BY SortedIs
<1>3. base \in T
  BY DEF Servings
<1>4. \A a \in T, k \in 1 .. n : Serve(mid2, a, line[k]) \in T
  <2> SUFFICES ASSUME NEW a \in T, NEW k \in 1 .. n PROVE Serve(mid2, a, line[k]) \in T
    OBVIOUS
  <2>1. line[k] \in orders /\ orders \subseteq SimOrders
    BY <1>2 DEF OneSided, Distinct
  <2> HIDE DEF line
  <2> QED
    BY <2>1, ServeIs
<1> DEFINE c == CHOOSE iter : IsFold(1 .. n, iter)
<1>5. FillSide(orders, levels, mid2) = c[1 .. n].fills
  <2> HIDE DEF IsFold, line
  <2> QED
    BY <1>1, <1>2
<1> HIDE DEF T, base, n, line
<1>6. op \in [T \X (1 .. n) -> T] /\ \A a \in T, k \in 1 .. n : op[<<a, k>>] = Serve(mid2, a, line[k])
  BY <1>4
<1> HIDE DEF op
<1>7. \E iter : IsFold(1 .. n, iter)
  <2>1. PICK iter \in [SUBSET (1 .. n) -> T] : FoldsLeft(n, base, op, iter)
    BY <1>2, <1>3, <1>6, LeftFoldExists, Zenon
  <2>2. \A t \in SUBSET (1 .. n) : t # {} => Max(t) \in 1 .. n
    BY <1>2, MaxIsIn
  <2>3. \A t \in SUBSET (1 .. n) : t # {} =>
          iter[t] = Serve(mid2, iter[t \ {Max(t)}], line[Max(t)])
    <3>1. \A t \in SUBSET (1 .. n) : t # {} => iter[t] = op[<<iter[t \ {Max(t)}], Max(t)>>]
      BY <2>1 DEF FoldsLeft
    <3>2. \A t \in SUBSET (1 .. n) : iter[t \ {Max(t)}] \in T
      OBVIOUS
    <3> QED
      BY <1>6, <2>2, <3>1, <3>2
  <2>4. iter[{}] = base
    BY <2>1 DEF FoldsLeft
  <2>5. iter = [t \in SUBSET (1 .. n) |-> iter[t]]
    OBVIOUS
  <2> QED
    BY <2>3, <2>4, <2>5
<1>8. IsFold(1 .. n, c)
  BY <1>7
<1> HIDE DEF c
<1>9. c[1 .. 0] = base
  BY <1>8
<1>10. \A k \in 1 .. n : c[1 .. k] = Serve(mid2, c[1 .. k - 1], line[k])
  <2>1. \A t \in SUBSET (1 .. n) : t # {} => c[t] = Serve(mid2, c[t \ {Max(t)}], line[Max(t)])
    BY <1>8
  <2>2. \A k \in 1 .. n : /\ Max(1 .. k) = k /\ (1 .. k) \ {k} = 1 .. k - 1
                          /\ 1 .. k # {} /\ 1 .. k \in SUBSET (1 .. n)
    BY <1>2, PrefixOf
  <2> QED
    BY <2>1, <2>2
<1> HIDE DEF IsFold
<1> DEFINE Good == {k \in 0 .. n : c[1 .. k] \in T}
<1>11. 0 \in Good
  BY <1>2, <1>3, <1>9
<1>12. ASSUME NEW k \in 0 .. n - 1, k \in Good
       PROVE  k + 1 \in Good
  <2>1. k + 1 \in 1 .. n /\ (k + 1) - 1 = k /\ k + 1 \in 0 .. n
    BY <1>2
  <2>2. c[1 .. k + 1] = Serve(mid2, c[1 .. k], line[k + 1])
    BY <1>10, <2>1
  <2> QED
    BY <1>4, <1>12, <2>1, <2>2
<1> HIDE DEF Good
<1>13. \A k \in 0 .. n : k \in Good
  BY <1>2, <1>11, <1>12, CountUp
<1> DEFINE served == [k \in 0 .. n |-> c[1 .. k]]
<1>14. served \in [0 .. n -> T]
  BY <1>13 DEF Good
<1>15. served[0] = base /\ served[n] = c[1 .. n]
  BY <1>2, <1>9
<1>16. \A k \in 1 .. n : served[k] = Serve(mid2, served[k - 1], line[k])
  <2>1. \A k \in 1 .. n : k \in 0 .. n /\ k - 1 \in 0 .. n
    BY <1>2
  <2> QED
    BY <1>10, <2>1
<1> HIDE DEF served
<1>17. ServesBy(orders, levels, mid2, served)
  BY <1>5, <1>15, <1>16 DEF ServesBy, base, n, line
<1> QED
  BY <1>14, <1>17 DEF T, n

\* What a fill counts for an order, and for the orders no more aggressive than it.
Counts(o, f)      == IF f.order = o THEN f.amount ELSE 0
CountsNear(o, f)  == IF Near(o, f.order) THEN f.amount ELSE 0

LEMMA FilledIs ==
  ASSUME NEW orders, NEW o, NEW fills \in Seq(FillsOf(orders))
  PROVE  /\ FilledOf(o, fills) \in Nat
         /\ \A f \in FillsOf(orders) : FilledOf(o, Append(fills, f)) = FilledOf(o, fills) + Counts(o, f)
         /\ FilledOf(o, <<>>) = 0
         /\ (\A i \in 1 .. Len(fills) : fills[i].order # o) => FilledOf(o, fills) = 0
         /\ \A more \in Seq(FillsOf(orders)) :
              FilledOf(o, fills \o more) = FilledOf(o, fills) + FilledOf(o, more)
<1> DEFINE S == FillsOf(orders)
           w == [f \in S |-> Counts(o, f)]
<1>1. \A s \in Seq(S) : FilledOf(o, s) = Tally(w, s)
  <2> SUFFICES ASSUME NEW s \in Seq(S) PROVE FilledOf(o, s) = Tally(w, s)
    OBVIOUS
  <2>1. \A i \in DOMAIN s : s[i] \in S
    OBVIOUS
  <2>2. \A i \in DOMAIN s : w[s[i]] = Counts(o, s[i])
    BY <2>1
  <2> HIDE DEF w
  <2> QED
    BY <2>2 DEF FilledOf, Tally, Counts
<1>2. w \in [S -> Nat] /\ \A f \in S : w[f] = Counts(o, f)
  BY DEF Counts, FillsOf
<1>3. \A i \in 1 .. Len(fills) : fills[i] \in S /\ (fills[i].order # o => Counts(o, fills[i]) = 0)
  BY DEF Counts
<1> HIDE DEF w, S
<1>4. fills \in Seq(S)
  BY DEF S
<1>5. <<>> \in Seq(S) /\ \A f \in S : Append(fills, f) \in Seq(S)
  BY <1>4
<1>6. /\ Tally(w, fills) \in Nat
      /\ \A f \in S : Tally(w, Append(fills, f)) = Tally(w, fills) + w[f]
      /\ Tally(w, <<>>) = 0
      /\ (\A i \in 1 .. Len(fills) : w[fills[i]] = 0) => Tally(w, fills) = 0
  BY <1>2, <1>4, TallyIs
<1>7. ASSUME NEW more \in Seq(S)
      PROVE  FilledOf(o, fills \o more) = FilledOf(o, fills) + FilledOf(o, more)
  <2>1. fills \o more \in Seq(S)
    BY <1>4
  <2>2. Tally(w, fills \o more) = Tally(w, fills) + Tally(w, more)
    BY <1>2, <1>4, TallyOfBoth
  <2> QED
    BY <1>1, <1>4, <2>1, <2>2
<1>8. (\A i \in 1 .. Len(fills) : fills[i].order # o) => Tally(w, fills) = 0
  BY <1>2, <1>3, <1>6
<1>9. /\ FilledOf(o, fills) = Tally(w, fills)
      /\ FilledOf(o, <<>>) = Tally(w, <<>>)
      /\ \A f \in S : FilledOf(o, Append(fills, f)) = Tally(w, Append(fills, f))
  BY <1>1, <1>4, <1>5
<1> QED
  BY <1>2, <1>6, <1>7, <1>8, <1>9 DEF S

LEMMA FilledNearIs ==
  ASSUME NEW orders, NEW o, NEW fills \in Seq(FillsOf(orders))
  PROVE  /\ FilledNear(o, fills) \in Nat
         /\ \A f \in FillsOf(orders) : FilledNear(o, Append(fills, f)) = FilledNear(o, fills) + CountsNear(o, f)
         /\ FilledNear(o, <<>>) = 0
         /\ (\A i \in 1 .. Len(fills) : ~Near(o, fills[i].order)) => FilledNear(o, fills) = 0
         /\ \A more \in Seq(FillsOf(orders)) :
              FilledNear(o, fills \o more) = FilledNear(o, fills) + FilledNear(o, more)
<1> DEFINE S == FillsOf(orders)
           w == [f \in S |-> CountsNear(o, f)]
<1>1. \A s \in Seq(S) : FilledNear(o, s) = Tally(w, s)
  <2> SUFFICES ASSUME NEW s \in Seq(S) PROVE FilledNear(o, s) = Tally(w, s)
    OBVIOUS
  <2>1. \A i \in DOMAIN s : s[i] \in S
    OBVIOUS
  <2>2. \A i \in DOMAIN s : w[s[i]] = CountsNear(o, s[i])
    BY <2>1
  <2> HIDE DEF w
  <2> QED
    BY <2>2 DEF FilledNear, Tally, CountsNear
<1>2. w \in [S -> Nat] /\ \A f \in S : w[f] = CountsNear(o, f)
  BY DEF CountsNear, FillsOf
<1>3. \A i \in 1 .. Len(fills) : fills[i] \in S /\ (~Near(o, fills[i].order) => CountsNear(o, fills[i]) = 0)
  BY DEF CountsNear
<1> HIDE DEF w, S
<1>4. fills \in Seq(S)
  BY DEF S
<1>5. <<>> \in Seq(S) /\ \A f \in S : Append(fills, f) \in Seq(S)
  BY <1>4
<1>6. /\ Tally(w, fills) \in Nat
      /\ \A f \in S : Tally(w, Append(fills, f)) = Tally(w, fills) + w[f]
      /\ Tally(w, <<>>) = 0
      /\ (\A i \in 1 .. Len(fills) : w[fills[i]] = 0) => Tally(w, fills) = 0
  BY <1>2, <1>4, TallyIs
<1>7. ASSUME NEW more \in Seq(S)
      PROVE  FilledNear(o, fills \o more) = FilledNear(o, fills) + FilledNear(o, more)
  <2>1. fills \o more \in Seq(S)
    BY <1>4
  <2>2. Tally(w, fills \o more) = Tally(w, fills) + Tally(w, more)
    BY <1>2, <1>4, TallyOfBoth
  <2> QED
    BY <1>1, <1>4, <2>1, <2>2
<1>8. (\A i \in 1 .. Len(fills) : ~Near(o, fills[i].order)) => Tally(w, fills) = 0
  BY <1>2, <1>3, <1>6
<1>9. /\ FilledNear(o, fills) = Tally(w, fills)
      /\ FilledNear(o, <<>>) = Tally(w, <<>>)
      /\ \A f \in S : FilledNear(o, Append(fills, f)) = Tally(w, Append(fills, f))
  BY <1>1, <1>4, <1>5
<1> QED
  BY <1>2, <1>6, <1>7, <1>8, <1>9 DEF S

\* Orders that no level crosses are not filled.
LEMMA NothingCrossed ==
  ASSUME NEW orders, OneSided(orders), NEW levels \in Seq(Lv), NEW mid2 \in Int,
         \A o \in orders : \A j \in 1 .. Len(levels) : ~Crosses(o, levels[j][1])
  PROVE  FillSide(orders, levels, mid2) = <<>>
<1> DEFINE n == Cardinality(orders)
           line == Sorted(orders)
           m == Len(levels)
<1>1. n \in Nat /\ line \in [1 .. n -> orders] /\ orders \subseteq SimOrders
  BY SortedIs DEF OneSided, Distinct
<1> HIDE DEF line, m
<1>2. PICK served \in [0 .. n -> Servings(orders)] : ServesBy(orders, levels, mid2, served)
  BY ServeTrace
<1> HIDE DEF n
<1> DEFINE Unfilled(r) ==
             /\ r.fills = <<>>
             /\ \A i \in 1 .. Len(r.levels) : \E j \in 1 .. m : r.levels[i][1] = levels[j][1]
           Good == {k \in 0 .. n : Unfilled(served[k])}
<1>3. 0 \in Good
  <2>1. served[0].fills = <<>> /\ served[0].levels = levels /\ 0 \in 0 .. n
    BY <1>1, <1>2 DEF ServesBy
  <2> QED
    BY <2>1 DEF m
<1>4. ASSUME NEW k \in 0 .. n - 1, k \in Good
      PROVE  k + 1 \in Good
  <2>1. k + 1 \in 1 .. n /\ (k + 1) - 1 = k /\ k + 1 \in 0 .. n /\ k \in 0 .. n
    BY <1>1
  <2> DEFINE a == served[k]
             b == served[k + 1]
             o == line[k + 1]
             c == Consume(a.levels, o)
  <2>2. Unfilled(a)
    BY <1>4
  <2>3. b = Serve(mid2, a, o) /\ a \in Servings(orders) /\ o \in orders
    BY <1>1, <1>2, <2>1 DEF ServesBy, n, line
  <2> HIDE DEF a, b, o, Unfilled
  <2>4. a.levels \in Seq(Lv) /\ o \in SimOrders /\ o.amount \in Nat
    BY <1>1, <2>3 DEF Servings, SimOrders
  <2>5. /\ \A i \in 1 .. Len(c.levels) : \E j \in 1 .. Len(a.levels) : c.levels[i][1] = a.levels[j][1]
        /\ (\A j \in 1 .. Len(a.levels) : ~Crosses(o, a.levels[j][1])) => c.rest = o.amount
    BY <2>4, ConsumeLeaves
  <2>6. a.fills = <<>> /\ \A i \in 1 .. Len(a.levels) : \E j \in 1 .. m : a.levels[i][1] = levels[j][1]
    BY <2>2 DEF Unfilled
  <2>7. \A j \in 1 .. Len(a.levels) : ~Crosses(o, a.levels[j][1])
    BY <2>3, <2>6 DEF m
  <2>8. ~(o.amount - c.rest > 0)
    BY <2>4, <2>5, <2>7
  <2>9. b.levels = c.levels /\ b.fills = a.fills
    BY <1>1, <2>3, <2>8, ServeIs
  <2>10. Unfilled(b)
    BY <2>5, <2>6, <2>9 DEF Unfilled
  <2> QED
    BY <2>1, <2>10 DEF b
<1> HIDE DEF Good
<1>5. \A k \in 0 .. n : k \in Good
  BY <1>1, <1>3, <1>4, CountUp
<1>6. n \in Good /\ FillSide(orders, levels, mid2) = served[n].fills
  BY <1>1, <1>2, <1>5 DEF ServesBy, n
<1> QED
  BY <1>6 DEF Good

LEMMA FillsAre ==
  ASSUME NEW orders, OneSided(orders), NEW levels \in Seq(Lv), NEW mid2 \in Int
  PROVE  FillSide(orders, levels, mid2) \in Seq(FillsOf(orders))
<1> DEFINE n == Cardinality(orders)
<1>1. n \in Nat
  BY SortedIs
<1>2. PICK served \in [0 .. n -> Servings(orders)] : ServesBy(orders, levels, mid2, served)
  BY ServeTrace
<1>3. FillSide(orders, levels, mid2) = served[n].fills
  BY <1>2 DEF ServesBy
<1> HIDE DEF n
<1>4. served[n] \in Servings(orders)
  BY <1>1, <1>2
<1> QED
  BY <1>3, <1>4 DEF Servings

\* The fills of one side share what is offered.
LEMMA SideShares ==
  ASSUME NEW orders, OneSided(orders), NEW levels \in Seq(Lv), NEW mid2 \in Int, NEW p \in SimOrders,
         \A o \in orders : o.side = p.side
  PROVE  FilledNear(p, FillSide(orders, levels, mid2)) <= Offered(p, levels)
<1> DEFINE n == Cardinality(orders)
           line == Sorted(orders)
<1>1. n \in Nat /\ line \in [1 .. n -> orders] /\ orders \subseteq SimOrders
  BY SortedIs DEF OneSided, Distinct
<1> HIDE DEF line
<1>2. PICK served \in [0 .. n -> Servings(orders)] : ServesBy(orders, levels, mid2, served)
  BY ServeTrace
<1> HIDE DEF n
<1> DEFINE Shared(r) == FilledNear(p, r.fills) + Offered(p, r.levels) <= Offered(p, levels)
           Good == {k \in 0 .. n : Shared(served[k])}
<1>3. 0 \in Good
  <2>1. served[0].fills = <<>> /\ served[0].levels = levels /\ 0 \in 0 .. n
    BY <1>1, <1>2 DEF ServesBy
  <2>2. <<>> \in Seq(FillsOf(orders))
    OBVIOUS
  <2>3. FilledNear(p, <<>>) = 0 /\ Offered(p, levels) \in Nat
    BY <2>2, FilledNearIs, OfferedIs
  <2>4. Shared(served[0])
    BY <2>1, <2>3
  <2> QED
    BY <2>1, <2>4
<1>4. ASSUME NEW k \in 0 .. n - 1, k \in Good
      PROVE  k + 1 \in Good
  <2>1. k + 1 \in 1 .. n /\ (k + 1) - 1 = k /\ k + 1 \in 0 .. n /\ k \in 0 .. n
    BY <1>1
  <2> DEFINE a == served[k]
             b == served[k + 1]
             o == line[k + 1]
             c == Consume(a.levels, o)
             got == o.amount - c.rest
  <2>2. Shared(a)
    BY <1>4
  <2> HIDE DEF Shared
  <2>3. b = Serve(mid2, a, o) /\ a \in Servings(orders) /\ o \in orders
    BY <1>1, <1>2, <2>1 DEF ServesBy, n, line
  <2> HIDE DEF a, b, o
  <2>4. a.levels \in Seq(Lv) /\ a.fills \in Seq(FillsOf(orders)) /\ o \in SimOrders /\ o.side = p.side
    BY <1>1, <2>3 DEF Servings
  <2>5. /\ got \in Nat
        /\ b.levels = c.levels
        /\ IF got > 0
             THEN \E f \in FillsOf(orders) : f.order = o /\ f.amount = got /\ b.fills = Append(a.fills, f)
             ELSE b.fills = a.fills
    BY <1>1, <2>3, ServeIs
  <2>6. Offered(p, c.levels) + (IF Crosses(p, o.price) THEN got ELSE 0) <= Offered(p, a.levels)
    BY <2>4, ConsumeShares
  <2>7. c.levels \in Seq(Lv)
    <3>1. c \in Accs
      BY <2>4, ConsumeLeaves
    <3> QED
      BY <3>1 DEF Accs
  <2>8. /\ Offered(p, c.levels) \in Nat /\ Offered(p, a.levels) \in Nat /\ Offered(p, levels) \in Nat
        /\ FilledNear(p, a.fills) \in Nat
    BY <2>4, <2>7, OfferedIs, FilledNearIs
  <2> HIDE DEF c, got
  <2>9. FilledNear(p, b.fills) = FilledNear(p, a.fills) + (IF Crosses(p, o.price) THEN got ELSE 0)
    <3>1. CASE got > 0
      <4>1. PICK f \in FillsOf(orders) : f.order = o /\ f.amount = got /\ b.fills = Append(a.fills, f)
        BY <2>5, <3>1
      <4>2. FilledNear(p, b.fills) = FilledNear(p, a.fills) + CountsNear(p, f)
        BY <2>4, <4>1, FilledNearIs
      <4>3. CountsNear(p, f) = IF Crosses(p, o.price) THEN got ELSE 0
        BY <2>4, <4>1 DEF CountsNear, Near
      <4> QED
        BY <4>2, <4>3
    <3>2. CASE ~(got > 0)
      <4>1. got = 0 /\ b.fills = a.fills
        BY <2>5, <3>2
      <4> QED
        BY <2>8, <4>1
    <3> QED
      BY <3>1, <3>2
  <2> DEFINE A == Offered(p, a.levels)
             B == Offered(p, b.levels)
             L == Offered(p, levels)
             F == FilledNear(p, a.fills)
             G == FilledNear(p, b.fills)
             y == IF Crosses(p, o.price) THEN got ELSE 0
  <2>10. /\ A \in Nat /\ B \in Nat /\ L \in Nat /\ F \in Nat /\ y \in Nat
         /\ B + y <= A /\ G = F + y /\ F + A <= L
    BY <2>2, <2>5, <2>6, <2>8, <2>9 DEF Shared
  <2> HIDE DEF A, B, L, F, G, y
  <2>11. G + B <= L
    BY <2>10
  <2>12. Shared(b)
    BY <2>11 DEF Shared, G, B, L
  <2> QED
    BY <2>1, <2>12 DEF b
<1> HIDE DEF Good
<1>5. \A k \in 0 .. n : k \in Good
  BY <1>1, <1>3, <1>4, CountUp
<1> DEFINE r == served[n]
<1>6. r \in Servings(orders) /\ FillSide(orders, levels, mid2) = r.fills
  BY <1>1, <1>2 DEF ServesBy, n
<1>7. Shared(r)
  BY <1>1, <1>5 DEF Good
<1> HIDE DEF r
<1>8. r.fills \in Seq(FillsOf(orders)) /\ r.levels \in Seq(Lv)
  BY <1>6 DEF Servings
<1>9. /\ FilledNear(p, r.fills) \in Nat /\ Offered(p, r.levels) \in Nat /\ Offered(p, levels) \in Nat
      /\ FilledNear(p, r.fills) + Offered(p, r.levels) <= Offered(p, levels)
  BY <1>7, <1>8, FilledNearIs, OfferedIs
<1> QED
  BY <1>6, <1>8, <1>9

\* What an order gets.
Got(levels, o) == o.amount - Consume(levels, o).rest

\* What serving an order changes: only that order gets more.
OnlyItGets(mid2, acc, o, p) ==
  FilledOf(p, Serve(mid2, acc, o).fills)
    = FilledOf(p, acc.fills) + (IF o = p THEN Got(acc.levels, o) ELSE 0)

LEMMA ServeAdds ==
  ASSUME NEW orders, orders \subseteq SimOrders, NEW o \in orders, NEW acc \in Servings(orders),
         NEW mid2 \in Int, NEW p
  PROVE  /\ Serve(mid2, acc, o).levels = Consume(acc.levels, o).levels
         /\ FilledOf(p, acc.fills) \in Nat
         /\ OnlyItGets(mid2, acc, o, p)
<1> DEFINE c == Consume(acc.levels, o)
           b == Serve(mid2, acc, o)
           got == o.amount - c.rest
<1>1. /\ got \in Nat
      /\ b.levels = c.levels
      /\ IF got > 0
           THEN \E f \in FillsOf(orders) : f.order = o /\ f.amount = got /\ b.fills = Append(acc.fills, f)
           ELSE b.fills = acc.fills
  BY ServeIs
<1> HIDE DEF c, b, got
<1>2. acc.fills \in Seq(FillsOf(orders))
  BY DEF Servings
<1>3. FilledOf(p, acc.fills) \in Nat
  BY <1>2, FilledIs
<1>4. FilledOf(p, b.fills) = FilledOf(p, acc.fills) + (IF o = p THEN got ELSE 0)
  <2>1. CASE got > 0
    <3>1. PICK f \in FillsOf(orders) : f.order = o /\ f.amount = got /\ b.fills = Append(acc.fills, f)
      BY <1>1, <2>1
    <3>2. FilledOf(p, b.fills) = FilledOf(p, acc.fills) + Counts(p, f)
      BY <1>2, <3>1, FilledIs
    <3>3. Counts(p, f) = IF o = p THEN got ELSE 0
      BY <3>1 DEF Counts
    <3> QED
      BY <1>3, <3>2, <3>3
  <2>2. CASE ~(got > 0)
    <3>1. got = 0 /\ b.fills = acc.fills
      BY <1>1, <2>2
    <3> QED
      BY <1>3, <3>1
  <2> QED
    BY <2>1, <2>2
<1> QED
  BY <1>1, <1>3, <1>4 DEF b, c, got, Got, OnlyItGets

\* An order is filled only after those with a better price are filled whole.
LEMMA SideInTurn ==
  ASSUME NEW orders, OneSided(orders), NEW levels \in Seq(Lv), NEW mid2 \in Int,
         NEW x \in orders, NEW y \in orders, x.price # y.price, Crosses(x, y.price),
         FilledOf(y, FillSide(orders, levels, mid2)) > 0
  PROVE  FilledOf(x, FillSide(orders, levels, mid2)) = x.amount
<1> DEFINE n == Cardinality(orders)
           line == Sorted(orders)
<1>1. /\ n \in Nat /\ line \in [1 .. n -> orders] /\ orders \subseteq SimOrders
      /\ \A i, j \in 1 .. n : i < j => Ahead(line[i], line[j])
      /\ \A o \in orders : \E i \in 1 .. n : line[i] = o
      /\ \A i, j \in 1 .. n : line[i] = line[j] => i = j
  BY SortedIs DEF OneSided, Distinct
<1> HIDE DEF line
<1>2. PICK served \in [0 .. n -> Servings(orders)] : ServesBy(orders, levels, mid2, served)
  BY ServeTrace
<1> HIDE DEF n
<1>3. PICK q \in 1 .. n : line[q] = x
  BY <1>1
<1>4. PICK r \in 1 .. n : line[r] = y
  BY <1>1
<1>5. /\ x.side = y.side /\ x.side \in {"buy", "sell"}
      /\ x.price \in Int /\ y.price \in Int /\ x.amount \in Nat /\ y.amount \in Nat
  <2>1. x \in SimOrders /\ y \in SimOrders
    BY <1>1
  <2> QED
    BY <2>1 DEF SimOrders, OneSided
<1>6. q < r
  <2>1. q # r
    BY <1>3, <1>4
  <2>2. ~(r < q)
    <3> SUFFICES ASSUME r < q PROVE FALSE
      OBVIOUS
    <3>1. Ahead(y, x)
      BY <1>1, <1>3, <1>4
    <3> QED
      BY <1>5, <3>1 DEF Ahead, Crosses
  <2> QED
    BY <2>1, <2>2
<1>7. \A p \in Int : Crosses(y, p) => Crosses(x, p)
  BY <1>5 DEF Crosses
\* Until y's turn it gets nothing; from x's turn on it has all it gets, and unless that is
\* all it asked for, there is nothing left that it crosses.
<1> DEFINE InTurn(k, s) ==
             /\ k < r => FilledOf(y, s.fills) = 0
             /\ k < q => FilledOf(x, s.fills) = 0
             /\ k >= q /\ FilledOf(x, s.fills) # x.amount =>
                  \A i \in 1 .. Len(s.levels) : ~Crosses(x, s.levels[i][1])
             /\ FilledOf(y, s.fills) > 0 => FilledOf(x, s.fills) = x.amount
           Good == {k \in 0 .. n : InTurn(k, served[k])}
<1>8. 0 \in Good
  <2>1. served[0].fills = <<>> /\ 0 \in 0 .. n
    BY <1>1, <1>2 DEF ServesBy
  <2>2. <<>> \in Seq(FillsOf(orders))
    OBVIOUS
  <2>3. FilledOf(x, <<>>) = 0
    BY <2>2, FilledIs
  <2>4. FilledOf(y, <<>>) = 0
    BY <2>2, FilledIs
  <2>5. ~(0 >= q)
    OBVIOUS
  <2> QED
    BY <2>1, <2>3, <2>4, <2>5
<1>9. ASSUME NEW k \in 0 .. n - 1, k \in Good
      PROVE  k + 1 \in Good
  <2>1. k + 1 \in 1 .. n /\ (k + 1) - 1 = k /\ k + 1 \in 0 .. n /\ k \in 0 .. n /\ k \in Nat
    BY <1>1
  <2> DEFINE a == served[k]
             b == served[k + 1]
             o == line[k + 1]
             c == Consume(a.levels, o)
             got == Got(a.levels, o)
  <2>2. InTurn(k, a)
    BY <1>9
  <2> HIDE DEF InTurn
  <2>3. b = Serve(mid2, a, o) /\ a \in Servings(orders) /\ o \in orders
    BY <1>1, <1>2, <2>1 DEF ServesBy, n, line
  <2>4. (o = x <=> k + 1 = q) /\ (o = y <=> k + 1 = r)
    BY <1>1, <1>3, <1>4, <2>1
  <2> HIDE DEF a, b, o
  <2>5. a.levels \in Seq(Lv) /\ a.fills \in Seq(FillsOf(orders)) /\ o \in SimOrders /\ o.amount \in Nat
    BY <1>1, <2>3 DEF Servings, SimOrders
  <2>6. b.levels = c.levels
    <3>1. orders \subseteq SimOrders
      BY <1>1
    <3> QED
      BY <2>3, <3>1, ServeAdds
  <2>7. /\ c \in Accs
        /\ c.rest > 0 => \A i \in 1 .. Len(c.levels) : ~Crosses(o, c.levels[i][1])
        /\ \A i \in 1 .. Len(c.levels) : \E j \in 1 .. Len(a.levels) : c.levels[i][1] = a.levels[j][1]
        /\ (\A j \in 1 .. Len(a.levels) : ~Crosses(o, a.levels[j][1])) => c.rest = o.amount
    BY <2>5, ConsumeLeaves
  <2>8. c.rest \in Nat /\ (got # o.amount => c.rest > 0) /\ (got > 0 => c.rest # o.amount) /\ got \in Nat
    <3>1. c.rest <= o.amount
      BY <2>5, ConsumeLeaves
    <3>2. got = o.amount - c.rest
      BY DEF Got
    <3> HIDE DEF c, got
    <3> QED
      BY <2>5, <2>7, <3>1, <3>2 DEF Accs
  <2>9. \A p : /\ FilledOf(p, a.fills) \in Nat
               /\ FilledOf(p, b.fills) = FilledOf(p, a.fills) + (IF o = p THEN got ELSE 0)
    <3>1. orders \subseteq SimOrders
      BY <1>1
    <3> SUFFICES ASSUME NEW p
                 PROVE  /\ FilledOf(p, a.fills) \in Nat
                        /\ FilledOf(p, b.fills) = FilledOf(p, a.fills) + (IF o = p THEN got ELSE 0)
      OBVIOUS
    <3>2. FilledOf(p, a.fills) \in Nat
      BY <2>3, <3>1, ServeAdds
    <3>3. OnlyItGets(mid2, a, o, p)
      BY <2>3, <3>1, ServeAdds, Zenon
    <3> QED
      BY <2>3, <3>2, <3>3 DEF OnlyItGets
  <2> HIDE DEF c, got
  <2> DEFINE X == FilledOf(x, a.fills)
             Y == FilledOf(y, a.fills)
  <2>10. /\ X \in Nat /\ Y \in Nat
         /\ FilledOf(x, b.fills) = X + (IF o = x THEN got ELSE 0)
         /\ FilledOf(y, b.fills) = Y + (IF o = y THEN got ELSE 0)
    BY <2>9
  <2>11. /\ k < r => Y = 0
         /\ k < q => X = 0
         /\ k >= q /\ X # x.amount => \A i \in 1 .. Len(a.levels) : ~Crosses(x, a.levels[i][1])
         /\ Y > 0 => X = x.amount
    BY <2>2 DEF InTurn
  <2> HIDE DEF X, Y
  <2>12. CASE k + 1 = q
    <3>1. o = x /\ o # y /\ k < q /\ k < r /\ X = 0 /\ Y = 0
      BY <1>6, <2>1, <2>4, <2>11, <2>12
    <3>2. FilledOf(x, b.fills) = got /\ FilledOf(y, b.fills) = 0
      BY <2>8, <2>10, <3>1
    <3>3. got # x.amount => \A i \in 1 .. Len(b.levels) : ~Crosses(x, b.levels[i][1])
      BY <2>6, <2>7, <2>8, <3>1
    <3>4. InTurn(k + 1, b)
      BY <2>12, <3>2, <3>3 DEF InTurn
    <3> QED
      BY <2>1, <3>4 DEF b
  <2>13. CASE k + 1 # q
    <3>1. o # x /\ FilledOf(x, b.fills) = X
      BY <2>4, <2>10, <2>13
    <3>2. k + 1 < q => FilledOf(x, b.fills) = 0
      BY <2>1, <2>11, <3>1
    <3>3. k + 1 >= q => k >= q
      BY <2>1, <2>13
    <3>4. k + 1 >= q /\ FilledOf(x, b.fills) # x.amount =>
            \A i \in 1 .. Len(b.levels) : ~Crosses(x, b.levels[i][1])
      <4> SUFFICES ASSUME k + 1 >= q, FilledOf(x, b.fills) # x.amount, NEW i \in 1 .. Len(b.levels)
                   PROVE  ~Crosses(x, b.levels[i][1])
        OBVIOUS
      <4>1. PICK j \in 1 .. Len(a.levels) : b.levels[i][1] = a.levels[j][1]
        BY <2>6, <2>7
      <4>2. ~Crosses(x, a.levels[j][1])
        BY <2>11, <3>1, <3>3
      <4> QED
        BY <4>1, <4>2
    <3>5. CASE k + 1 # r
      <4>1. FilledOf(y, b.fills) = Y
        BY <2>4, <2>10, <3>5
      <4>2. k + 1 < r => FilledOf(y, b.fills) = 0
        BY <2>1, <2>11, <4>1
      <4>3. InTurn(k + 1, b)
        BY <2>11, <3>1, <3>2, <3>4, <4>1, <4>2 DEF InTurn
      <4> QED
        BY <2>1, <4>3 DEF b
    <3>6. CASE k + 1 = r
      <4>1. o = y /\ Y = 0 /\ FilledOf(y, b.fills) = got /\ k >= q
        BY <1>6, <2>1, <2>4, <2>8, <2>10, <2>11, <3>6
      <4>2. got > 0 => X = x.amount
        <5> SUFFICES ASSUME got > 0, X # x.amount PROVE FALSE
          OBVIOUS
        <5>1. \A i \in 1 .. Len(a.levels) : a.levels[i] \in Lv /\ a.levels[i][1] \in Int
          BY <2>5 DEF Lv
        <5>2. \A i \in 1 .. Len(a.levels) : ~Crosses(y, a.levels[i][1])
          BY <1>7, <2>11, <4>1, <5>1
        <5> QED
          BY <2>7, <2>8, <4>1, <5>2
      <4>3. ~(k + 1 < r)
        BY <3>6
      <4>4. InTurn(k + 1, b)
        BY <3>1, <3>2, <3>4, <4>1, <4>2, <4>3 DEF InTurn
      <4> QED
        BY <2>1, <4>4 DEF b
    <3> QED
      BY <3>5, <3>6
  <2> QED
    BY <2>12, <2>13
<1> HIDE DEF Good
<1>10. \A k \in 0 .. n : k \in Good
  BY <1>1, <1>8, <1>9, CountUp
<1>11. FillSide(orders, levels, mid2) = served[n].fills
  BY <1>2 DEF ServesBy, n
<1>12. InTurn(n, served[n])
  <2>1. n \in Good
    BY <1>1, <1>10
  <2> HIDE DEF InTurn
  <2> QED
    BY <2>1 DEF Good
<1> QED
  BY <1>11, <1>12

-----------------------------------------------------------------------------
(* Both sides.                                                             *)

LEMMA MidIsNumber ==
  ASSUME NEW book, book.bids \in Seq(Lv), book.asks \in Seq(Lv)
  PROVE  TwiceMid(book) \in Int
<1>1. CASE book.bids = <<>> \/ book.asks = <<>>
  BY <1>1 DEF TwiceMid
<1>2. CASE ~(book.bids = <<>> \/ book.asks = <<>>)
  <2>1. book.bids[1] \in Lv /\ book.asks[1] \in Lv
    BY <1>2
  <2>2. book.bids[1][1] \in Int /\ book.asks[1][1] \in Int
    BY <2>1 DEF Lv
  <2> QED
    BY <1>2, <2>2 DEF TwiceMid
<1> QED
  BY <1>1, <1>2

Buys(orders)  == {o \in orders : o.side = "buy"}
Sells(orders) == {o \in orders : o.side = "sell"}

LEMMA SidesAre ==
  ASSUME NEW orders, Distinct(orders)
  PROVE  /\ OneSided(Buys(orders)) /\ OneSided(Sells(orders))
         /\ \A o \in orders : o \in SimOrders /\ (o \in Buys(orders) \/ o \in Sells(orders))
<1>1. IsFiniteSet(Buys(orders)) /\ IsFiniteSet(Sells(orders))
  <2>1. Buys(orders) \in SUBSET orders /\ Sells(orders) \in SUBSET orders
    BY DEF Buys, Sells
  <2> QED
    BY <2>1, FS_Subset DEF Distinct
<1>2. OneSided(Buys(orders)) /\ OneSided(Sells(orders))
  BY <1>1 DEF OneSided, Distinct, Buys, Sells
<1>3. \A o \in orders : o \in SimOrders /\ o.side \in {"buy", "sell"}
  BY DEF Distinct, SimOrders
<1> QED
  BY <1>2, <1>3 DEF Buys, Sells

Opposite(o, book) == IF o.side = "buy" THEN book.asks ELSE book.bids

LEMMA SimulationIsFair ==
  ASSUME NEW orders, Distinct(orders), NEW book, book.bids \in Seq(Lv), book.asks \in Seq(Lv)
  PROVE  /\ \A o \in orders : FilledNear(o, Simulate(orders, book)) <= Offered(o, Opposite(o, book))
         /\ \A a, b \in orders :
              /\ a.side = b.side /\ a.price # b.price /\ Crosses(a, b.price)
              /\ FilledOf(b, Simulate(orders, book)) > 0
              => FilledOf(a, Simulate(orders, book)) = a.amount
<1> DEFINE mid2 == TwiceMid(book)
           B == FillSide(Buys(orders), book.asks, mid2)
           S == FillSide(Sells(orders), book.bids, mid2)
           T == FillsOf(orders)
<1>1. mid2 \in Int
  BY MidIsNumber
<1>2. /\ OneSided(Buys(orders)) /\ OneSided(Sells(orders))
      /\ \A o \in orders : o \in SimOrders /\ (o \in Buys(orders) \/ o \in Sells(orders))
  BY SidesAre
<1>3. (\A o \in Buys(orders) : o.side = "buy" /\ o \in orders) /\ (\A o \in Sells(orders) : o.side = "sell" /\ o \in orders)
  BY DEF Buys, Sells
<1>4. Simulate(orders, book) = B \o S
  BY DEF Simulate, Buys, Sells
<1> HIDE DEF mid2
<1>5. \A o \in Buys(orders) : FilledNear(o, B) <= Offered(o, book.asks)
  <2> SUFFICES ASSUME NEW o \in Buys(orders)
               PROVE  FilledNear(o, B) <= Offered(o, book.asks)
    OBVIOUS
  <2>1. o \in SimOrders /\ \A x \in Buys(orders) : x.side = o.side
    BY <1>2, <1>3
  <2> QED
    BY <1>1, <1>2, <2>1, SideShares
<1>6. \A o \in Sells(orders) : FilledNear(o, S) <= Offered(o, book.bids)
  <2> SUFFICES ASSUME NEW o \in Sells(orders)
               PROVE  FilledNear(o, S) <= Offered(o, book.bids)
    OBVIOUS
  <2>1. o \in SimOrders /\ \A x \in Sells(orders) : x.side = o.side
    BY <1>2, <1>3
  <2> QED
    BY <1>1, <1>2, <2>1, SideShares
<1>7. B \in Seq(FillsOf(Buys(orders))) /\ S \in Seq(FillsOf(Sells(orders)))
  BY <1>1, <1>2, FillsAre
<1>8. B \in Seq(T) /\ S \in Seq(T)
  <2>1. FillsOf(Buys(orders)) \subseteq T /\ FillsOf(Sells(orders)) \subseteq T
    BY <1>3 DEF FillsOf
  <2> HIDE DEF B, S, T
  <2> QED
    BY <1>7, <2>1
<1>9. (\A i \in 1 .. Len(B) : B[i].order \in Buys(orders)) /\ (\A i \in 1 .. Len(S) : S[i].order \in Sells(orders))
  <2> HIDE DEF B, S
  <2>1. ASSUME NEW i \in 1 .. Len(B) PROVE B[i].order \in Buys(orders)
    <3>1. B[i] \in FillsOf(Buys(orders))
      BY <1>7
    <3> QED
      BY <3>1 DEF FillsOf
  <2>2. ASSUME NEW i \in 1 .. Len(S) PROVE S[i].order \in Sells(orders)
    <3>1. S[i] \in FillsOf(Sells(orders))
      BY <1>7
    <3> QED
      BY <3>1 DEF FillsOf
  <2> QED
    BY <2>1, <2>2
<1>10. \A a, b \in Buys(orders) : a.price # b.price /\ Crosses(a, b.price) /\ FilledOf(b, B) > 0 =>
         FilledOf(a, B) = a.amount
  BY <1>1, <1>2, SideInTurn
<1>11. \A a, b \in Sells(orders) : a.price # b.price /\ Crosses(a, b.price) /\ FilledOf(b, S) > 0 =>
         FilledOf(a, S) = a.amount
  BY <1>1, <1>2, SideInTurn
<1> HIDE DEF B, S, T
<1>12. \A o \in orders :
         /\ FilledOf(o, B \o S) = FilledOf(o, B) + FilledOf(o, S)
         /\ FilledNear(o, B \o S) = FilledNear(o, B) + FilledNear(o, S)
         /\ {FilledOf(o, B), FilledOf(o, S), FilledNear(o, B), FilledNear(o, S)} \subseteq Nat
  <2> SUFFICES ASSUME NEW o \in orders
               PROVE  /\ FilledOf(o, B \o S) = FilledOf(o, B) + FilledOf(o, S)
                      /\ FilledNear(o, B \o S) = FilledNear(o, B) + FilledNear(o, S)
                      /\ {FilledOf(o, B), FilledOf(o, S), FilledNear(o, B), FilledNear(o, S)} \subseteq Nat
    OBVIOUS
  <2>1. B \in Seq(FillsOf(orders)) /\ S \in Seq(FillsOf(orders))
    BY <1>8 DEF T
  <2>2. FilledOf(o, B \o S) = FilledOf(o, B) + FilledOf(o, S)
    BY <2>1, FilledIs
  <2>3. FilledNear(o, B \o S) = FilledNear(o, B) + FilledNear(o, S)
    BY <2>1, FilledNearIs
  <2>4. FilledOf(o, B) \in Nat /\ FilledOf(o, S) \in Nat
    BY <2>1, FilledIs
  <2>5. FilledNear(o, B) \in Nat /\ FilledNear(o, S) \in Nat
    BY <2>1, FilledNearIs
  <2> QED
    BY <2>2, <2>3, <2>4, <2>5
<1>13. \A o \in Buys(orders) : FilledOf(o, S) = 0 /\ FilledNear(o, S) = 0
  <2> SUFFICES ASSUME NEW o \in Buys(orders) PROVE FilledOf(o, S) = 0 /\ FilledNear(o, S) = 0
    OBVIOUS
  <2>1. \A i \in 1 .. Len(S) : S[i].order # o /\ ~Near(o, S[i].order)
    BY <1>3, <1>9 DEF Near
  <2> QED
    BY <1>7, <2>1, FilledIs, FilledNearIs
<1>14. \A o \in Sells(orders) : FilledOf(o, B) = 0 /\ FilledNear(o, B) = 0
  <2> SUFFICES ASSUME NEW o \in Sells(orders) PROVE FilledOf(o, B) = 0 /\ FilledNear(o, B) = 0
    OBVIOUS
  <2>1. \A i \in 1 .. Len(B) : B[i].order # o /\ ~Near(o, B[i].order)
    BY <1>3, <1>9 DEF Near
  <2> QED
    BY <1>7, <2>1, FilledIs, FilledNearIs
<1>15. \A o \in Buys(orders) :
         /\ FilledOf(o, B \o S) = FilledOf(o, B) /\ FilledNear(o, B \o S) = FilledNear(o, B)
         /\ Opposite(o, book) = book.asks
  BY <1>3, <1>12, <1>13 DEF Opposite
<1>16. \A o \in Sells(orders) :
         /\ FilledOf(o, B \o S) = FilledOf(o, S) /\ FilledNear(o, B \o S) = FilledNear(o, S)
         /\ Opposite(o, book) = book.bids
  BY <1>3, <1>12, <1>14 DEF Opposite
<1>17. \A o \in orders : FilledNear(o, B \o S) <= Offered(o, Opposite(o, book))
  BY <1>2, <1>5, <1>6, <1>15, <1>16
<1>18. ASSUME NEW a \in orders, NEW b \in orders, a.side = b.side, a.price # b.price,
              Crosses(a, b.price), FilledOf(b, B \o S) > 0
       PROVE  FilledOf(a, B \o S) = a.amount
  <2>1. CASE a \in Buys(orders)
    <3>1. b \in Buys(orders)
      BY <1>2, <1>3, <1>18, <2>1
    <3> QED
      BY <1>10, <1>15, <1>18, <2>1, <3>1
  <2>2. CASE a \in Sells(orders)
    <3>1. b \in Sells(orders)
      BY <1>2, <1>3, <1>18, <2>2
    <3> QED
      BY <1>11, <1>16, <1>18, <2>2, <3>1
  <2> QED
    BY <1>2, <2>1, <2>2
<1> QED
  BY <1>4, <1>17, <1>18

-----------------------------------------------------------------------------
(* The poll loop.                                                          *)

PaperInv ==
  /\ open \in OrderSets \cup {{}}
  /\ DOMAIN box = Streams
  /\ box["book"] # <<>> => box["book"][1] \in Snapshots["book"]
  /\ MatchingIsFair

LEMMA OrderSetsAreDistinct ==
  \A orders \in OrderSets \cup {{}} : Distinct(orders)
<1> SUFFICES ASSUME NEW orders \in OrderSets \cup {{}} PROVE Distinct(orders)
  OBVIOUS
<1>1. IsFiniteSet(orders)
  BY PaperAssumption, FS_EmptySet
<1>2. orders \subseteq [id : Int, side : {"buy", "sell"}, price : Int, amount : Nat]
  BY PaperAssumption
<1>3. \A a, b \in orders : a.id = b.id => a = b
  BY PaperAssumption
<1> QED
  BY <1>1, <1>2, <1>3 DEF Distinct, SimOrders

\* What Poll makes of a book and the open orders is fair.
LEMMA PolledIsFair ==
  ASSUME NEW orders \in OrderSets \cup {{}}, NEW book \in Snapshots["book"],
         batch' = [orders |-> orders, book |-> book, fills |-> Simulate(orders, book)]
  PROVE  MatchingIsFair'
<1>1. Distinct(orders)
  BY OrderSetsAreDistinct
<1>2. book.bids \in Seq(Lv) /\ book.asks \in Seq(Lv)
  BY PaperAssumption DEF Lv
<1>3. /\ \A o \in orders : FilledNear(o, Simulate(orders, book)) <= Offered(o, Opposite(o, book))
      /\ \A a, b \in orders :
           /\ a.side = b.side /\ a.price # b.price /\ Crosses(a, b.price)
           /\ FilledOf(b, Simulate(orders, book)) > 0
           => FilledOf(a, Simulate(orders, book)) = a.amount
  BY <1>1, <1>2, SimulationIsFair
<1>4. batch'.orders = orders /\ batch'.book = book /\ batch'.fills = Simulate(orders, book)
  OBVIOUS
<1>5. \A o : Levels(o)' = Opposite(o, book)
  BY <1>4 DEF Levels, Opposite
<1>6. \A o : Filled(o)' = FilledOf(o, Simulate(orders, book))
  BY <1>4 DEF Filled
<1>7. \A o \in orders : FilledNear(o, batch.fills)' <= Offered(o, Levels(o))'
  BY <1>3, <1>4, <1>5
<1> QED
  BY <1>3, <1>4, <1>6, <1>7 DEF MatchingIsFair

LEMMA PaperInitInv == PaperInit => PaperInv
<1> SUFFICES ASSUME PaperInit PROVE PaperInv
  OBVIOUS
<1>1. MatchingIsFair
  BY DEF PaperInit, NoBatch, MatchingIsFair
<1> QED
  BY <1>1 DEF PaperInit, PaperInv, Streams

LEMMA PaperStepInv == PaperInv /\ [PaperNext]_paperVars => PaperInv'
<1> SUFFICES ASSUME PaperInv, [PaperNext]_paperVars PROVE PaperInv'
  OBVIOUS
<1>0. /\ open \in OrderSets \cup {{}} /\ DOMAIN box = Streams
      /\ box["book"] # <<>> => box["book"][1] \in Snapshots["book"]
      /\ MatchingIsFair
  BY DEF PaperInv
<1>1. ASSUME UNCHANGED batch PROVE MatchingIsFair'
  BY <1>0, <1>1 DEF MatchingIsFair, Filled, Levels
<1>2. ASSUME UNCHANGED <<open, box, batch>> PROVE PaperInv'
  BY <1>0, <1>1, <1>2 DEF PaperInv
<1>3. ASSUME NEW s \in Streams, Watch(s) PROVE PaperInv'
  <2>1. CASE Snapshot(s)
    <3>1. PICK x \in Snapshots[s] : box' = [box EXCEPT ![s] = <<x>>]
      BY <2>1 DEF Snapshot, KeepLast
    <3>2. UNCHANGED <<open, batch>>
      BY <2>1 DEF Snapshot, traderVars
    <3>3. DOMAIN box' = Streams /\ (box'["book"] # <<>> => box'["book"][1] \in Snapshots["book"])
      BY <1>0, <3>1 DEF Streams
    <3> QED
      BY <1>0, <1>1, <3>2, <3>3 DEF PaperInv
  <2>2. CASE NetworkError(s) \/ OtherError(s) \/ BackoffOver(s)
    BY <1>2, <2>2 DEF NetworkError, OtherError, BackoffOver, traderVars
  <2> QED
    BY <1>3, <2>1, <2>2 DEF Watch
<1>4. CASE Poll
  <2>1. /\ box' = [box EXCEPT !["book"] = <<>>] /\ open' = open
    BY <1>4 DEF Poll
  <2>2. DOMAIN box' = Streams /\ box'["book"] = <<>>
    BY <1>0, <2>1 DEF Streams
  <2>3. MatchingIsFair'
    <3>1. CASE box["book"] = <<>> \/ open = {}
      BY <1>1, <1>4, <3>1 DEF Poll
    <3>2. CASE ~(box["book"] = <<>> \/ open = {})
      <4> DEFINE b == box["book"][1]
      <4>1. b \in Snapshots["book"]
        BY <1>0, <3>2
      <4>2. batch' = [orders |-> open, book |-> b, fills |-> Simulate(open, b)]
        BY <1>4, <3>2 DEF Poll
      <4> HIDE DEF b
      <4> QED
        BY <1>0, <4>1, <4>2, PolledIsFair
    <3> QED
      BY <3>1, <3>2
  <2> QED
    BY <1>0, <2>1, <2>2, <2>3 DEF PaperInv
<1>5. CASE SetOpenOrders
  <2>1. open' \in OrderSets /\ UNCHANGED <<box, batch>>
    BY <1>5 DEF SetOpenOrders, feedVars, traderVars
  <2> QED
    BY <1>0, <1>1, <2>1 DEF PaperInv
<1>6. CASE \/ TraderStarts \/ Persisted \/ Emitted \/ PollEnds \/ TraderStops \/ TraderCancelled
  BY <1>2, <1>6 DEF TraderStarts, Persisted, Emitted, PollEnds, TraderStops, TraderCancelled, feedVars
<1>7. CASE UNCHANGED paperVars
  BY <1>2, <1>7 DEF paperVars, feedVars, traderVars
<1> QED
  BY <1>3, <1>4, <1>5, <1>6, <1>7 DEF PaperNext

\* core/paper_trader.py, FillSimulator.simulate: whatever books arrive and whatever orders
\* the bot hands over, however many, the simulated fills of a batch share what the book
\* offers best price first.  Nobody is given liquidity that a better order has used, and a
\* worse order is filled only behind better ones that are filled whole.
THEOREM FillsAreShared == PaperSpec => []MatchingIsFair
<1>1. PaperInv => MatchingIsFair
  BY DEF PaperInv
<1> QED
  BY <1>1, PaperInitInv, PaperStepInv, PTL DEF PaperSpec

-----------------------------------------------------------------------------
(* Backtest: the download of the candles.                                  *)

\* What was fetched: the candles before the cursor, or all of them.
FetchInv ==
  /\ history \in SUBSET (0 .. LastMinute)
  /\ cursor \in Nat
  /\ rows \in Seq(history)
  /\ stage \in {"fetch", "replay", "done"}
  /\ Increasing(rows)
  /\ stage = "fetch" => Range(rows) = {m \in history : m < cursor}
  /\ stage # "fetch" => Range(rows) = history

LEMMA PageIs ==
  ASSUME NEW since \in Nat, history \in SUBSET (0 .. LastMinute), NEW page \in Pages(since)
  PROVE  /\ page \in Seq(history) /\ Increasing(page)
         /\ \A i \in 1 .. Len(page) : page[i] >= since
         /\ \A m \in history : m >= since /\ m \notin Range(page) =>
              /\ Len(page) = PageLen
              /\ \A i \in 1 .. Len(page) : page[i] < m
<1>1. PICK n \in 0 .. PageLen : page \in [1 .. n -> history]
  BY DEF Pages
<1>2. n \in Nat /\ page \in Seq(history) /\ Len(page) = n /\ DOMAIN page = 1 .. n
  BY <1>1, BacktestAssumption
<1> DEFINE left == {m \in history : m >= since} \ Range(page)
<1>3. /\ Increasing(page)
      /\ \A i \in DOMAIN page : page[i] >= since /\ \A m \in left : page[i] < m
      /\ left = {} \/ Len(page) = PageLen
  BY DEF Pages
<1>4. \A m \in history : m >= since /\ m \notin Range(page) => m \in left
  OBVIOUS
<1> HIDE DEF left
<1> QED
  BY <1>2, <1>3, <1>4

LEMMA JoinedIs ==
  ASSUME NEW S, NEW a \in Seq(S), NEW b \in Seq(S)
  PROVE  /\ a \o b \in Seq(S)
         /\ Len(a \o b) = Len(a) + Len(b)
         /\ \A i \in 1 .. Len(a) : (a \o b)[i] = a[i]
         /\ \A i \in Len(a) + 1 .. Len(a) + Len(b) : (a \o b)[i] = b[i - Len(a)] /\ i - Len(a) \in 1 .. Len(b)
         /\ Range(a \o b) = Range(a) \cup Range(b)
<1> DEFINE c == a \o b
<1>1. c \in Seq(S) /\ Len(c) = Len(a) + Len(b) /\ Len(a) \in Nat /\ Len(b) \in Nat
  OBVIOUS
<1>2. \A i \in 1 .. Len(a) : c[i] = a[i] /\ i \in 1 .. Len(c)
  OBVIOUS
<1>3. \A i \in Len(a) + 1 .. Len(a) + Len(b) : c[i] = b[i - Len(a)] /\ i - Len(a) \in 1 .. Len(b)
  OBVIOUS
<1> HIDE DEF c
<1>4. \A j \in 1 .. Len(b) : j + Len(a) \in 1 .. Len(c) /\ c[j + Len(a)] = b[j]
  <2> SUFFICES ASSUME NEW j \in 1 .. Len(b)
               PROVE  j + Len(a) \in 1 .. Len(c) /\ c[j + Len(a)] = b[j]
    OBVIOUS
  <2>1. j + Len(a) \in Len(a) + 1 .. Len(a) + Len(b) /\ (j + Len(a)) - Len(a) = j
    BY <1>1
  <2> QED
    BY <1>1, <1>3, <2>1
<1>5. \A i \in 1 .. Len(c) : i \in 1 .. Len(a) \/ i \in Len(a) + 1 .. Len(a) + Len(b)
  BY <1>1
<1>6. Range(c) = {c[i] : i \in 1 .. Len(c)} /\ Range(a) = {a[i] : i \in 1 .. Len(a)}
      /\ Range(b) = {b[i] : i \in 1 .. Len(b)}
  BY <1>1 DEF Range
<1>7. Range(c) = Range(a) \cup Range(b)
  <2>1. \A x \in Range(c) : x \in Range(a) \cup Range(b)
    BY <1>2, <1>3, <1>5, <1>6
  <2>2. \A x \in Range(a) : x \in Range(c)
    BY <1>2, <1>6
  <2>3. \A x \in Range(b) : x \in Range(c)
    BY <1>4, <1>6
  <2> QED
    BY <2>1, <2>2, <2>3
<1> QED
  BY <1>1, <1>2, <1>3, <1>7 DEF c

\* The rows with a page behind them.
LEMMA PageJoins ==
  ASSUME FetchInv, stage = "fetch", NEW page \in Pages(cursor), page # <<>>
  PROVE  /\ rows \o page \in Seq(history) /\ Increasing(rows \o page)
         /\ Last(page) \in Nat /\ Last(page) >= cursor
         /\ Range(rows \o page) \subseteq history
         /\ \A m \in Range(rows \o page) : m <= Last(page)
         /\ \A m \in history : m \notin Range(rows \o page) => Last(page) < m /\ Len(page) = PageLen
<1>1. /\ history \in SUBSET (0 .. LastMinute) /\ cursor \in Nat /\ rows \in Seq(history)
      /\ Increasing(rows) /\ Range(rows) = {m \in history : m < cursor}
      /\ LastMinute \in Nat
  BY BacktestAssumption DEF FetchInv
<1>2. /\ page \in Seq(history) /\ Increasing(page)
      /\ \A i \in 1 .. Len(page) : page[i] >= cursor
      /\ \A m \in history : m >= cursor /\ m \notin Range(page) =>
           /\ Len(page) = PageLen
           /\ \A i \in 1 .. Len(page) : page[i] < m
  BY <1>1, PageIs
<1> DEFINE n == Len(page)
           c == rows \o page
<1>3. n \in Nat /\ n >= 1 /\ Last(page) = page[n] /\ n \in 1 .. n
  BY <1>2 DEF Last
<1>4. \A m \in history : m \in Nat
  BY <1>1
<1>5. \A i \in 1 .. n : page[i] \in history /\ page[i] \in Nat
  BY <1>2, <1>4
<1>6. \A i \in 1 .. n : page[i] <= Last(page)
  <2>1. \A i \in 1 .. n : i < n \/ i = n
    BY <1>3
  <2>2. \A i \in 1 .. n : i < n => page[i] < page[n]
    BY <1>2, <1>3 DEF Increasing
  <2> QED
    BY <1>3, <1>5, <2>1, <2>2
<1>7. /\ c \in Seq(history) /\ Len(c) = Len(rows) + n
      /\ \A i \in 1 .. Len(rows) : c[i] = rows[i]
      /\ \A i \in Len(rows) + 1 .. Len(rows) + n : c[i] = page[i - Len(rows)] /\ i - Len(rows) \in 1 .. n
      /\ Range(c) = Range(rows) \cup Range(page)
  BY <1>1, <1>2, JoinedIs
<1> HIDE DEF c, n
<1>8. Range(page) = {page[i] : i \in 1 .. n}
  BY <1>2 DEF Range, n
<1>9. Increasing(c)
  <2> SUFFICES ASSUME NEW i \in DOMAIN c, NEW j \in DOMAIN c, i < j
               PROVE  c[i] < c[j]
    BY DEF Increasing
  <2>1. i \in 1 .. Len(rows) + n /\ j \in 1 .. Len(rows) + n /\ Len(rows) \in Nat
    BY <1>1, <1>7
  <2>2. CASE j \in 1 .. Len(rows)
    <3>1. i \in 1 .. Len(rows)
      BY <2>1, <2>2
    <3>2. rows[i] < rows[j]
      BY <1>1, <2>2, <3>1 DEF Increasing
    <3> QED
      BY <1>7, <2>2, <3>1, <3>2
  <2>3. CASE i \in 1 .. Len(rows) /\ j \in Len(rows) + 1 .. Len(rows) + n
    <3>1. rows[i] \in Range(rows)
      BY <1>1, <2>3 DEF Range
    <3>2. rows[i] < cursor /\ rows[i] \in Nat
      BY <1>1, <1>4, <3>1
    <3>3. c[j] >= cursor /\ c[j] \in Nat
      BY <1>2, <1>5, <1>7, <2>3 DEF n
    <3> QED
      BY <1>1, <1>7, <2>3, <3>2, <3>3
  <2>4. CASE i \in Len(rows) + 1 .. Len(rows) + n
    <3>1. j \in Len(rows) + 1 .. Len(rows) + n
      BY <1>3, <2>1, <2>4
    <3>2. i - Len(rows) < j - Len(rows)
      BY <2>1
    <3>3. page[i - Len(rows)] < page[j - Len(rows)]
      BY <1>2, <1>7, <2>4, <3>1, <3>2 DEF Increasing, n
    <3> QED
      BY <1>7, <2>4, <3>1, <3>3
  <2> QED
    BY <1>3, <2>1, <2>2, <2>3, <2>4
<1>10. Last(page) \in Nat /\ Last(page) >= cursor
  BY <1>2, <1>3, <1>5 DEF n
<1>11. \A m \in Range(c) : m \in history /\ m <= Last(page)
  <2>1. \A m \in Range(rows) : m \in history /\ m <= Last(page)
    <3>1. \A m \in Range(rows) : m \in history /\ m < cursor
      BY <1>1
    <3>2. \A m \in Range(rows) : m \in Nat
      BY <1>4, <3>1
    <3> QED
      BY <1>1, <1>10, <3>1, <3>2
  <2>2. \A m \in Range(page) : m \in history /\ m <= Last(page)
    BY <1>5, <1>6, <1>8
  <2> QED
    BY <1>7, <2>1, <2>2
<1>12. ASSUME NEW m \in history, m \notin Range(c)
       PROVE  Last(page) < m /\ Len(page) = PageLen
  <2>1. m \notin Range(page) /\ ~(m < cursor)
    BY <1>1, <1>7, <1>12
  <2>2. m >= cursor
    BY <1>1, <1>4, <2>1
  <2> QED
    BY <1>2, <1>3, <2>1, <2>2 DEF n
<1> QED
  BY <1>7, <1>9, <1>10, <1>11, <1>12 DEF c

LEMMA PageStep ==
  ASSUME FetchInv, FetchPage
  PROVE  FetchInv'
<1>1. stage = "fetch" /\ history' = history
  BY DEF FetchPage
<1>2. PICK page \in Pages(cursor) :
        IF cursor > LastMinute \/ page = <<>>
          THEN /\ stage' = IF rows = <<>> THEN "done" ELSE "replay"
               /\ UNCHANGED <<cursor, rows>>
          ELSE /\ rows' = rows \o page
               /\ IF Last(page) <= cursor THEN stage' = "replay" /\ UNCHANGED cursor
                  ELSE cursor' = After(Last(page)) /\ UNCHANGED stage
  BY DEF FetchPage
<1>3. /\ history \in SUBSET (0 .. LastMinute) /\ cursor \in Nat /\ LastMinute \in Nat
      /\ rows \in Seq(history) /\ Increasing(rows)
      /\ Range(rows) = {m \in history : m < cursor}
      /\ PageLen \in Nat /\ PageLen >= 2
  BY <1>1, BacktestAssumption DEF FetchInv
<1>4. CASE cursor > LastMinute \/ page = <<>>
  <2>1. \A m \in history : m < cursor
    <3>1. CASE cursor > LastMinute
      BY <1>3, <3>1
    <3>2. CASE page = <<>>
      <4>1. Len(page) = 0 /\ Range(page) = {}
        BY <3>2 DEF Range
      <4>2. \A m \in history : ~(m >= cursor)
        BY <1>3, <4>1, PageIs
      <4> QED
        BY <1>3, <4>2
    <3> QED
      BY <1>4, <3>1, <3>2
  <2>2. Range(rows) = history
    BY <1>3, <2>1
  <2>3. stage' \in {"replay", "done"} /\ UNCHANGED <<cursor, rows>>
    BY <1>2, <1>4
  <2> QED
    BY <1>1, <1>3, <2>2, <2>3 DEF FetchInv
<1>5. CASE ~(cursor > LastMinute \/ page = <<>>)
  <2>1. rows' = rows \o page
    BY <1>2, <1>5
  <2>2. /\ rows' \in Seq(history) /\ Increasing(rows')
        /\ Last(page) \in Nat /\ Last(page) >= cursor
        /\ Range(rows') \subseteq history
        /\ \A m \in Range(rows') : m <= Last(page)
        /\ \A m \in history : m \notin Range(rows') => Last(page) < m /\ Len(page) = PageLen
    BY <1>1, <1>5, <2>1, PageJoins
  <2>3. CASE Last(page) <= cursor
    <3>1. stage' = "replay" /\ cursor' = cursor
      BY <1>2, <1>5, <2>3
    <3>2. Len(page) < 2
      <4>1. /\ page \in Seq(history) /\ Increasing(page)
            /\ \A i \in 1 .. Len(page) : page[i] >= cursor
        BY <1>3, PageIs
      <4>2. SUFFICES ASSUME Len(page) >= 2 PROVE FALSE
        BY <4>1
      <4>3. Len(page) \in Nat /\ 1 \in 1 .. Len(page) /\ Len(page) \in 1 .. Len(page) /\ 1 < Len(page)
        BY <4>1, <4>2
      <4>4. page[1] < page[Len(page)]
        BY <4>1, <4>3 DEF Increasing
      <4>5. page[1] >= cursor /\ page[Len(page)] = Last(page) /\ page[1] \in history
        BY <4>1, <4>3 DEF Last
      <4>6. page[1] \in 0 .. LastMinute
        BY <1>3, <4>5
      <4>7. page[1] \in Int
        BY <4>6
      <4> QED
        BY <1>3, <2>2, <2>3, <4>4, <4>5, <4>7
    <3>3. Range(rows') = history
      <4>1. \A m \in history : m \in Range(rows')
        BY <1>3, <2>2, <3>2
      <4> QED
        BY <2>2, <4>1
    <3> QED
      BY <1>1, <1>3, <2>2, <3>1, <3>3 DEF FetchInv
  <2>4. CASE ~(Last(page) <= cursor)
    <3>1. stage' = "fetch" /\ cursor' = Last(page) + 1
      BY <1>1, <1>2, <1>5, <2>4 DEF After
    <3>2. \A m \in history : m \in Nat
      BY <1>3
    <3>3. \A m \in history : m \in Range(rows') <=> m < cursor'
      BY <2>2, <3>1, <3>2
    <3>4. Range(rows') = {m \in history : m < cursor'}
      BY <2>2, <3>3
    <3> QED
      BY <1>1, <1>3, <2>2, <3>1, <3>4 DEF FetchInv
  <2> QED
    BY <2>3, <2>4
<1> QED
  BY <1>4, <1>5

LEMMA FetchStep == FetchInv /\ [BacktestNext]_btVars => FetchInv'
<1> SUFFICES ASSUME FetchInv, [BacktestNext]_btVars PROVE FetchInv'
  OBVIOUS
<1>1. CASE FetchPage
  BY <1>1, PageStep
<1>2. CASE ReplayCandle
  BY <1>2 DEF ReplayCandle, FetchInv
<1>3. CASE ReplayEnds
  BY <1>3 DEF ReplayEnds, FetchInv
<1>4. CASE UNCHANGED btVars
  BY <1>4 DEF btVars, FetchInv
<1> QED
  BY <1>1, <1>2, <1>3, <1>4 DEF BacktestNext

\* fetch_candles of scripts/backtest.py: for any history with any gaps and any length of
\* a page but 1, the pages join up without a candle twice and without one left out.
THEOREM EachCandleIsReplayed == BacktestSpec => []EveryCandleOnce
<1>1. BacktestInit => FetchInv
  <2> SUFFICES ASSUME BacktestInit PROVE FetchInv
    OBVIOUS
  <2>1. history \in SUBSET (0 .. LastMinute) /\ cursor = 0 /\ rows = <<>> /\ stage = "fetch"
    BY DEF BacktestInit
  <2>2. Range(rows) = {} /\ Increasing(rows) /\ rows \in Seq(history)
    BY <2>1 DEF Range, Increasing
  <2>3. {m \in history : m < cursor} = {}
    <3>1. \A m \in history : m \in 0 .. LastMinute
      BY <2>1
    <3>2. \A m \in history : ~(m < cursor)
      BY <2>1, <3>1, BacktestAssumption
    <3> QED
      BY <3>2
  <2> QED
    BY <2>1, <2>2, <2>3 DEF FetchInv
<1>2. FetchInv => EveryCandleOnce
  BY DEF FetchInv, EveryCandleOnce
<1> QED
  BY <1>1, <1>2, FetchStep, PTL DEF BacktestSpec

-----------------------------------------------------------------------------
(* Backtest: the replay.                                                   *)

LEMMA ThousandthsOf ==
  ASSUME NEW x \in Int
  PROVE  /\ x \div 1000 \in Int
         /\ x < 0 => x \div 1000 < 0
         /\ x >= 0 => x \div 1000 >= 0
         /\ 1000 * (x \div 1000) <= x /\ x < 1000 * (x \div 1000) + 1000
BY SMT

LEMMA ProductIs ==
  ASSUME NEW mid \in Nat, NEW spread \in Int, mid > 0
  PROVE  /\ mid * spread \in Int
         /\ spread > -1000 => mid * spread >= mid - 1000 * mid
         /\ spread < 0 => mid * spread < 0
         /\ spread >= 0 => mid * spread >= 0
BY SMT

\* The price of a level: below the mid for a buy, never below it for a sell.
LEMMA GridPriceIs ==
  ASSUME NEW mid \in Nat, NEW spread \in Int, mid >= 1000, spread > -1000
  PROVE  LET p == mid + (mid * spread) \div 1000
         IN  /\ p \in Nat \ {0}
             /\ spread < 0 => p < mid
             /\ spread >= 0 => p >= mid
<1> DEFINE x == mid * spread
           d == x \div 1000
<1>1. /\ x \in Int
      /\ x >= mid - 1000 * mid
      /\ spread < 0 => x < 0
      /\ spread >= 0 => x >= 0
  BY ProductIs
<1> HIDE DEF x
<1>2. /\ d \in Int
      /\ x < 0 => d < 0
      /\ x >= 0 => d >= 0
      /\ x < 1000 * d + 1000
  BY <1>1, ThousandthsOf
<1> HIDE DEF d
<1>3. mid + d > 0
  BY <1>1, <1>2
<1>4. /\ mid + d \in Nat \ {0}
      /\ spread < 0 => mid + d < mid
      /\ spread >= 0 => mid + d >= mid
  BY <1>1, <1>2, <1>3
<1> QED
  BY <1>4 DEF d, x

LEMMA QuotientIs ==
  ASSUME NEW a \in Nat, NEW b \in Nat \ {0}
  PROVE  a \div b \in Nat
BY SMT

LevelSet == {l \in [spread : Int, money : Nat] : l.spread > -1000}

GridOrderIs(o, mid) ==
  /\ o.side = "buy" => o.price < mid
  /\ o.side = "sell" => o.price >= mid

LEMMA GridIsDistinct ==
  ASSUME NEW mid \in Nat, mid >= 1000, NEW levels \in Seq(LevelSet), balances = Capital
  PROVE  /\ Distinct(MakeGridOrders(mid, levels))
         /\ \A o \in MakeGridOrders(mid, levels) : GridOrderIs(o, mid)
<1> DEFINE price(l) == mid + (mid * l.spread) \div 1000
           amount(l) == LET whole == l.money \div price(l)
                        IN IF l.spread < 0
                             THEN Smaller(whole, Larger(0, balances.usd \div (1000 * price(l))))
                             ELSE Smaller(whole, Larger(0, balances.token))
           D == {j \in DOMAIN levels : amount(levels[j]) > 0}
           order(i) == [id |-> i, side |-> IF levels[i].spread < 0 THEN "buy" ELSE "sell",
                        price |-> price(levels[i]), amount |-> amount(levels[i])]
           G == {order(i) : i \in D}
<1>1. MakeGridOrders(mid, levels) = G
  BY DEF MakeGridOrders
<1>2. DOMAIN levels = 1 .. Len(levels) /\ Len(levels) \in Nat /\ \A i \in 1 .. Len(levels) : levels[i] \in LevelSet
  OBVIOUS
<1>3. \A l \in LevelSet :
        /\ l.spread \in Int /\ l.money \in Nat
        /\ price(l) \in Nat \ {0}
        /\ l.spread < 0 => price(l) < mid
        /\ l.spread >= 0 => price(l) >= mid
  <2> SUFFICES ASSUME NEW l \in LevelSet
               PROVE  /\ l.spread \in Int /\ l.money \in Nat
                      /\ price(l) \in Nat \ {0}
                      /\ l.spread < 0 => price(l) < mid
                      /\ l.spread >= 0 => price(l) >= mid
    OBVIOUS
  <2>1. l.spread \in Int /\ l.money \in Nat /\ l.spread > -1000
    BY DEF LevelSet
  <2>2. /\ price(l) \in Nat \ {0}
        /\ l.spread < 0 => price(l) < mid
        /\ l.spread >= 0 => price(l) >= mid
    BY <2>1, GridPriceIs
  <2> QED
    BY <2>1, <2>2
<1>4. \A l \in LevelSet : amount(l) \in Nat
  <2> SUFFICES ASSUME NEW l \in LevelSet PROVE amount(l) \in Nat
    OBVIOUS
  <2>1. l.money \in Nat /\ price(l) \in Nat \ {0} /\ l.spread \in Int
    BY <1>3
  <2> DEFINE w == l.money \div price(l)
             u == balances.usd \div (1000 * price(l))
  <2> HIDE DEF price
  <2>2. w \in Nat
    BY <2>1, QuotientIs
  <2>3. balances.usd \in Nat /\ balances.token \in Nat
    BY BacktestAssumption
  <2>4. 1000 * price(l) \in Nat \ {0}
    BY <2>1
  <2>5. u \in Nat
    BY <2>3, <2>4, QuotientIs
  <2>6. amount(l) = IF l.spread < 0 THEN Smaller(w, Larger(0, u)) ELSE Smaller(w, Larger(0, balances.token))
    OBVIOUS
  <2> HIDE DEF w, u, amount
  <2> QED
    BY <2>2, <2>3, <2>5, <2>6 DEF Smaller, Larger
<1> HIDE DEF price, amount
<1>5. D \subseteq 1 .. Len(levels) /\ IsFiniteSet(D)
  <2>1. D \subseteq 1 .. Len(levels)
    BY <1>2
  <2> HIDE DEF D
  <2>2. IsFiniteSet(1 .. Len(levels))
    BY <1>2, FS_Interval
  <2> QED
    BY <2>1, <2>2, FS_Subset
<1>6. IsFiniteSet(G)
  <2> DEFINE f == [i \in D |-> order(i)]
  <2>1. f \in [D -> G] /\ \A o \in G : \E i \in D : f[i] = o
    <3> HIDE DEF D, order
    <3> QED
      OBVIOUS
  <2>2. f \in Surjection(D, G)
    <3> HIDE DEF f, G, D
    <3> QED
      BY <2>1 DEF Surjection
  <2> HIDE DEF f, G, D
  <2> QED
    BY <1>5, <2>2, FS_Surjection
<1>7. \A i \in D : order(i) \in SimOrders /\ order(i).id = i /\ GridOrderIs(order(i), mid)
  <2> SUFFICES ASSUME NEW i \in D
               PROVE  order(i) \in SimOrders /\ order(i).id = i /\ GridOrderIs(order(i), mid)
    OBVIOUS
  <2>1. i \in Int /\ levels[i] \in LevelSet
    BY <1>2, <1>5
  <2>2. /\ price(levels[i]) \in Int /\ amount(levels[i]) \in Nat /\ levels[i].spread \in Int
        /\ levels[i].spread < 0 => price(levels[i]) < mid
        /\ levels[i].spread >= 0 => price(levels[i]) >= mid
    BY <1>3, <1>4, <2>1
  <2>3. ~(levels[i].spread < 0) => levels[i].spread >= 0
    BY <2>2
  <2>4. order(i) \in SimOrders /\ order(i).id = i
    BY <2>1, <2>2 DEF SimOrders
  <2>5. GridOrderIs(order(i), mid)
    BY <2>2, <2>3 DEF GridOrderIs
  <2> QED
    BY <2>4, <2>5
<1> HIDE DEF order, D
<1>8. G \subseteq SimOrders /\ (\A a, b \in G : a.id = b.id => a = b) /\ (\A o \in G : GridOrderIs(o, mid))
  BY <1>7
<1> QED
  BY <1>1, <1>6, <1>8 DEF Distinct

\* The depth of the levels: each as a share of the one before.
Thins(n, top, depth) ==
  depth = [i \in 0 .. n |-> IF i = 0 THEN top ELSE (depth[i - 1] * 17) \div 20]

LEMMA ShareOfDepth ==
  ASSUME NEW d \in Nat
  PROVE  (d * 17) \div 20 \in Nat
BY SMT

LEMMA DepthsExist ==
  ASSUME NEW n \in Nat, NEW top \in Nat
  PROVE  \E depth : Thins(n, top, depth)
<1> DEFINE T == Nat
           op == [p \in T \X (1 .. n) |-> (p[1] * 17) \div 20]
<1>1. op \in [T \X (1 .. n) -> T] /\ top \in T
  <2> SUFFICES ASSUME NEW p \in T \X (1 .. n) PROVE (p[1] * 17) \div 20 \in T
    OBVIOUS
  <2> QED
    BY ShareOfDepth
<1> HIDE DEF op, T
<1>2. PICK f \in [0 .. n -> T] : Steps(n, top, op, f)
  BY <1>1, StepsThrough
<1>3. f = [k \in 0 .. n |-> IF k = 0 THEN top ELSE op[<<f[k - 1], k>>]]
  BY <1>2 DEF Steps
<1>4. \A k \in 0 .. n : k # 0 => op[<<f[k - 1], k>>] = (f[k - 1] * 17) \div 20
  <2> SUFFICES ASSUME NEW k \in 0 .. n, k # 0
               PROVE  op[<<f[k - 1], k>>] = (f[k - 1] * 17) \div 20
    OBVIOUS
  <2>1. k - 1 \in 0 .. n /\ k \in 1 .. n
    OBVIOUS
  <2>2. <<f[k - 1], k>> \in T \X (1 .. n)
    BY <1>2, <2>1
  <2> QED
    BY <2>2 DEF op
<1>5. Thins(n, top, f)
  BY <1>3, <1>4 DEF Thins
<1> QED
  BY <1>5

LEMMA DepthsAre ==
  ASSUME NEW n \in Nat, NEW top \in Nat, NEW depth, Thins(n, top, depth)
  PROVE  \A k \in 0 .. n : depth[k] \in Nat
<1> DEFINE Good == {k \in 0 .. n : depth[k] \in Nat}
<1>1. 0 \in Good
  BY DEF Thins
<1>2. ASSUME NEW k \in 0 .. n - 1, k \in Good PROVE k + 1 \in Good
  <2>1. k + 1 \in 0 .. n /\ k + 1 # 0 /\ (k + 1) - 1 = k /\ depth[k] \in Nat
    BY <1>2
  <2>2. depth[k + 1] = (depth[k] * 17) \div 20
    BY <2>1 DEF Thins
  <2> QED
    BY <2>1, <2>2, ShareOfDepth
<1> HIDE DEF Good
<1>3. \A k \in 0 .. n : k \in Good
  BY <1>1, <1>2, CountUp
<1> QED
  BY <1>3 DEF Good

\* The book made up from a candle lies on both sides of its close.
LEMMA BookIsAround ==
  ASSUME NEW shot \in Shots
  PROVE  LET book == SynthesiseBook(shot)
         IN  /\ book.bids \in Seq(Lv) /\ book.asks \in Seq(Lv)
             /\ \A i \in 1 .. Len(book.bids) : book.bids[i][1] < shot.close
             /\ \A i \in 1 .. Len(book.asks) : book.asks[i][1] > shot.close
<1> DEFINE half == Larger(shot.close \div 1000, Smaller(shot.close \div 50, shot.range)) \div 2
           step == shot.close \div 2000
           top == Larger(shot.volume, 1000) \div BookSide
           depth[i \in 0 .. BookSide] == IF i = 0 THEN top ELSE (depth[i - 1] * 17) \div 20
           bids == [i \in 1 .. BookSide |-> <<shot.close - half - (i - 1) * step, depth[i - 1]>>]
           asks == [i \in 1 .. BookSide |-> <<shot.close + half + (i - 1) * step, depth[i - 1]>>]
<1>1. SynthesiseBook(shot) = [bids |-> bids, asks |-> asks]
  BY DEF SynthesiseBook
<1>2. /\ {shot.close, shot.range, shot.volume} \subseteq Nat /\ shot.close >= 2000
      /\ BookSide \in Nat \ {0}
  BY BacktestAssumption
<1>3. half \in Nat /\ half >= 1
  BY <1>2 DEF Larger, Smaller
<1>4. step \in Nat
  BY <1>2
<1>5. top \in Nat
  <2>1. Larger(shot.volume, 1000) \in Nat
    BY <1>2 DEF Larger
  <2> QED
    BY <1>2, <2>1, QuotientIs
<1> HIDE DEF half, step, top
<1>6. \E d : Thins(BookSide, top, d)
  BY <1>2, <1>5, DepthsExist
<1>7. Thins(BookSide, top, depth)
  BY <1>6 DEF Thins
<1>8. \A k \in 0 .. BookSide : depth[k] \in Nat
  <2> HIDE DEF depth
  <2> QED
    BY <1>2, <1>5, <1>7, DepthsAre
<1> HIDE DEF depth
<1>9. \A i \in 1 .. BookSide : depth[i - 1] \in Nat /\ (i - 1) * step \in Nat
  <2> SUFFICES ASSUME NEW i \in 1 .. BookSide PROVE depth[i - 1] \in Nat /\ (i - 1) * step \in Nat
    OBVIOUS
  <2>1. i - 1 \in 0 .. BookSide /\ i - 1 \in Nat
    BY <1>2
  <2>2. (i - 1) * step \in Nat
    BY <1>4, <2>1
  <2> QED
    BY <1>8, <2>1, <2>2
<1>10. \A i \in 1 .. BookSide : bids[i] \in Lv /\ bids[i][1] < shot.close /\ asks[i] \in Lv /\ asks[i][1] > shot.close
  <2> SUFFICES ASSUME NEW i \in 1 .. BookSide
               PROVE  bids[i] \in Lv /\ bids[i][1] < shot.close /\ asks[i] \in Lv /\ asks[i][1] > shot.close
    OBVIOUS
  <2> DEFINE away == (i - 1) * step
  <2>1. away \in Nat /\ depth[i - 1] \in Nat
    BY <1>9
  <2>2. bids[i] = <<shot.close - half - away, depth[i - 1]>> /\ asks[i] = <<shot.close + half + away, depth[i - 1]>>
    OBVIOUS
  <2> HIDE DEF away, bids, asks
  <2> QED
    BY <1>2, <1>3, <2>1, <2>2 DEF Lv
<1>11. /\ bids \in Seq(Lv) /\ Len(bids) = BookSide /\ asks \in Seq(Lv) /\ Len(asks) = BookSide
  <2>1. bids \in [1 .. BookSide -> Lv] /\ asks \in [1 .. BookSide -> Lv]
    BY <1>10
  <2> HIDE DEF bids, asks
  <2> QED
    BY <1>2, <2>1
<1> HIDE DEF bids, asks
<1> QED
  BY <1>1, <1>10, <1>11

\* So the grid of a candle crosses nothing in it.
LEMMA NothingFills ==
  ASSUME NEW shot \in Shots, NEW levels \in ReplayGrids, balances = Capital
  PROVE  Simulate(OrdersOf(shot, levels), SynthesiseBook(shot)) = <<>>
<1> DEFINE orders == MakeGridOrders(shot.close, levels)
           book == SynthesiseBook(shot)
           mid2 == TwiceMid(book)
<1>1. shot.close \in Nat /\ shot.close >= 1000 /\ levels \in Seq(LevelSet)
  BY BacktestAssumption DEF LevelSet
<1>2. Distinct(orders) /\ \A o \in orders : GridOrderIs(o, shot.close)
  BY <1>1, GridIsDistinct
<1>3. /\ book.bids \in Seq(Lv) /\ book.asks \in Seq(Lv)
      /\ \A i \in 1 .. Len(book.bids) : book.bids[i][1] < shot.close /\ book.bids[i] \in Lv
      /\ \A i \in 1 .. Len(book.asks) : book.asks[i][1] > shot.close /\ book.asks[i] \in Lv
  BY BookIsAround
<1> HIDE DEF orders, book
<1>4. mid2 \in Int
  BY <1>3, MidIsNumber
<1> HIDE DEF mid2
<1>5. /\ OneSided(Buys(orders)) /\ OneSided(Sells(orders))
      /\ \A o \in orders : o \in SimOrders
  BY <1>2, SidesAre
<1>6. \A o \in Buys(orders) : \A j \in 1 .. Len(book.asks) : ~Crosses(o, book.asks[j][1])
  <2> SUFFICES ASSUME NEW o \in Buys(orders), NEW j \in 1 .. Len(book.asks)
               PROVE  ~Crosses(o, book.asks[j][1])
    OBVIOUS
  <2>1. o.side = "buy" /\ o.price \in Int /\ o.price < shot.close
    BY <1>2, <1>5 DEF Buys, GridOrderIs, SimOrders
  <2>2. book.asks[j][1] \in Int /\ book.asks[j][1] > shot.close
    BY <1>3 DEF Lv
  <2> QED
    BY <1>1, <2>1, <2>2 DEF Crosses
<1>7. \A o \in Sells(orders) : \A j \in 1 .. Len(book.bids) : ~Crosses(o, book.bids[j][1])
  <2> SUFFICES ASSUME NEW o \in Sells(orders), NEW j \in 1 .. Len(book.bids)
               PROVE  ~Crosses(o, book.bids[j][1])
    OBVIOUS
  <2>1. o.side = "sell" /\ o.price \in Int /\ o.price >= shot.close
    BY <1>2, <1>5 DEF Sells, GridOrderIs, SimOrders
  <2>2. book.bids[j][1] \in Int /\ book.bids[j][1] < shot.close
    BY <1>3 DEF Lv
  <2> QED
    BY <1>1, <2>1, <2>2 DEF Crosses
<1>8. FillSide(Buys(orders), book.asks, mid2) = <<>>
  BY <1>3, <1>4, <1>5, <1>6, NothingCrossed
<1>9. FillSide(Sells(orders), book.bids, mid2) = <<>>
  BY <1>3, <1>4, <1>5, <1>7, NothingCrossed
<1>10. Simulate(orders, book) = <<>> \o <<>>
  BY <1>8, <1>9 DEF Simulate, Buys, Sells, mid2
<1> QED
  BY <1>10 DEF OrdersOf, orders, book

LEMMA SettledOfNone ==
  ASSUME NEW b
  PROVE  FoldLeft(Settled, b, <<>>) = b
<1> DEFINE IsFold(iter) == iter = [t \in SUBSET (DOMAIN <<>>) |->
                             IF t = {} THEN b ELSE Settled(iter[t \ {Max(t)}], <<>>[Max(t)])]
           c == CHOOSE iter : IsFold(iter)
           first == [t \in SUBSET (DOMAIN <<>>) |-> b]
<1>1. FoldLeft(Settled, b, <<>>) = c[DOMAIN <<>>]
  BY DEF FoldLeft, MapThenFoldSet
<1>2. DOMAIN <<>> = {}
  OBVIOUS
<1>3. \A t \in SUBSET (DOMAIN <<>>) : t = {}
  BY <1>2
<1>4. IsFold(first)
  BY <1>3
<1> HIDE DEF first
<1>5. IsFold(c)
  BY <1>4
<1>6. \A t \in SUBSET (DOMAIN <<>>) : c[t] = b
  BY <1>3, <1>5
<1> HIDE DEF c, IsFold
<1> QED
  BY <1>1, <1>6

\* run_backtest of scripts/backtest.py: for any candles and any grids, whatever the
\* balances, no order of the replay is ever filled, and the balances end as they began.
THEOREM ReplayBuysNothing == BacktestSpec => []NothingTrades
<1>1. BacktestInit => NothingTrades
  BY DEF BacktestInit, NothingTrades
<1>2. NothingTrades /\ [BacktestNext]_btVars => NothingTrades'
  <2> SUFFICES ASSUME NothingTrades, [BacktestNext]_btVars PROVE NothingTrades'
    OBVIOUS
  <2>0. traded = 0 /\ balances = Capital
    BY DEF NothingTrades
  <2>1. CASE ReplayCandle
    <3>1. PICK shot \in Shots, levels \in ReplayGrids :
            LET fills == IF Len(sampled') < WarmupLen THEN <<>>
                         ELSE Simulate(OrdersOf(shot, levels), SynthesiseBook(shot))
            IN /\ balances' = FoldLeft(Settled, balances, fills)
               /\ traded' = traded + Len(fills)
      BY <2>1 DEF ReplayCandle
    <3>2. Simulate(OrdersOf(shot, levels), SynthesiseBook(shot)) = <<>>
      BY <2>0, NothingFills
    <3>3. balances' = FoldLeft(Settled, balances, <<>>) /\ traded' = traded + Len(<<>>)
      BY <3>1, <3>2
    <3>4. balances' = balances
      BY <3>3, SettledOfNone
    <3>5. Len(<<>>) = 0
      OBVIOUS
    <3>6. traded' = 0
      BY <2>0, <3>3, <3>5
    <3> QED
      BY <2>0, <3>4, <3>6 DEF NothingTrades
  <2>2. CASE FetchPage \/ ReplayEnds \/ UNCHANGED btVars
    BY <2>0, <2>2 DEF FetchPage, ReplayEnds, btVars, NothingTrades
  <2> QED
    BY <2>1, <2>2 DEF BacktestNext
<1> QED
  BY <1>1, <1>2, PTL DEF BacktestSpec

=============================================================================
