----------------------------- MODULE MarketProofs -----------------------------
(***************************************************************************)
(* Theorems about what the market does to the grid: the states reach every *)
(* bot once and in order; the reference mid is one of the answers; the     *)
(* window of candles holds each minute once and shows a crash; the         *)
(* published parameters follow both regimes, and the regime believed in    *)
(* follows the market; the levels of a tick fan out.  For any exchanges,   *)
(* prices, candles, configurations and lengths.                            *)
(***************************************************************************)
EXTENDS Orchestrator, Regime, Candles, Grid, FoldProofs

-----------------------------------------------------------------------------
(* Orchestrator: the intake of the bots.                                   *)

QueuedStates == [n : Nat, regime : Nat]

\* Where the last state is: the master has dealt with it, or it alone waits.
MasterInv ==
  /\ state.n \in Nat
  /\ pending = <<>> \/ pending = <<state.n>>
  /\ loop # "sleep" => pending = <<>>
  /\ current \in Nat /\ current <= state.n
  /\ pending # <<>> => current < state.n

IntakeTypeOK ==
  /\ queue \in [Exchanges -> Seq(QueuedStates)]
  /\ regimes \in [Exchanges -> Seq(Nat)]
  /\ last \in [Exchanges -> Nat]
  /\ applied \in [Exchanges -> Nat]
  /\ tick = [e \in Exchanges |-> tick[e]]

\* The states that wait for e's bot are newer than the one it took, and in order.
InOrder(e) ==
  /\ last[e] <= state.n
  /\ \A k \in DOMAIN queue[e] : last[e] < queue[e][k].n /\ queue[e][k].n <= state.n
  /\ \A j, k \in DOMAIN queue[e] : j < k => queue[e][j].n < queue[e][k].n

\* The regime e's bot would apply now.
NewestState(e) == IF regimes[e] = <<>> THEN applied[e] ELSE regimes[e][Len(regimes[e])]

\* Both queues are emptied by the bot alone, one at a time the states and all at once
\* the regimes, so that the states never have more room than the regimes; where a regime
\* was dropped, no state that carries it gets in before the regimes have room again.
Abreast(e) ==
  /\ Len(queue[e]) <= QueueLen
  /\ Len(regimes[e]) <= QueueLen
  /\ Len(regimes[e]) <= Len(queue[e]) + (IF pending = <<>> THEN 1 ELSE 0)
  /\ Len(regimes[e]) = QueueLen /\ NewestState(e) < current => Len(queue[e]) = QueueLen
  /\ \A k \in DOMAIN queue[e] :
       /\ queue[e][k].regime <= current
       /\ \/ queue[e][k].regime <= NewestState(e)
          \/ current < state.n /\ Len(regimes[e]) < QueueLen

OrchInv == MasterInv /\ IntakeTypeOK /\ \A e \in Exchanges : InOrder(e) /\ Abreast(e)

LEMMA OrchInitInv == OrchInit => OrchInv
  <1> SUFFICES ASSUME OrchInit PROVE OrchInv
    OBVIOUS
  <1>1. Len(<<>>) = 0 /\ DOMAIN <<>> = {} /\ <<>> \in Seq(QueuedStates) /\ <<>> \in Seq(Nat)
    OBVIOUS
  <1>2. MasterInv
    BY DEF OrchInit, MasterInv, NoState
  <1>3. IntakeTypeOK
    BY <1>1 DEF OrchInit, IntakeTypeOK
  <1>4. ASSUME NEW e \in Exchanges PROVE InOrder(e) /\ Abreast(e)
    <2>1. queue[e] = <<>> /\ regimes[e] = <<>> /\ last[e] = 0 /\ applied[e] = 0
            /\ state.n = 0 /\ current = 0 /\ pending = <<>>
      BY DEF OrchInit, NoState
    <2>2. QueueLen \in Nat /\ QueueLen > 0
      BY OrchestratorAssumption
    <2> QED
      BY <1>1, <2>1, <2>2 DEF InOrder, Abreast, NewestState
  <1> QED
    BY <1>2, <1>3, <1>4 DEF OrchInv

\* put_nowait: the queue as it was, or with the item at its end.
LEMMA PutIs ==
  ASSUME NEW S, NEW q \in Seq(S), NEW x \in S, NEW len \in Nat, NEW p, p = PutNowait(q, len, x)
  PROVE  /\ p \in Seq(S) /\ DOMAIN p = 1 .. Len(p) /\ Len(p) \in Nat
         /\ DOMAIN q = 1 .. Len(q) /\ Len(q) \in Nat
         /\ \A k \in 1 .. Len(q) : k \in 1 .. Len(p) /\ p[k] = q[k]
         /\ Len(q) < len  => Len(p) = Len(q) + 1 /\ p[Len(p)] = x /\ p # <<>>
         /\ Len(q) >= len => p = q
  BY DEF PutNowait

LEMMA PutNumber ==
  ASSUME NEW q \in Seq(Nat), NEW x \in Nat, NEW len \in Nat, NEW p, p = PutNowait(q, len, x)
  PROVE  /\ p \in Seq(Nat) /\ Len(p) \in Nat /\ Len(q) \in Nat
         /\ Len(q) < len  => Len(p) = Len(q) + 1 /\ p[Len(p)] = x /\ p # <<>>
         /\ Len(q) >= len => p = q
  BY DEF PutNowait

\* The end of a tick of the price loop.
LEMMA PublishStep ==
  ASSUME OrchInv, NEW t, loop # "sleep", Publish(t),
         UNCHANGED <<current, regimes, last, applied, tick>>
  PROVE  OrchInv'
  <1> DEFINE n == state.n + 1
             x == [n |-> n, regime |-> current]
  <1>1. pending = <<>> /\ state.n \in Nat /\ current \in Nat /\ current <= state.n
    BY DEF OrchInv, MasterInv
  <1>2. state'.n = n /\ loop' = "sleep"
          /\ queue' = [e \in Exchanges |-> PutNowait(queue[e], QueueLen, x)]
    BY DEF Publish
  <1>3. pending' = <<n>>
    BY <1>1, OrchestratorAssumption DEF Publish, PutNowait
  <1>4. x \in QueuedStates /\ x.n = n /\ x.regime = current /\ n \in Nat /\ n = state.n + 1
    BY <1>1 DEF QueuedStates
  <1> HIDE DEF x, n
  <1>5. QueueLen \in Nat
    BY OrchestratorAssumption
  <1>6. MasterInv'
    BY <1>1, <1>2, <1>3, <1>4 DEF MasterInv
  <1>7. \A e \in Exchanges : queue[e] \in Seq(QueuedStates) /\ regimes[e] \in Seq(Nat)
                             /\ last[e] \in Nat /\ NewestState(e) \in Nat
    BY DEF OrchInv, IntakeTypeOK, NewestState
  <1>8. IntakeTypeOK'
    <2>1. \A e \in Exchanges : queue'[e] \in Seq(QueuedStates)
      BY <1>2, <1>4, <1>5, <1>7, PutIs
    <2> QED
      BY <1>2, <2>1 DEF OrchInv, IntakeTypeOK
  <1>9. ASSUME NEW e \in Exchanges PROVE InOrder(e)' /\ Abreast(e)'
    <2> DEFINE q == queue[e]
               p == queue'[e]
    <2>1. /\ q \in Seq(QueuedStates) /\ p = PutNowait(q, QueueLen, x)
          /\ Len(regimes[e]) \in Nat
      BY <1>2, <1>7
    <2>2. InOrder(e) /\ Abreast(e)
      BY DEF OrchInv
    <2> HIDE DEF q, p
    <2>3. /\ DOMAIN p = 1 .. Len(p) /\ Len(p) \in Nat
          /\ DOMAIN q = 1 .. Len(q) /\ Len(q) \in Nat
          /\ \A k \in 1 .. Len(q) : k \in 1 .. Len(p) /\ p[k] = q[k]
          /\ Len(q) < QueueLen  => Len(p) = Len(q) + 1 /\ p[Len(p)] = x
          /\ Len(q) >= QueueLen => p = q
      BY <1>4, <1>5, <2>1, PutIs
    <2>4. \A k \in DOMAIN q : q[k].n \in Nat /\ q[k].regime \in Nat
      <3>1. \A k \in DOMAIN q : q[k] \in QueuedStates
        BY <2>1
      <3> QED
        BY <3>1 DEF QueuedStates
    <2>5. /\ last[e] <= state.n
          /\ \A k \in DOMAIN q : last[e] < q[k].n /\ q[k].n <= state.n
          /\ \A j, k \in DOMAIN q : j < k => q[j].n < q[k].n
      BY <2>2 DEF InOrder, q
    <2>k. \A k \in DOMAIN p :
            \/ k \in DOMAIN q /\ p[k] = q[k]
            \/ k = Len(q) + 1 /\ p[k] = x /\ Len(q) < QueueLen
      <3>1. CASE Len(q) < QueueLen
        <4>1. \A k \in DOMAIN p : k \in 1 .. Len(q) \/ k = Len(p)
          BY <2>3, <3>1
        <4> QED
          BY <2>3, <3>1, <4>1
      <3>2. CASE p = q
        BY <3>2
      <3>3. Len(q) \in Nat /\ (Len(q) >= QueueLen => p = q)
        BY <2>3
      <3> QED
        BY <1>5, <3>1, <3>2, <3>3
    <2>6. /\ last[e] <= n
          /\ \A k \in DOMAIN p : last[e] < p[k].n /\ p[k].n <= n
          /\ \A j, k \in DOMAIN p : j < k => p[j].n < p[k].n
      <3>1. last[e] <= n /\ last[e] < n /\ last[e] \in Nat
        BY <1>1, <1>4, <1>7, <2>5
      <3>2. ASSUME NEW k \in DOMAIN p PROVE last[e] < p[k].n /\ p[k].n <= n
        BY <1>1, <1>4, <2>4, <2>5, <2>k, <3>1
      <3>3. ASSUME NEW j \in DOMAIN p, NEW k \in DOMAIN p, j < k PROVE p[j].n < p[k].n
        <4>1. j \in DOMAIN q /\ p[j] = q[j] /\ q[j].n \in Nat /\ q[j].n < n
          <5>1. j \in DOMAIN q /\ p[j] = q[j]
            <6>1. DOMAIN q = 1 .. Len(q) /\ Len(q) \in Nat
              BY <2>3
            <6>2. k \in 1 .. Len(q) \/ k = Len(q) + 1
              BY <2>k, <6>1
            <6>3. (j \in DOMAIN q /\ p[j] = q[j]) \/ j = Len(q) + 1
              BY <2>k
            <6> QED
              BY <3>3, <6>1, <6>2, <6>3
          <5> QED
            BY <1>1, <1>4, <2>4, <2>5, <5>1
        <4>2. CASE k \in DOMAIN q /\ p[k] = q[k]
          BY <2>5, <3>3, <4>1, <4>2
        <4>3. CASE p[k] = x
          BY <1>4, <4>1, <4>3
        <4> QED
          BY <2>k, <4>2, <4>3
      <3> QED
        BY <3>1, <3>2, <3>3
    <2>7. InOrder(e)'
      BY <1>2, <2>6 DEF InOrder, p
    <2>8. /\ Len(q) <= QueueLen
          /\ Len(regimes[e]) <= QueueLen
          /\ Len(regimes[e]) <= Len(q) + 1
          /\ Len(regimes[e]) = QueueLen /\ NewestState(e) < current => Len(q) = QueueLen
          /\ \A k \in DOMAIN q :
               /\ q[k].regime <= current
               /\ q[k].regime <= NewestState(e) \/ Len(regimes[e]) < QueueLen
      BY <1>1, <2>2 DEF Abreast, q
    <2>a. Len(regimes[e]) \in Nat
      BY <1>7
    <2>b. /\ Len(q) \in Nat /\ Len(p) \in Nat
          /\ Len(q) < QueueLen  => Len(p) = Len(q) + 1
          /\ Len(q) >= QueueLen => Len(p) = Len(q)
      BY <2>3
    <2>c. /\ Len(q) <= QueueLen
          /\ Len(regimes[e]) <= QueueLen
          /\ Len(regimes[e]) <= Len(q) + 1
          /\ Len(regimes[e]) = QueueLen /\ NewestState(e) < current => Len(q) = QueueLen
      BY <2>8
    <2>9. /\ Len(p) <= QueueLen
          /\ Len(regimes[e]) <= Len(p)
          /\ Len(regimes[e]) = QueueLen /\ NewestState(e) < current => Len(p) = QueueLen
      BY <1>5, <2>a, <2>b, <2>c
    <2>10. \A k \in DOMAIN p :
             /\ p[k].regime <= current
             /\ p[k].regime <= NewestState(e) \/ Len(regimes[e]) < QueueLen
      <3> SUFFICES ASSUME NEW k \in DOMAIN p
                   PROVE  /\ p[k].regime <= current
                          /\ p[k].regime <= NewestState(e) \/ Len(regimes[e]) < QueueLen
        OBVIOUS
      <3>1. CASE k \in DOMAIN q /\ p[k] = q[k]
        BY <2>8, <3>1
      <3>2. CASE p[k] = x /\ Len(q) < QueueLen
        <4>1. current <= NewestState(e) \/ Len(regimes[e]) < QueueLen
          BY <1>1, <1>5, <1>7, <2>a, <2>c, <3>2
        <4> QED
          BY <1>1, <1>4, <3>2, <4>1
      <3> QED
        BY <2>k, <3>1, <3>2
    <2>11. current < n
      BY <1>1, <1>4
    <2>12. NewestState(e)' = NewestState(e)
      BY DEF NewestState
    <2>13. Abreast(e)'
      BY <1>2, <1>3, <2>8, <2>9, <2>10, <2>11, <2>12 DEF Abreast, p
    <2> QED
      BY <2>7, <2>13
  <1> QED
    BY <1>6, <1>8, <1>9 DEF OrchInv

\* The master deals with the state that waits.
LEMMA ProcessStep ==
  ASSUME OrchInv, Process
  PROVE  OrchInv'
  <1>1. /\ pending = <<state.n>> /\ pending' = <<>> /\ current < state.n
        /\ state.n \in Nat /\ current \in Nat /\ Head(pending) = state.n
    BY DEF Process, OrchInv, MasterInv
  <1>2. UNCHANGED <<loop, state, queue, last, applied, tick>>
    BY DEF Process, priceVars, intakeVars
  <1>3. \A e \in Exchanges : queue[e] \in Seq(QueuedStates) /\ regimes[e] \in Seq(Nat)
    BY DEF OrchInv, IntakeTypeOK
  <1>4. QueueLen \in Nat
    BY OrchestratorAssumption
  <1>5. CASE UNCHANGED <<current, regimes>>
    <2>1. MasterInv' /\ IntakeTypeOK'
      BY <1>1, <1>2, <1>5 DEF OrchInv, MasterInv, IntakeTypeOK
    <2>2. ASSUME NEW e \in Exchanges PROVE InOrder(e)' /\ Abreast(e)'
      <3>1. NewestState(e)' = NewestState(e)
        BY <1>2, <1>5 DEF NewestState
      <3>2. Len(regimes[e]) <= Len(queue[e]) + 1
        <4>1. Len(regimes[e]) \in Nat /\ Len(queue[e]) \in Nat /\ Len(regimes[e]) <= Len(queue[e])
          BY <1>1, <1>3 DEF OrchInv, Abreast
        <4> QED
          BY <4>1
      <3> QED
        BY <1>1, <1>2, <1>5, <3>1, <3>2 DEF OrchInv, InOrder, Abreast
    <2> QED
      BY <2>1, <2>2 DEF OrchInv
  <1>6. CASE /\ current' = Head(pending)
             /\ regimes' = [e \in Exchanges |-> PutNowait(regimes[e], QueueLen, Head(pending))]
    <2>1. current' = state.n /\ \A e \in Exchanges : regimes'[e] = PutNowait(regimes[e], QueueLen, state.n)
      BY <1>1, <1>6
    <2>2. MasterInv'
      BY <1>1, <1>2, <2>1 DEF OrchInv, MasterInv
    <2>3. \A e \in Exchanges : regimes'[e] \in Seq(Nat)
      <3> SUFFICES ASSUME NEW e \in Exchanges PROVE regimes'[e] \in Seq(Nat)
        OBVIOUS
      <3>1. regimes[e] \in Seq(Nat) /\ regimes'[e] = PutNowait(regimes[e], QueueLen, state.n)
        BY <1>3, <2>1
      <3> QED
        BY <1>1, <1>4, <3>1, PutNumber
    <2>4. IntakeTypeOK'
      BY <1>2, <1>6, <2>3 DEF OrchInv, IntakeTypeOK
    <2>5. ASSUME NEW e \in Exchanges PROVE InOrder(e)' /\ Abreast(e)'
      <3>1. InOrder(e)'
        BY <1>2 DEF OrchInv, InOrder
      <3> DEFINE r == regimes[e]
                 s == regimes'[e]
                 q == queue[e]
      <3>2. r \in Seq(Nat) /\ s = PutNowait(r, QueueLen, state.n) /\ q \in Seq(QueuedStates)
        BY <1>3, <2>1
      <3>3. NewestState(e) = IF r = <<>> THEN applied[e] ELSE r[Len(r)]
        BY DEF NewestState
      <3>4. NewestState(e)' = IF s = <<>> THEN applied[e] ELSE s[Len(s)]
        BY <1>2 DEF NewestState
      <3>5. /\ Len(q) <= QueueLen /\ Len(r) <= QueueLen /\ Len(r) <= Len(q)
            /\ \A k \in DOMAIN q :
                 q[k].regime <= current /\ (q[k].regime <= NewestState(e) \/ Len(r) < QueueLen)
        BY <1>1 DEF OrchInv, Abreast
      <3>6. \A k \in DOMAIN q : q[k].regime \in Nat
        <4> HIDE DEF q
        <4>1. \A k \in DOMAIN q : q[k] \in QueuedStates
          BY <3>2
        <4> QED
          BY <4>1 DEF QueuedStates
      <3> HIDE DEF r, s, q
      <3>7. /\ Len(s) \in Nat /\ Len(r) \in Nat /\ Len(q) \in Nat
            /\ Len(r) < QueueLen  => Len(s) = Len(r) + 1 /\ s[Len(s)] = state.n /\ s # <<>>
            /\ Len(r) >= QueueLen => s = r
        <4>1. Len(q) \in Nat
          BY <3>2
        <4>2. state.n \in Nat
          BY <1>1
        <4> QED
          BY <1>4, <3>2, <4>1, <4>2, PutNumber
      <3>8. CASE Len(r) < QueueLen
        <4>1. NewestState(e)' = state.n
          BY <3>4, <3>7, <3>8
        <4>2. /\ Len(q) <= QueueLen /\ Len(s) <= QueueLen /\ Len(s) <= Len(q) + 1
              /\ \A k \in DOMAIN q : q[k].regime <= state.n
          BY <1>1, <1>4, <3>5, <3>6, <3>7, <3>8
        <4>3. ~(state.n < state.n)
          BY <1>1
        <4> QED
          BY <1>1, <1>2, <2>1, <3>1, <4>1, <4>2, <4>3 DEF Abreast, s, q
      <3>9. CASE Len(r) >= QueueLen
        <4>1. NewestState(e)' = NewestState(e) /\ s = r
          BY <3>3, <3>4, <3>7, <3>9
        <4>2. /\ Len(q) = QueueLen /\ Len(r) <= QueueLen /\ Len(r) <= Len(q) + 1
              /\ \A k \in DOMAIN q : q[k].regime <= state.n /\ q[k].regime <= NewestState(e)
          BY <1>1, <1>4, <3>5, <3>6, <3>7, <3>9
        <4> QED
          BY <1>1, <1>2, <2>1, <3>1, <4>1, <4>2 DEF Abreast, s, q
      <3> QED
        BY <1>4, <3>7, <3>8, <3>9
    <2> QED
      BY <2>2, <2>4, <2>5 DEF OrchInv
  <1> QED
    BY <1>5, <1>6 DEF Process

\* A bot takes the oldest state and all the regimes.
LEMMA TakeIs ==
  ASSUME OrchInv, NEW e \in Exchanges, Take(e)
  PROVE  LET q == queue[e]
         IN  /\ q # <<>> /\ queue'[e] = Tail(q) /\ last'[e] = Head(q).n /\ regimes'[e] = <<>>
             /\ applied'[e] = NewestState(e) /\ tick[e] = NoTick
             /\ tick'[e] = [state |-> Head(q),
                            regime |-> IF NewestState(e) # 0 THEN NewestState(e) ELSE Head(q).regime]
             /\ \A d \in Exchanges \ {e} :
                  /\ queue'[d] = queue[d] /\ last'[d] = last[d] /\ regimes'[d] = regimes[d]
                  /\ applied'[d] = applied[d] /\ tick'[d] = tick[d]
             /\ UNCHANGED <<state, pending, current, loop>>
  <1>1. /\ e \in DOMAIN queue /\ e \in DOMAIN last /\ e \in DOMAIN regimes /\ e \in DOMAIN applied
        /\ e \in DOMAIN tick
    BY DEF OrchInv, IntakeTypeOK
  <1>2. applied'[e] = NewestState(e) /\ regimes'[e] = <<>>
    BY <1>1 DEF Take, Drain, NewestState
  <1> QED
    BY <1>1, <1>2 DEF Take, Drain, Resolve, priceVars, masterVars

LEMMA TakeStep ==
  ASSUME OrchInv, NEW e \in Exchanges, Take(e)
  PROVE  OrchInv'
  <1> DEFINE q == queue[e]
             p == Tail(q)
  <1>1. /\ q # <<>> /\ queue'[e] = p /\ last'[e] = q[1].n /\ regimes'[e] = <<>>
        /\ applied'[e] = NewestState(e)
        /\ UNCHANGED <<state, pending, current, loop>>
    <2>1. q \in Seq(QueuedStates)
      BY DEF OrchInv, IntakeTypeOK
    <2>2. q # <<>> => Head(q) = q[1]
      BY <2>1
    <2> QED
      BY <2>2, TakeIs
  <1>2. q \in Seq(QueuedStates) /\ NewestState(e) \in Nat
    BY DEF OrchInv, IntakeTypeOK, NewestState
  <1>3. state.n \in Nat /\ current \in Nat /\ QueueLen \in Nat /\ QueueLen > 0
    BY OrchestratorAssumption DEF OrchInv, MasterInv
  <1>4. InOrder(e) /\ Abreast(e)
    BY DEF OrchInv
  <1>5. /\ Len(q) \in Nat /\ Len(q) > 0 /\ DOMAIN q = 1 .. Len(q) /\ 1 \in DOMAIN q
        /\ p \in Seq(QueuedStates) /\ DOMAIN p = 1 .. Len(q) - 1 /\ Len(p) = Len(q) - 1
        /\ \A k \in 1 .. Len(q) - 1 : k + 1 \in DOMAIN q /\ p[k] = q[k + 1]
    BY <1>1, <1>2
  <1>6. \A k \in DOMAIN q : q[k] \in QueuedStates
    BY <1>2
  <1> HIDE DEF q, p
  <1>7. MasterInv'
    BY <1>1 DEF OrchInv, MasterInv
  <1>8. IntakeTypeOK'
    <2>1. p \in Seq(QueuedStates) /\ <<>> \in Seq(Nat) /\ q[1].n \in Nat
      BY <1>5, <1>6 DEF QueuedStates
    <2>2. /\ queue' = [queue EXCEPT ![e] = p]
          /\ last' = [last EXCEPT ![e] = q[1].n]
          /\ regimes' = [regimes EXCEPT ![e] = <<>>]
          /\ applied' = [applied EXCEPT ![e] = NewestState(e)]
      <3>1. Head(queue[e]) = q[1]
        BY <1>1, <1>2 DEF q
      <3> QED
        BY <3>1 DEF Take, Drain, NewestState, p, q, OrchInv, IntakeTypeOK
    <2>3. tick' = [d \in Exchanges |-> tick'[d]]
      BY DEF Take, OrchInv, IntakeTypeOK
    <2> QED
      BY <1>2, <2>1, <2>2, <2>3 DEF OrchInv, IntakeTypeOK
  <1>9. /\ \A k \in DOMAIN p : q[1].n < p[k].n /\ p[k].n <= state.n
        /\ \A j, k \in DOMAIN p : j < k => p[j].n < p[k].n
    <2>1. /\ \A k \in DOMAIN q : q[k].n <= state.n
          /\ \A j, k \in DOMAIN q : j < k => q[j].n < q[k].n
      BY <1>4 DEF InOrder, q
    <2>2. ASSUME NEW k \in 1 .. Len(q) - 1 PROVE q[1].n < p[k].n /\ p[k].n <= state.n
      <3>1. k + 1 \in DOMAIN q /\ p[k] = q[k + 1] /\ 1 < k + 1
        BY <1>5
      <3> QED
        BY <1>5, <2>1, <3>1
    <2>3. ASSUME NEW j \in 1 .. Len(q) - 1, NEW k \in 1 .. Len(q) - 1, j < k PROVE p[j].n < p[k].n
      <3>1. /\ j + 1 \in DOMAIN q /\ p[j] = q[j + 1]
            /\ k + 1 \in DOMAIN q /\ p[k] = q[k + 1] /\ j + 1 < k + 1
        BY <1>5, <2>3
      <3> QED
        BY <2>1, <3>1
    <2> QED
      BY <1>5, <2>2, <2>3
  <1>10. InOrder(e)'
    <2>1. q[1].n <= state.n
      BY <1>4, <1>5 DEF InOrder, q
    <2> QED
      BY <1>1, <1>9, <2>1 DEF InOrder
  <1>11. Abreast(e)'
    <2>1. NewestState(e)' = NewestState(e)
      BY <1>1 DEF NewestState
    <2>2. Len(q) <= QueueLen
      BY <1>4 DEF Abreast, q
    <2>3. Len(p) <= QueueLen /\ Len(p) \in Nat
      BY <1>3, <1>5, <2>2
    <2>4. Len(regimes'[e]) = 0
      BY <1>1
    <2>5. Len(regimes'[e]) < QueueLen /\ Len(regimes'[e]) <= QueueLen /\ Len(regimes'[e]) # QueueLen
            /\ Len(regimes'[e]) <= Len(p) + (IF pending' = <<>> THEN 1 ELSE 0)
      BY <1>3, <2>3, <2>4
    <2>6. current = state.n \/ current < state.n
      BY <1>3 DEF OrchInv, MasterInv
    <2>7. \A k \in DOMAIN p : p[k].regime <= current
            /\ (p[k].regime <= NewestState(e) \/ current < state.n)
      <3>1. \A k \in DOMAIN q : q[k].regime <= current
              /\ (q[k].regime <= NewestState(e) \/ current < state.n)
        BY <1>4 DEF Abreast, q
      <3> QED
        BY <1>5, <3>1
    <2> QED
      BY <1>1, <2>1, <2>3, <2>5, <2>7 DEF Abreast
  <1>12. ASSUME NEW d \in Exchanges, d # e PROVE InOrder(d)' /\ Abreast(d)'
    <2>1. /\ queue'[d] = queue[d] /\ last'[d] = last[d] /\ regimes'[d] = regimes[d]
          /\ applied'[d] = applied[d]
      BY <1>12, TakeIs
    <2>2. NewestState(d)' = NewestState(d)
      BY <2>1 DEF NewestState
    <2>3. InOrder(d) /\ Abreast(d)
      BY DEF OrchInv
    <2> QED
      BY <1>1, <2>1, <2>2, <2>3 DEF InOrder, Abreast
  <1> QED
    BY <1>7, <1>8, <1>10, <1>11, <1>12 DEF OrchInv

LEMMA OrchStep == OrchInv /\ [OrchNext]_orchVars => OrchInv'
  <1> SUFFICES ASSUME OrchInv, [OrchNext]_orchVars PROVE OrchInv'
    OBVIOUS
  <1>1. ASSUME UNCHANGED <<state, pending, current, queue, regimes, last, applied>>,
               tick' = [e \in Exchanges |-> tick'[e]],
               loop' # "sleep" => loop # "sleep" \/ pending = <<>>
        PROVE  OrchInv'
    <2>1. MasterInv' /\ IntakeTypeOK'
      BY <1>1 DEF OrchInv, MasterInv, IntakeTypeOK
    <2>2. \A e \in Exchanges : InOrder(e)' /\ Abreast(e)'
      BY <1>1 DEF OrchInv, InOrder, Abreast, NewestState
    <2> QED
      BY <2>1, <2>2 DEF OrchInv
  <1>a. tick = [e \in Exchanges |-> tick[e]]
    BY DEF OrchInv, IntakeTypeOK
  <1>2. CASE TickStarts \/ Reload \/ UNCHANGED orchVars
    BY <1>a, <1>1, <1>2 DEF TickStarts, Reload, orchVars, priceVars, masterVars, intakeVars
  <1>3. CASE Tickers \/ Candles
    <2>1. loop # "sleep" /\ UNCHANGED <<current, regimes, last, applied, tick>>
      BY <1>3 DEF Tickers, Candles, intakeVars
    <2>2. \/ UNCHANGED <<state, pending, queue>>
          \/ \E t : Publish(t)
      BY <1>3 DEF Tickers, Candles
    <2>3. CASE UNCHANGED <<state, pending, queue>>
      BY <1>a, <1>1, <2>1, <2>3
    <2>4. CASE \E t : Publish(t)
      BY <2>1, <2>4, PublishStep
    <2> QED
      BY <2>2, <2>3, <2>4
  <1>4. ASSUME NEW e \in Exchanges, TickEnds(e) PROVE OrchInv'
    <2>1. tick' = [d \in Exchanges |-> tick'[d]]
      BY <1>a, <1>4 DEF TickEnds
    <2> QED
      BY <1>1, <1>4, <2>1 DEF TickEnds, priceVars, masterVars
  <1> QED
    BY <1>2, <1>3, <1>4, ProcessStep, TakeStep DEF OrchNext, PriceLoop, Bot

\* Orchestrator and RegimeMaster: whatever two bounded queues that drop the newest make of
\* it, each bot goes forward through the states, and never applies a regime older than
\* the one a state came with, once the master has caught up; for any lengths of the
\* queues and any number of exchanges.
THEOREM BotsGoForward == OrchSpec => IntakeGoesForward
  <1> DEFINE Forward == \A e \in Exchanges : BotTickBegins(e) =>
                          /\ tick'[e].state.n > last[e]
                          /\ current = state.n => tick'[e].regime >= tick'[e].state.regime
  <1>1. OrchInv /\ [OrchNext]_orchVars => Forward
    <2> SUFFICES ASSUME OrchInv, [OrchNext]_orchVars, NEW e \in Exchanges, BotTickBegins(e)
                 PROVE  /\ tick'[e].state.n > last[e]
                        /\ current = state.n => tick'[e].regime >= tick'[e].state.regime
      OBVIOUS
    <2>1. tick[e] = NoTick /\ tick'[e] # NoTick
      BY DEF BotTickBegins
    <2>2. Take(e)
      <3>1. tick' # tick
        BY <2>1
      <3>2. PICK d \in Exchanges : Take(d) \/ TickEnds(d)
        BY <3>1 DEF OrchNext, PriceLoop, TickStarts, Tickers, Candles, Process, Bot, Reload,
           orchVars, intakeVars
      <3>3. CASE Take(d)
        BY <2>1, <3>3, TakeIs
      <3>4. CASE TickEnds(d)
        <4>1. tick' = [tick EXCEPT ![d] = NoTick] /\ tick[d] # NoTick
          BY <3>4 DEF TickEnds
        <4> QED
          BY <2>1, <4>1
      <3> QED
        BY <3>2, <3>3, <3>4
    <2> DEFINE s == Head(queue[e])
    <2>3. /\ queue[e] # <<>>
          /\ tick'[e] = [state |-> s, regime |-> IF NewestState(e) # 0 THEN NewestState(e) ELSE s.regime]
      BY <2>2, TakeIs
    <2>4. s = queue[e][1] /\ 1 \in DOMAIN queue[e] /\ s \in QueuedStates /\ NewestState(e) \in Nat
      BY <2>3 DEF OrchInv, IntakeTypeOK, NewestState
    <2>5. last[e] < s.n /\ (current = state.n => s.regime <= NewestState(e)) /\ last[e] \in Nat
      <3>1. InOrder(e) /\ Abreast(e) /\ state.n \in Nat /\ last[e] \in Nat
        BY DEF OrchInv, MasterInv, IntakeTypeOK
      <3> QED
        BY <2>4, <3>1 DEF InOrder, Abreast
    <2>6. s.n \in Nat /\ s.regime \in Nat
      BY <2>4 DEF QueuedStates
    <2> HIDE DEF s
    <2> QED
      BY <2>3, <2>4, <2>5, <2>6
  <1> QED
    BY <1>1, OrchInitInv, OrchStep, PTL DEF OrchSpec, IntakeGoesForward

-----------------------------------------------------------------------------
(* Orchestrator: the reference mid.                                        *)

\* A mean weighted by natural numbers lies between the least and the largest value.
LEMMA SomeExtremes ==
  ASSUME NEW S, IsFiniteSet(S), NEW v \in [S -> Int], S # {}
  PROVE  \E x, y \in S : \A z \in S : v[x] <= v[z] /\ v[z] <= v[y]
<1> DEFINE Good == {t \in SUBSET S : t # {} =>
                      \E x, y \in t : \A z \in t : v[x] <= v[z] /\ v[z] <= v[y]}
<1>1. {} \in Good
  OBVIOUS
<1>2. ASSUME NEW t \in SUBSET S, t # {}, \A x \in t : t \ {x} \in Good
      PROVE  t \in Good
  <2>1. PICK u \in t : TRUE
    BY <1>2
  <2>2. CASE t \ {u} = {}
    <3>1. \A z \in t : z = u
      BY <2>2
    <3> QED
      BY <2>1, <3>1
  <2>3. CASE t \ {u} # {}
    <3>1. PICK x \in t \ {u}, y \in t \ {u} : \A z \in t \ {u} : v[x] <= v[z] /\ v[z] <= v[y]
      BY <1>2, <2>1, <2>3
    <3>2. \A z \in t : z = u \/ z \in t \ {u}
      OBVIOUS
    <3>3. v[x] \in Int /\ v[y] \in Int /\ v[u] \in Int /\ \A z \in t : v[z] \in Int
      BY <2>1, <3>1
    <3>4. \E a \in {x, u} : v[a] <= v[x] /\ v[a] <= v[u]
      BY <3>3
    <3>5. \E b \in {y, u} : v[y] <= v[b] /\ v[u] <= v[b]
      BY <3>3
    <3>6. PICK a \in {x, u} : v[a] <= v[x] /\ v[a] <= v[u]
      BY <3>4
    <3>7. PICK b \in {y, u} : v[y] <= v[b] /\ v[u] <= v[b]
      BY <3>5
    <3>8. a \in t /\ b \in t
      BY <2>1, <3>1, <3>6, <3>7
    <3>9. \A z \in t : v[a] <= v[z] /\ v[z] <= v[b]
      BY <3>1, <3>2, <3>3, <3>6, <3>7, <3>8
    <3> QED
      BY <3>8, <3>9
  <2> QED
    BY <2>2, <2>3
<1> HIDE DEF Good
<1>3. \A t \in SUBSET S : t \in Good
  BY <1>1, <1>2, SetBySet
<1> QED
  BY <1>3 DEF Good

Weights(S, w)     == [x \in S |-> w[x]]
Products(S, w, v) == [x \in S |-> w[x] * v[x]]

LEMMA MeanAmong ==
  ASSUME NEW S, IsFiniteSet(S), NEW w, \A x \in S : w[x] \in Nat, NEW v \in [S -> Int], S # {},
         NEW weight, Sums(S, Weights(S, w), weight),
         NEW sum, Sums(S, Products(S, w, v), sum)
  PROVE  /\ weight[S] \in Nat
         /\ sum[S] \in Int
         /\ \E x, y \in S : v[x] * weight[S] <= sum[S] /\ sum[S] <= v[y] * weight[S]
<1> DEFINE product == [x \in S |-> w[x] * v[x]]
           part == [x \in S |-> w[x]]
<1>1. PICK x \in S, y \in S : \A z \in S : v[x] <= v[z] /\ v[z] <= v[y]
  BY SomeExtremes
<1>2. product \in [S -> Int] /\ part \in [S -> Int]
  OBVIOUS
<1>3. \A z \in S : product[z] = w[z] * v[z] /\ part[z] = w[z]
  OBVIOUS
<1>4. Sums(S, product, sum) /\ Sums(S, part, weight)
  BY DEF Products, Weights
<1> HIDE DEF product, part
<1>5. weight \in [SUBSET S -> Int] /\ sum \in [SUBSET S -> Int]
  BY <1>2, <1>4, SumExists
<1> DEFINE lo == v[x]
           hi == v[y]
           Good == {t \in SUBSET S : /\ weight[t] \in Nat
                                     /\ lo * weight[t] <= sum[t]
                                     /\ sum[t] <= hi * weight[t]}
<1>6. lo \in Int /\ hi \in Int
  BY <1>1
<1>7. {} \in Good
  BY <1>4, <1>6 DEF Sums
<1>8. ASSUME NEW t \in SUBSET S, t # {}, \A z \in t : t \ {z} \in Good
      PROVE  t \in Good
  <2> DEFINE z == AnyOf(t)
             A == weight[t \ {z}]
             B == sum[t \ {z}]
  <2>1. z \in t /\ z \in S
    BY <1>8 DEF AnyOf
  <2>2. weight[t] = w[z] + A /\ sum[t] = product[z] + B
    BY <1>3, <1>4, <1>8, <2>1 DEF Sums
  <2>3. A \in Nat /\ B \in Int /\ lo * A <= B /\ B <= hi * A
    BY <1>5, <1>8, <2>1
  <2>4. w[z] \in Nat /\ v[z] \in Int /\ lo <= v[z] /\ v[z] <= hi /\ product[z] = w[z] * v[z]
    BY <1>1, <1>3, <2>1
  <2> HIDE DEF z, A, B, lo, hi
  <2>5. \A a \in Nat, p, q \in Int : p <= q => a * p <= a * q
    OBVIOUS
  <2>6. \A p, q, a \in Int : p * (q + a) = q * p + p * a
    OBVIOUS
  <2>7. w[z] * lo <= w[z] * v[z] /\ w[z] * v[z] <= w[z] * hi
    BY <1>6, <2>4, <2>5
  <2>8. lo * weight[t] = w[z] * lo + lo * A /\ hi * weight[t] = w[z] * hi + hi * A
    BY <1>6, <2>2, <2>3, <2>4, <2>6
  <2>9. w[z] * lo \in Int /\ w[z] * hi \in Int /\ lo * A \in Int /\ hi * A \in Int
        /\ w[z] * v[z] \in Int
    BY <1>6, <2>3, <2>4
  <2>10. lo * weight[t] <= sum[t] /\ sum[t] <= hi * weight[t]
    <3> DEFINE a == w[z] * lo
               b == w[z] * hi
               c == lo * A
               d == hi * A
               e == w[z] * v[z]
    <3>1. a \in Int /\ b \in Int /\ c \in Int /\ d \in Int /\ e \in Int
      BY <2>9
    <3>2. lo * weight[t] = a + c /\ hi * weight[t] = b + d /\ sum[t] = e + B
      BY <2>2, <2>4, <2>8
    <3>3. a <= e /\ e <= b /\ c <= B /\ B <= d /\ B \in Int
      BY <2>3, <2>7
    <3> HIDE DEF a, b, c, d, e
    <3> QED
      BY <3>1, <3>2, <3>3
  <2> QED
    BY <2>2, <2>3, <2>4, <2>10
<1> HIDE DEF Good, lo, hi
<1>9. \A t \in SUBSET S : t \in Good
  BY <1>7, <1>8, SetBySet
<1>10. S \in Good
  BY <1>9
<1> QED
  BY <1>5, <1>10 DEF Good, lo, hi

LEMMA WeightsAreSums ==
  ASSUME NEW S, IsFiniteSet(S), NEW w, \A e \in S : w[e] \in Nat, NEW t \in [S -> Int]
  PROVE  \E weight, sum :
           /\ Sums(S, Weights(S, w), weight)
           /\ Sums(S, Products(S, w, t), sum)
           /\ ActiveWeight(w, t) = weight[S]
           /\ WeightedSum(w, t) = sum[S]
<1> DEFINE f == [e \in S |-> w[e]]
           g == [e \in S |-> w[e] * t[e]]
           IsWeight(iter) == iter = [s \in SUBSET S |-> IF s = {} THEN 0
                               ELSE w[CHOOSE x \in s : TRUE] + iter[s \ {CHOOSE x \in s : TRUE}]]
           IsSum(iter) == iter = [s \in SUBSET S |-> IF s = {} THEN 0
                            ELSE w[CHOOSE x \in s : TRUE] * t[CHOOSE x \in s : TRUE]
                                 + iter[s \ {CHOOSE x \in s : TRUE}]]
<1>1. f \in [S -> Int] /\ g \in [S -> Int]
  OBVIOUS
<1>2. \A e \in S : f[e] = w[e] /\ g[e] = w[e] * t[e]
  OBVIOUS
<1>3. \A s \in SUBSET S : s # {} => (CHOOSE x \in s : TRUE) \in S
  OBVIOUS
<1>4. DOMAIN t = S
  OBVIOUS
<1>5. ActiveWeight(w, t) = (CHOOSE iter : IsWeight(iter))[S]
  BY <1>4 DEF ActiveWeight, MapThenSumSet, MapThenFoldSet
<1>6. WeightedSum(w, t) = (CHOOSE iter : IsSum(iter))[S]
  BY <1>4 DEF WeightedSum, MapThenSumSet, MapThenFoldSet
<1> HIDE DEF f, g
<1>7. \A iter : IsWeight(iter) <=> Sums(S, f, iter)
  <2> SUFFICES ASSUME NEW iter PROVE IsWeight(iter) <=> Sums(S, f, iter)
    OBVIOUS
  <2> DEFINE A == [s \in SUBSET S |-> IF s = {} THEN 0
                     ELSE w[CHOOSE x \in s : TRUE] + iter[s \ {CHOOSE x \in s : TRUE}]]
             B == [s \in SUBSET S |-> IF s = {} THEN 0 ELSE f[AnyOf(s)] + iter[s \ {AnyOf(s)}]]
  <2>1. A = B
    BY <1>2, <1>3 DEF AnyOf
  <2>2. IsWeight(iter) <=> iter = A
    OBVIOUS
  <2>3. Sums(S, f, iter) <=> iter = B
    BY DEF Sums
  <2> HIDE DEF A, B, IsWeight
  <2> QED
    BY <2>1, <2>2, <2>3
<1>8. \A iter : IsSum(iter) <=> Sums(S, g, iter)
  <2> SUFFICES ASSUME NEW iter PROVE IsSum(iter) <=> Sums(S, g, iter)
    OBVIOUS
  <2> DEFINE A == [s \in SUBSET S |-> IF s = {} THEN 0
                     ELSE w[CHOOSE x \in s : TRUE] * t[CHOOSE x \in s : TRUE]
                          + iter[s \ {CHOOSE x \in s : TRUE}]]
             B == [s \in SUBSET S |-> IF s = {} THEN 0 ELSE g[AnyOf(s)] + iter[s \ {AnyOf(s)}]]
  <2>1. A = B
    BY <1>2, <1>3 DEF AnyOf
  <2>2. IsSum(iter) <=> iter = A
    OBVIOUS
  <2>3. Sums(S, g, iter) <=> iter = B
    BY DEF Sums
  <2> HIDE DEF A, B, IsSum
  <2> QED
    BY <2>1, <2>2, <2>3
<1> HIDE DEF IsWeight, IsSum
<1>9. (\E iter : Sums(S, f, iter)) /\ (\E iter : Sums(S, g, iter))
  BY <1>1, SumExists
<1> DEFINE weight == CHOOSE iter : IsWeight(iter)
           sum == CHOOSE iter : IsSum(iter)
<1>10. IsWeight(weight)
  <2>1. \E iter : IsWeight(iter)
    BY <1>7, <1>9
  <2> QED
    BY <2>1
<1>11. IsSum(sum)
  <2>1. \E iter : IsSum(iter)
    BY <1>8, <1>9
  <2> QED
    BY <2>1
<1>12. Sums(S, f, weight) /\ Sums(S, g, sum) /\ ActiveWeight(w, t) = weight[S] /\ WeightedSum(w, t) = sum[S]
  BY <1>5, <1>6, <1>7, <1>8, <1>10, <1>11
<1>13. f = Weights(S, w) /\ g = Products(S, w, t)
  BY DEF f, g, Weights, Products
<1> HIDE DEF weight, sum
<1> QED
  BY <1>12, <1>13

\* The tickers of a tick under way are prices of some exchanges, and their weighted sum
\* is positive: what Publish needs for a mid among them.
Answers(t) ==
  /\ \E answered \in SUBSET Exchanges : t \in [answered -> Prices]
  /\ WeightedSum(weights, t) > 0

MidInv ==
  /\ config \in Configs
  /\ weights \in [Exchanges -> Nat]
  /\ loop = "candles" => Answers(tickers)
  /\ MidAmongResponders

LEMMA MidOfAnswers ==
  ASSUME weights \in [Exchanges -> Nat], NEW t, Answers(t)
  PROVE  \E x \in DOMAIN t, y \in DOMAIN t :
           /\ t[x] * ActiveWeight(weights, t) <= WeightedSum(weights, t)
           /\ WeightedSum(weights, t) <= t[y] * ActiveWeight(weights, t)
<1>1. PICK S \in SUBSET Exchanges : t \in [S -> Prices]
  BY DEF Answers
<1>2. IsFiniteSet(S) /\ t \in [S -> Int] /\ DOMAIN t = S /\ \A e \in S : weights[e] \in Nat
  <2>1. IsFiniteSet(S)
    BY OrchestratorAssumption, FS_Subset
  <2>2. Prices \subseteq Int
    BY OrchestratorAssumption
  <2> QED
    BY <1>1, <2>1, <2>2
<1>3. PICK weight, sum :
        /\ Sums(S, Weights(S, weights), weight)
        /\ Sums(S, Products(S, weights, t), sum)
        /\ ActiveWeight(weights, t) = weight[S]
        /\ WeightedSum(weights, t) = sum[S]
  BY <1>2, WeightsAreSums
<1>4. S # {}
  <2>1. S = {} => sum[S] = 0
    BY <1>3 DEF Sums
  <2> QED
    BY <1>3, <2>1 DEF Answers
<1>5. \E x, y \in S : t[x] * weight[S] <= sum[S] /\ sum[S] <= t[y] * weight[S]
  BY <1>2, <1>3, <1>4, MeanAmong
<1> QED
  BY <1>2, <1>3, <1>5

LEMMA PublishesMid ==
  ASSUME weights \in [Exchanges -> Nat], NEW t, Answers(t), Publish(t)
  PROVE  MidAmongResponders' /\ loop' = "sleep"
<1>1. /\ state'.tickers = t
      /\ state'.sum = WeightedSum(weights, t)
      /\ state'.weight = ActiveWeight(weights, t)
      /\ loop' = "sleep"
  BY DEF Publish
<1> QED
  BY <1>1, MidOfAnswers DEF MidAmongResponders

LEMMA MidInit == OrchInit => MidInv
<1> SUFFICES ASSUME OrchInit PROVE MidInv
  OBVIOUS
<1>1. config \in Configs /\ weights \in [Exchanges -> Nat] /\ loop = "sleep"
  BY OrchestratorAssumption DEF OrchInit
<1>2. state.n = 0
  BY DEF OrchInit, NoState
<1> QED
  BY <1>1, <1>2 DEF MidInv, MidAmongResponders

LEMMA MidStep == MidInv /\ [OrchNext]_orchVars => MidInv'
<1> SUFFICES ASSUME MidInv, [OrchNext]_orchVars PROVE MidInv'
  OBVIOUS
<1>1. CASE TickStarts
  <2>1. weights' \in [Exchanges -> Nat] /\ UNCHANGED <<config, state>> /\ loop' = "tickers"
    BY <1>1, OrchestratorAssumption DEF TickStarts, MidInv
  <2> QED
    BY <2>1 DEF MidInv, MidAmongResponders
<1>2. CASE Tickers
  <2>1. UNCHANGED <<config, weights>>
    BY <1>2 DEF Tickers
  <2>2. PICK answered \in SUBSET Exchanges : \E t \in [answered -> Prices] :
         \/ loop' = "sleep" /\ UNCHANGED <<tickers, state, pending, queue>>
         \/ WeightedSum(weights, t) > 0 /\ Publish(t) /\ UNCHANGED tickers
         \/ /\ WeightedSum(weights, t) > 0 /\ loop' = "candles" /\ tickers' = t
            /\ UNCHANGED <<state, pending, queue>>
    BY <1>2 DEF Tickers
  <2>3. PICK t \in [answered -> Prices] :
         \/ loop' = "sleep" /\ UNCHANGED <<tickers, state, pending, queue>>
         \/ WeightedSum(weights, t) > 0 /\ Publish(t) /\ UNCHANGED tickers
         \/ /\ WeightedSum(weights, t) > 0 /\ loop' = "candles" /\ tickers' = t
            /\ UNCHANGED <<state, pending, queue>>
    BY <2>2
  <2>4. CASE loop' = "sleep" /\ UNCHANGED <<tickers, state, pending, queue>>
    BY <2>1, <2>4 DEF MidInv, MidAmongResponders
  <2>5. CASE WeightedSum(weights, t) > 0 /\ Publish(t)
    <3>1. Answers(t)
      BY <2>5 DEF Answers
    <3>2. MidAmongResponders' /\ loop' = "sleep"
      BY <2>5, <3>1, PublishesMid DEF MidInv
    <3> QED
      BY <2>1, <3>2 DEF MidInv
  <2>6. CASE WeightedSum(weights, t) > 0 /\ tickers' = t /\ state' = state
    <3>1. Answers(tickers)'
      <4>1. WeightedSum(weights', tickers') > 0
        BY <2>1, <2>6
      <4> QED
        BY <2>6, <4>1 DEF Answers
    <3> QED
      BY <2>1, <2>6, <3>1 DEF MidInv, MidAmongResponders
  <2> QED
    BY <2>3, <2>4, <2>5, <2>6
<1>3. CASE Candles
  <2>1. MidAmongResponders' /\ loop' = "sleep"
    BY <1>3, PublishesMid DEF Candles, MidInv
  <2> QED
    BY <1>3, <2>1 DEF Candles, MidInv
<1>4. CASE UNCHANGED <<priceVars>> /\ (config' = config \/ config' \in Configs)
  <2>1. Answers(tickers)' <=> Answers(tickers)
    BY <1>4 DEF Answers, priceVars
  <2> QED
    BY <1>4, <2>1 DEF MidInv, MidAmongResponders, priceVars
<1>5. CASE Process \/ Reload \/ UNCHANGED orchVars
  BY <1>4, <1>5 DEF Process, Reload, orchVars
<1>6. CASE \E e \in Exchanges : Bot(e)
  BY <1>4, <1>6 DEF Bot, Take, TickEnds
<1> QED
  BY <1>1, <1>2, <1>3, <1>5, <1>6 DEF OrchNext, PriceLoop

\* Orchestrator._tick_prices: whoever does not answer, however the weights are
\* reconfigured and however long the candles take, the mid that is published lies among
\* the prices of the exchanges that answered.
THEOREM MidIsAmongResponders == OrchSpec => []MidAmongResponders
<1>1. MidInv => MidAmongResponders
  BY DEF MidInv
<1> QED
  BY <1>1, MidInit, MidStep, PTL DEF OrchSpec

-----------------------------------------------------------------------------
(* Candles: the window.                                                    *)

LEMMA LargerOf ==
  ASSUME NEW a \in Int, NEW b \in Int
  PROVE  Max({a, b}) = IF a >= b THEN a ELSE b
BY SMT DEF Max

\* What a deque with a bound keeps: the last n, or all there are.
LEMMA LastOfIs ==
  ASSUME NEW n \in Nat \ {0}, NEW s \in Seq(Nat), Len(s) >= n
  PROVE  /\ LastOf(n, s) \in Seq(Nat)
         /\ Len(LastOf(n, s)) = n
         /\ \A i \in 1 .. n : LastOf(n, s)[i] = s[Len(s) - n + i]
<1>1. Len(s) \in Nat /\ n \in Nat
  OBVIOUS
<1>2. Max({1, Len(s) - n + 1}) = Len(s) - n + 1
  BY <1>1, LargerOf
<1>3. LastOf(n, s) = SubSeq(s, Len(s) - n + 1, Len(s))
  BY <1>2 DEF LastOf
<1> DEFINE from == Len(s) - n + 1
<1>4. from \in Nat /\ from >= 1 /\ Len(s) - from + 1 = n
  BY <1>1
<1> HIDE DEF from
<1>5. SubSeq(s, from, Len(s)) \in Seq(Nat)
  BY <1>1, <1>4
<1>6. Len(SubSeq(s, from, Len(s))) = n
  BY <1>1, <1>4
<1>7. \A i \in 1 .. n : SubSeq(s, from, Len(s))[i] = s[from + i - 1]
  BY <1>1, <1>4
<1>8. \A i \in 1 .. n : from + i - 1 = Len(s) - n + i
  BY <1>1 DEF from
<1>9. LastOf(n, s) = SubSeq(s, from, Len(s))
  BY <1>3 DEF from
<1> QED
  BY <1>5, <1>6, <1>7, <1>8, <1>9

CandlesTypeOK ==
  /\ minutes \in WindowMinutes
  /\ bars \in Seq(Shapes) /\ Len(bars) >= FetchLimit
  /\ candles \in Seq(Nat)
  /\ fetched \in 0 .. Len(bars)

WindowInv == CandlesTypeOK /\ WindowHoldsEachOnce

LEMMA NewestIs ==
  ASSUME CandlesTypeOK
  PROVE  /\ Newest \in Seq(Nat)
         /\ Len(Newest) = FetchLimit
         /\ \A i \in 1 .. FetchLimit : Newest[i] = Len(bars) - FetchLimit + i
<1> DEFINE all == [i \in 1 .. Now |-> i]
<1>1. Now \in Nat /\ FetchLimit \in Nat \ {0} /\ Now >= FetchLimit
  BY CandlesAssumption DEF CandlesTypeOK, Now
<1>2. all \in Seq(Nat) /\ Len(all) = Now /\ \A i \in 1 .. Now : all[i] = i
  BY <1>1
<1> HIDE DEF all
<1>3. /\ LastOf(FetchLimit, all) \in Seq(Nat)
      /\ Len(LastOf(FetchLimit, all)) = FetchLimit
      /\ \A i \in 1 .. FetchLimit : LastOf(FetchLimit, all)[i] = all[Now - FetchLimit + i]
  BY <1>1, <1>2, LastOfIs
<1>4. Newest = LastOf(FetchLimit, all)
  BY DEF Newest, all
<1>5. ASSUME NEW i \in 1 .. FetchLimit
      PROVE  all[Now - FetchLimit + i] = Now - FetchLimit + i
  BY <1>1, <1>2
<1> QED
  BY <1>3, <1>4, <1>5 DEF Now

LEMMA LoadedIs ==
  ASSUME CandlesTypeOK
  PROVE  /\ Loaded(candles, Newest) \in Seq(Nat)
         /\ minutes + 5 <= FetchLimit =>
              /\ Len(Loaded(candles, Newest)) = minutes + 5
              /\ \A i \in 1 .. minutes + 5 :
                   Loaded(candles, Newest)[i] = Len(bars) - (minutes + 5) + i
<1> DEFINE both == candles \o Newest
           keep == minutes + 5
<1>1. /\ keep \in Nat \ {0} /\ FetchLimit \in Nat \ {0}
      /\ candles \in Seq(Nat) /\ Len(bars) \in Nat
  BY CandlesAssumption DEF CandlesTypeOK
<1>2. /\ Newest \in Seq(Nat) /\ Len(Newest) = FetchLimit
      /\ \A i \in 1 .. FetchLimit : Newest[i] = Len(bars) - FetchLimit + i
  BY NewestIs
<1>3. /\ both \in Seq(Nat) /\ Len(both) = Len(candles) + FetchLimit
      /\ \A i \in 1 .. FetchLimit : both[Len(candles) + i] = Newest[i]
  <2>1. Len(candles) \in Nat /\ candles \in Seq(Nat) /\ Newest \in Seq(Nat)
    BY <1>1, <1>2
  <2>2. both \in Seq(Nat) /\ Len(both) = Len(candles) + FetchLimit
    <3>1. both \in Seq(Nat)
      BY <2>1
    <3>2. Len(both) = Len(candles) + Len(Newest)
      BY <2>1
    <3> QED
      BY <1>2, <3>1, <3>2
  <2>3. ASSUME NEW i \in 1 .. FetchLimit
        PROVE  both[Len(candles) + i] = Newest[i]
    <3>1. Len(candles) + i \in 1 .. Len(candles) + Len(Newest) /\ Len(candles) + i > Len(candles)
      BY <1>1, <1>2, <2>1
    <3>2. (Len(candles) + i) - Len(candles) = i
      BY <1>1, <2>1
    <3> QED
      BY <2>1, <3>1, <3>2
  <2> QED
    BY <2>2, <2>3
<1>4. Loaded(candles, Newest) = LastOf(keep, both)
  BY DEF Loaded
<1> HIDE DEF both, keep
<1>5. LastOf(keep, both) \in Seq(Nat)
  <2>1. Len(both) \in Nat /\ Len(both) - keep + 1 \in Int
    BY <1>1, <1>3
  <2>2. Max({1, Len(both) - keep + 1}) >= 1 /\ Max({1, Len(both) - keep + 1}) \in Nat
    BY <2>1, LargerOf
  <2> DEFINE m == Max({1, Len(both) - keep + 1})
  <2>3. LastOf(keep, both) = SubSeq(both, m, Len(both))
    BY DEF LastOf
  <2>4. m \in Nat /\ m >= 1
    BY <2>2
  <2> HIDE DEF m
  <2>5. ASSUME NEW i \in m .. Len(both)
        PROVE  both[i] \in Nat
    BY <1>3, <2>1, <2>4
  <2> QED
    BY <1>3, <2>1, <2>3, <2>4, <2>5
<1>6. ASSUME keep <= FetchLimit
      PROVE  /\ Len(LastOf(keep, both)) = keep
             /\ \A i \in 1 .. keep : LastOf(keep, both)[i] = Len(bars) - keep + i
  <2>1. Len(candles) \in Nat
    BY <1>1
  <2>2. Len(both) >= keep
    BY <1>1, <1>3, <1>6, <2>1
  <2>3. /\ Len(LastOf(keep, both)) = keep
        /\ \A i \in 1 .. keep : LastOf(keep, both)[i] = both[Len(both) - keep + i]
    BY <1>1, <1>3, <2>2, LastOfIs
  <2>4. ASSUME NEW i \in 1 .. keep
        PROVE  both[Len(both) - keep + i] = Len(bars) - keep + i
    <3> DEFINE j == FetchLimit - keep + i
    <3>1. j \in 1 .. FetchLimit /\ Len(both) - keep + i = Len(candles) + j
      BY <1>1, <1>3, <1>6, <2>1
    <3>2. Len(bars) - FetchLimit + j = Len(bars) - keep + i
      BY <1>1, <1>6
    <3> HIDE DEF j
    <3> QED
      BY <1>2, <1>3, <3>1, <3>2
  <2> QED
    BY <2>3, <2>4
<1> QED
  BY <1>4, <1>5, <1>6 DEF keep

LEMMA WindowInit == CandlesInit => WindowInv
<1> SUFFICES ASSUME CandlesInit PROVE WindowInv
  OBVIOUS
<1>1. PICK s \in Shapes : bars = [i \in 1 .. FetchLimit |-> s]
  BY DEF CandlesInit
<1>2. bars \in Seq(Shapes) /\ Len(bars) = FetchLimit
  BY <1>1, CandlesAssumption
<1> QED
  BY <1>2, CandlesAssumption DEF CandlesInit, WindowInv, CandlesTypeOK, WindowHoldsEachOnce

LEMMA WindowStep == WindowInv /\ [CandlesNext]_candlesVars => WindowInv'
<1> SUFFICES ASSUME WindowInv, [CandlesNext]_candlesVars PROVE WindowInv'
  OBVIOUS
<1> USE DEF WindowInv
<1>1. CASE MinutePasses
  <2>1. PICK s \in Shapes : bars' = Append(bars, s)
    BY <1>1 DEF MinutePasses
  <2>2. bars' \in Seq(Shapes) /\ Len(bars') = Len(bars) + 1 /\ Len(bars) \in Nat
    BY <2>1 DEF CandlesTypeOK
  <2>3. minutes' = minutes /\ candles' = candles /\ fetched' = fetched
    BY <1>1 DEF MinutePasses
  <2> QED
    BY <2>2, <2>3, CandlesAssumption DEF CandlesTypeOK, WindowHoldsEachOnce
<1>2. CASE PriceTick
  <2>1. minutes' = minutes /\ bars' = bars
    BY <1>2 DEF PriceTick
  <2>2. CASE candles' = Loaded(candles, Newest) /\ fetched' = Now
    <3>1. /\ candles' \in Seq(Nat)
          /\ minutes + 5 <= FetchLimit =>
               /\ Len(candles') = minutes + 5
               /\ \A i \in 1 .. minutes + 5 : candles'[i] = Len(bars) - (minutes + 5) + i
      BY <2>2, LoadedIs
    <3>2. fetched' = Len(bars) /\ Len(bars) \in Nat
      BY <2>2 DEF Now, CandlesTypeOK
    <3>3. CandlesTypeOK'
      BY <2>1, <3>1, <3>2 DEF CandlesTypeOK
    <3>4. ASSUME minutes + 5 <= FetchLimit, NEW i \in DOMAIN candles'
          PROVE  candles'[i] = fetched' - Len(candles') + i
      <4>1. i \in 1 .. minutes + 5
        BY <3>1, <3>4
      <4> QED
        BY <3>1, <3>2, <3>4, <4>1
    <3> QED
      BY <2>1, <3>3, <3>4 DEF WindowHoldsEachOnce
  <2>3. CASE UNCHANGED <<candles, fetched>>
    BY <2>1, <2>3 DEF CandlesTypeOK, WindowHoldsEachOnce
  <2> QED
    BY <1>2, <2>2, <2>3 DEF PriceTick
<1>3. CASE UNCHANGED candlesVars
  BY <1>3 DEF candlesVars, CandlesTypeOK, WindowHoldsEachOnce
<1> QED
  BY <1>1, <1>2, <1>3 DEF CandlesNext

\* fetch_candles, update_candles: while a batch fills the window, the overlapping batches
\* leave each minute in it once and in order, up to the minute of the last fetch, for
\* any window, any batch and any market, with fetches that fail and minutes missed.
THEOREM EachMinuteIsHeldOnce == CandlesSpec => []WindowHoldsEachOnce
<1>1. WindowInv => WindowHoldsEachOnce
  BY DEF WindowInv
<1> QED
  BY <1>1, WindowInit, WindowStep, PTL DEF CandlesSpec

-----------------------------------------------------------------------------
(* Candles: the moves of a crash.                                          *)

\* A window of bars there are.
OfBars(w) == w \in Seq(1 .. Now)

\* A sum over the bars of a window is the sum of their values.
LEMMA MovesAdd ==
  ASSUME bars \in Seq(Shapes), NEW w, OfBars(w),
         \A i \in 1 .. Len(w) : bars[w[i]].move <= -40
  PROVE  /\ SumOf(LAMBDA b : b.move, w) \in Int
         /\ SumOf(LAMBDA b : b.move, w) <= -40 * Len(w)
<1> DEFINE n == Len(w)
           val == [i \in 1 .. n |-> bars[w[i]].move]
           IsSum(iter) == iter = [t \in SUBSET (1 .. n) |->
                            IF t = {} THEN 0 ELSE iter[t \ {Max(t)}] + bars[w[Max(t)]].move]
<1>1. n \in Nat /\ DOMAIN w = 1 .. n /\ \A i \in 1 .. n : w[i] \in 1 .. Len(bars)
  BY DEF OfBars, Now
<1>2. val \in [1 .. n -> Int] /\ \A i \in 1 .. n : val[i] <= -40
  <2>1. \A i \in 1 .. n : bars[w[i]] \in Shapes
    BY <1>1
  <2>2. \A i \in 1 .. n : bars[w[i]].move \in Int
    BY <2>1, CandlesAssumption
  <2> QED
    BY <2>2
<1>3. SumOf(LAMBDA b : b.move, w) = (CHOOSE iter : IsSum(iter))[1 .. n]
  BY <1>1 DEF SumOf, FoldLeft, MapThenFoldSet
<1>4. \A t \in SUBSET (1 .. n) : t # {} => val[Max(t)] = bars[w[Max(t)]].move
  <2> HIDE DEF n, val
  <2>1. \A t \in SUBSET (1 .. n) : t # {} => Max(t) \in 1 .. n
    BY <1>1, MaxIsIn
  <2> QED
    BY <2>1 DEF val
<1>5. \A iter : IsSum(iter) <=> Accumulates(n, val, iter)
  <2> SUFFICES ASSUME NEW iter PROVE IsSum(iter) <=> Accumulates(n, val, iter)
    OBVIOUS
  <2> DEFINE A == [t \in SUBSET (1 .. n) |->
                     IF t = {} THEN 0 ELSE iter[t \ {Max(t)}] + bars[w[Max(t)]].move]
             B == [t \in SUBSET (1 .. n) |-> IF t = {} THEN 0 ELSE iter[t \ {Max(t)}] + val[Max(t)]]
  <2> HIDE DEF val
  <2>1. A = B
    BY <1>4
  <2>2. IsSum(iter) <=> iter = A
    OBVIOUS
  <2>3. Accumulates(n, val, iter) <=> iter = B
    BY DEF Accumulates
  <2> HIDE DEF A, B, IsSum
  <2> QED
    BY <2>1, <2>2, <2>3
<1> HIDE DEF val, n, IsSum
<1> DEFINE sum == CHOOSE iter : IsSum(iter)
<1>6. Accumulates(n, val, sum)
  <2>1. \E iter : Accumulates(n, val, iter)
    BY <1>1, <1>2, SumAccumulates
  <2>2. \E iter : IsSum(iter)
    BY <1>5, <2>1
  <2>3. IsSum(sum)
    BY <2>2
  <2> QED
    BY <1>5, <2>3
<1> HIDE DEF sum
<1>7. sum[1 .. n] \in Int /\ sum[1 .. n] <= -40 * n
  <2> DEFINE c == -40
  <2>1. c \in Int /\ \A i \in 1 .. n : val[i] <= c
    BY <1>2
  <2> HIDE DEF c
  <2>2. n \in Nat /\ val \in [1 .. n -> Int]
    BY <1>1, <1>2
  <2>3. sum[1 .. n] \in Int /\ sum[1 .. n] <= c * n
    BY <1>6, <2>1, <2>2, SumIsBounded
  <2>4. c * n = -40 * n
    BY <1>1 DEF c
  <2> QED
    BY <2>3, <2>4
<1> QED
  <2>1. sum = CHOOSE iter : IsSum(iter)
    BY DEF sum
  <2> QED
    BY <1>3, <1>7, <2>1 DEF n

\* The bars of a window count for at least 4660 each.
Wide(w) == \A i \in 1 .. Len(w) : Estimate(bars[w[i]]) \in Int /\ Estimate(bars[w[i]]) >= 4660

LEMMA EstimatesAdd ==
  ASSUME bars \in Seq(Shapes), NEW w, OfBars(w),
         Wide(w)
  PROVE  /\ SumOf(Estimate, w) \in Int
         /\ SumOf(Estimate, w) >= 4660 * Len(w)
<1> DEFINE total == SumOf(Estimate, w)
           n == Len(w)
           val == [i \in 1 .. n |-> Estimate(bars[w[i]])]
           IsSum(iter) == iter = [t \in SUBSET (1 .. n) |->
                            IF t = {} THEN 0 ELSE iter[t \ {Max(t)}] + Estimate(bars[w[Max(t)]])]
<1>1. n \in Nat /\ DOMAIN w = 1 .. n /\ \A i \in 1 .. n : w[i] \in 1 .. Len(bars)
  BY DEF OfBars, Now
<1>2. val \in [1 .. n -> Int] /\ \A i \in 1 .. n : val[i] >= 4660
  BY DEF Wide
<1>3. total = (CHOOSE iter : IsSum(iter))[1 .. n]
  BY <1>1 DEF SumOf, FoldLeft, MapThenFoldSet
<1>4. \A t \in SUBSET (1 .. n) : t # {} => val[Max(t)] = Estimate(bars[w[Max(t)]])
  <2> HIDE DEF n, val
  <2>1. \A t \in SUBSET (1 .. n) : t # {} => Max(t) \in 1 .. n
    BY <1>1, MaxIsIn
  <2> QED
    BY <2>1 DEF val
<1>5. \A iter : IsSum(iter) <=> Accumulates(n, val, iter)
  <2> SUFFICES ASSUME NEW iter PROVE IsSum(iter) <=> Accumulates(n, val, iter)
    OBVIOUS
  <2> DEFINE A == [t \in SUBSET (1 .. n) |->
                     IF t = {} THEN 0 ELSE iter[t \ {Max(t)}] + Estimate(bars[w[Max(t)]])]
             B == [t \in SUBSET (1 .. n) |-> IF t = {} THEN 0 ELSE iter[t \ {Max(t)}] + val[Max(t)]]
  <2> HIDE DEF val
  <2>1. A = B
    BY <1>4
  <2>2. IsSum(iter) <=> iter = A
    OBVIOUS
  <2>3. Accumulates(n, val, iter) <=> iter = B
    BY DEF Accumulates
  <2> HIDE DEF A, B, IsSum
  <2> QED
    BY <2>1, <2>2, <2>3
<1> HIDE DEF val, n, IsSum, total
<1> DEFINE sum == CHOOSE iter : IsSum(iter)
<1>6. Accumulates(n, val, sum)
  <2>1. \E iter : Accumulates(n, val, iter)
    BY <1>1, <1>2, SumAccumulates
  <2>2. \E iter : IsSum(iter)
    BY <1>5, <2>1
  <2>3. IsSum(sum)
    BY <2>2
  <2> QED
    BY <1>5, <2>3
<1> HIDE DEF sum
<1>7. sum[1 .. n] \in Int /\ sum[1 .. n] >= 4660 * n
  <2> DEFINE c == 4660
  <2>1. c \in Int /\ \A i \in 1 .. n : val[i] >= c
    BY <1>2
  <2> HIDE DEF c
  <2>2. n \in Nat /\ val \in [1 .. n -> Int]
    BY <1>1, <1>2
  <2>3. sum[1 .. n] \in Int /\ sum[1 .. n] >= c * n
    BY <1>6, <2>1, <2>2, SumIsBounded
  <2> QED
    BY <2>3 DEF c
<1> QED
  <2>1. sum = CHOOSE iter : IsSum(iter)
    BY DEF sum
  <2>2. total \in Int /\ total >= 4660 * n
    BY <1>3, <1>7, <2>1
  <2> QED
    BY <2>2 DEF n, total

LEMMA EstimateOf ==
  ASSUME NEW b, b.range \in Nat, b.move \in Int, b.range >= 110, b.move \in -60 .. -40
  PROVE  Estimate(b) \in Int /\ Estimate(b) >= 4660
<1> DEFINE r == b.range
           m == b.move
<1>1. r \in Nat /\ m \in Int /\ r >= 110 /\ m \in -60 .. -40
  OBVIOUS
<1>2. Estimate(b) = (500 * r * r - 386 * m * m) \div 1000
  BY DEF Estimate
<1> HIDE DEF r, m
<1>3. r * r >= 12100 /\ r * r \in Int
  BY <1>1
<1>4. m * m <= 3600 /\ m * m \in Int
  <2>1. \A k \in 40 .. 60 : k * k <= 3600
    OBVIOUS
  <2>2. -m \in 40 .. 60 /\ (-m) * (-m) = m * m
    BY <1>1
  <2> QED
    BY <2>1, <2>2
<1>5. 500 * r * r = 500 * (r * r) /\ 386 * m * m = 386 * (m * m)
  BY <1>1
<1> DEFINE x == r * r
           y == m * m
<1>6. x >= 12100 /\ x \in Int /\ y <= 3600 /\ y \in Int
  BY <1>3, <1>4
<1>7. Estimate(b) = (500 * x - 386 * y) \div 1000
  BY <1>2, <1>5
<1> HIDE DEF x, y
<1>8. (500 * x - 386 * y) \div 1000 >= 4660 /\ (500 * x - 386 * y) \div 1000 \in Int
  BY <1>6
<1> QED
  BY <1>7, <1>8

LEMMA LastOfPart ==
  ASSUME NEW T, NEW s \in Seq(T), NEW n \in Nat \ {0}
  PROVE  LastOf(n, s) \in Seq(T)
<1> DEFINE m == Max({1, Len(s) - n + 1})
<1>1. Len(s) \in Nat /\ Len(s) - n + 1 \in Int
  OBVIOUS
<1>2. m \in Nat /\ m >= 1
  <2>1. \A k \in Int : Max({1, k}) = IF 1 >= k THEN 1 ELSE k
    BY SMT DEF Max
  <2> QED
    BY <1>1, <2>1
<1>3. LastOf(n, s) = SubSeq(s, m, Len(s))
  BY DEF LastOf
<1> HIDE DEF m
<1>4. \A i \in m .. Len(s) : s[i] \in T
  BY <1>1, <1>2
<1> QED
  BY <1>1, <1>2, <1>3, <1>4

CrashTypeOK ==
  /\ minutes \in WindowMinutes
  /\ bars \in Seq(Shapes)
  /\ OfBars(candles)
  /\ \E kind : obs \in Seq(kind)

CrashInv == CrashTypeOK /\ CrashIsSeen

LEMMA LoadedIsKnown ==
  ASSUME CrashTypeOK
  PROVE  OfBars(Loaded(candles, Newest))
<1> DEFINE all == [i \in 1 .. Now |-> i]
           T == 1 .. Now
<1>1. Now \in Nat /\ minutes + 5 \in Nat \ {0} /\ FetchLimit \in Nat \ {0} /\ candles \in Seq(T)
  BY CandlesAssumption DEF CrashTypeOK, Now, OfBars
<1>2. all \in Seq(T)
  BY <1>1
<1>3. Newest = LastOf(FetchLimit, all)
  BY DEF Newest
<1>4. Loaded(candles, Newest) = LastOf(minutes + 5, candles \o Newest)
  BY DEF Loaded
<1> HIDE DEF all, T
<1>5. Newest \in Seq(T)
  BY <1>1, <1>2, <1>3, LastOfPart
<1>6. candles \o Newest \in Seq(T)
  BY <1>1, <1>5
<1>7. LastOf(minutes + 5, candles \o Newest) \in Seq(T)
  BY <1>1, <1>6, LastOfPart
<1> QED
  BY <1>4, <1>7 DEF OfBars, T

\* The rules, of a window of three or more wide candles that fall.
LEMMA CrashDecoded ==
  ASSUME bars \in Seq(Shapes), NEW w, OfBars(w), Len(w) >= 3,
         \A i \in DOMAIN w : bars[w[i]].range >= 110 /\ bars[w[i]].move \in -60 .. -40
  PROVE  Fallback(Features(w)) = "HIGH_VOL_CRASH"
<1> DEFINE n == Len(w)
<1>1. /\ n \in Nat /\ n >= 3 /\ DOMAIN w = 1 .. n
      /\ \A i \in 1 .. n : w[i] \in 1 .. Len(bars)
      /\ w \in Seq(1 .. Now) /\ w # <<>>
  BY DEF OfBars, Now
<1>2. /\ Tail(w) \in Seq(1 .. Now) /\ Len(Tail(w)) = n - 1
      /\ \A i \in 1 .. n - 1 : Tail(w)[i] = w[i + 1]
  BY <1>1
<1>3. \A i \in 1 .. n : bars[w[i]].move <= -40 /\ Estimate(bars[w[i]]) \in Int /\ Estimate(bars[w[i]]) >= 4660
  <2> SUFFICES ASSUME NEW i \in 1 .. n
               PROVE  bars[w[i]].move <= -40 /\ Estimate(bars[w[i]]) \in Int /\ Estimate(bars[w[i]]) >= 4660
    OBVIOUS
  <2>1. bars[w[i]] \in Shapes
    BY <1>1
  <2>2. bars[w[i]].range \in Nat /\ bars[w[i]].move \in Int
    BY <2>1, CandlesAssumption
  <2>3. bars[w[i]].range >= 110 /\ bars[w[i]].move \in -60 .. -40
    BY <1>1
  <2>4. bars[w[i]].move <= -40
    <3>1. \A x \in -60 .. -40 : x <= -40
      OBVIOUS
    <3> QED
      BY <2>3, <3>1, Zenon
  <2> QED
    BY <2>2, <2>3, <2>4, EstimateOf
<1>4. \A i \in 1 .. Len(Tail(w)) : bars[Tail(w)[i]].move <= -40
  <2> SUFFICES ASSUME NEW i \in 1 .. n - 1 PROVE bars[Tail(w)[i]].move <= -40
    BY <1>2
  <2>1. i + 1 \in 1 .. n /\ Tail(w)[i] = w[i + 1]
    BY <1>1, <1>2
  <2> QED
    BY <1>3, <2>1
<1>5. Wide(w) /\ OfBars(Tail(w)) /\ \A i \in 1 .. Len(w) : bars[w[i]].move <= -40
  BY <1>2, <1>3 DEF Wide, OfBars
<1> DEFINE f == Features(w)
           total == SumOf(Estimate, w)
           direction == SumOf(LAMBDA b : b.move, w)
           roc == SumOf(LAMBDA b : b.move, Tail(w))
<1>6. total \in Int /\ total >= 4660 * n
  BY <1>5, EstimatesAdd
<1>7. direction \in Int /\ direction <= -40 * n
  BY <1>5, MovesAdd
<1>8. roc \in Int /\ roc <= -40 * (n - 1)
  BY <1>2, <1>4, <1>5, MovesAdd
<1>9. f.n = n /\ f.variance = total /\ f.direction = direction /\ f.roc = roc
  BY DEF Features
<1> HIDE DEF f, total, direction, roc
<1>10. f.variance > 50 * 50 * f.n /\ f.direction < -30 * f.n /\ f.roc < -40
  BY <1>1, <1>6, <1>7, <1>8, <1>9
<1>11. Fallback(f) = "HIGH_VOL_CRASH"
  BY <1>10 DEF Fallback, Above
<1> QED
  BY <1>11 DEF f

LEMMA CrashInit == CandlesInit => CrashInv
<1> SUFFICES ASSUME CandlesInit PROVE CrashInv
  OBVIOUS
<1>1. PICK s \in Shapes : bars = [i \in 1 .. FetchLimit |-> s]
  BY DEF CandlesInit
<1>2. bars \in Seq(Shapes)
  BY <1>1, CandlesAssumption
<1>3. candles = <<>> /\ minutes \in WindowMinutes
  BY DEF CandlesInit
<1>4. OfBars(candles) /\ Len(candles) = 0 /\ obs \in Seq({})
  BY <1>3 DEF CandlesInit, OfBars
<1> QED
  BY <1>2, <1>3, <1>4 DEF CrashInv, CrashTypeOK, CrashIsSeen

LEMMA CrashStep == CrashInv /\ [CandlesNext]_candlesVars => CrashInv'
<1> SUFFICES ASSUME CrashInv, [CandlesNext]_candlesVars PROVE CrashInv'
  OBVIOUS
<1>1. CrashTypeOK /\ CrashIsSeen
  BY DEF CrashInv
<1>2. CASE MinutePasses
  <2>1. PICK s \in Shapes : bars' = Append(bars, s)
    BY <1>2 DEF MinutePasses
  <2>2. UNCHANGED <<minutes, learned, candles, obs, hmm>>
    BY <1>2 DEF MinutePasses
  <2>3. /\ bars' \in Seq(Shapes) /\ Len(bars') = Len(bars) + 1 /\ Len(bars) \in Nat
        /\ \A i \in 1 .. Len(bars) : bars'[i] = bars[i]
    BY <1>1, <2>1 DEF CrashTypeOK
  <2>4. candles \in Seq(1 .. Len(bars))
    BY <1>1 DEF CrashTypeOK, OfBars, Now
  <2>5. candles \in Seq(1 .. Len(bars) + 1)
    <3>1. 1 .. Len(bars) \subseteq 1 .. Len(bars) + 1
      BY <2>3
    <3> QED
      BY <2>4, <3>1
  <2>6. \A i \in DOMAIN candles : bars'[candles[i]] = bars[candles[i]]
    BY <2>3, <2>4
  <2>7. CrashTypeOK'
    BY <1>1, <2>2, <2>3, <2>5 DEF CrashTypeOK, OfBars, Now
  <2>8. CrashIsSeen'
    BY <1>1, <2>2, <2>6 DEF CrashIsSeen
  <2> QED
    BY <2>7, <2>8 DEF CrashInv
<1>3. CASE PriceTick
  <2>1. UNCHANGED <<minutes, learned, bars>>
    BY <1>3 DEF PriceTick
  <2>2. candles' = Loaded(candles, Newest) \/ candles' = candles
    BY <1>3 DEF PriceTick
  <2>3. OfBars(candles')
    BY <1>1, <2>2, LoadedIsKnown DEF CrashTypeOK
  <2>4. \E kind : obs' \in Seq(kind)
    <3>1. CASE obs' = obs
      BY <1>1, <3>1 DEF CrashTypeOK
    <3>2. CASE obs' # obs
      <4>1. PICK x : obs' = LastOf(Lookback, Append(obs, x))
        BY <1>3, <3>2 DEF PriceTick
      <4>2. PICK kind : obs \in Seq(kind)
        BY <1>1 DEF CrashTypeOK
      <4>3. Append(obs, x) \in Seq(kind \cup {x})
        BY <4>2
      <4>4. Lookback \in Nat \ {0}
        BY CandlesAssumption
      <4> QED
        BY <4>1, <4>3, <4>4, LastOfPart
    <3> QED
      BY <3>1, <3>2
  <2>5. CrashTypeOK'
    BY <1>1, <2>1, <2>3, <2>4 DEF CrashTypeOK, OfBars, Now
  <2>6. ASSUME CrashIsSeen' = FALSE PROVE FALSE
    <3>1. /\ ~learned /\ Len(candles') >= 3 /\ Len(obs') >= MinObs
          /\ \A i \in DOMAIN candles' : bars[candles'[i]].range >= 110 /\ bars[candles'[i]].move \in -60 .. -40
          /\ hmm' # "HIGH_VOL_CRASH"
      BY <2>1, <2>6 DEF CrashIsSeen
    <3>2. /\ ~(Len(candles') < 3)
          /\ ~(Len(obs') < MinObs)
      <4>1. Len(candles') \in Nat
        BY <2>3 DEF OfBars
      <4>2. MinObs \in Nat /\ Len(obs') \in Int
        BY <2>4, CandlesAssumption
      <4> QED
        BY <3>1, <4>1, <4>2
    <3>3. hmm' = Fallback(Features(candles'))
      BY <1>3, <3>1, <3>2 DEF PriceTick
    <3>4. Fallback(Features(candles')) = "HIGH_VOL_CRASH"
      BY <1>1, <2>3, <3>1, CrashDecoded DEF CrashTypeOK
    <3> QED
      BY <3>1, <3>3, <3>4
  <2>7. CrashIsSeen'
    BY <2>6 DEF CrashIsSeen
  <2> QED
    BY <2>5, <2>7 DEF CrashInv
<1>4. CASE UNCHANGED candlesVars
  BY <1>1, <1>4 DEF candlesVars, CrashInv, CrashTypeOK, CrashIsSeen, OfBars, Now
<1> QED
  BY <1>2, <1>3, <1>4 DEF CandlesNext

\* _fallback_decode, zhang_zhang_vol and hmm_features: whatever the lengths of the
\* window, of the batches and of the lookback, a window of three or more wide candles
\* that fall is decoded as a crash, however often a minute is in it, unless a model
\* says otherwise.
THEOREM ACrashIsSeen == CandlesSpec => []CrashIsSeen
<1>1. CrashInv => CrashIsSeen
  BY DEF CrashInv
<1> QED
  BY <1>1, CrashInit, CrashStep, PTL DEF CandlesSpec

-----------------------------------------------------------------------------
(* Regime: the filter and what is published.                               *)

\* What the filter may believe: four weights, not all of them 0.
Beliefs == {b \in [1 .. 4 -> Nat] : b[1] + b[2] + b[3] + b[4] > 0}

LEMMA Shares ==
  ASSUME NEW a \in Nat, NEW s \in Nat \ {0}
  PROVE  a \div s \in Nat /\ (a >= s => a \div s > 0)
OBVIOUS

LEMMA NormalisedIs ==
  ASSUME NEW v \in Beliefs
  PROVE  Normalised(v) \in Beliefs
<1> DEFINE s == v[1] + v[2] + v[3] + v[4]
           w == << (1000 * v[1]) \div s, (1000 * v[2]) \div s, (1000 * v[3]) \div s, (1000 * v[4]) \div s >>
<1>1. Normalised(v) = w
  BY DEF Normalised, Vector
<1>2. /\ s \in Nat \ {0}
      /\ v[1] \in Nat /\ v[2] \in Nat /\ v[3] \in Nat /\ v[4] \in Nat
  BY DEF Beliefs
<1>3. 1000 * v[1] >= s \/ 1000 * v[2] >= s \/ 1000 * v[3] >= s \/ 1000 * v[4] >= s
  BY <1>2
<1> HIDE DEF s
<1>4. \A i \in 1 .. 4 : (1000 * v[i]) \div s \in Nat /\ (1000 * v[i] >= s => (1000 * v[i]) \div s > 0)
  <2> SUFFICES ASSUME NEW i \in 1 .. 4
               PROVE  (1000 * v[i]) \div s \in Nat /\ (1000 * v[i] >= s => (1000 * v[i]) \div s > 0)
    OBVIOUS
  <2>1. 1000 * v[i] \in Nat
    BY <1>2
  <2> QED
    BY <1>2, <2>1, Shares
<1>5. w \in [1 .. 4 -> Nat] /\ \A i \in 1 .. 4 : w[i] = (1000 * v[i]) \div s
  BY <1>4
<1> HIDE DEF w
<1>6. w[1] + w[2] + w[3] + w[4] > 0
  BY <1>3, <1>4, <1>5
<1> QED
  BY <1>1, <1>5, <1>6 DEF Beliefs

\* argmax: the first of the likeliest.
LEMMA MostLikelyIs ==
  ASSUME NEW b \in Beliefs
  PROVE  MostLikely(b) \in {"RANGING", "TRENDING", "HIGH_VOL", "THIN_BOOK"}
<1> DEFINE best == {s \in Hidden : \A other \in Hidden : b[other] <= b[s]}
<1>1. best # {} /\ best \in SUBSET Nat /\ best \in SUBSET (1 .. 4)
  BY DEF Beliefs, Hidden
<1>2. MostLikely(b) = Regimes[Min(best)]
  BY DEF MostLikely
<1> HIDE DEF best
<1>3. Min(best) \in best
  <2>1. PICK m \in best : \A k \in best : m <= k
    BY <1>1, LeastNatural
  <2> QED
    BY <1>1, <2>1 DEF Min
<1>4. Min(best) \in 1 .. 4
  BY <1>1, <1>3
<1> QED
  BY <1>2, <1>4 DEF Regimes

\* belief @ A, of one regime.
Into(b, s) == MapThenSumSet(LAMBDA from : b[from] * Goes[from][s], Hidden)

LEMMA GoesIs == \A from \in 1 .. 4, s \in 1 .. 4 : Goes[from][s] \in Nat /\ Goes[from][s] >= 5
BY DEF Goes

\* A sum whose elements may be taken in any order.
TakesAny(S, f, sum) ==
  sum[{}] = 0 /\ \A t \in SUBSET S : \A x \in t : sum[t] = f[x] + sum[t \ {x}]

LEMMA FourAre ==
  ASSUME NEW f \in [1 .. 4 -> Int], NEW sum, TakesAny(1 .. 4, f, sum)
  PROVE  sum[1 .. 4] = f[1] + f[2] + f[3] + f[4]
<1> DEFINE S == 1 .. 4
           S3 == S \ {4}
           S2 == S3 \ {3}
           S1 == S2 \ {2}
<1>1. /\ S \in SUBSET S /\ 4 \in S /\ S \ {4} = S3
      /\ S3 \in SUBSET S /\ 3 \in S3 /\ S3 \ {3} = S2
      /\ S2 \in SUBSET S /\ 2 \in S2 /\ S2 \ {2} = S1
      /\ S1 \in SUBSET S /\ 1 \in S1 /\ S1 \ {1} = {}
  OBVIOUS
<1>2. f[1] \in Int /\ f[2] \in Int /\ f[3] \in Int /\ f[4] \in Int
  OBVIOUS
<1>3. sum[{}] = 0 /\ \A t \in SUBSET S : \A x \in t : sum[t] = f[x] + sum[t \ {x}]
  BY DEF TakesAny
<1> HIDE DEF S1, S2, S3, S
<1>4. sum[S] = f[4] + sum[S3] /\ sum[S3] = f[3] + sum[S2] /\ sum[S2] = f[2] + sum[S1]
  <2>1. sum[S] = f[4] + sum[S \ {4}]
    <3>1. \A t : t \in SUBSET S => \A x \in t : sum[t] = f[x] + sum[t \ {x}]
      BY <1>3
    <3>2. S \in SUBSET S => \A x \in S : sum[S] = f[x] + sum[S \ {x}]
      BY <3>1, Zenon
    <3> QED
      BY <1>1, <3>2
  <2>2. sum[S3] = f[3] + sum[S3 \ {3}]
    BY <1>1, <1>3
  <2>3. sum[S2] = f[2] + sum[S2 \ {2}]
    BY <1>1, <1>3
  <2> QED
    BY <1>1, <2>1, <2>2, <2>3
<1>5. sum[S1] = f[1] + sum[S1 \ {1}]
  BY <1>1, <1>3
<1>6. sum[S1] = f[1] + 0
  BY <1>1, <1>3, <1>5
<1>7. sum[S] = f[1] + f[2] + f[3] + f[4]
  BY <1>2, <1>4, <1>6
<1> QED
  BY <1>7 DEF S

LEMMA IntoIs ==
  ASSUME NEW b \in [1 .. 4 -> Nat], NEW s \in 1 .. 4
  PROVE  Into(b, s) = b[1] * Goes[1][s] + b[2] * Goes[2][s] + b[3] * Goes[3][s] + b[4] * Goes[4][s]
<1> DEFINE f == [from \in Hidden |-> b[from] * Goes[from][s]]
           IsSum(iter) == iter = [t \in SUBSET Hidden |-> IF t = {} THEN 0
                            ELSE b[CHOOSE x \in t : TRUE] * Goes[CHOOSE x \in t : TRUE][s]
                                 + iter[t \ {CHOOSE x \in t : TRUE}]]
<1>1. Hidden = 1 .. 4 /\ IsFiniteSet(Hidden)
  <2>1. 1 \in Int /\ 4 \in Int
    OBVIOUS
  <2>2. IsFiniteSet(1 .. 4)
    BY <2>1, FS_Interval
  <2> QED
    BY <2>2 DEF Hidden
<1>2. \A from \in Hidden : b[from] * Goes[from][s] \in Nat
  <2>1. \A from \in 1 .. 4 : b[from] \in Nat /\ Goes[from][s] \in Nat
    BY GoesIs
  <2>2. \A m, n \in Nat : m * n \in Nat
    OBVIOUS
  <2> QED
    BY <1>1, <2>1, <2>2
<1>3. f \in [Hidden -> Nat] /\ \A from \in Hidden : f[from] = b[from] * Goes[from][s]
  BY <1>2
<1>4. Into(b, s) = (CHOOSE iter : IsSum(iter))[Hidden]
  BY DEF Into, MapThenSumSet, MapThenFoldSet
<1> HIDE DEF f
<1>5. \A iter : IsSum(iter) <=> Sums(Hidden, f, iter)
  <2> SUFFICES ASSUME NEW iter PROVE IsSum(iter) <=> Sums(Hidden, f, iter)
    OBVIOUS
  <2> DEFINE product(t) == b[CHOOSE x \in t : TRUE] * Goes[CHOOSE x \in t : TRUE][s]
             A == [t \in SUBSET Hidden |-> IF t = {} THEN 0 ELSE product(t) + iter[t \ {AnyOf(t)}]]
             B == [t \in SUBSET Hidden |-> IF t = {} THEN 0 ELSE f[AnyOf(t)] + iter[t \ {AnyOf(t)}]]
  <2>1. \A t \in SUBSET Hidden : t # {} => (CHOOSE x \in t : TRUE) \in Hidden
    OBVIOUS
  <2>2. A = B
    <3>1. \A t \in SUBSET Hidden : t # {} => f[AnyOf(t)] = product(t)
      BY <1>3, <2>1 DEF AnyOf
    <3> HIDE DEF product
    <3> QED
      BY <3>1
  <2>3. IsSum(iter) <=> iter = A
    BY DEF AnyOf
  <2>4. Sums(Hidden, f, iter) <=> iter = B
    BY DEF Sums
  <2> HIDE DEF A, B, IsSum
  <2> QED
    BY <2>2, <2>3, <2>4
<1> HIDE DEF IsSum
<1> DEFINE sum == CHOOSE iter : IsSum(iter)
<1>6. f \in [Hidden -> Int]
  BY <1>3
<1>7. \E iter : Sums(Hidden, f, iter)
  BY <1>1, <1>6, SumExists
<1>8. IsSum(sum)
  <2>1. \E iter : IsSum(iter)
    BY <1>5, <1>7
  <2> QED
    BY <2>1
<1>9. Sums(Hidden, f, sum) /\ Into(b, s) = sum[Hidden]
  BY <1>4, <1>5, <1>8
<1> HIDE DEF sum
<1>10. TakesAny(Hidden, f, sum)
  <2>1. f \in [Hidden -> Int] /\ IsFiniteSet(Hidden) /\ Sums(Hidden, f, sum)
    BY <1>1, <1>6, <1>9
  <2>2. sum[{}] = 0
    BY <2>1 DEF Sums
  <2>3. ASSUME NEW t \in SUBSET Hidden, NEW x \in t PROVE sum[t] = f[x] + sum[t \ {x}]
    BY <2>1, SumTakesAny
  <2> QED
    BY <2>2, <2>3 DEF TakesAny
<1>11. sum[Hidden] = f[1] + f[2] + f[3] + f[4]
  <2>1. TakesAny(1 .. 4, f, sum) /\ f \in [1 .. 4 -> Int]
    BY <1>1, <1>6, <1>10
  <2> QED
    BY <1>1, <2>1, FourAre
<1>12. \A from \in 1 .. 4 : f[from] = b[from] * Goes[from][s]
  BY <1>1, <1>3
<1> QED
  BY <1>9, <1>11, <1>12

\* The weights that the transition gives the regimes.
Moved(b) == <<75 * b[1] + 20 * b[2] + 15 * b[3] + 25 * b[4],
              12 * b[1] + 65 * b[2] + 10 * b[3] + 10 * b[4],
               8 * b[1] + 10 * b[2] + 65 * b[3] + 15 * b[4],
               5 * b[1] +  5 * b[2] + 10 * b[3] + 50 * b[4]>>

LEMMA PredictedIs ==
  ASSUME NEW b \in Beliefs
  PROVE  Predicted(b) = Normalised(Moved(b)) /\ Moved(b) \in Beliefs /\ Predicted(b) \in Beliefs
<1> DEFINE v == <<Into(b, 1), Into(b, 2), Into(b, 3), Into(b, 4)>>
<1>1. Predicted(b) = Normalised(v)
  BY DEF Predicted, Vector, Into
<1>2. /\ b \in [1 .. 4 -> Nat] /\ b[1] + b[2] + b[3] + b[4] > 0
      /\ b[1] \in Nat /\ b[2] \in Nat /\ b[3] \in Nat /\ b[4] \in Nat
  BY DEF Beliefs
<1>3. Into(b, 1) = 75 * b[1] + 20 * b[2] + 15 * b[3] + 25 * b[4]
  <2>1. Into(b, 1) = b[1] * Goes[1][1] + b[2] * Goes[2][1] + b[3] * Goes[3][1] + b[4] * Goes[4][1]
    BY <1>2, IntoIs
  <2> QED
    BY <1>2, <2>1 DEF Goes
<1>4. Into(b, 2) = 12 * b[1] + 65 * b[2] + 10 * b[3] + 10 * b[4]
  <2>1. Into(b, 2) = b[1] * Goes[1][2] + b[2] * Goes[2][2] + b[3] * Goes[3][2] + b[4] * Goes[4][2]
    BY <1>2, IntoIs
  <2> QED
    BY <1>2, <2>1 DEF Goes
<1>5. Into(b, 3) = 8 * b[1] + 10 * b[2] + 65 * b[3] + 15 * b[4]
  <2>1. Into(b, 3) = b[1] * Goes[1][3] + b[2] * Goes[2][3] + b[3] * Goes[3][3] + b[4] * Goes[4][3]
    BY <1>2, IntoIs
  <2> QED
    BY <1>2, <2>1 DEF Goes
<1>6. Into(b, 4) = 5 * b[1] + 5 * b[2] + 10 * b[3] + 50 * b[4]
  <2>1. Into(b, 4) = b[1] * Goes[1][4] + b[2] * Goes[2][4] + b[3] * Goes[3][4] + b[4] * Goes[4][4]
    BY <1>2, IntoIs
  <2> QED
    BY <1>2, <2>1 DEF Goes
<1>7. v = Moved(b)
  BY <1>3, <1>4, <1>5, <1>6 DEF Moved
<1>8. Moved(b) \in [1 .. 4 -> Nat] /\ Moved(b)[1] > 0
  BY <1>2 DEF Moved
<1> DEFINE w == Moved(b)
<1> HIDE DEF w, v
<1>9. w \in Beliefs
  <2>1. w \in [1 .. 4 -> Nat] /\ w[1] > 0
    BY <1>8 DEF w
  <2>2. w[1] \in Nat /\ w[2] \in Nat /\ w[3] \in Nat /\ w[4] \in Nat
    BY <2>1
  <2> QED
    BY <2>1, <2>2 DEF Beliefs
<1> QED
  BY <1>1, <1>7, <1>9, NormalisedIs DEF w, v

LEMMA SizesAre == \A k \in 1 .. 5 : Sizes[k] \in Nat \ {0}
BY DEF Sizes

\* The code after each bin, and what is left of a code after each division.
Codes(bin, code) ==
  /\ code[0] = 0 /\ \A k \in 1 .. 5 : code[k] = code[k - 1] * Sizes[k] + bin[k]
  /\ \A k \in 0 .. 5 : code[k] \in Nat

Rests(seen, rest) ==
  rest[0] = seen /\ \A k \in 1 .. 5 : rest[k] = rest[k - 1] \div Sizes[6 - k]

LEMMA EncodedIs ==
  ASSUME NEW bin, \A k \in 1 .. 5 : bin[k] \in Nat
  PROVE  EncodeObservation(bin) \in Nat /\ \E code : Codes(bin, code) /\ EncodeObservation(bin) = code[5]
<1> DEFINE IsCode(code) == code = [k \in 0 .. 5 |-> IF k = 0 THEN 0 ELSE code[k - 1] * Sizes[k] + bin[k]]
           T == Nat
           op == [p \in T \X (1 .. 5) |-> p[1] * Sizes[p[2]] + bin[p[2]]]
<1>1. EncodeObservation(bin) = (CHOOSE code : IsCode(code))[5]
  BY DEF EncodeObservation
<1>2. \A a \in Nat, k \in 1 .. 5 : a * Sizes[k] + bin[k] \in Nat
  BY SizesAre
<1>3. op \in [T \X (1 .. 5) -> T]
  BY <1>2
<1>4. \A a \in T, k \in 1 .. 5 : op[<<a, k>>] = a * Sizes[k] + bin[k]
  OBVIOUS
<1> HIDE DEF op
<1>5. \E f \in [0 .. 5 -> T] : Steps(5, 0, op, f)
  <2>1. 0 \in T /\ 5 \in Nat
    OBVIOUS
  <2> HIDE DEF T
  <2> QED
    BY <1>3, <2>1, StepsThrough, Zenon
<1>6. \E code : IsCode(code)
  <2>1. PICK f \in [0 .. 5 -> T] : Steps(5, 0, op, f)
    BY <1>5
  <2>2. \A k \in 0 .. 5 : k # 0 => k \in 1 .. 5 /\ k - 1 \in 0 .. 5
    OBVIOUS
  <2>3. \A k \in 0 .. 5 : f[k] = IF k = 0 THEN 0 ELSE f[k - 1] * Sizes[k] + bin[k]
    <3>1. \A k \in 0 .. 5 : k # 0 => f[k] = op[<<f[k - 1], k>>]
      BY <2>1 DEF Steps
    <3>2. \A k \in 0 .. 5 : k # 0 => f[k] = f[k - 1] * Sizes[k] + bin[k]
      BY <1>4, <2>1, <2>2, <3>1
    <3>3. f[0] = 0
      BY <2>1 DEF Steps
    <3> QED
      BY <3>2, <3>3
  <2>4. f = [k \in 0 .. 5 |-> IF k = 0 THEN 0 ELSE f[k - 1] * Sizes[k] + bin[k]]
    <3>1. f = [k \in 0 .. 5 |-> f[k]]
      OBVIOUS
    <3> QED
      BY <2>3, <3>1
  <2> QED
    BY <2>4
<1> DEFINE c == CHOOSE code : IsCode(code)
<1>7. IsCode(c)
  BY <1>6
<1> HIDE DEF c
<1>8. c[0] = 0 /\ \A k \in 1 .. 5 : c[k] = c[k - 1] * Sizes[k] + bin[k]
  BY <1>7
<1> HIDE DEF IsCode
<1>9. c[0] \in Nat
  BY <1>8
<1>10. \A k \in 1 .. 5 : c[k - 1] \in Nat => c[k] \in Nat
  BY <1>2, <1>8
<1>11. c[1] \in Nat
  BY <1>9, <1>10
<1>12. c[2] \in Nat
  BY <1>10, <1>11
<1>13. c[3] \in Nat
  BY <1>10, <1>12
<1>14. c[4] \in Nat
  BY <1>10, <1>13
<1>15. c[5] \in Nat
  BY <1>10, <1>14
<1>16. Codes(bin, c)
  BY <1>8, <1>9, <1>11, <1>12, <1>13, <1>14, <1>15 DEF Codes
<1> QED
  BY <1>1, <1>15, <1>16 DEF c

LEMMA ColumnIs ==
  ASSUME NEW seen \in Nat
  PROVE  /\ \A k \in 1 .. 5 : Column(seen)[k] \in 0 .. Sizes[k] - 1
         /\ \E rest : Rests(seen, rest) /\ \A k \in 1 .. 5 : Column(seen)[k] = rest[5 - k] % Sizes[k]
<1> DEFINE IsRest(rest) == rest = [k \in 0 .. 5 |-> IF k = 0 THEN seen ELSE rest[k - 1] \div Sizes[6 - k]]
           T == Nat
           op == [p \in T \X (1 .. 5) |-> p[1] \div Sizes[6 - p[2]]]
           r == CHOOSE rest : IsRest(rest)
<1>1. Column(seen) = [k \in 1 .. 5 |-> r[5 - k] % Sizes[k]]
  BY DEF Column
<1>2. \A a \in Nat, k \in 1 .. 5 : a \div Sizes[6 - k] \in Nat
  <2>1. \A k \in 1 .. 5 : 6 - k \in 1 .. 5
    OBVIOUS
  <2>2. \A a \in Nat, s \in Nat \ {0} : a \div s \in Nat
    BY Shares
  <2> QED
    BY <2>1, <2>2, SizesAre
<1>3. op \in [T \X (1 .. 5) -> T]
  BY <1>2
<1>4. \A a \in T, k \in 1 .. 5 : op[<<a, k>>] = a \div Sizes[6 - k]
  OBVIOUS
<1> HIDE DEF op
<1>5. \E f \in [0 .. 5 -> T] : Steps(5, seen, op, f)
  <2>1. seen \in T /\ 5 \in Nat
    OBVIOUS
  <2> HIDE DEF T
  <2> QED
    BY <1>3, <2>1, StepsThrough, Zenon
<1>6. \E rest : IsRest(rest)
  <2>1. PICK f \in [0 .. 5 -> T] : Steps(5, seen, op, f)
    BY <1>5
  <2>2. \A k \in 0 .. 5 : k # 0 => k \in 1 .. 5 /\ k - 1 \in 0 .. 5
    OBVIOUS
  <2>3. \A k \in 0 .. 5 : f[k] = IF k = 0 THEN seen ELSE f[k - 1] \div Sizes[6 - k]
    <3>1. \A k \in 0 .. 5 : k # 0 => f[k] = op[<<f[k - 1], k>>]
      BY <2>1 DEF Steps
    <3>2. \A k \in 0 .. 5 : k # 0 => f[k] = f[k - 1] \div Sizes[6 - k]
      BY <1>4, <2>1, <2>2, <3>1
    <3>3. f[0] = seen
      BY <2>1 DEF Steps
    <3> QED
      BY <3>2, <3>3
  <2>4. f = [k \in 0 .. 5 |-> IF k = 0 THEN seen ELSE f[k - 1] \div Sizes[6 - k]]
    <3>1. f = [k \in 0 .. 5 |-> f[k]]
      OBVIOUS
    <3> QED
      BY <2>3, <3>1
  <2> QED
    BY <2>4
<1>7. IsRest(r)
  BY <1>6
<1> HIDE DEF r
<1>8. r[0] = seen /\ \A k \in 1 .. 5 : r[k] = r[k - 1] \div Sizes[6 - k]
  BY <1>7
<1> HIDE DEF IsRest
<1>9. r[0] \in Nat
  BY <1>8
<1>10. \A k \in 1 .. 5 : r[k - 1] \in Nat => r[k] \in Nat
  BY <1>2, <1>8
<1>11. r[1] \in Nat
  BY <1>9, <1>10
<1>12. r[2] \in Nat
  BY <1>10, <1>11
<1>13. r[3] \in Nat
  BY <1>10, <1>12
<1>14. r[4] \in Nat
  BY <1>10, <1>13
<1>15. \A k \in 1 .. 5 : r[5 - k] \in Nat
  BY <1>9, <1>11, <1>12, <1>13, <1>14
<1>16. \A a \in Nat, s \in Nat \ {0} : a % s \in 0 .. s - 1
  OBVIOUS
<1>17. \A k \in 1 .. 5 : r[5 - k] % Sizes[k] \in 0 .. Sizes[k] - 1
  BY <1>15, <1>16, SizesAre
<1>18. \A k \in 1 .. 5 : Column(seen)[k] = r[5 - k] % Sizes[k]
  BY <1>1
<1>19. Rests(seen, r)
  BY <1>8 DEF Rests
<1> QED
  BY <1>17, <1>18, <1>19

\* One factor of B, applied to a belief.
Weighed(post, bin, k) == Normalised(Vector(LAMBDA s : post[s] * Factors[k][s][bin[k] + 1]))

LEMMA FactorsAre ==
  ASSUME NEW k \in 1 .. 5, NEW s \in 1 .. 4, NEW i \in 0 .. Sizes[k] - 1
  PROVE  Factors[k][s][i + 1] \in Nat /\ Factors[k][s][i + 1] >= 5
<1>1. CASE k = 1
  BY <1>1 DEF Factors, Sizes
<1>2. CASE k = 2
  BY <1>2 DEF Factors, Sizes
<1>3. CASE k = 3
  BY <1>3 DEF Factors, Sizes
<1>4. CASE k = 4
  BY <1>4 DEF Factors, Sizes
<1>5. CASE k = 5
  BY <1>5 DEF Factors, Sizes
<1> QED
  BY <1>1, <1>2, <1>3, <1>4, <1>5

LEMMA WeighedIs ==
  ASSUME NEW post \in Beliefs, NEW bin, NEW k \in 1 .. 5, bin[k] \in 0 .. Sizes[k] - 1
  PROVE  Weighed(post, bin, k) \in Beliefs
<1> DEFINE w(s) == Factors[k][s][bin[k] + 1]
           v == <<post[1] * w(1), post[2] * w(2), post[3] * w(3), post[4] * w(4)>>
<1>1. Weighed(post, bin, k) = Normalised(v)
  BY DEF Weighed, Vector
<1>2. \A s \in 1 .. 4 : w(s) \in Nat /\ w(s) >= 5
  BY FactorsAre
<1>3. \A s \in 1 .. 4 : post[s] \in Nat
  BY DEF Beliefs
<1>4. \E s \in 1 .. 4 : post[s] > 0
  BY <1>3 DEF Beliefs
<1> HIDE DEF w
<1>5. \A m, n \in Nat : m * n \in Nat /\ (m > 0 /\ n >= 5 => m * n > 0)
  OBVIOUS
<1>6. \A s \in 1 .. 4 : post[s] * w(s) \in Nat /\ (post[s] > 0 => post[s] * w(s) > 0)
  BY <1>2, <1>3, <1>5
<1>7. v \in [1 .. 4 -> Nat] /\ \A s \in 1 .. 4 : v[s] = post[s] * w(s)
  BY <1>6
<1> HIDE DEF v
<1>8. v[1] + v[2] + v[3] + v[4] > 0
  <2>1. PICK s \in 1 .. 4 : v[s] > 0
    BY <1>4, <1>6, <1>7
  <2> QED
    BY <1>7, <2>1
<1> QED
  BY <1>1, <1>7, <1>8, NormalisedIs DEF Beliefs

\* The beliefs of one update, from the prediction on: each factor weighs the one before.
Filters(b, bin, p) ==
  p[0] = Predicted(b) /\ \A k \in 1 .. 5 : p[k] = Weighed(p[k - 1], bin, k)

LEMMA UpdateTrace ==
  ASSUME NEW b \in Beliefs, NEW seen \in Nat
  PROVE  \E p \in [0 .. 5 -> Beliefs] : Filters(b, Column(seen), p) /\ Updated(b, seen) = p[5]
<1> DEFINE bin == Column(seen)
           five == <<1, 2, 3, 4, 5>>
           base == Predicted(b)
           T == Beliefs
           IsFold(iter) == iter = [t \in SUBSET (1 .. 5) |->
                             IF t = {} THEN base ELSE Weighed(iter[t \ {Max(t)}], bin, five[Max(t)])]
           op == [p \in T \X (1 .. 5) |-> Weighed(p[1], bin, p[2])]
<1>1. Updated(b, seen) = (CHOOSE iter : IsFold(iter))[1 .. 5]
  <2> DEFINE OnIndices(D, iter) ==
               iter = [t \in SUBSET D |->
                        IF t = {} THEN base ELSE Weighed(iter[t \ {Max(t)}], bin, five[Max(t)])]
  <2>1. DOMAIN five = 1 .. 5
    OBVIOUS
  <2>2. Updated(b, seen) = (CHOOSE iter : OnIndices(DOMAIN five, iter))[DOMAIN five]
    BY DEF Updated, FoldLeft, MapThenFoldSet, Weighed
  <2> HIDE DEF five, base, bin
  <2>3. Updated(b, seen) = (CHOOSE iter : OnIndices(1 .. 5, iter))[1 .. 5]
    BY <2>1, <2>2
  <2> QED
    BY <2>3
<1>2. \A k \in 1 .. 5 : bin[k] \in 0 .. Sizes[k] - 1
  BY ColumnIs
<1>3. \A k \in 1 .. 5 : five[k] = k
  OBVIOUS
<1>4. base \in T
  BY PredictedIs
<1> HIDE DEF bin, base, five
<1>5. \A post \in T, k \in 1 .. 5 : Weighed(post, bin, k) \in T
  BY <1>2, WeighedIs
<1> HIDE DEF T
<1>6. op \in [T \X (1 .. 5) -> T] /\ \A post \in T, k \in 1 .. 5 : op[<<post, k>>] = Weighed(post, bin, k)
  BY <1>5
<1> HIDE DEF op
<1>7. \E iter : IsFold(iter)
  <2>1. 5 \in Nat
    OBVIOUS
  <2>2. PICK iter \in [SUBSET (1 .. 5) -> T] : FoldsLeft(5, base, op, iter)
    BY <1>4, <1>6, <2>1, LeftFoldExists, Zenon
  <2>3. \A t \in SUBSET (1 .. 5) : t # {} => Max(t) \in 1 .. 5
    BY <2>1, MaxIsIn
  <2>4. \A t \in SUBSET (1 .. 5) : t # {} =>
          iter[t] = Weighed(iter[t \ {Max(t)}], bin, five[Max(t)])
    <3>1. \A t \in SUBSET (1 .. 5) : t # {} => iter[t] = op[<<iter[t \ {Max(t)}], Max(t)>>]
      BY <2>2 DEF FoldsLeft
    <3>2. \A t \in SUBSET (1 .. 5) : iter[t \ {Max(t)}] \in T
      OBVIOUS
    <3> QED
      BY <1>3, <1>6, <2>3, <3>1, <3>2
  <2>5. iter[{}] = base
    BY <2>2 DEF FoldsLeft
  <2>6. iter = [t \in SUBSET (1 .. 5) |-> iter[t]]
    OBVIOUS
  <2> QED
    BY <2>4, <2>5, <2>6
<1> DEFINE c == CHOOSE iter : IsFold(iter)
<1>8. IsFold(c)
  BY <1>7
<1> HIDE DEF c
<1>9. c[1 .. 0] = base
  BY <1>8
<1>10. \A k \in 1 .. 5 : c[1 .. k] = Weighed(c[1 .. k - 1], bin, k)
  <2>1. \A t \in SUBSET (1 .. 5) : t # {} => c[t] = Weighed(c[t \ {Max(t)}], bin, five[Max(t)])
    BY <1>8
  <2>2. 5 \in Nat
    OBVIOUS
  <2>3. \A k \in 1 .. 5 : /\ Max(1 .. k) = k /\ (1 .. k) \ {k} = 1 .. k - 1
                          /\ 1 .. k # {} /\ 1 .. k \in SUBSET (1 .. 5)
    BY <2>2, PrefixOf
  <2> QED
    BY <1>3, <2>1, <2>3
<1> HIDE DEF IsFold
<1> DEFINE Good == {k \in 0 .. 5 : c[1 .. k] \in T}
<1>11. 0 \in Good
  BY <1>4, <1>9
<1>12. ASSUME NEW k \in 0 .. 5 - 1, k \in Good
       PROVE  k + 1 \in Good
  <2>1. k + 1 \in 1 .. 5 /\ (k + 1) - 1 = k /\ k + 1 \in 0 .. 5
    OBVIOUS
  <2>2. c[1 .. k + 1] = Weighed(c[1 .. k], bin, k + 1)
    BY <1>10, <2>1
  <2> QED
    BY <1>5, <1>12, <2>1, <2>2
<1> HIDE DEF Good
<1>13. \A k \in 0 .. 5 : k \in Good
  <2>1. 5 \in Nat
    OBVIOUS
  <2> QED
    BY <1>11, <1>12, <2>1, CountUp
<1> DEFINE p == [k \in 0 .. 5 |-> c[1 .. k]]
<1>14. p \in [0 .. 5 -> T]
  BY <1>13 DEF Good
<1>15. p[0] = base /\ p[5] = c[1 .. 5]
  BY <1>9
<1>16. \A k \in 1 .. 5 : p[k] = Weighed(p[k - 1], bin, k)
  <2> SUFFICES ASSUME NEW k \in 1 .. 5 PROVE p[k] = Weighed(p[k - 1], bin, k)
    OBVIOUS
  <2>1. k \in 0 .. 5 /\ k - 1 \in 0 .. 5
    OBVIOUS
  <2>2. p[k] = c[1 .. k] /\ p[k - 1] = c[1 .. k - 1]
    BY <2>1
  <2> QED
    BY <1>10, <2>2
<1> HIDE DEF p
<1>17. Filters(b, Column(seen), p)
  BY <1>15, <1>16 DEF Filters, bin, base
<1> QED
  BY <1>1, <1>14, <1>15, <1>17 DEF T, c

LEMMA UpdatedIs ==
  ASSUME NEW b \in Beliefs, NEW seen \in Nat
  PROVE  Updated(b, seen) \in Beliefs
BY UpdateTrace

RegimeInv == belief \in Beliefs /\ NeverTighterThanEither

LEMMA ParamsAre ==
  ASSUME NEW likely \in {"RANGING", "TRENDING", "HIGH_VOL", "THIN_BOOK"},
         NEW zz \in {"up", "down", "choppy"}, NEW params,
         params = IF Agree(likely, zz) THEN Params(likely) ELSE Conservative
  PROVE  \A r \in {likely, Mapped(zz)} :
           params.spread >= Params(r).spread /\ params.depth <= Params(r).depth
<1>1. /\ Params("RANGING") = [spread |-> 10, depth |-> 10]
      /\ Params("TRENDING") = [spread |-> 15, depth |-> 7]
      /\ Params("HIGH_VOL") = [spread |-> 30, depth |-> 3]
      /\ Params("THIN_BOOK") = [spread |-> 20, depth |-> 5]
  BY DEF Params
<1>2. Mapped(zz) \in {"TRENDING", "RANGING"}
  BY DEF Mapped
<1> QED
  BY <1>1, <1>2 DEF Agree, Conservative

LEMMA ReadingStep ==
  ASSUME RegimeInv, NEW r \in Readings, NEW mid \in GlobalMids, ProcessReading(r, mid)
  PROVE  RegimeInv'
<1> DEFINE change == IF prevMid = 0 THEN 2 ELSE ChangeBin(prevMid, mid)
           bins == <<VolBin(r.vol), SpreadBin(r.zz), 1, 1, change>>
           likely == MostLikely(belief')
<1>1. \A k \in 1 .. 5 : bins[k] \in Nat
  BY DEF VolBin, SpreadBin, ChangeBin
<1>2. belief' = Updated(belief, EncodeObservation(bins))
  BY DEF ProcessReading
<1>3. /\ published'.regime = likely /\ published'.zz = r.regime
      /\ published'.params = IF Agree(likely, r.regime) THEN Params(likely) ELSE Conservative
  BY DEF ProcessReading
<1> HIDE DEF bins
<1>4. EncodeObservation(bins) \in Nat
  BY <1>1, EncodedIs
<1>5. belief' \in Beliefs
  BY <1>2, <1>4, UpdatedIs DEF RegimeInv
<1>6. likely \in {"RANGING", "TRENDING", "HIGH_VOL", "THIN_BOOK"}
  BY <1>5, MostLikelyIs
<1>7. r.regime \in {"up", "down", "choppy"}
  BY RegimeAssumption
<1> HIDE DEF likely
<1>8. \A either \in {published'.regime, Mapped(published'.zz)} :
        /\ published'.params.spread >= Params(either).spread
        /\ published'.params.depth <= Params(either).depth
  BY <1>3, <1>6, <1>7, ParamsAre
<1> QED
  BY <1>5, <1>8 DEF RegimeInv, NeverTighterThanEither

LEMMA RegimeStep == RegimeInv /\ [RegimeNext]_regimeVars => RegimeInv'
<1> SUFFICES ASSUME RegimeInv, [RegimeNext]_regimeVars PROVE RegimeInv'
  OBVIOUS
<1>1. CASE RegimeNext
  BY <1>1, ReadingStep DEF RegimeNext
<1>2. CASE UNCHANGED regimeVars
  BY <1>2 DEF regimeVars, RegimeInv, NeverTighterThanEither
<1> QED
  BY <1>1, <1>2

\* _process_state of RegimeMaster: whatever the market shows, for ever, the filter's
\* belief keeps a likeliest regime, and what is published is no tighter and no deeper
\* than either detector's regime asks for.
THEOREM SpreadIsNeverTighter == RegimeSpec => []NeverTighterThanEither
<1>1. RegimeInit => RegimeInv
  BY DEF RegimeInit, RegimeInv, Prior, Beliefs, NeverTighterThanEither
<1>2. RegimeInv => NeverTighterThanEither
  BY DEF RegimeInv
<1> QED
  BY <1>1, <1>2, RegimeStep, PTL DEF RegimeSpec

-----------------------------------------------------------------------------
(* Regime: the belief follows the market.                                  *)

-----------------------------------------------------------------------------
(* Arithmetic.                                                             *)

LEMMA Scaled ==
  ASSUME NEW k \in Nat, NEW u \in Nat, NEW v \in Nat, u <= v
  PROVE  k * u <= k * v /\ k * u \in Nat /\ k * v \in Nat
OBVIOUS

LEMMA Unscaled ==
  ASSUME NEW k \in Nat \ {0}, NEW u \in Nat, NEW v \in Nat, k * u <= k * v
  PROVE  u <= v
<1>1. SUFFICES ASSUME u >= v + 1 PROVE FALSE
  OBVIOUS
<1>2. k * (v + 1) <= k * u
  BY <1>1
<1> QED
  BY <1>2

LEMMA Swapped == \A a, b, c \in Nat : a * (b * c) = b * (a * c) /\ a * (b * c) \in Nat
OBVIOUS

\* A bound up to one more becomes a bound again, since w is not small.
LEMMA OneMore ==
  ASSUME NEW m \in Nat \ {0}, NEW q \in Nat, NEW x \in Nat, NEW w \in Nat, NEW y \in Nat \ {0},
         w >= y, m * x <= q * (w + 1)
  PROVE  (m * y) * x <= (q * (y + 1)) * w
<1>1. y * (w + 1) <= (y + 1) * w /\ y * (w + 1) \in Nat /\ (y + 1) * w \in Nat
  OBVIOUS
<1>2. q * (y * (w + 1)) <= q * ((y + 1) * w)
  BY <1>1, Scaled
<1>3. m * x \in Nat /\ q * (w + 1) \in Nat
  OBVIOUS
<1>4. y * (m * x) <= y * (q * (w + 1))
  BY <1>3, Scaled
<1>5. y * (q * (w + 1)) = q * (y * (w + 1))
  BY Swapped
<1>6. (m * y) * x = y * (m * x) /\ (q * (y + 1)) * w = q * ((y + 1) * w)
  OBVIOUS
<1>7. y * (m * x) <= q * ((y + 1) * w)
  BY <1>2, <1>4, <1>5
<1> QED
  BY <1>6, <1>7

\* A bound in smaller numbers.
LEMMA Reduced ==
  ASSUME NEW a \in Nat \ {0}, NEW b \in Nat, NEW x \in Nat, NEW p \in Nat, a * x <= b * p,
         NEW c \in Nat, NEW d \in Nat, c * b <= d * a
  PROVE  c * x <= d * p
<1>1. a * x \in Nat /\ b * p \in Nat /\ c * b \in Nat /\ d * a \in Nat /\ c * x \in Nat /\ d * p \in Nat
  OBVIOUS
<1>2. c * (a * x) <= c * (b * p)
  BY <1>1, Scaled
<1>3. p * (c * b) <= p * (d * a)
  BY <1>1, Scaled
<1>4. c * (a * x) = a * (c * x)
  BY Swapped
<1>5. c * (b * p) = p * (c * b)
  OBVIOUS
<1>6. p * (d * a) = a * (d * p)
  OBVIOUS
<1>7. a * (c * x) <= a * (d * p)
  BY <1>2, <1>3, <1>4, <1>5, <1>6
<1> QED
  BY <1>1, <1>7, Unscaled

LEMMA Divided ==
  ASSUME NEW a \in Nat, NEW s \in Nat \ {0}
  PROVE  a \div s \in Nat /\ s * (a \div s) <= a /\ a <= s * (a \div s + 1)
OBVIOUS

\* What holds of two numbers holds, but for one, of their shares.
LEMMA SharesCompare ==
  ASSUME NEW a \in Nat, NEW c \in Nat, NEW s \in Nat \ {0}, NEW m \in Nat, NEW n \in Nat,
         m * a <= n * c
  PROVE  m * ((1000 * a) \div s) <= n * ((1000 * c) \div s + 1)
<1> DEFINE x == (1000 * a) \div s
           y == (1000 * c) \div s + 1
<1>1. x \in Nat /\ s * x <= 1000 * a
  BY Divided
<1>2. y \in Nat /\ 1000 * c <= s * y
  BY Divided
<1> HIDE DEF x, y
<1>3. m * (s * x) <= m * (1000 * a)
  BY <1>1, Scaled
<1>4. n * (1000 * c) <= n * (s * y)
  BY <1>2, Scaled
<1>5. m * (1000 * a) <= n * (1000 * c)
  BY SMT
<1>6. s * (m * x) <= s * (n * y)
  <2>1. m * (s * x) = s * (m * x) /\ n * (s * y) = s * (n * y)
    BY <1>1, <1>2
  <2>2. m * (s * x) <= n * (s * y)
    BY <1>1, <1>2, <1>3, <1>4, <1>5
  <2> QED
    BY <2>1, <2>2
<1>7. m * x <= n * y
  <2>1. m * x \in Nat /\ n * y \in Nat
    BY <1>1, <1>2
  <2> QED
    BY <1>6, <2>1, Unscaled
<1> QED
  BY <1>7 DEF x, y

-----------------------------------------------------------------------------
(* Normalised beliefs.                                                     *)

SumOfFour(v) == v[1] + v[2] + v[3] + v[4]

LEMMA NormalisedAt ==
  ASSUME NEW v \in Beliefs
  PROVE  /\ SumOfFour(v) \in Nat \ {0}
         /\ \A i \in 1 .. 4 : v[i] \in Nat /\ Normalised(v)[i] = (1000 * v[i]) \div SumOfFour(v)
BY DEF Beliefs, Normalised, Vector, SumOfFour

LEMMA NormalisedRatio ==
  ASSUME NEW v \in Beliefs, NEW i \in 1 .. 4, NEW j \in 1 .. 4, NEW m \in Nat, NEW n \in Nat,
         m * v[i] <= n * v[j]
  PROVE  m * Normalised(v)[i] <= n * (Normalised(v)[j] + 1)
<1> DEFINE a == v[i]
           c == v[j]
           s == SumOfFour(v)
<1>1. a \in Nat /\ c \in Nat /\ s \in Nat \ {0} /\ m * a <= n * c
  BY NormalisedAt
<1>2. Normalised(v)[i] = (1000 * a) \div s /\ Normalised(v)[j] = (1000 * c) \div s
  BY NormalisedAt
<1> HIDE DEF a, c, s
<1>3. m * ((1000 * a) \div s) <= n * ((1000 * c) \div s + 1)
  BY <1>1, SharesCompare
<1> QED
  BY <1>2, <1>3

LEMMA NormalisedShare ==
  ASSUME NEW v \in Beliefs, NEW j \in 1 .. 4, NEW y \in Nat, y * SumOfFour(v) <= 1000 * v[j]
  PROVE  Normalised(v)[j] >= y
<1> DEFINE c == 1000 * v[j]
           s == SumOfFour(v)
           x == c \div s
<1>1. c \in Nat /\ s \in Nat \ {0} /\ y * s <= c
  BY NormalisedAt
<1>2. Normalised(v)[j] = x
  BY NormalisedAt
<1> HIDE DEF c, s
<1>3. x \in Nat /\ c <= s * (x + 1)
  BY <1>1, Divided
<1>4. c < s * (x + 1)
  BY <1>1
<1> HIDE DEF x
<1>5. SUFFICES ASSUME y >= x + 1 PROVE FALSE
  BY <1>2, <1>3
<1>6. s * (x + 1) <= s * y
  BY <1>1, <1>3, <1>5, Scaled
<1> QED
  BY <1>1, <1>3, <1>4, <1>6

LEMMA NormalisedSum ==
  ASSUME NEW v \in Beliefs
  PROVE  Normalised(v) \in Beliefs /\ SumOfFour(Normalised(v)) <= 1000
<1> DEFINE s == SumOfFour(v)
           w(i) == (1000 * v[i]) \div s
<1>1. s \in Nat \ {0} /\ \A i \in 1 .. 4 : v[i] \in Nat /\ Normalised(v)[i] = w(i)
  BY NormalisedAt
<1>2. s = v[1] + v[2] + v[3] + v[4]
  BY DEF SumOfFour
<1> HIDE DEF s
<1>3. \A i \in 1 .. 4 : w(i) \in Nat /\ s * w(i) <= 1000 * v[i]
  <2> SUFFICES ASSUME NEW i \in 1 .. 4 PROVE w(i) \in Nat /\ s * w(i) <= 1000 * v[i]
    OBVIOUS
  <2> DEFINE a == 1000 * v[i]
  <2>1. v[i] \in Nat /\ s \in Nat \ {0}
    BY <1>1
  <2>2. a \in Nat
    BY <2>1
  <2>3. w(i) = a \div s
    OBVIOUS
  <2> HIDE DEF a, w
  <2>4. a \div s \in Nat /\ s * (a \div s) <= a
    BY <2>1, <2>2, Divided
  <2>5. w(i) \in Nat /\ s * w(i) <= a
    BY <2>3, <2>4
  <2> QED
    BY <2>5 DEF a
<1> HIDE DEF w
<1> DEFINE t == w(1) + w(2) + w(3) + w(4)
<1>4. t \in Nat /\ s * t = s * w(1) + s * w(2) + s * w(3) + s * w(4)
  BY <1>1, <1>3
<1>5. s * t <= s * 1000
  BY <1>1, <1>2, <1>3, <1>4
<1>6. t <= 1000
  <2> HIDE DEF t
  <2> QED
    BY <1>1, <1>4, <1>5, Unscaled
<1>7. SumOfFour(Normalised(v)) = t
  BY <1>1 DEF SumOfFour
<1> QED
  BY <1>6, <1>7, NormalisedIs

-----------------------------------------------------------------------------
(* How a regime falls behind another.                                      *)

\* i is behind j by d * n to c, and j has at least h.
Behind(b, i, j, c, d, n, h) == b[j] >= h /\ c * b[i] <= d * (n * b[j])

\* The values a factor has for what was seen.
ValuesOf(f, k, bin) ==
  /\ k \in 1 .. 5 /\ bin[k] \in 0 .. Sizes[k] - 1
  /\ f \in [1 .. 4 -> Nat \ {0}]
  /\ \A s \in 1 .. 4 : f[s] = Factors[k][s][bin[k] + 1]

Believed(b) == b \in Beliefs /\ SumOfFour(b) <= 1000

LEMMA WeighedAs ==
  ASSUME NEW post \in Beliefs, NEW bin, NEW k, NEW f, ValuesOf(f, k, bin)
  PROVE  LET v == <<post[1] * f[1], post[2] * f[2], post[3] * f[3], post[4] * f[4]>>
         IN  v \in Beliefs /\ Weighed(post, bin, k) = Normalised(v)
<1> DEFINE v == <<post[1] * f[1], post[2] * f[2], post[3] * f[3], post[4] * f[4]>>
<1>1. /\ f[1] = Factors[k][1][bin[k] + 1] /\ f[2] = Factors[k][2][bin[k] + 1]
      /\ f[3] = Factors[k][3][bin[k] + 1] /\ f[4] = Factors[k][4][bin[k] + 1]
  BY DEF ValuesOf
<1>2. Weighed(post, bin, k) = Normalised(v)
  BY <1>1 DEF Weighed, Vector
<1>3. \A s \in 1 .. 4 : f[s] \in Nat /\ f[s] > 0
  BY DEF ValuesOf
<1>4. \A s \in 1 .. 4 : post[s] \in Nat
  BY DEF Beliefs
<1>5. \E s \in 1 .. 4 : post[s] > 0
  BY <1>4 DEF Beliefs
<1>6. \A m, n \in Nat : m * n \in Nat /\ (m > 0 /\ n > 0 => m * n > 0)
  OBVIOUS
<1>7. \A s \in 1 .. 4 : post[s] * f[s] \in Nat /\ (post[s] > 0 => post[s] * f[s] > 0)
  BY <1>3, <1>4, <1>6
<1>8. v \in [1 .. 4 -> Nat] /\ \A s \in 1 .. 4 : v[s] = post[s] * f[s]
  BY <1>7
<1> HIDE DEF v
<1>9. v[1] + v[2] + v[3] + v[4] > 0
  <2>1. PICK s \in 1 .. 4 : v[s] > 0
    BY <1>5, <1>7, <1>8
  <2>2. v[1] \in Nat /\ v[2] \in Nat /\ v[3] \in Nat /\ v[4] \in Nat
    BY <1>8
  <2> QED
    BY <2>1, <2>2
<1>10. v \in Beliefs
  BY <1>8, <1>9 DEF Beliefs
<1> QED
  BY <1>2, <1>10 DEF v

\* One factor.  What j has is at least y after it, since no value is above M.
LEMMA FactorStep ==
  ASSUME NEW post, Believed(post), NEW bin, NEW k, NEW f, ValuesOf(f, k, bin),
         NEW i \in 1 .. 4, NEW j \in 1 .. 4,
         NEW c \in Nat \ {0}, NEW d \in Nat, NEW n \in Nat, NEW h \in Nat, Behind(post, i, j, c, d, n, h),
         NEW M \in Nat, f[1] <= M, f[2] <= M, f[3] <= M, f[4] <= M,
         NEW y \in Nat \ {0}, y * M <= f[j] * h,
         NEW c2 \in Nat, NEW d2 \in Nat, c2 * (d * f[i] * (y + 1)) <= d2 * (c * f[j] * y)
  PROVE  Believed(Weighed(post, bin, k)) /\ Behind(Weighed(post, bin, k), i, j, c2, d2, n, y)
<1> DEFINE v == <<post[1] * f[1], post[2] * f[2], post[3] * f[3], post[4] * f[4]>>
           w == Weighed(post, bin, k)
           s == SumOfFour(v)
<1>1. post \in Beliefs /\ SumOfFour(post) <= 1000
  BY DEF Believed
<1>2. v \in Beliefs /\ w = Normalised(v)
  BY <1>1, WeighedAs
<1>3. \A x \in 1 .. 4 : v[x] = post[x] * f[x] /\ post[x] \in Nat /\ f[x] \in Nat \ {0}
  BY <1>1 DEF Beliefs, ValuesOf
<1>4. s = post[1] * f[1] + post[2] * f[2] + post[3] * f[3] + post[4] * f[4]
  BY DEF SumOfFour
<1> HIDE DEF v, w, s
<1>5. Believed(w)
  BY <1>2, NormalisedSum DEF Believed
<1>6. \A x \in 1 .. 4 : w[x] \in Nat
  BY <1>5 DEF Believed, Beliefs
<1>7. post[j] >= h /\ c * post[i] <= d * (n * post[j])
  BY DEF Behind
<1>8. w[j] >= y
  <2>1. s <= M * SumOfFour(post)
    <3>1. \A x \in 1 .. 4 : f[x] <= M
      OBVIOUS
    <3>2. \A x \in 1 .. 4 : post[x] * f[x] <= post[x] * M /\ post[x] * f[x] \in Nat /\ post[x] * M \in Nat
      BY <1>3, <3>1, Scaled
    <3>3. M * SumOfFour(post) = post[1] * M + post[2] * M + post[3] * M + post[4] * M
      BY <1>3 DEF SumOfFour
    <3> QED
      BY <1>4, <3>2, <3>3
  <2>2. SumOfFour(post) \in Nat /\ s \in Nat
    BY <1>1, <1>2, NormalisedAt DEF s
  <2>3. M * SumOfFour(post) <= M * 1000 /\ M * SumOfFour(post) \in Nat
    BY <1>1, <2>2, Scaled
  <2>4. s <= 1000 * M
    BY <2>1, <2>2, <2>3
  <2>5. y * s <= y * (1000 * M) /\ y * s \in Nat
    BY <2>2, <2>4, Scaled
  <2>6. y * (1000 * M) = 1000 * (y * M)
    OBVIOUS
  <2>7. f[j] * h <= f[j] * post[j] /\ f[j] * h \in Nat /\ f[j] * post[j] \in Nat
    BY <1>3, <1>7, Scaled
  <2>8. f[j] * post[j] = v[j]
    BY <1>3
  <2>9. y * s <= 1000 * v[j]
    BY <2>5, <2>6, <2>7, <2>8
  <2> QED
    BY <1>2, <2>9, NormalisedShare DEF s
<1> DEFINE p == n * w[j]
           m == c * f[j]
           q == d * f[i]
<1>9. m \in Nat \ {0} /\ q \in Nat /\ p \in Nat
  BY <1>3, <1>6
<1>10. m * v[i] <= (q * n) * v[j]
  <2>1. (f[i] * f[j]) * (c * post[i]) <= (f[i] * f[j]) * (d * (n * post[j]))
    <3>1. f[i] * f[j] \in Nat /\ c * post[i] \in Nat /\ d * (n * post[j]) \in Nat
      BY <1>3
    <3> QED
      BY <1>7, <3>1, Scaled
  <2>2. m * v[i] = (f[i] * f[j]) * (c * post[i])
    BY <1>3
  <2>3. (q * n) * v[j] = (f[i] * f[j]) * (d * (n * post[j]))
    BY <1>3
  <2> QED
    BY <2>1, <2>2, <2>3
<1>11. m * w[i] <= (q * n) * (w[j] + 1)
  <2>1. q * n \in Nat
    BY <1>9
  <2> HIDE DEF m, q
  <2> QED
    BY <1>2, <1>9, <1>10, <2>1, NormalisedRatio
<1>12. (m * y) * w[i] <= ((q * n) * (y + 1)) * w[j]
  <2>1. q * n \in Nat /\ m \in Nat \ {0} /\ w[i] \in Nat /\ w[j] \in Nat
    BY <1>6, <1>9
  <2> HIDE DEF m, q, p
  <2> QED
    BY <1>8, <1>11, <2>1, OneMore
<1>13. c2 * w[i] <= d2 * p
  <2> DEFINE a == m * y
             b == q * (y + 1)
  <2>1. c2 * b <= d2 * a
    OBVIOUS
  <2>2. w[i] \in Nat /\ w[j] \in Nat
    BY <1>6
  <2> HIDE DEF m, q
  <2>3. a \in Nat \ {0} /\ b \in Nat
    BY <1>9
  <2>4. ((q * n) * (y + 1)) * w[j] = b * p
    BY <1>9, <2>2
  <2>5. a * w[i] <= b * p
    BY <1>12, <2>4
  <2> HIDE DEF a, b, p
  <2> QED
    BY <1>9, <2>1, <2>2, <2>3, <2>5, Reduced
<1>14. Behind(w, i, j, c2, d2, n, y)
  BY <1>8, <1>13 DEF Behind
<1> QED
  BY <1>5, <1>14 DEF w

-----------------------------------------------------------------------------
(* The bins of an observation.                                             *)

LEMMA OneDigit ==
  ASSUME NEW a \in Nat, NEW z \in Nat \ {0}, NEW d \in 0 .. z - 1
  PROVE  (a * z + d) \div z = a /\ (a * z + d) % z = d
BY SMTT(60)

\* encode_observation and the columns of B agree on the bins.
LEMMA BinsAreRead ==
  ASSUME NEW bin, \A k \in 1 .. 5 : bin[k] \in 0 .. Sizes[k] - 1
  PROVE  \A k \in 1 .. 5 : Column(EncodeObservation(bin))[k] = bin[k]
<1> DEFINE seen == EncodeObservation(bin)
<1>1. \A k \in 1 .. 5 : Sizes[k] \in Nat \ {0} /\ bin[k] \in Nat
  BY SizesAre
<1>2. PICK code : Codes(bin, code) /\ seen = code[5]
  BY <1>1, EncodedIs
<1>3. seen \in Nat
  BY <1>1, EncodedIs
<1> HIDE DEF seen
<1>4. PICK rest : Rests(seen, rest) /\ \A k \in 1 .. 5 : Column(seen)[k] = rest[5 - k] % Sizes[k]
  BY <1>3, ColumnIs
<1>5. \A k \in 1 .. 5 : code[k] \div Sizes[k] = code[k - 1] /\ code[k] % Sizes[k] = bin[k]
  <2> SUFFICES ASSUME NEW k \in 1 .. 5
               PROVE  code[k] \div Sizes[k] = code[k - 1] /\ code[k] % Sizes[k] = bin[k]
    OBVIOUS
  <2>1. code[k] = code[k - 1] * Sizes[k] + bin[k] /\ code[k - 1] \in Nat
    <3>1. k - 1 \in 0 .. 5
      OBVIOUS
    <3> QED
      BY <1>2, <3>1 DEF Codes
  <2> DEFINE a == code[k - 1]
             z == Sizes[k]
             d == bin[k]
  <2>2. z \in Nat \ {0} /\ d \in 0 .. z - 1 /\ a \in Nat
    BY <1>1, <2>1
  <2>3. code[k] = a * z + d
    BY <2>1
  <2> HIDE DEF a, z, d
  <2>4. (a * z + d) \div z = a /\ (a * z + d) % z = d
    BY <2>2, OneDigit
  <2>5. code[k] \div z = a /\ code[k] % z = d
    BY <2>3, <2>4
  <2> QED
    BY <2>5 DEF a, z, d
<1>6. \A k \in 1 .. 5 : rest[k] = rest[k - 1] \div Sizes[6 - k]
  BY <1>4 DEF Rests
<1>7. rest[0] = code[5]
  BY <1>2, <1>4 DEF Rests
<1>8. \A k \in 1 .. 5 : rest[k - 1] = code[6 - k] => rest[k] = code[5 - k]
  <2> SUFFICES ASSUME NEW k \in 1 .. 5, rest[k - 1] = code[6 - k] PROVE rest[k] = code[5 - k]
    OBVIOUS
  <2>1. 6 - k \in 1 .. 5 /\ (6 - k) - 1 = 5 - k
    OBVIOUS
  <2>2. code[6 - k] \div Sizes[6 - k] = code[(6 - k) - 1]
    BY <1>5, <2>1
  <2>3. rest[k] = rest[k - 1] \div Sizes[6 - k]
    BY <1>6
  <2> QED
    BY <2>1, <2>2, <2>3
<1>9. rest[1] = code[4]
  BY <1>7, <1>8
<1>10. rest[2] = code[3]
  BY <1>8, <1>9
<1>11. rest[3] = code[2]
  BY <1>8, <1>10
<1>12. rest[4] = code[1]
  BY <1>8, <1>11
<1>13. \A k \in 1 .. 5 : rest[5 - k] = code[k]
  BY <1>7, <1>9, <1>10, <1>11, <1>12
<1>14. \A k \in 1 .. 5 : Column(seen)[k] = code[k] % Sizes[k]
  BY <1>4, <1>13
<1>15. \A k \in 1 .. 5 : Column(seen)[k] = bin[k]
  BY <1>5, <1>14
<1> QED
  BY <1>15 DEF seen

-----------------------------------------------------------------------------
(* The market shows what it is.                                            *)

\* The numbers of one factor: the values of none are above M, j keeps at least y of h, and
\* i falls from d to c behind j to d2 to c2.
Fits(f, i, j, c, d, h, M, c2, d2, y) ==
  /\ c \in Nat \ {0} /\ y \in Nat \ {0}
  /\ d \in Nat /\ h \in Nat /\ M \in Nat /\ c2 \in Nat /\ d2 \in Nat
  /\ f[1] <= M /\ f[2] <= M /\ f[3] <= M /\ f[4] <= M
  /\ y * M <= f[j] * h
  /\ c2 * (d * f[i] * (y + 1)) <= d2 * (c * f[j] * y)

LEMMA FactorTurn ==
  ASSUME NEW post, Believed(post), NEW bin, NEW k, NEW f, ValuesOf(f, k, bin),
         NEW i \in 1 .. 4, NEW j \in 1 .. 4, NEW n \in Nat,
         NEW c, NEW d, NEW h, NEW M, NEW c2, NEW d2, NEW y,
         Fits(f, i, j, c, d, h, M, c2, d2, y), Behind(post, i, j, c, d, n, h)
  PROVE  Believed(Weighed(post, bin, k)) /\ Behind(Weighed(post, bin, k), i, j, c2, d2, n, y)
<1>1. /\ c \in Nat \ {0} /\ y \in Nat \ {0}
      /\ d \in Nat /\ h \in Nat /\ M \in Nat /\ c2 \in Nat /\ d2 \in Nat
  BY DEF Fits
<1>2. /\ f[1] <= M /\ f[2] <= M /\ f[3] <= M /\ f[4] <= M
      /\ y * M <= f[j] * h
      /\ c2 * (d * f[i] * (y + 1)) <= d2 * (c * f[j] * y)
  BY DEF Fits
<1> QED
  BY <1>1, <1>2, FactorStep

\* A wild market: a high volatility and a wide spread; a calm one: neither.
Shows(bin, vol, spread) ==
  /\ bin[1] = vol /\ bin[2] = spread /\ bin[3] = 1 /\ bin[4] = 1
  /\ bin[5] \in 0 .. 3

Wild(bin) == Shows(bin, 2, 2)
Calm(bin) == Shows(bin, 0, 0)

LEMMA WildValues ==
  ASSUME NEW bin, Wild(bin)
  PROVE  /\ ValuesOf(<<10, 30, 75, 30>>, 1, bin)
         /\ ValuesOf(<<5, 20, 65, 60>>, 2, bin)
         /\ ValuesOf(<<60, 30, 40, 50>>, 3, bin)
         /\ ValuesOf(<<60, 30, 30, 50>>, 4, bin)
         /\ bin[5] = 0 => ValuesOf(<<10, 10, 20, 15>>, 5, bin)
         /\ bin[5] = 1 => ValuesOf(<<35, 15, 25, 30>>, 5, bin)
         /\ bin[5] = 2 => ValuesOf(<<45, 40, 25, 40>>, 5, bin)
         /\ bin[5] = 3 => ValuesOf(<<10, 35, 30, 15>>, 5, bin)
BY DEF Wild, Shows, ValuesOf, Factors, Sizes

LEMMA CalmValues ==
  ASSUME NEW bin, Calm(bin)
  PROVE  /\ ValuesOf(<<55, 20, 5, 30>>, 1, bin)
         /\ ValuesOf(<<60, 25, 5, 10>>, 2, bin)
         /\ ValuesOf(<<60, 30, 40, 50>>, 3, bin)
         /\ ValuesOf(<<60, 30, 30, 50>>, 4, bin)
         /\ bin[5] = 0 => ValuesOf(<<10, 10, 20, 15>>, 5, bin)
         /\ bin[5] = 1 => ValuesOf(<<35, 15, 25, 30>>, 5, bin)
         /\ bin[5] = 2 => ValuesOf(<<45, 40, 25, 40>>, 5, bin)
         /\ bin[5] = 3 => ValuesOf(<<10, 35, 30, 15>>, 5, bin)
BY DEF Calm, Shows, ValuesOf, Factors, Sizes

\* In a wild market the trend falls behind the high volatility.
LEMMA TrendFades ==
  ASSUME NEW bin, Wild(bin), NEW b, NEW p \in [0 .. 5 -> Beliefs], Filters(b, bin, p),
         Believed(p[0]), NEW n \in Nat, Behind(p[0], 2, 3, 10, 1, n, 80)
  PROVE  Believed(p[5]) /\ Behind(p[5], 2, 3, 50, 1, n, 14)
<1>0. /\ p[1] = Weighed(p[0], bin, 1) /\ p[2] = Weighed(p[1], bin, 2) /\ p[3] = Weighed(p[2], bin, 3)
      /\ p[4] = Weighed(p[3], bin, 4) /\ p[5] = Weighed(p[4], bin, 5)
  BY DEF Filters
<1>1. Believed(p[1]) /\ Behind(p[1], 2, 3, 1000, 41, n, 80)
  <2>1. Fits(<<10, 30, 75, 30>>, 2, 3, 10, 1, 80, 75, 1000, 41, 80)
    BY DEF Fits
  <2>2. ValuesOf(<<10, 30, 75, 30>>, 1, bin)
    BY WildValues
  <2> QED
    BY <1>0, <2>1, <2>2, FactorTurn
<1>2. Believed(p[2]) /\ Behind(p[2], 2, 3, 1000, 13, n, 80)
  <2>1. Fits(<<5, 20, 65, 60>>, 2, 3, 1000, 41, 80, 65, 1000, 13, 80)
    BY DEF Fits
  <2>2. ValuesOf(<<5, 20, 65, 60>>, 2, bin)
    BY WildValues
  <2> QED
    BY <1>0, <1>1, <2>1, <2>2, FactorTurn
<1>3. Believed(p[3]) /\ Behind(p[3], 2, 3, 100, 1, n, 53)
  <2>1. Fits(<<60, 30, 40, 50>>, 2, 3, 1000, 13, 80, 60, 100, 1, 53)
    BY DEF Fits
  <2>2. ValuesOf(<<60, 30, 40, 50>>, 3, bin)
    BY WildValues
  <2> QED
    BY <1>0, <1>2, <2>1, <2>2, FactorTurn
<1>4. Believed(p[4]) /\ Behind(p[4], 2, 3, 1000, 11, n, 26)
  <2>1. Fits(<<60, 30, 30, 50>>, 2, 3, 100, 1, 53, 60, 1000, 11, 26)
    BY DEF Fits
  <2>2. ValuesOf(<<60, 30, 30, 50>>, 4, bin)
    BY WildValues
  <2> QED
    BY <1>0, <1>3, <2>1, <2>2, FactorTurn
<1>5. CASE bin[5] = 0
  <2>1. Fits(<<10, 10, 20, 15>>, 2, 3, 1000, 11, 26, 20, 50, 1, 14)
    BY DEF Fits
  <2>2. ValuesOf(<<10, 10, 20, 15>>, 5, bin)
    BY <1>5, WildValues
  <2> QED
    BY <1>0, <1>4, <2>1, <2>2, FactorTurn
<1>6. CASE bin[5] = 1
  <2>1. Fits(<<35, 15, 25, 30>>, 2, 3, 1000, 11, 26, 35, 50, 1, 14)
    BY DEF Fits
  <2>2. ValuesOf(<<35, 15, 25, 30>>, 5, bin)
    BY <1>6, WildValues
  <2> QED
    BY <1>0, <1>4, <2>1, <2>2, FactorTurn
<1>7. CASE bin[5] = 2
  <2>1. Fits(<<45, 40, 25, 40>>, 2, 3, 1000, 11, 26, 45, 50, 1, 14)
    BY DEF Fits
  <2>2. ValuesOf(<<45, 40, 25, 40>>, 5, bin)
    BY <1>7, WildValues
  <2> QED
    BY <1>0, <1>4, <2>1, <2>2, FactorTurn
<1>8. CASE bin[5] = 3
  <2>1. Fits(<<10, 35, 30, 15>>, 2, 3, 1000, 11, 26, 35, 50, 1, 14)
    BY DEF Fits
  <2>2. ValuesOf(<<10, 35, 30, 15>>, 5, bin)
    BY <1>8, WildValues
  <2> QED
    BY <1>0, <1>4, <2>1, <2>2, FactorTurn
<1> QED
  BY <1>5, <1>6, <1>7, <1>8 DEF Wild, Shows

\* And so does the range.
LEMMA RangeFades ==
  ASSUME NEW bin, Wild(bin), NEW b, NEW p \in [0 .. 5 -> Beliefs], Filters(b, bin, p),
         Believed(p[0]), NEW n \in Nat, Behind(p[0], 1, 3, 10, 1, n, 80)
  PROVE  Believed(p[5]) /\ Behind(p[5], 1, 3, 50, 1, n, 14)
<1>0. /\ p[1] = Weighed(p[0], bin, 1) /\ p[2] = Weighed(p[1], bin, 2) /\ p[3] = Weighed(p[2], bin, 3)
      /\ p[4] = Weighed(p[3], bin, 4) /\ p[5] = Weighed(p[4], bin, 5)
  BY DEF Filters
<1>1. Believed(p[1]) /\ Behind(p[1], 1, 3, 1000, 14, n, 80)
  <2>1. Fits(<<10, 30, 75, 30>>, 1, 3, 10, 1, 80, 75, 1000, 14, 80)
    BY DEF Fits
  <2>2. ValuesOf(<<10, 30, 75, 30>>, 1, bin)
    BY WildValues
  <2> QED
    BY <1>0, <2>1, <2>2, FactorTurn
<1>2. Believed(p[2]) /\ Behind(p[2], 1, 3, 10000, 11, n, 80)
  <2>1. Fits(<<5, 20, 65, 60>>, 1, 3, 1000, 14, 80, 65, 10000, 11, 80)
    BY DEF Fits
  <2>2. ValuesOf(<<5, 20, 65, 60>>, 2, bin)
    BY WildValues
  <2> QED
    BY <1>0, <1>1, <2>1, <2>2, FactorTurn
<1>3. Believed(p[3]) /\ Behind(p[3], 1, 3, 10000, 17, n, 53)
  <2>1. Fits(<<60, 30, 40, 50>>, 1, 3, 10000, 11, 80, 60, 10000, 17, 53)
    BY DEF Fits
  <2>2. ValuesOf(<<60, 30, 40, 50>>, 3, bin)
    BY WildValues
  <2> QED
    BY <1>0, <1>2, <2>1, <2>2, FactorTurn
<1>4. Believed(p[4]) /\ Behind(p[4], 1, 3, 1000, 4, n, 26)
  <2>1. Fits(<<60, 30, 30, 50>>, 1, 3, 10000, 17, 53, 60, 1000, 4, 26)
    BY DEF Fits
  <2>2. ValuesOf(<<60, 30, 30, 50>>, 4, bin)
    BY WildValues
  <2> QED
    BY <1>0, <1>3, <2>1, <2>2, FactorTurn
<1>5. CASE bin[5] = 0
  <2>1. Fits(<<10, 10, 20, 15>>, 1, 3, 1000, 4, 26, 20, 50, 1, 14)
    BY DEF Fits
  <2>2. ValuesOf(<<10, 10, 20, 15>>, 5, bin)
    BY <1>5, WildValues
  <2> QED
    BY <1>0, <1>4, <2>1, <2>2, FactorTurn
<1>6. CASE bin[5] = 1
  <2>1. Fits(<<35, 15, 25, 30>>, 1, 3, 1000, 4, 26, 35, 50, 1, 14)
    BY DEF Fits
  <2>2. ValuesOf(<<35, 15, 25, 30>>, 5, bin)
    BY <1>6, WildValues
  <2> QED
    BY <1>0, <1>4, <2>1, <2>2, FactorTurn
<1>7. CASE bin[5] = 2
  <2>1. Fits(<<45, 40, 25, 40>>, 1, 3, 1000, 4, 26, 45, 50, 1, 14)
    BY DEF Fits
  <2>2. ValuesOf(<<45, 40, 25, 40>>, 5, bin)
    BY <1>7, WildValues
  <2> QED
    BY <1>0, <1>4, <2>1, <2>2, FactorTurn
<1>8. CASE bin[5] = 3
  <2>1. Fits(<<10, 35, 30, 15>>, 1, 3, 1000, 4, 26, 35, 50, 1, 14)
    BY DEF Fits
  <2>2. ValuesOf(<<10, 35, 30, 15>>, 5, bin)
    BY <1>8, WildValues
  <2> QED
    BY <1>0, <1>4, <2>1, <2>2, FactorTurn
<1> QED
  BY <1>5, <1>6, <1>7, <1>8 DEF Wild, Shows

\* In a calm market the thin book falls behind the range.
LEMMA ThinBookFades ==
  ASSUME NEW bin, Calm(bin), NEW b, NEW p \in [0 .. 5 -> Beliefs], Filters(b, bin, p),
         Believed(p[0]), NEW n \in Nat, Behind(p[0], 4, 1, 150, 302, n, 150)
  PROVE  Believed(p[5]) /\ Behind(p[5], 4, 1, 4, 1, n, 42)
<1>0. /\ p[1] = Weighed(p[0], bin, 1) /\ p[2] = Weighed(p[1], bin, 2) /\ p[3] = Weighed(p[2], bin, 3)
      /\ p[4] = Weighed(p[3], bin, 4) /\ p[5] = Weighed(p[4], bin, 5)
  BY DEF Filters
<1>1. Believed(p[1]) /\ Behind(p[1], 4, 1, 100, 111, n, 150)
  <2>1. Fits(<<55, 20, 5, 30>>, 4, 1, 150, 302, 150, 55, 100, 111, 150)
    BY DEF Fits
  <2>2. ValuesOf(<<55, 20, 5, 30>>, 1, bin)
    BY CalmValues
  <2> QED
    BY <1>0, <2>1, <2>2, FactorTurn
<1>2. Believed(p[2]) /\ Behind(p[2], 4, 1, 100, 19, n, 150)
  <2>1. Fits(<<60, 25, 5, 10>>, 4, 1, 100, 111, 150, 60, 100, 19, 150)
    BY DEF Fits
  <2>2. ValuesOf(<<60, 25, 5, 10>>, 2, bin)
    BY CalmValues
  <2> QED
    BY <1>0, <1>1, <2>1, <2>2, FactorTurn
<1>3. Believed(p[3]) /\ Behind(p[3], 4, 1, 100, 16, n, 150)
  <2>1. Fits(<<60, 30, 40, 50>>, 4, 1, 100, 19, 150, 60, 100, 16, 150)
    BY DEF Fits
  <2>2. ValuesOf(<<60, 30, 40, 50>>, 3, bin)
    BY CalmValues
  <2> QED
    BY <1>0, <1>2, <2>1, <2>2, FactorTurn
<1>4. Believed(p[4]) /\ Behind(p[4], 4, 1, 100, 14, n, 150)
  <2>1. Fits(<<60, 30, 30, 50>>, 4, 1, 100, 16, 150, 60, 100, 14, 150)
    BY DEF Fits
  <2>2. ValuesOf(<<60, 30, 30, 50>>, 4, bin)
    BY CalmValues
  <2> QED
    BY <1>0, <1>3, <2>1, <2>2, FactorTurn
<1>5. CASE bin[5] = 0
  <2>1. Fits(<<10, 10, 20, 15>>, 4, 1, 100, 14, 150, 20, 4, 1, 42)
    BY DEF Fits
  <2>2. ValuesOf(<<10, 10, 20, 15>>, 5, bin)
    BY <1>5, CalmValues
  <2> QED
    BY <1>0, <1>4, <2>1, <2>2, FactorTurn
<1>6. CASE bin[5] = 1
  <2>1. Fits(<<35, 15, 25, 30>>, 4, 1, 100, 14, 150, 35, 4, 1, 42)
    BY DEF Fits
  <2>2. ValuesOf(<<35, 15, 25, 30>>, 5, bin)
    BY <1>6, CalmValues
  <2> QED
    BY <1>0, <1>4, <2>1, <2>2, FactorTurn
<1>7. CASE bin[5] = 2
  <2>1. Fits(<<45, 40, 25, 40>>, 4, 1, 100, 14, 150, 45, 4, 1, 42)
    BY DEF Fits
  <2>2. ValuesOf(<<45, 40, 25, 40>>, 5, bin)
    BY <1>7, CalmValues
  <2> QED
    BY <1>0, <1>4, <2>1, <2>2, FactorTurn
<1>8. CASE bin[5] = 3
  <2>1. Fits(<<10, 35, 30, 15>>, 4, 1, 100, 14, 150, 35, 4, 1, 42)
    BY DEF Fits
  <2>2. ValuesOf(<<10, 35, 30, 15>>, 5, bin)
    BY <1>8, CalmValues
  <2> QED
    BY <1>0, <1>4, <2>1, <2>2, FactorTurn
<1> QED
  BY <1>5, <1>6, <1>7, <1>8 DEF Calm, Shows

\* And so does the high volatility.
LEMMA VolatilityFades ==
  ASSUME NEW bin, Calm(bin), NEW b, NEW p \in [0 .. 5 -> Beliefs], Filters(b, bin, p),
         Believed(p[0]), NEW n \in Nat, Behind(p[0], 3, 1, 150, 755, n, 150)
  PROVE  Believed(p[5]) /\ Behind(p[5], 3, 1, 4, 1, n, 42)
<1>0. /\ p[1] = Weighed(p[0], bin, 1) /\ p[2] = Weighed(p[1], bin, 2) /\ p[3] = Weighed(p[2], bin, 3)
      /\ p[4] = Weighed(p[3], bin, 4) /\ p[5] = Weighed(p[4], bin, 5)
  BY DEF Filters
<1>1. Believed(p[1]) /\ Behind(p[1], 3, 1, 100, 47, n, 150)
  <2>1. Fits(<<55, 20, 5, 30>>, 3, 1, 150, 755, 150, 55, 100, 47, 150)
    BY DEF Fits
  <2>2. ValuesOf(<<55, 20, 5, 30>>, 1, bin)
    BY CalmValues
  <2> QED
    BY <1>0, <2>1, <2>2, FactorTurn
<1>2. Believed(p[2]) /\ Behind(p[2], 3, 1, 100, 4, n, 150)
  <2>1. Fits(<<60, 25, 5, 10>>, 3, 1, 100, 47, 150, 60, 100, 4, 150)
    BY DEF Fits
  <2>2. ValuesOf(<<60, 25, 5, 10>>, 2, bin)
    BY CalmValues
  <2> QED
    BY <1>0, <1>1, <2>1, <2>2, FactorTurn
<1>3. Believed(p[3]) /\ Behind(p[3], 3, 1, 100, 3, n, 150)
  <2>1. Fits(<<60, 30, 40, 50>>, 3, 1, 100, 4, 150, 60, 100, 3, 150)
    BY DEF Fits
  <2>2. ValuesOf(<<60, 30, 40, 50>>, 3, bin)
    BY CalmValues
  <2> QED
    BY <1>0, <1>2, <2>1, <2>2, FactorTurn
<1>4. Believed(p[4]) /\ Behind(p[4], 3, 1, 100, 2, n, 150)
  <2>1. Fits(<<60, 30, 30, 50>>, 3, 1, 100, 3, 150, 60, 100, 2, 150)
    BY DEF Fits
  <2>2. ValuesOf(<<60, 30, 30, 50>>, 4, bin)
    BY CalmValues
  <2> QED
    BY <1>0, <1>3, <2>1, <2>2, FactorTurn
<1>5. CASE bin[5] = 0
  <2>1. Fits(<<10, 10, 20, 15>>, 3, 1, 100, 2, 150, 20, 4, 1, 42)
    BY DEF Fits
  <2>2. ValuesOf(<<10, 10, 20, 15>>, 5, bin)
    BY <1>5, CalmValues
  <2> QED
    BY <1>0, <1>4, <2>1, <2>2, FactorTurn
<1>6. CASE bin[5] = 1
  <2>1. Fits(<<35, 15, 25, 30>>, 3, 1, 100, 2, 150, 35, 4, 1, 42)
    BY DEF Fits
  <2>2. ValuesOf(<<35, 15, 25, 30>>, 5, bin)
    BY <1>6, CalmValues
  <2> QED
    BY <1>0, <1>4, <2>1, <2>2, FactorTurn
<1>7. CASE bin[5] = 2
  <2>1. Fits(<<45, 40, 25, 40>>, 3, 1, 100, 2, 150, 45, 4, 1, 42)
    BY DEF Fits
  <2>2. ValuesOf(<<45, 40, 25, 40>>, 5, bin)
    BY <1>7, CalmValues
  <2> QED
    BY <1>0, <1>4, <2>1, <2>2, FactorTurn
<1>8. CASE bin[5] = 3
  <2>1. Fits(<<10, 35, 30, 15>>, 3, 1, 100, 2, 150, 35, 4, 1, 42)
    BY DEF Fits
  <2>2. ValuesOf(<<10, 35, 30, 15>>, 5, bin)
    BY <1>8, CalmValues
  <2> QED
    BY <1>0, <1>4, <2>1, <2>2, FactorTurn
<1> QED
  BY <1>5, <1>6, <1>7, <1>8 DEF Calm, Shows

-----------------------------------------------------------------------------
(* One update.                                                             *)

\* Neither the range nor the trend is more than twice as likely as the high volatility.
Leaning(b) == b[1] <= 2 * b[3] /\ b[2] <= 2 * b[3]

LEMMA WildStart ==
  ASSUME NEW b \in Beliefs
  PROVE  /\ Believed(Predicted(b))
         /\ Behind(Predicted(b), 2, 3, 10, 1, 66, 80) /\ Behind(Predicted(b), 1, 3, 10, 1, 100, 80)
         /\ Leaning(b) => /\ Behind(Predicted(b), 2, 3, 10, 1, 21, 80)
                          /\ Behind(Predicted(b), 1, 3, 10, 1, 31, 80)
<1> DEFINE v == Moved(b)
           p == Predicted(b)
<1>1. p = Normalised(v) /\ v \in Beliefs
  BY PredictedIs
<1>2. /\ b[1] \in Nat /\ b[2] \in Nat /\ b[3] \in Nat /\ b[4] \in Nat
      /\ v[1] = 75 * b[1] + 20 * b[2] + 15 * b[3] + 25 * b[4]
      /\ v[2] = 12 * b[1] + 65 * b[2] + 10 * b[3] + 10 * b[4]
      /\ v[3] =  8 * b[1] + 10 * b[2] + 65 * b[3] + 15 * b[4]
      /\ v[4] =  5 * b[1] +  5 * b[2] + 10 * b[3] + 50 * b[4]
  BY DEF Beliefs, Moved
<1> HIDE DEF v, p
<1>3. Believed(p)
  BY <1>1, NormalisedSum DEF Believed
<1>4. p[1] \in Nat /\ p[2] \in Nat /\ p[3] \in Nat
  BY <1>3 DEF Believed, Beliefs
<1>5. p[3] >= 80
  <2>1. 80 * SumOfFour(v) <= 1000 * v[3]
    BY <1>2 DEF SumOfFour
  <2> QED
    BY <1>1, <2>1, NormalisedShare
<1>6. 2 * p[2] <= 13 * (p[3] + 1)
  <2>1. 2 * v[2] <= 13 * v[3]
    BY <1>2
  <2> QED
    BY <1>1, <2>1, NormalisedRatio
<1>7. 8 * p[1] <= 75 * (p[3] + 1)
  <2>1. 8 * v[1] <= 75 * v[3]
    BY <1>2
  <2> QED
    BY <1>1, <2>1, NormalisedRatio
<1>8. Behind(p, 2, 3, 10, 1, 66, 80) /\ Behind(p, 1, 3, 10, 1, 100, 80)
  BY <1>4, <1>5, <1>6, <1>7 DEF Behind
<1>9. ASSUME Leaning(b)
      PROVE  Behind(p, 2, 3, 10, 1, 21, 80) /\ Behind(p, 1, 3, 10, 1, 31, 80)
  <2>1. 1 * v[2] <= 2 * v[3] /\ 1 * v[1] <= 3 * v[3]
    BY <1>2, <1>9 DEF Leaning
  <2>2. 1 * p[2] <= 2 * (p[3] + 1)
    BY <1>1, <2>1, NormalisedRatio
  <2>3. 1 * p[1] <= 3 * (p[3] + 1)
    BY <1>1, <2>1, NormalisedRatio
  <2> QED
    BY <1>4, <1>5, <2>2, <2>3 DEF Behind
<1> QED
  BY <1>3, <1>8, <1>9 DEF p

LEMMA CalmStart ==
  ASSUME NEW b \in Beliefs
  PROVE  /\ Believed(Predicted(b))
         /\ Behind(Predicted(b), 4, 1, 150, 302, 1, 150) /\ Behind(Predicted(b), 3, 1, 150, 755, 1, 150)
<1> DEFINE v == Moved(b)
           p == Predicted(b)
<1>1. p = Normalised(v) /\ v \in Beliefs
  BY PredictedIs
<1>2. /\ b[1] \in Nat /\ b[2] \in Nat /\ b[3] \in Nat /\ b[4] \in Nat
      /\ v[1] = 75 * b[1] + 20 * b[2] + 15 * b[3] + 25 * b[4]
      /\ v[2] = 12 * b[1] + 65 * b[2] + 10 * b[3] + 10 * b[4]
      /\ v[3] =  8 * b[1] + 10 * b[2] + 65 * b[3] + 15 * b[4]
      /\ v[4] =  5 * b[1] +  5 * b[2] + 10 * b[3] + 50 * b[4]
  BY DEF Beliefs, Moved
<1> HIDE DEF v, p
<1>3. Believed(p)
  BY <1>1, NormalisedSum DEF Believed
<1>4. p[1] \in Nat /\ p[3] \in Nat /\ p[4] \in Nat
  BY <1>3 DEF Believed, Beliefs
<1>5. p[1] >= 150
  <2>1. 150 * SumOfFour(v) <= 1000 * v[1]
    BY <1>2 DEF SumOfFour
  <2> QED
    BY <1>1, <2>1, NormalisedShare
<1>6. 1 * p[4] <= 2 * (p[1] + 1)
  <2>1. 1 * v[4] <= 2 * v[1]
    BY <1>2
  <2> QED
    BY <1>1, <2>1, NormalisedRatio
<1>7. 1 * p[3] <= 5 * (p[1] + 1)
  <2>1. 1 * v[3] <= 5 * v[1]
    BY <1>2
  <2> QED
    BY <1>1, <2>1, NormalisedRatio
<1>8. Behind(p, 4, 1, 150, 302, 1, 150) /\ Behind(p, 3, 1, 150, 755, 1, 150)
  BY <1>4, <1>5, <1>6, <1>7 DEF Behind
<1> QED
  BY <1>3, <1>8 DEF p

\* Whatever was believed, one update with the bins of a market leans to its regimes, and
\* a second one decides.
LEMMA UpdateLeans ==
  ASSUME NEW b \in Beliefs, NEW bin, \A k \in 1 .. 5 : bin[k] \in 0 .. Sizes[k] - 1
  PROVE  LET new == Updated(b, EncodeObservation(bin))
         IN  /\ new \in Beliefs
             /\ Wild(bin) => Leaning(new) /\ (Leaning(b) => new[1] < new[3] /\ new[2] < new[3])
             /\ Calm(bin) => new[3] < new[1] /\ new[4] < new[1]
<1> DEFINE seen == EncodeObservation(bin)
           column == Column(seen)
           new == Updated(b, seen)
<1>1. seen \in Nat
  BY SizesAre, EncodedIs
<1>2. \A k \in 1 .. 5 : column[k] = bin[k]
  BY BinsAreRead
<1>3. (Wild(bin) => Wild(column)) /\ (Calm(bin) => Calm(column))
  <2> HIDE DEF column
  <2> QED
    BY <1>2 DEF Wild, Calm, Shows
<1> HIDE DEF seen
<1>4. PICK p \in [0 .. 5 -> Beliefs] : Filters(b, column, p) /\ new = p[5]
  BY <1>1, UpdateTrace
<1> HIDE DEF column, new
<1>5. p[0] = Predicted(b) /\ new \in Beliefs
  BY <1>4 DEF Filters
<1>6. new[1] \in Nat /\ new[2] \in Nat /\ new[3] \in Nat /\ new[4] \in Nat
  BY <1>5 DEF Beliefs
<1>7. ASSUME Wild(bin)
      PROVE  Leaning(new) /\ (Leaning(b) => new[1] < new[3] /\ new[2] < new[3])
  <2>1. Wild(column) /\ Filters(b, column, p) /\ Believed(p[0])
    BY <1>3, <1>4, <1>5, <1>7, WildStart
  <2>2. Behind(p[0], 2, 3, 10, 1, 66, 80) /\ Behind(p[0], 1, 3, 10, 1, 100, 80)
    BY <1>5, WildStart
  <2>3. 66 \in Nat /\ 100 \in Nat /\ 21 \in Nat /\ 31 \in Nat
    OBVIOUS
  <2>4. Behind(p[5], 2, 3, 50, 1, 66, 14)
    BY <2>1, <2>2, <2>3, TrendFades
  <2>5. Behind(p[5], 1, 3, 50, 1, 100, 14)
    BY <2>1, <2>2, <2>3, RangeFades
  <2>6. Leaning(new)
    BY <1>4, <1>6, <2>4, <2>5 DEF Behind, Leaning
  <2>7. ASSUME Leaning(b) PROVE new[1] < new[3] /\ new[2] < new[3]
    <3>1. Behind(p[0], 2, 3, 10, 1, 21, 80) /\ Behind(p[0], 1, 3, 10, 1, 31, 80)
      BY <1>5, <2>7, WildStart
    <3>2. Behind(p[5], 2, 3, 50, 1, 21, 14)
      BY <2>1, <2>3, <3>1, TrendFades
    <3>3. Behind(p[5], 1, 3, 50, 1, 31, 14)
      BY <2>1, <2>3, <3>1, RangeFades
    <3> QED
      BY <1>4, <1>6, <3>2, <3>3 DEF Behind
  <2> QED
    BY <2>6, <2>7
<1>8. ASSUME Calm(bin)
      PROVE  new[3] < new[1] /\ new[4] < new[1]
  <2>1. Calm(column) /\ Filters(b, column, p) /\ Believed(p[0]) /\ 1 \in Nat
    BY <1>3, <1>4, <1>5, <1>8, CalmStart
  <2>2. Behind(p[0], 4, 1, 150, 302, 1, 150) /\ Behind(p[0], 3, 1, 150, 755, 1, 150)
    BY <1>5, CalmStart
  <2>3. Behind(p[5], 4, 1, 4, 1, 1, 42)
    BY <2>1, <2>2, ThinBookFades
  <2>4. Behind(p[5], 3, 1, 4, 1, 1, 42)
    BY <2>1, <2>2, VolatilityFades
  <2> QED
    BY <1>4, <1>6, <2>3, <2>4 DEF Behind
<1> QED
  BY <1>5, <1>7, <1>8 DEF new, seen

\* argmax.
LEMMA LikelyIs ==
  ASSUME NEW b \in Beliefs
  PROVE  /\ b[1] < b[3] /\ b[2] < b[3] => MostLikely(b) \in {"HIGH_VOL", "THIN_BOOK"}
         /\ b[3] < b[1] /\ b[4] < b[1] => MostLikely(b) \in {"RANGING", "TRENDING"}
<1> DEFINE best == {s \in Hidden : \A other \in Hidden : b[other] <= b[s]}
<1>1. best # {} /\ best \in SUBSET Nat /\ best \in SUBSET (1 .. 4)
  BY DEF Beliefs, Hidden
<1>2. MostLikely(b) = Regimes[Min(best)]
  BY DEF MostLikely
<1>3. \A s \in best : b[1] <= b[s] /\ b[3] <= b[s]
  BY DEF Hidden
<1>4. \A s \in 1 .. 4 : b[s] \in Nat
  BY DEF Beliefs
<1> HIDE DEF best
<1> DEFINE m == Min(best)
<1>5. m \in best
  <2>1. PICK l \in best : \A k \in best : l <= k
    BY <1>1, LeastNatural
  <2> QED
    BY <1>1, <2>1 DEF Min
<1> HIDE DEF m
<1>6. m \in {1, 2, 3, 4} /\ b[1] <= b[m] /\ b[3] <= b[m]
  <2>1. m \in 1 .. 4
    BY <1>1, <1>5
  <2>2. m \in {1, 2, 3, 4}
    BY <2>1
  <2> QED
    BY <1>3, <1>5, <2>2
<1>7. b[1] < b[3] /\ b[2] < b[3] => m \in {3, 4}
  BY <1>4, <1>6
<1>8. b[3] < b[1] /\ b[4] < b[1] => m \in {1, 2}
  BY <1>4, <1>6
<1> QED
  BY <1>2, <1>7, <1>8 DEF Regimes, m

-----------------------------------------------------------------------------
(* The readings.                                                           *)

ShownBins(r) == <<VolBin(r.vol), SpreadBin(r.zz)>>

BeliefInv ==
  /\ belief \in Beliefs /\ streak.times \in Nat
  /\ streak.times >= 1 =>
       /\ ShownBins(streak.reading) = <<2, 2>> => Leaning(belief)
       /\ ShownBins(streak.reading) = <<0, 0>> => published.regime \in {"RANGING", "TRENDING"}
  /\ streak.times >= 2 =>
       (ShownBins(streak.reading) = <<2, 2>> => published.regime \in {"HIGH_VOL", "THIN_BOOK"})

LEMMA BeliefStep ==
  ASSUME BeliefInv, NEW r \in Readings, NEW mid \in GlobalMids, ProcessReading(r, mid)
  PROVE  BeliefInv'
<1> DEFINE change == IF prevMid = 0 THEN 2 ELSE ChangeBin(prevMid, mid)
           bins == <<VolBin(r.vol), SpreadBin(r.zz), 1, 1, change>>
<1>1. belief' = Updated(belief, EncodeObservation(bins)) /\ published'.regime = MostLikely(belief')
  BY DEF ProcessReading
<1>2. /\ streak'.reading = r
      /\ streak'.times = IF streak.reading = r THEN streak.times + 1 ELSE 1
  BY DEF ProcessReading
<1>3. VolBin(r.vol) \in 0 .. 2 /\ SpreadBin(r.zz) \in 0 .. 2 /\ change \in 0 .. 3
  BY DEF VolBin, SpreadBin, ChangeBin
<1>4. \A k \in 1 .. 5 : bins[k] \in 0 .. Sizes[k] - 1
  BY <1>3 DEF Sizes
<1>5. /\ ShownBins(r) = <<2, 2>> => Wild(bins)
      /\ ShownBins(r) = <<0, 0>> => Calm(bins)
  BY <1>3 DEF ShownBins, Wild, Calm, Shows
<1> HIDE DEF bins, change
<1>6. belief \in Beliefs /\ streak.times \in Nat
  BY DEF BeliefInv
<1>7. /\ belief' \in Beliefs
      /\ Wild(bins) => Leaning(belief') /\ (Leaning(belief) => belief'[1] < belief'[3] /\ belief'[2] < belief'[3])
      /\ Calm(bins) => belief'[3] < belief'[1] /\ belief'[4] < belief'[1]
  BY <1>1, <1>4, <1>6, UpdateLeans
<1>8. streak'.times \in Nat
  BY <1>2, <1>6
<1>9. ASSUME ShownBins(r) = <<2, 2>> PROVE Leaning(belief')
  BY <1>5, <1>7, <1>9
<1>10. ASSUME ShownBins(r) = <<0, 0>> PROVE published'.regime \in {"RANGING", "TRENDING"}
  BY <1>1, <1>5, <1>7, <1>10, LikelyIs
<1>11. ASSUME ShownBins(r) = <<2, 2>>, streak'.times >= 2
       PROVE  published'.regime \in {"HIGH_VOL", "THIN_BOOK"}
  <2>1. streak.reading = r /\ streak.times >= 1
    BY <1>2, <1>6, <1>11
  <2>2. Leaning(belief)
    BY <1>11, <2>1 DEF BeliefInv
  <2> QED
    BY <1>1, <1>5, <1>7, <1>11, <2>2, LikelyIs
<1>12. Leaning(belief)' <=> Leaning(belief')
  BY DEF Leaning
<1>13. ShownBins(streak.reading)' = ShownBins(r)
  BY <1>2 DEF ShownBins
<1> QED
  BY <1>7, <1>8, <1>9, <1>10, <1>11, <1>12, <1>13 DEF BeliefInv

\* RegimeDetector.update: whatever was believed and however the mid moved, a market that
\* shows the same twice in a row is believed.  After the first wild reading no calm regime
\* is more than twice as likely as HIGH_VOL, after the second none is as likely; a calm
\* reading is believed at once.
THEOREM BeliefFollowsTheMarket == RegimeSpec => []BeliefFollows
<1>1. RegimeInit => BeliefInv
  BY DEF RegimeInit, BeliefInv, Prior, Beliefs
<1>2. BeliefInv /\ [RegimeNext]_regimeVars => BeliefInv'
  <2> SUFFICES ASSUME BeliefInv, [RegimeNext]_regimeVars PROVE BeliefInv'
    OBVIOUS
  <2>1. CASE RegimeNext
    BY <2>1, BeliefStep DEF RegimeNext
  <2>2. CASE UNCHANGED regimeVars
    BY <2>2 DEF regimeVars, BeliefInv, Leaning, ShownBins, VolBin, SpreadBin
  <2> QED
    BY <2>1, <2>2
<1>3. BeliefInv => BeliefFollows
  BY DEF BeliefInv, BeliefFollows, ShownBins
<1> QED
  BY <1>1, <1>2, <1>3, PTL DEF RegimeSpec

-----------------------------------------------------------------------------
(* Grid: the levels of one tick.                                           *)

(* Arithmetic.                                                             *)

LEMMA ProductMoves ==
  ASSUME NEW a \in Int, NEW b \in Int, NEW c \in Nat, a <= b
  PROVE  a * c \in Int /\ b * c \in Int /\ a * c <= b * c
BY SMT

LEMMA QuotientIs ==
  ASSUME NEW a \in Int, NEW d \in Nat \ {0}
  PROVE  a \div d \in Int /\ d * (a \div d) <= a /\ a < d * (a \div d) + d
BY SMT

LEMMA QuotientMoves ==
  ASSUME NEW a \in Int, NEW b \in Int, NEW d \in Nat \ {0}, a <= b
  PROVE  a \div d \in Int /\ b \div d \in Int /\ a \div d <= b \div d
<1> DEFINE q == a \div d
           r == b \div d
<1>1. q \in Int /\ d * q <= a
  BY QuotientIs
<1>2. r \in Int /\ b < d * r + d
  BY QuotientIs
<1> HIDE DEF q, r
<1>3. ASSUME r < q PROVE FALSE
  <2>1. r + 1 <= q /\ r + 1 \in Int /\ d \in Nat
    BY <1>1, <1>2, <1>3
  <2>2. (r + 1) * d <= q * d
    BY <1>1, <2>1, ProductMoves
  <2>3. (r + 1) * d = d * r + d /\ q * d = d * q
    BY <1>1, <1>2
  <2>4. d * r \in Int /\ d * q \in Int
    BY <1>1, <1>2
  <2> QED
    BY <1>1, <1>2, <2>2, <2>3, <2>4
<1> QED
  BY <1>1, <1>2, <1>3 DEF q, r

LEMMA QuotientIsNatural ==
  ASSUME NEW a \in Nat, NEW d \in Nat \ {0}
  PROVE  a \div d \in Nat
BY SMT

LEMMA ThousandthsIs ==
  ASSUME NEW x \in Int, NEW y \in Int
  PROVE  Thousandths(x, y) \in Int
<1>1. x * y \in Int
  OBVIOUS
<1> QED
  BY <1>1, QuotientIs DEF Thousandths

Fraction == 0 .. 1000

LEMMA FractionIs == \A x : x \in Fraction <=> x \in Int /\ 0 <= x /\ x <= 1000
BY DEF Fraction

\* A share of what is at most one whole is at most one whole.
LEMMA ThousandthsOfShare ==
  ASSUME NEW x \in Fraction, NEW y \in Fraction
  PROVE  Thousandths(x, y) \in Fraction
<1>0. x \in Int /\ 0 <= x /\ x <= 1000 /\ y \in Nat /\ y <= 1000
  BY FractionIs
<1>1. 0 * y <= x * y /\ x * y <= 1000 * y /\ x * y \in Int
  BY <1>0, ProductMoves
<1> DEFINE p == x * y
<1>2. 0 <= p /\ p <= 1000000 /\ p \in Int
  BY <1>0, <1>1
<1> HIDE DEF p
<1>3. p \div 1000 \in Int /\ 0 <= p \div 1000 /\ p \div 1000 <= 1000
  BY <1>2
<1> QED
  BY <1>3, FractionIs DEF p, Thousandths

LEMMA ClipIs ==
  ASSUME NEW x \in Int, NEW lo \in Int, NEW hi \in Int, lo <= hi
  PROVE  Clip(x, lo, hi) \in Int /\ lo <= Clip(x, lo, hi) /\ Clip(x, lo, hi) <= hi
BY DEF Clip, Greater, Lesser

-----------------------------------------------------------------------------
(* Aggressiveness.                                                         *)

LEMMA PowerIs ==
  ASSUME NEW T \in SUBSET Int, NEW x \in T, NEW p \in Nat \ {0}, \A a \in T : Thousandths(a, x) \in T
  PROVE  PowerOf(x, p) \in T
<1> DEFINE n == p - 1
           IsPower(f) == f = [k \in 0 .. n |-> IF k = 0 THEN x ELSE Thousandths(f[k - 1], x)]
           op == [q \in T \X (1 .. n) |-> Thousandths(q[1], x)]
<1>1. n \in Nat
  OBVIOUS
<1>2. PowerOf(x, p) = (CHOOSE f : IsPower(f))[n]
  BY DEF PowerOf
<1> HIDE DEF n
<1>3. op \in [T \X (1 .. n) -> T] /\ \A a \in T, k \in 1 .. n : op[<<a, k>>] = Thousandths(a, x)
  OBVIOUS
<1> HIDE DEF op
<1>4. PICK f \in [0 .. n -> T] : Steps(n, x, op, f)
  BY <1>1, <1>3, StepsThrough
<1>5. \A k \in 0 .. n : k # 0 => k \in 1 .. n /\ k - 1 \in 0 .. n
  BY <1>1
<1>6. \E g : IsPower(g)
  <2>1. \A k \in 0 .. n : f[k] = IF k = 0 THEN x ELSE Thousandths(f[k - 1], x)
    <3>1. f[0] = x /\ \A k \in 0 .. n : k # 0 => f[k] = op[<<f[k - 1], k>>]
      BY <1>1, <1>4 DEF Steps
    <3>2. \A k \in 0 .. n : k # 0 => f[k - 1] \in T /\ k \in 1 .. n
      BY <1>4, <1>5
    <3> QED
      BY <1>3, <3>1, <3>2
  <2>2. f = [k \in 0 .. n |-> f[k]]
    BY <1>4
  <2> QED
    BY <2>1, <2>2
<1> DEFINE c == CHOOSE g : IsPower(g)
<1>7. IsPower(c)
  BY <1>6
<1> HIDE DEF c
<1>8. c[0] = x /\ \A k \in 1 .. n : c[k] = Thousandths(c[k - 1], x)
  BY <1>1, <1>7
<1> HIDE DEF IsPower
<1> DEFINE Good == {k \in 0 .. n : c[k] \in T}
<1>9. 0 \in Good
  BY <1>1, <1>8
<1>10. \A k \in 0 .. n - 1 : k \in Good => k + 1 \in Good
  <2> SUFFICES ASSUME NEW k \in 0 .. n - 1, c[k] \in T PROVE k + 1 \in Good
    OBVIOUS
  <2>1. k + 1 \in 1 .. n /\ k + 1 \in 0 .. n /\ (k + 1) - 1 = k
    BY <1>1
  <2> QED
    BY <1>8, <2>1
<1> HIDE DEF Good
<1>11. n \in Good
  <2>1. \A k \in 0 .. n : k \in Good
    BY <1>1, <1>9, <1>10, CountUp
  <2> QED
    BY <1>1, <2>1
<1> QED
  BY <1>2, <1>11 DEF Good, c

LEMMA PowerOfShare ==
  ASSUME NEW x \in Fraction, NEW p \in Nat \ {0}
  PROVE  PowerOf(x, p) \in Fraction
<1>1. \A a \in Fraction : Thousandths(a, x) \in Fraction
  BY ThousandthsOfShare
<1>2. Fraction \in SUBSET Int
  BY FractionIs
<1> QED
  BY <1>1, <1>2, PowerIs

LEMMA PowerOfNumber ==
  ASSUME NEW x \in Int, NEW p \in Nat \ {0}
  PROVE  PowerOf(x, p) \in Int
BY ThousandthsIs, PowerIs

\* _tick: whatever the regime makes of it, an aggressiveness stays a share.
LEMMA AggressivenessIs ==
  ASSUME NEW c \in GridSettings, NEW m \in MarketStates
  PROVE  Aggressiveness(c, m)[1] \in Fraction /\ Aggressiveness(c, m)[2] \in Fraction
<1>a. /\ {c.volLow, c.volHigh, c.crashSellCeiling, c.crashBuyFloor} \subseteq Nat
      /\ c.power \in Nat \ {0} /\ c.base \in Fraction
      /\ {c.recoveryBuy, c.recoverySell} \subseteq Int
  BY DEF GridSettings, Fraction
<1>b. m.vol \in Nat /\ m.confidence \in Nat
  BY DEF MarketStates
<1>1. BaseAgg(c, m.vol) \in Fraction
  <2>1. CASE m.vol > c.volLow /\ m.vol < c.volHigh
    <3> DEFINE x == ((m.vol - c.volLow) * 1000) \div (c.volHigh - c.volLow)
    <3>1. x \in Int
      <4>1. (m.vol - c.volLow) * 1000 \in Int /\ c.volHigh - c.volLow \in Nat \ {0}
        BY <1>a, <1>b, <2>1
      <4> QED
        BY <4>1, QuotientIs
    <3>2. BaseAgg(c, m.vol) = Clip(1000 - PowerOf(x, c.power), 0, 1000)
      BY <1>a, <1>b, <2>1 DEF BaseAgg
    <3> HIDE DEF x
    <3>3. PowerOf(x, c.power) \in Int
      BY <1>a, <3>1, PowerOfNumber
    <3> DEFINE y == 1000 - PowerOf(x, c.power)
    <3>4. y \in Int
      BY <3>3
    <3> HIDE DEF y
    <3>5. Clip(y, 0, 1000) \in Fraction
      BY <3>4, ClipIs, FractionIs
    <3> QED
      BY <3>2, <3>5 DEF y
  <2>2. CASE m.vol <= c.volLow \/ m.vol >= c.volHigh
    BY <1>a, <1>b, <2>2, FractionIs DEF BaseAgg
  <2> QED
    BY <1>a, <1>b, <2>1, <2>2
<1> DEFINE base == BaseAgg(c, m.vol)
           zz == ZzAgg(c, m)
<1>2. zz[1] \in Fraction /\ zz[2] \in Fraction
  <2> DEFINE less == Clip(Thousandths(base, 800), 0, 1000)
             more == Clip(Thousandths(base, 1100), 0, 1000)
  <2>1. less \in Fraction /\ more \in Fraction
    <3>1. Thousandths(base, 800) \in Int /\ Thousandths(base, 1100) \in Int
      <4>1. base \in Int
        BY <1>1, FractionIs
      <4> HIDE DEF base
      <4> QED
        BY <4>1, ThousandthsIs
    <3> DEFINE lower == Thousandths(base, 800)
               higher == Thousandths(base, 1100)
    <3>2. lower \in Int /\ higher \in Int
      BY <3>1
    <3> HIDE DEF lower, higher
    <3>3. Clip(lower, 0, 1000) \in Fraction /\ Clip(higher, 0, 1000) \in Fraction
      BY <3>2, ClipIs, FractionIs
    <3> QED
      BY <3>3 DEF lower, higher
  <2>2. zz \in {<<less, more>>, <<more, less>>, <<base, base>>}
    BY DEF ZzAgg, MarketStates
  <2>3. base \in Fraction
    BY <1>1
  <2> HIDE DEF less, more, base, zz
  <2> QED
    BY <2>1, <2>2, <2>3
<1> HIDE DEF base, zz
<1> DEFINE h == HmmAgg(c, m)
<1>3. h[1] \in Fraction /\ h[2] \in Fraction
  <2>1. CASE m.hmm = "NORMAL"
    <3>1. h = zz
      BY <2>1 DEF HmmAgg, zz
    <3> HIDE DEF h
    <3> QED
      BY <1>2, <3>1
  <2>2. CASE m.hmm # "NORMAL"
    <3> DEFINE over == CASE m.hmm = "LOW_VOL"  -> <<Thousandths(zz[1], 1100), Thousandths(zz[2], 1100)>>
                         [] m.hmm = "HIGH_VOL" -> <<Thousandths(zz[1], 700), Thousandths(zz[2], 600)>>
                         [] m.hmm = "HIGH_VOL_CRASH" ->
                              <<CrashFloor(c, zz[1]), Lesser(zz[2], c.crashSellCeiling)>>
                         [] m.hmm = "RECOVERY" ->
                              <<Thousandths(zz[1], c.recoveryBuy), Thousandths(zz[2], c.recoverySell)>>
               blend == IF m.confidence < 500 THEN 2 * m.confidence ELSE 1000
    <3>1. h = [i \in 1 .. 2 |-> Clip(zz[i] + ((over[i] - zz[i]) * blend) \div 1000, 0, 1000)]
      BY <2>2 DEF HmmAgg, zz
    <3>2. blend \in Int
      BY <1>b
    <3>3. over[1] \in Int /\ over[2] \in Int
      <4>1. m.hmm \in {"LOW_VOL", "HIGH_VOL", "HIGH_VOL_CRASH", "RECOVERY"}
        BY <2>2 DEF MarketStates
      <4>a. zz[1] \in Int /\ zz[2] \in Int
        BY <1>2, FractionIs
      <4>2. \A w \in Int : Thousandths(zz[1], w) \in Int /\ Thousandths(zz[2], w) \in Int
        BY <4>a, ThousandthsIs
      <4>3. CrashFloor(c, zz[1]) \in Int /\ Lesser(zz[2], c.crashSellCeiling) \in Int
            /\ c.recoveryBuy \in Int /\ c.recoverySell \in Int
        BY <1>a, <4>a DEF CrashFloor, Greater, Lesser
      <4>4. CASE m.hmm = "LOW_VOL"
        BY <4>2, <4>4
      <4>5. CASE m.hmm = "HIGH_VOL"
        BY <4>2, <4>5
      <4>6. CASE m.hmm = "HIGH_VOL_CRASH"
        BY <4>3, <4>6
      <4>7. CASE m.hmm = "RECOVERY"
        BY <4>2, <4>3, <4>7
      <4> QED
        BY <4>1, <4>4, <4>5, <4>6, <4>7
    <3> HIDE DEF over, blend
    <3> DEFINE first == zz[1] + ((over[1] - zz[1]) * blend) \div 1000
               second == zz[2] + ((over[2] - zz[2]) * blend) \div 1000
    <3> HIDE DEF h, zz
    <3>4. h[1] = Clip(first, 0, 1000) /\ h[2] = Clip(second, 0, 1000)
      BY <3>1
    <3>5. first \in Int /\ second \in Int
      <4>1. zz[1] \in Int /\ zz[2] \in Int
        BY <1>2, FractionIs
      <4> DEFINE one == (over[1] - zz[1]) * blend
                 two == (over[2] - zz[2]) * blend
      <4>2. one \in Int /\ two \in Int
        BY <3>2, <3>3, <4>1
      <4> HIDE DEF one, two
      <4>3. one \div 1000 \in Int /\ two \div 1000 \in Int
        BY <4>2
      <4>4. zz[1] + one \div 1000 \in Int /\ zz[2] + two \div 1000 \in Int
        BY <4>1, <4>3
      <4> QED
        BY <4>4 DEF one, two
    <3> HIDE DEF first, second
    <3>6. 0 \in Int /\ 1000 \in Int /\ 0 <= 1000
      OBVIOUS
    <3> QED
      BY <3>4, <3>5, <3>6, ClipIs, FractionIs
  <2> QED
    BY <2>1, <2>2
<1>4. Aggressiveness(c, m)[1] = Thousandths(h[1], c.base) /\ Aggressiveness(c, m)[2] = Thousandths(h[2], c.base)
  BY DEF Aggressiveness
<1> HIDE DEF h
<1> QED
  BY <1>a, <1>3, <1>4, ThousandthsOfShare

-----------------------------------------------------------------------------
(* Depth.                                                                  *)

LEMMA DecayIs ==
  ASSUME NEW size \in Nat \ {0}
  PROVE  /\ Decay(size) \in Seq(Nat) /\ Len(Decay(size)) = size
         /\ Falling(Decay(size)) /\ Decay(size)[1] = 1000
<1> DEFINE n == size - 1
           T == Nat
           start == 1000
           next(a) == (4 * a) \div 5
           IsWeight(f) == f = [k \in 0 .. n |-> IF k = 0 THEN start ELSE next(f[k - 1])]
           op == [q \in T \X (1 .. n) |-> next(q[1])]
           w == CHOOSE f : IsWeight(f)
<1>1. n \in Nat
  OBVIOUS
<1>2. Decay(size) = [i \in 1 .. size |-> w[i - 1]]
  BY DEF Decay
<1> HIDE DEF n
<1>3. \A a \in Nat : next(a) \in Nat /\ next(a) <= a
  OBVIOUS
<1>4. op \in [T \X (1 .. n) -> T] /\ \A a \in T, k \in 1 .. n : op[<<a, k>>] = next(a)
  BY <1>3
<1>5. start \in T
  OBVIOUS
<1> HIDE DEF op, T, start, next
<1>6. PICK f \in [0 .. n -> T] : Steps(n, start, op, f)
  BY <1>1, <1>4, <1>5, StepsThrough
<1>7. \A k \in 0 .. n : k # 0 => k \in 1 .. n /\ k - 1 \in 0 .. n
  BY <1>1
<1>8. \E g : IsWeight(g)
  <2>1. \A k \in 0 .. n : f[k] = IF k = 0 THEN start ELSE next(f[k - 1])
    <3>1. f[0] = start /\ \A k \in 0 .. n : k # 0 => f[k] = op[<<f[k - 1], k>>]
      BY <1>1, <1>6 DEF Steps
    <3>2. \A k \in 0 .. n : k # 0 => f[k - 1] \in T /\ k \in 1 .. n
      BY <1>6, <1>7
    <3>3. \A k \in 0 .. n : k # 0 => f[k] = next(f[k - 1])
      BY <1>4, <3>1, <3>2
    <3> QED
      BY <3>1, <3>3
  <2>2. f = [k \in 0 .. n |-> f[k]]
    BY <1>6
  <2> QED
    BY <2>1, <2>2
<1>9. IsWeight(w)
  BY <1>8
<1> HIDE DEF w
<1>10. w[0] = start /\ \A k \in 1 .. n : w[k] = next(w[k - 1])
  BY <1>1, <1>9
<1> HIDE DEF IsWeight
<1> DEFINE Good == {k \in 0 .. n : w[k] \in Nat}
<1>11. 0 \in Good
  BY <1>1, <1>10 DEF start
<1>12. \A k \in 0 .. n - 1 : k \in Good => k + 1 \in Good
  <2> SUFFICES ASSUME NEW k \in 0 .. n - 1, w[k] \in Nat PROVE k + 1 \in Good
    OBVIOUS
  <2>1. k + 1 \in 1 .. n /\ k + 1 \in 0 .. n /\ (k + 1) - 1 = k
    BY <1>1
  <2>2. w[k + 1] = next(w[k])
    BY <1>10, <2>1
  <2>3. w[k + 1] \in Nat
    BY <1>3, <2>2
  <2> QED
    BY <2>1, <2>3
<1>13. \A k \in 0 .. n : w[k] \in Nat
  <2> HIDE DEF Good
  <2>1. \A k \in 0 .. n : k \in Good
    BY <1>1, <1>11, <1>12, CountUp
  <2> QED
    BY <2>1 DEF Good
<1>14. \A k \in 1 .. n : w[k] <= w[k - 1]
  <2> SUFFICES ASSUME NEW k \in 1 .. n PROVE w[k] <= w[k - 1]
    OBVIOUS
  <2>1. k - 1 \in 0 .. n
    BY <1>1
  <2>2. w[k - 1] \in Nat
    BY <1>13, <2>1
  <2>3. next(w[k - 1]) <= w[k - 1]
    BY <1>3, <2>2
  <2> QED
    BY <1>10, <2>3
<1> DEFINE d == [i \in 1 .. size |-> w[i - 1]]
<1>15. \A i \in 1 .. size : i - 1 \in 0 .. n
  BY DEF n
<1>16. d \in Seq(Nat) /\ Len(d) = size
  BY <1>13, <1>15
<1>17. \A i \in 1 .. size - 1 : d[i] >= d[i + 1]
  <2> SUFFICES ASSUME NEW i \in 1 .. size - 1 PROVE d[i] >= d[i + 1]
    OBVIOUS
  <2>1. i \in 1 .. n /\ i \in 1 .. size /\ i + 1 \in 1 .. size /\ (i + 1) - 1 = i
    BY DEF n
  <2>2. w[i] <= w[i - 1] /\ w[i] \in Nat /\ w[i - 1] \in Nat
    BY <1>13, <1>14, <1>15, <2>1
  <2> QED
    BY <2>1, <2>2
<1>18. d[1] = 1000
  BY <1>10 DEF start
<1> HIDE DEF d
<1>19. Decay(size) = d
  BY <1>2 DEF d
<1> QED
  BY <1>16, <1>17, <1>18, <1>19 DEF Falling

\* The sizes of the levels of a side: n of them, none larger than the one before it.
Levelled(s, n) == s \in Seq(Nat) /\ Len(s) = n /\ Falling(s)

\* RawAmounts: the passive and the equal distribution both fall, and so does their blend.
LEMMA RawAmountsFall ==
  ASSUME NEW c \in GridSettings, NEW agg \in Fraction, NEW n \in Nat \ {0}, NEW budget \in Nat
  PROVE  Levelled(RawAmounts(c, agg, n, budget), n)
<1> DEFINE blend == PowerOf(agg, c.depthCurve)
           decay == Decay(n)
           total == Total(decay)
           share(i) == ((1000 - blend) * decay[i]) \div total + blend \div n
           raw == [i \in 1 .. n |-> (share(i) * budget) \div 1000]
<1>1. RawAmounts(c, agg, n, budget) = raw
  BY DEF RawAmounts
<1>2. blend \in Nat /\ blend <= 1000
  <2>1. c.depthCurve \in Nat \ {0}
    BY DEF GridSettings
  <2>2. blend \in Fraction
    BY <2>1, PowerOfShare
  <2> QED
    BY <2>2, FractionIs
<1>3. decay \in Seq(Nat) /\ Len(decay) = n /\ Falling(decay) /\ decay[1] = 1000
  BY DecayIs
<1> HIDE DEF blend, decay
<1>4. total \in Nat \ {0}
  <2>1. total \in Nat /\ \A i \in 1 .. Len(decay) : decay[i] <= total
    BY <1>3, SumOfNaturals DEF Total
  <2>2. 1 \in 1 .. Len(decay)
    BY <1>3
  <2>3. 1000 <= total
    BY <1>3, <2>1, <2>2
  <2> QED
    BY <2>1, <2>3
<1> HIDE DEF total
<1>5. \A i \in 1 .. n : decay[i] \in Nat
  BY <1>3
<1>6. \A i \in 1 .. n - 1 : i \in 1 .. n /\ i + 1 \in 1 .. n /\ decay[i + 1] <= decay[i]
  BY <1>3 DEF Falling
<1>7. 1000 - blend \in Nat
  BY <1>2
<1> DEFINE rest == 1000 - blend
           even == blend \div n
<1>8. even \in Nat
  BY <1>2, QuotientIsNatural
<1> HIDE DEF even
<1>9. \A i \in 1 .. n : share(i) \in Nat
  <2> SUFFICES ASSUME NEW i \in 1 .. n PROVE share(i) \in Nat
    OBVIOUS
  <2>1. rest * decay[i] \in Nat
    BY <1>5, <1>7
  <2>2. (rest * decay[i]) \div total \in Nat
    BY <1>4, <2>1, QuotientIsNatural
  <2> QED
    BY <1>8, <2>2 DEF even
<1>10. \A i \in 1 .. n - 1 : share(i + 1) <= share(i)
  <2> SUFFICES ASSUME NEW i \in 1 .. n - 1 PROVE share(i + 1) <= share(i)
    OBVIOUS
  <2> DEFINE a == decay[i + 1]
             b == decay[i]
  <2>1. a \in Nat /\ b \in Nat /\ a <= b
    BY <1>5, <1>6
  <2> HIDE DEF a, b, rest
  <2>2. a * rest <= b * rest /\ a * rest = rest * a /\ b * rest = rest * b
        /\ rest * a \in Int /\ rest * b \in Int
    BY <1>7, <2>1, ProductMoves DEF rest
  <2>3. rest * a <= rest * b
    BY <2>2
  <2>4. /\ (rest * a) \div total \in Int /\ (rest * b) \div total \in Int
        /\ (rest * a) \div total <= (rest * b) \div total
    BY <1>4, <2>2, <2>3, QuotientMoves
  <2>5. (rest * a) \div total + even <= (rest * b) \div total + even
    BY <1>8, <2>4
  <2> QED
    BY <2>5 DEF a, b, rest, even
<1> HIDE DEF share
<1>11. \A i \in 1 .. n : raw[i] \in Nat
  <2> SUFFICES ASSUME NEW i \in 1 .. n PROVE (share(i) * budget) \div 1000 \in Nat
    OBVIOUS
  <2>1. share(i) * budget \in Nat
    BY <1>9
  <2> QED
    BY <2>1, QuotientIsNatural
<1>12. \A i \in 1 .. n - 1 : raw[i + 1] <= raw[i]
  <2> SUFFICES ASSUME NEW i \in 1 .. n - 1
               PROVE  (share(i + 1) * budget) \div 1000 <= (share(i) * budget) \div 1000
    BY <1>6
  <2>1. share(i + 1) \in Int /\ share(i) \in Int /\ share(i + 1) <= share(i)
    BY <1>6, <1>9, <1>10
  <2>2. /\ share(i + 1) * budget \in Int /\ share(i) * budget \in Int
        /\ share(i + 1) * budget <= share(i) * budget
    BY <2>1, ProductMoves
  <2> QED
    BY <2>2, QuotientMoves
<1>13. raw \in Seq(Nat) /\ Len(raw) = n
  <2>1. raw \in [1 .. n -> Nat]
    BY <1>11
  <2> HIDE DEF raw
  <2> QED
    BY <2>1
<1> HIDE DEF raw
<1> QED
  BY <1>1, <1>6, <1>11, <1>12, <1>13 DEF Levelled, Falling

\* FallBySteps: a level is cut to the one before it less the step, or to nothing.
LEMMA StepsFall ==
  ASSUME NEW amounts, NEW size \in Nat \ {0}, Levelled(amounts, size), NEW step \in Nat
  PROVE  Levelled(FallBySteps(amounts, step), size)
<1> DEFINE n == size - 1
           T == Nat
           first == amounts[1]
           next(a, k) == Lesser(amounts[k + 1], Greater(a - step, 0))
           IsCut(f) == f = [k \in 0 .. n |-> IF k = 0 THEN first ELSE next(f[k - 1], k)]
           op == [q \in T \X (1 .. n) |-> next(q[1], q[2])]
           cut == CHOOSE f : IsCut(f)
<1>a. /\ n \in Nat /\ DOMAIN amounts = 1 .. size /\ Len(amounts) = size
      /\ \A i \in 1 .. size : amounts[i] \in Nat
  BY DEF Levelled
<1>1. CASE step = 0
  BY <1>1 DEF FallBySteps
<1>2. CASE step # 0
  <2>1. FallBySteps(amounts, step) = [i \in 1 .. size |-> cut[i - 1]]
    <3>1. ~(step <= 0)
      BY <1>2
    <3>2. FallBySteps(amounts, step) = [i \in DOMAIN amounts |->
             (CHOOSE f : f = [k \in 0 .. Len(amounts) - 1 |->
                IF k = 0 THEN amounts[1]
                  ELSE Lesser(amounts[k + 1], Greater(f[k - 1] - step, 0))])[i - 1]]
      BY <3>1 DEF FallBySteps
    <3> QED
      BY <1>a, <3>2
  <2>2. \A i \in 1 .. size : i - 1 \in 0 .. n
    BY <1>a
  <2>3. \A k \in 1 .. n : k + 1 \in 1 .. size
    BY <1>a
  <2>4. \A a \in Nat, k \in 1 .. n : next(a, k) \in Nat /\ next(a, k) <= a
    <3> SUFFICES ASSUME NEW a \in Nat, NEW k \in 1 .. n PROVE next(a, k) \in Nat /\ next(a, k) <= a
      OBVIOUS
    <3>1. amounts[k + 1] \in Nat
      BY <1>a, <2>3
    <3> QED
      BY <3>1 DEF Lesser, Greater
  <2> HIDE DEF n
  <2>5. op \in [T \X (1 .. n) -> T] /\ \A a \in T, k \in 1 .. n : op[<<a, k>>] = next(a, k)
    BY <2>4
  <2>6. first \in T
    BY <1>a
  <2> HIDE DEF op, T, first, next
  <2>7. PICK f \in [0 .. n -> T] : Steps(n, first, op, f)
    BY <1>a, <2>5, <2>6, StepsThrough
  <2>8. \A k \in 0 .. n : k # 0 => k \in 1 .. n /\ k - 1 \in 0 .. n
    BY <1>a
  <2>9. \E g : IsCut(g)
    <3>1. \A k \in 0 .. n : f[k] = IF k = 0 THEN first ELSE next(f[k - 1], k)
      <4>1. f[0] = first /\ \A k \in 0 .. n : k # 0 => f[k] = op[<<f[k - 1], k>>]
        BY <1>a, <2>7 DEF Steps
      <4>2. \A k \in 0 .. n : k # 0 => f[k - 1] \in T /\ k \in 1 .. n
        BY <2>7, <2>8
      <4>3. \A k \in 0 .. n : k # 0 => f[k] = next(f[k - 1], k)
        BY <2>5, <4>1, <4>2
      <4> QED
        BY <4>1, <4>3
    <3>2. f = [k \in 0 .. n |-> f[k]]
      BY <2>7
    <3> QED
      BY <3>1, <3>2
  <2>10. IsCut(cut)
    BY <2>9
  <2> HIDE DEF cut
  <2>11. cut[0] = first /\ \A k \in 1 .. n : cut[k] = next(cut[k - 1], k)
    BY <1>a, <2>10
  <2> HIDE DEF IsCut
  <2> DEFINE Good == {k \in 0 .. n : cut[k] \in Nat}
  <2>12. 0 \in Good
    BY <1>a, <2>6, <2>11 DEF T
  <2>13. \A k \in 0 .. n - 1 : k \in Good => k + 1 \in Good
    <3> SUFFICES ASSUME NEW k \in 0 .. n - 1, cut[k] \in Nat PROVE k + 1 \in Good
      OBVIOUS
    <3>1. k + 1 \in 1 .. n /\ k + 1 \in 0 .. n /\ (k + 1) - 1 = k
      BY <1>a
    <3>2. cut[k + 1] = next(cut[k], k + 1)
      BY <2>11, <3>1
    <3>3. cut[k + 1] \in Nat
      BY <2>4, <3>1, <3>2
    <3> QED
      BY <3>1, <3>3
  <2>14. \A k \in 0 .. n : cut[k] \in Nat
    <3> HIDE DEF Good
    <3>1. \A k \in 0 .. n : k \in Good
      BY <1>a, <2>12, <2>13, CountUp
    <3> QED
      BY <3>1 DEF Good
  <2>15. \A k \in 1 .. n : cut[k] <= cut[k - 1]
    <3> SUFFICES ASSUME NEW k \in 1 .. n PROVE cut[k] <= cut[k - 1]
      OBVIOUS
    <3>1. k - 1 \in 0 .. n
      BY <1>a
    <3>2. cut[k - 1] \in Nat
      BY <2>14, <3>1
    <3> QED
      BY <2>4, <2>11, <3>2
  <2> DEFINE d == [i \in 1 .. size |-> cut[i - 1]]
  <2>16. d \in Seq(Nat) /\ Len(d) = size
    BY <2>2, <2>14
  <2>17. \A i \in 1 .. size - 1 : d[i] >= d[i + 1]
    <3> SUFFICES ASSUME NEW i \in 1 .. size - 1 PROVE d[i] >= d[i + 1]
      OBVIOUS
    <3>1. i \in 1 .. n /\ i \in 1 .. size /\ i + 1 \in 1 .. size /\ (i + 1) - 1 = i
          /\ i \in 0 .. n /\ i - 1 \in 0 .. n
      BY DEF n
    <3>2. cut[i] <= cut[i - 1] /\ cut[i] \in Nat /\ cut[i - 1] \in Nat
      BY <2>14, <2>15, <3>1
    <3> QED
      BY <3>1, <3>2
  <2> HIDE DEF d
  <2>18. FallBySteps(amounts, step) = d
    BY <2>1 DEF d
  <2> QED
    BY <2>16, <2>17, <2>18 DEF Levelled, Falling
<1> QED
  BY <1>1, <1>2

LEMMA LevelledIs ==
  ASSUME NEW f, NEW n \in Nat, f \in [1 .. n -> Nat], \A i \in 1 .. n - 1 : f[i + 1] <= f[i]
  PROVE  Levelled(f, n)
<1>1. f \in Seq(Nat) /\ Len(f) = n
  OBVIOUS
<1>2. \A i \in 1 .. n - 1 : f[i] \in Nat /\ f[i + 1] \in Nat
  OBVIOUS
<1> QED
  BY <1>1, <1>2 DEF Levelled, Falling

\* The sizes of a side when they are posted.
Postable(s, n, least) == Levelled(s, n) /\ \A i \in 1 .. n : s[i] >= least

LEMMA FloorKeepsTheFall ==
  ASSUME NEW amounts, NEW n \in Nat, Levelled(amounts, n), NEW least \in Nat
  PROVE  Postable(AtLeast(amounts, least), n, least)
<1> DEFINE f == [i \in 1 .. n |-> Greater(amounts[i], least)]
<1>1. /\ DOMAIN amounts = 1 .. n /\ \A i \in 1 .. n : amounts[i] \in Nat
      /\ \A i \in 1 .. n - 1 : i + 1 \in 1 .. n /\ i \in 1 .. n /\ amounts[i + 1] <= amounts[i]
  BY DEF Levelled, Falling
<1>2. AtLeast(amounts, least) = f
  BY <1>1 DEF AtLeast
<1>3. \A i \in 1 .. n : f[i] \in Nat /\ f[i] >= least
  BY <1>1 DEF Greater
<1>4. \A i \in 1 .. n - 1 : f[i + 1] <= f[i]
  BY <1>1 DEF Greater
<1>5. f \in [1 .. n -> Nat]
  BY <1>3
<1> HIDE DEF f
<1>6. Levelled(f, n)
  BY <1>4, <1>5, LevelledIs
<1> QED
  BY <1>2, <1>3, <1>6 DEF Postable

LEMMA CapKeepsTheFall ==
  ASSUME NEW amounts, NEW n \in Nat, NEW least \in Nat, Postable(amounts, n, least), NEW budget \in Nat
  PROVE  Postable(Capped(amounts, budget, least), n, least)
<1> DEFINE total == Total(amounts)
           scaled == [i \in 1 .. n |-> (amounts[i] * budget) \div total]
<1>1. /\ DOMAIN amounts = 1 .. n /\ \A i \in 1 .. n : amounts[i] \in Nat
      /\ \A i \in 1 .. n - 1 : i + 1 \in 1 .. n /\ i \in 1 .. n /\ amounts[i + 1] <= amounts[i]
      /\ amounts \in Seq(Nat)
  BY DEF Postable, Levelled, Falling
<1>2. total \in Nat
  BY <1>1, SumOfNaturals DEF Total
<1>3. CASE total > budget /\ \A i \in 1 .. n : scaled[i] >= least
  <2>1. Capped(amounts, budget, least) = scaled
    BY <1>1, <1>3 DEF Capped
  <2>2. total \in Nat \ {0}
    BY <1>2, <1>3
  <2> HIDE DEF total
  <2>3. \A i \in 1 .. n : scaled[i] \in Nat
    <3> SUFFICES ASSUME NEW i \in 1 .. n PROVE (amounts[i] * budget) \div total \in Nat
      OBVIOUS
    <3>1. amounts[i] * budget \in Nat
      BY <1>1
    <3> QED
      BY <2>2, <3>1, QuotientIsNatural
  <2>4. \A i \in 1 .. n - 1 : scaled[i + 1] <= scaled[i]
    <3> SUFFICES ASSUME NEW i \in 1 .. n - 1
                 PROVE  (amounts[i + 1] * budget) \div total <= (amounts[i] * budget) \div total
      BY <1>1
    <3> DEFINE a == amounts[i + 1]
               b == amounts[i]
    <3>1. a \in Int /\ b \in Int /\ a <= b
      BY <1>1
    <3> HIDE DEF a, b
    <3>2. a * budget \in Int /\ b * budget \in Int /\ a * budget <= b * budget
      BY <3>1, ProductMoves
    <3>3. (a * budget) \div total <= (b * budget) \div total
      BY <2>2, <3>2, QuotientMoves
    <3> QED
      BY <3>3 DEF a, b
  <2>5. scaled \in [1 .. n -> Nat]
    BY <2>3
  <2>6. \A i \in 1 .. n : scaled[i] >= least
    BY <1>3
  <2> HIDE DEF scaled
  <2>7. Levelled(scaled, n)
    BY <2>4, <2>5, LevelledIs
  <2> QED
    BY <2>1, <2>6, <2>7 DEF Postable
<1>4. CASE ~(total > budget /\ \A i \in 1 .. n : scaled[i] >= least)
  <2>1. Capped(amounts, budget, least) = amounts
    BY <1>1, <1>4 DEF Capped
  <2> QED
    BY <2>1
<1> QED
  BY <1>3, <1>4

LEMMA SideBudgetIs ==
  ASSUME NEW c \in GridSettings, NEW m \in MarketStates, NEW skew \in Int
  PROVE  SideBudget(c, m, skew) \in Nat
<1>1. c.budget \in Nat /\ m.mm.depth \in Nat
  BY DEF GridSettings, MarketStates
<1> DEFINE half == c.budget \div 2
           part == (half * m.mm.depth) \div 1000
           share == Clip(skew, 50, 200)
<1>2. half \in Nat
  BY <1>1
<1> HIDE DEF half
<1>3. part \in Nat
  <2>1. half * m.mm.depth \in Nat
    BY <1>1, <1>2
  <2> QED
    BY <2>1, QuotientIsNatural
<1>4. share \in Nat
  BY DEF Clip, Greater, Lesser
<1> HIDE DEF part, share
<1>5. part * share \in Nat
  BY <1>3, <1>4
<1>6. (part * share) \div 100 \in Nat
  BY <1>5, QuotientIsNatural
<1> QED
  BY <1>6 DEF SideBudget, half, part, share

\* DepthEngine.compute_amounts.
LEMMA AmountsArePostable ==
  ASSUME NEW c \in GridSettings, NEW m \in MarketStates, NEW agg \in Fraction, NEW n \in Nat \ {0}, NEW skew \in Int
  PROVE  Postable(Amounts(c, m, agg, n, skew), n, c.minOrder)
<1> DEFINE budget == SideBudget(c, m, skew)
           blended == RawAmounts(c, agg, n, budget)
           raw == FallBySteps(blended, c.minStepUsd)
           floored == AtLeast(raw, c.minOrder)
<1>1. c.minStepUsd \in Nat /\ c.minOrder \in Nat
  BY DEF GridSettings
<1>2. budget \in Nat
  BY SideBudgetIs
<1>3. Amounts(c, m, agg, n, skew) = Capped(floored, budget, c.minOrder)
  BY DEF Amounts
<1> HIDE DEF budget
<1>4. Levelled(blended, n)
  BY <1>2, RawAmountsFall
<1> HIDE DEF blended
<1>5. Levelled(raw, n)
  BY <1>1, <1>4, StepsFall
<1> HIDE DEF raw
<1>6. Postable(floored, n, c.minOrder)
  BY <1>1, <1>5, FloorKeepsTheFall
<1> HIDE DEF floored
<1>7. Postable(Capped(floored, budget, c.minOrder), n, c.minOrder)
  BY <1>1, <1>2, <1>6, CapKeepsTheFall
<1> QED
  BY <1>3, <1>7

-----------------------------------------------------------------------------
(* Prices.                                                                 *)

\* The rounding to the tick keeps the order of the spreads.
LEMMA PriceMoves ==
  ASSUME NEW c \in GridSettings, NEW m \in MarketStates, NEW a \in Int, NEW b \in Int, a <= b
  PROVE  /\ PriceOf(c, m, a) \in Int /\ PriceOf(c, m, b) \in Int
         /\ PriceOf(c, m, a) <= PriceOf(c, m, b)
<1> DEFINE grain == c.tick
           at == m.mid
           x == (at * (10000 + a)) \div 10000
           y == (at * (10000 + b)) \div 10000
           p == (2 * x + grain) \div (2 * grain)
           q == (2 * y + grain) \div (2 * grain)
<1>1. grain \in Nat \ {0} /\ at \in Nat
  BY DEF GridSettings, MarketStates
<1>2. PriceOf(c, m, a) = grain * p /\ PriceOf(c, m, b) = grain * q
  BY DEF PriceOf
<1> HIDE DEF grain, at
<1>3. x \in Int /\ y \in Int /\ x <= y
  <2> DEFINE u == 10000 + a
             v == 10000 + b
  <2>1. u \in Int /\ v \in Int /\ u <= v
    OBVIOUS
  <2> HIDE DEF u, v
  <2>2. u * at \in Int /\ v * at \in Int /\ u * at <= v * at /\ u * at = at * u /\ v * at = at * v
    BY <1>1, <2>1, ProductMoves
  <2> DEFINE uu == at * u
             vv == at * v
  <2>3. uu \in Int /\ vv \in Int /\ uu <= vv
    BY <2>2
  <2> HIDE DEF uu, vv
  <2>4. uu \div 10000 \in Int /\ vv \div 10000 \in Int /\ uu \div 10000 <= vv \div 10000
    BY <2>3
  <2> QED
    BY <2>4 DEF uu, vv, u, v
<1> HIDE DEF x, y
<1>4. p \in Int /\ q \in Int /\ p <= q
  <2>1. 2 * x + grain \in Int /\ 2 * y + grain \in Int /\ 2 * x + grain <= 2 * y + grain
        /\ 2 * grain \in Nat \ {0}
    BY <1>1, <1>3
  <2> QED
    BY <2>1, QuotientMoves
<1> HIDE DEF p, q
<1>5. p * grain \in Int /\ q * grain \in Int /\ p * grain <= q * grain /\ p * grain = grain * p /\ q * grain = grain * q
  BY <1>1, <1>4, ProductMoves
<1> QED
  BY <1>2, <1>5

LEMMA LevelOf ==
  ASSUME NEW slope \in Int, NEW a \in Fraction, NEW b \in Fraction, a <= b
  PROVE  /\ (slope * a) \div 1000 \in Int /\ (slope * b) \div 1000 \in Int
         /\ slope >= 0 => (slope * a) \div 1000 <= (slope * b) \div 1000
         /\ slope <= 0 => (slope * b) \div 1000 <= (slope * a) \div 1000
<1>1. a \in Nat /\ b \in Nat /\ a <= b
  BY FractionIs
<1> DEFINE x == slope * a
           y == slope * b
<1>2. x \in Int /\ y \in Int
  BY <1>1
<1>3. slope >= 0 => x <= y
  <2> SUFFICES ASSUME slope >= 0 PROVE x <= y
    OBVIOUS
  <2>1. slope \in Nat
    OBVIOUS
  <2>2. a * slope <= b * slope /\ a * slope = slope * a /\ b * slope = slope * b
    BY <1>1, <2>1, ProductMoves
  <2> QED
    BY <1>2, <2>2
<1>4. slope <= 0 => y <= x
  <2> SUFFICES ASSUME slope <= 0 PROVE y <= x
    OBVIOUS
  <2> DEFINE less == -slope
  <2>1. less \in Nat /\ slope = -less
    OBVIOUS
  <2> HIDE DEF less
  <2>2. a * less <= b * less /\ a * less \in Int /\ b * less \in Int
    BY <1>1, <2>1, ProductMoves
  <2>3. x = -(a * less) /\ y = -(b * less)
    BY <1>1, <2>1
  <2> QED
    BY <1>2, <2>2, <2>3
<1> HIDE DEF x, y
<1>5. /\ x \div 1000 \in Int /\ y \div 1000 \in Int
      /\ x <= y => x \div 1000 <= y \div 1000
      /\ y <= x => y \div 1000 <= x \div 1000
  BY <1>2
<1> QED
  BY <1>3, <1>4, <1>5 DEF x, y

\* The levels of a side, on a curve from 0 to 1 that never falls.
Rises(curve, n) ==
  /\ curve \in [1 .. n -> Fraction] /\ curve[1] = 0
  /\ \A i \in 1 .. n - 1 : curve[i] <= curve[i + 1]

OutFrom(spreads, n, tightest, widest, mult) ==
  /\ DOMAIN spreads = 1 .. n /\ \A i \in 1 .. n : spreads[i] \in Int
  /\ spreads[1] = (tightest * mult) \div 1000
  /\ widest <= tightest => \A i \in 1 .. n - 1 : spreads[i + 1] <= spreads[i]
  /\ tightest <= widest => \A i \in 1 .. n - 1 : spreads[i] <= spreads[i + 1]

\* compute_levels_huy, without a minimum step: the levels go from the tightest to the widest.
LEMMA LevelsGoOut ==
  ASSUME NEW tightest \in Int, NEW widest \in Int, NEW mult \in Nat, NEW n \in Nat \ {0},
         NEW curve, Rises(curve, n)
  PROVE  OutFrom(SideLevels(tightest, widest, mult, curve), n, tightest, widest, mult)
<1> DEFINE base == (tightest * mult) \div 1000
           slope == ((widest - tightest) * mult) \div 1000
           levels == [i \in 1 .. n |-> base + (slope * curve[i]) \div 1000]
<1>1. /\ DOMAIN curve = 1 .. n /\ curve[1] = 0 /\ \A i \in 1 .. n : curve[i] \in Fraction
      /\ \A i \in 1 .. n - 1 : i \in 1 .. n /\ i + 1 \in 1 .. n /\ curve[i] <= curve[i + 1]
  BY DEF Rises
<1>2. SideLevels(tightest, widest, mult, curve) = levels
  BY <1>1 DEF SideLevels
<1>3. base \in Int
  <2>1. tightest * mult \in Int
    OBVIOUS
  <2> QED
    BY <2>1, QuotientIs
<1>4. slope \in Int /\ (widest <= tightest => slope <= 0) /\ (tightest <= widest => slope >= 0)
  <2> DEFINE gap == widest - tightest
             x == gap * mult
  <2>1. gap \in Int /\ (widest <= tightest => gap <= 0) /\ (tightest <= widest => gap >= 0)
    OBVIOUS
  <2> HIDE DEF gap
  <2>2. x \in Int /\ (gap <= 0 => x <= 0) /\ (gap >= 0 => x >= 0)
    BY <2>1, SMT
  <2> HIDE DEF x
  <2>3. x \div 1000 \in Int /\ (x <= 0 => x \div 1000 <= 0) /\ (x >= 0 => x \div 1000 >= 0)
    BY <2>2
  <2> QED
    BY <2>1, <2>2, <2>3 DEF x, gap
<1> HIDE DEF base, slope
<1>5. \A i \in 1 .. n : levels[i] \in Int
  <2> SUFFICES ASSUME NEW i \in 1 .. n PROVE base + (slope * curve[i]) \div 1000 \in Int
    OBVIOUS
  <2>1. curve[i] \in Fraction /\ curve[i] <= curve[i]
    BY <1>1, FractionIs
  <2>2. (slope * curve[i]) \div 1000 \in Int
    BY <1>4, <2>1, LevelOf
  <2> QED
    BY <1>3, <2>2
<1>6. levels[1] = base
  <2>1. levels[1] = base + (slope * 0) \div 1000
    BY <1>1
  <2>2. slope * 0 = 0 /\ 0 \div 1000 = 0
    BY <1>4
  <2> QED
    BY <1>3, <2>1, <2>2
<1>7. \A i \in 1 .. n - 1 : /\ widest <= tightest => levels[i + 1] <= levels[i]
                            /\ tightest <= widest => levels[i] <= levels[i + 1]
  <2> SUFFICES ASSUME NEW i \in 1 .. n - 1
               PROVE  /\ widest <= tightest => levels[i + 1] <= levels[i]
                      /\ tightest <= widest => levels[i] <= levels[i + 1]
    OBVIOUS
  <2> DEFINE a == curve[i]
             b == curve[i + 1]
  <2>1. a \in Fraction /\ b \in Fraction /\ a <= b
    BY <1>1
  <2>2. levels[i] = base + (slope * a) \div 1000 /\ levels[i + 1] = base + (slope * b) \div 1000
    BY <1>1
  <2> HIDE DEF a, b, levels
  <2>3. /\ (slope * a) \div 1000 \in Int /\ (slope * b) \div 1000 \in Int
        /\ slope >= 0 => (slope * a) \div 1000 <= (slope * b) \div 1000
        /\ slope <= 0 => (slope * b) \div 1000 <= (slope * a) \div 1000
    BY <1>4, <2>1, LevelOf
  <2> QED
    BY <1>3, <1>4, <2>2, <2>3
<1>8. DOMAIN levels = 1 .. n
  OBVIOUS
<1> HIDE DEF levels
<1> QED
  BY <1>2, <1>5, <1>6, <1>7, <1>8 DEF base, OutFrom

\* The prices of a side: the first is that of the tightest bound, the rest go outward.
LEMMA PricesGoOut ==
  ASSUME NEW c \in GridSettings, NEW m \in MarketStates, NEW n \in Nat \ {0}, NEW curve, Rises(curve, n),
         NEW tightest \in Int, NEW widest \in Int, NEW mult \in Nat, NEW levels,
         levels = SideLevels(tightest, widest, mult, curve), NEW prices,
         prices = [i \in DOMAIN levels |-> PriceOf(c, m, levels[i])]
  PROVE  /\ prices[1] = PriceOf(c, m, (tightest * mult) \div 1000)
         /\ widest <= tightest => Falling(prices)
         /\ tightest <= widest => Rising(prices)
<1>1. /\ DOMAIN levels = 1 .. n /\ \A i \in 1 .. n : levels[i] \in Int
      /\ levels[1] = (tightest * mult) \div 1000
      /\ widest <= tightest => \A i \in 1 .. n - 1 : levels[i + 1] <= levels[i]
      /\ tightest <= widest => \A i \in 1 .. n - 1 : levels[i] <= levels[i + 1]
  <2>1. OutFrom(levels, n, tightest, widest, mult)
    <3>1. OutFrom(SideLevels(tightest, widest, mult, curve), n, tightest, widest, mult)
      BY LevelsGoOut, Zenon
    <3> QED
      BY <3>1
  <2> QED
    BY <2>1 DEF OutFrom
<1>2. DOMAIN prices = 1 .. n /\ \A i \in 1 .. n : prices[i] = PriceOf(c, m, levels[i])
  BY <1>1
<1>3. Len(prices) = n
  <2>1. \A i \in 1 .. n : prices[i] \in Int
    <3> SUFFICES ASSUME NEW i \in 1 .. n PROVE prices[i] \in Int
      OBVIOUS
    <3>1. levels[i] \in Int /\ levels[i] <= levels[i]
      BY <1>1
    <3>2. PriceOf(c, m, levels[i]) \in Int
      BY <3>1, PriceMoves
    <3> QED
      BY <1>2, <3>2
  <2>2. prices = [i \in 1 .. n |-> prices[i]]
    BY <1>1
  <2>3. prices \in Seq(Int)
    BY <2>1, <2>2
  <2> QED
    BY <1>2, <2>3
<1>4. \A i \in 1 .. n - 1 : /\ levels[i + 1] <= levels[i] => prices[i] >= prices[i + 1]
                            /\ levels[i] <= levels[i + 1] => prices[i] <= prices[i + 1]
  <2> SUFFICES ASSUME NEW i \in 1 .. n - 1
               PROVE  /\ levels[i + 1] <= levels[i] => prices[i] >= prices[i + 1]
                      /\ levels[i] <= levels[i + 1] => prices[i] <= prices[i + 1]
    OBVIOUS
  <2>1. i \in 1 .. n /\ i + 1 \in 1 .. n
    OBVIOUS
  <2>2. levels[i] \in Int /\ levels[i + 1] \in Int
    BY <1>1, <2>1
  <2>3. prices[i] = PriceOf(c, m, levels[i]) /\ prices[i + 1] = PriceOf(c, m, levels[i + 1])
    BY <1>2, <2>1
  <2>4. ASSUME levels[i + 1] <= levels[i] PROVE prices[i] >= prices[i + 1]
    <3>1. /\ PriceOf(c, m, levels[i]) \in Int /\ PriceOf(c, m, levels[i + 1]) \in Int
          /\ PriceOf(c, m, levels[i + 1]) <= PriceOf(c, m, levels[i])
      BY <2>2, <2>4, PriceMoves
    <3> QED
      BY <2>3, <3>1
  <2>5. ASSUME levels[i] <= levels[i + 1] PROVE prices[i] <= prices[i + 1]
    <3>1. PriceOf(c, m, levels[i]) <= PriceOf(c, m, levels[i + 1])
      BY <2>2, <2>5, PriceMoves
    <3> QED
      BY <2>3, <3>1
  <2> QED
    BY <2>4, <2>5
<1>5. prices[1] = PriceOf(c, m, (tightest * mult) \div 1000)
  BY <1>1, <1>2
<1>6. ASSUME widest <= tightest PROVE Falling(prices)
  <2>1. \A i \in 1 .. n - 1 : levels[i + 1] <= levels[i]
    BY <1>1, <1>6
  <2>2. \A i \in 1 .. n - 1 : prices[i] >= prices[i + 1]
    BY <1>4, <2>1
  <2> QED
    BY <1>3, <2>2 DEF Falling
<1>7. ASSUME tightest <= widest PROVE Rising(prices)
  <2>1. \A i \in 1 .. n - 1 : levels[i] <= levels[i + 1]
    BY <1>1, <1>7
  <2>2. \A i \in 1 .. n - 1 : prices[i] <= prices[i + 1]
    BY <1>4, <2>1
  <2> QED
    BY <1>3, <2>2 DEF Rising
<1> QED
  BY <1>5, <1>6, <1>7

\* What a tick is given.
GivenIsReal ==
  /\ given.config \in GridConfigs /\ given.market \in Markets /\ given.drift \in Int
  /\ Rises(given.buyCurve, BuyLevels(given.config))
  /\ Rises(given.sellCurve, SellLevels(given.config))

LEMMA LevelCountsAre ==
  ASSUME NEW c \in GridSettings
  PROVE  BuyLevels(c) \in Nat \ {0} /\ SellLevels(c) \in Nat \ {0}
BY DEF GridSettings, LevelCounts, BuyLevels, SellLevels, Or

LEMMA CurvesRise ==
  ASSUME NEW n \in Nat, NEW curve \in Curves(n)
  PROVE  Rises(curve, n)
<1>1. curve \in [1 .. n -> CurveValues] /\ curve[1] = 0 /\ \A i \in 1 .. n - 1 : curve[i] <= curve[i + 1]
  BY DEF Curves
<1>2. CurveValues \subseteq Fraction
  BY GridAssumption DEF Fraction
<1>3. curve \in [1 .. n -> Fraction]
  BY <1>1, <1>2
<1> QED
  BY <1>1, <1>3 DEF Rises

LEMMA ConfigsAre ==
  /\ \A c \in GridConfigs : c \in GridSettings
  /\ \A m \in Markets : m \in MarketStates
BY GridAssumption

LEMMA SkewIs ==
  ASSUME NEW m \in MarketStates, NEW drift \in Int
  PROVE  Skew(m, drift) \in Int
<1>1. m.mm.skew \in Int
  BY DEF MarketStates
<1> QED
  BY <1>1 DEF Skew, Clip, Greater, Lesser

\* What is posted at the tightest bounds of both sides does not cross.
LEMMA InnerPricesApart ==
  ASSUME NEW c \in GridSettings, NEW m \in MarketStates, NEW mult \in Nat, c.buyTightest <= c.sellTightest
  PROVE  PriceOf(c, m, (c.buyTightest * mult) \div 1000)
           <= PriceOf(c, m, (c.sellTightest * mult) \div 1000)
<1> DEFINE a == c.buyTightest
           b == c.sellTightest
<1>1. a \in Int /\ b \in Int /\ a <= b
  BY DEF GridSettings
<1> HIDE DEF a, b
<1>2. a * mult \in Int /\ b * mult \in Int /\ a * mult <= b * mult
  BY <1>1, ProductMoves
<1> DEFINE x == a * mult
           y == b * mult
<1>3. x \in Int /\ y \in Int /\ x <= y
  BY <1>2
<1> HIDE DEF x, y
<1>4. x \div 1000 \in Int /\ y \div 1000 \in Int /\ x \div 1000 <= y \div 1000
  BY <1>3
<1>5. PriceOf(c, m, x \div 1000) <= PriceOf(c, m, y \div 1000)
  BY <1>4, PriceMoves
<1> QED
  BY <1>5 DEF a, b, x, y

LEMMA NoStepNoPush ==
  ASSUME NEW levels
  PROVE  EnforceMinStep(levels, 0) = levels
BY DEF EnforceMinStep

LEMMA GridStep ==
  ASSUME GivenIsReal, ComputeGrid
  PROVE  GridFansOut'
<1> DEFINE c == given.config
           m == given.market
           mult == Greater(100, m.mm.spread)
           skew == Skew(m, given.drift)
           agg == Aggressiveness(c, m)
           buys == BuySpreads(c, m, given.buyCurve)
           sells == SellSpreads(c, m, given.sellCurve)
<1>1. c \in GridSettings /\ m \in MarketStates /\ given.drift \in Int
  BY ConfigsAre DEF GivenIsReal
<1>2. BuyLevels(c) \in Nat \ {0} /\ SellLevels(c) \in Nat \ {0}
  BY <1>1, LevelCountsAre
<1>3. skew \in Int /\ 200 - skew \in Int
  BY <1>1, SkewIs
<1>4. agg[1] \in Fraction /\ agg[2] \in Fraction
  BY <1>1, AggressivenessIs
<1>5. mult \in Nat
  <2>1. m.mm.spread \in Nat
    BY <1>1 DEF MarketStates
  <2> QED
    BY <2>1 DEF Greater
<1>6. /\ given' = given
      /\ grid'.buyPrices = [i \in DOMAIN buys |-> PriceOf(c, m, buys[i])]
      /\ grid'.sellPrices = [i \in DOMAIN sells |-> PriceOf(c, m, sells[i])]
      /\ grid'.buyFull = Amounts(c, m, agg[1], BuyLevels(c), skew)
      /\ grid'.sellFull = Amounts(c, m, agg[2], SellLevels(c), 200 - skew)
  BY DEF ComputeGrid
<1>7. /\ Rises(given.buyCurve, BuyLevels(c)) /\ Rises(given.sellCurve, SellLevels(c))
  BY DEF GivenIsReal
<1>8. /\ c.buyTightest \in Int /\ c.buyWidest \in Int /\ c.sellTightest \in Int /\ c.sellWidest \in Int
  BY <1>1 DEF GridSettings
<1>9. c.buyStep = 0 => buys = SideLevels(c.buyTightest, c.buyWidest, mult, given.buyCurve)
  BY NoStepNoPush DEF BuySpreads
<1>10. c.sellStep = 0 => sells = SideLevels(c.sellTightest, c.sellWidest, mult, given.sellCurve)
  BY NoStepNoPush DEF SellSpreads
<1> HIDE DEF c, m, mult, skew, agg, buys, sells
<1>11. ASSUME BoundsInOrder(c), c.buyStep = 0, c.sellStep = 0
       PROVE  /\ Falling(grid'.buyPrices) /\ Rising(grid'.sellPrices)
              /\ grid'.buyPrices[1] <= grid'.sellPrices[1]
  <2>1. /\ grid'.buyPrices[1] = PriceOf(c, m, (c.buyTightest * mult) \div 1000)
        /\ c.buyWidest <= c.buyTightest => Falling(grid'.buyPrices)
    BY <1>1, <1>2, <1>5, <1>6, <1>7, <1>8, <1>9, <1>11, PricesGoOut
  <2>2. /\ grid'.sellPrices[1] = PriceOf(c, m, (c.sellTightest * mult) \div 1000)
        /\ c.sellTightest <= c.sellWidest => Rising(grid'.sellPrices)
    BY <1>1, <1>2, <1>5, <1>6, <1>7, <1>8, <1>10, <1>11, PricesGoOut
  <2>3. PriceOf(c, m, (c.buyTightest * mult) \div 1000) <= PriceOf(c, m, (c.sellTightest * mult) \div 1000)
    BY <1>1, <1>5, <1>11, InnerPricesApart DEF BoundsInOrder
  <2> QED
    BY <1>11, <2>1, <2>2, <2>3 DEF BoundsInOrder
<1>12. Postable(grid'.buyFull, BuyLevels(c), c.minOrder)
  BY <1>1, <1>2, <1>3, <1>4, <1>6, AmountsArePostable
<1>13. Postable(grid'.sellFull, SellLevels(c), c.minOrder)
  BY <1>1, <1>2, <1>3, <1>4, <1>6, AmountsArePostable
<1>14. \A s : \A n \in Nat \ {0} : Postable(s, n, c.minOrder) =>
         Falling(s) /\ \A i \in DOMAIN s : s[i] >= c.minOrder
  BY DEF Postable, Levelled
<1>15. \A s \in {grid'.buyFull, grid'.sellFull} :
         Falling(s) /\ \A i \in DOMAIN s : s[i] >= c.minOrder
  BY <1>2, <1>12, <1>13, <1>14
<1>16. given'.config = c
  BY <1>6 DEF c
<1> QED
  BY <1>11, <1>15, <1>16 DEF GridFansOut, BoundsInOrder, Falling, Rising

\* _tick: for any configuration the schema lets pass whose bounds lie in order, any market
\* state, inventory and curve, the levels go outward and no purchase is dearer than a sale;
\* and for any configuration at all, no level is smaller than the exchange takes or larger
\* than the one before it.
THEOREM LevelsFanOut == GridSpec => []GridFansOut
<1>1. GridInit => GivenIsReal /\ GridFansOut
  <2> SUFFICES ASSUME GridInit PROVE GivenIsReal /\ GridFansOut
    OBVIOUS
  <2>1. PICK c \in GridConfigs, m \in Markets, d \in Drifts :
          \E b \in Curves(BuyLevels(c)), s \in Curves(SellLevels(c)) :
            given = [config |-> c, market |-> m, drift |-> d, buyCurve |-> b, sellCurve |-> s]
    BY DEF GridInit
  <2>2. PICK b \in Curves(BuyLevels(c)), s \in Curves(SellLevels(c)) :
          given = [config |-> c, market |-> m, drift |-> d, buyCurve |-> b, sellCurve |-> s]
    BY <2>1
  <2>3. /\ given.config = c /\ given.market = m /\ given.drift = d
        /\ given.buyCurve = b /\ given.sellCurve = s
    BY <2>2
  <2>4. d \in Int
    BY GridAssumption
  <2>5. BuyLevels(c) \in Nat /\ SellLevels(c) \in Nat
    BY ConfigsAre, LevelCountsAre
  <2>6. Rises(b, BuyLevels(c)) /\ Rises(s, SellLevels(c))
    BY <2>5, CurvesRise
  <2>7. GivenIsReal
    BY <2>3, <2>4, <2>6 DEF GivenIsReal
  <2>8. GridFansOut
    BY DEF GridInit, GridFansOut
  <2> QED
    BY <2>7, <2>8
<1>2. GivenIsReal /\ GridFansOut /\ [GridNext]_gridVars => (GivenIsReal /\ GridFansOut)'
  <2> SUFFICES ASSUME GivenIsReal, GridFansOut, [GridNext]_gridVars
               PROVE  (GivenIsReal /\ GridFansOut)'
    OBVIOUS
  <2>1. CASE ComputeGrid
    <3>1. given' = given
      BY <2>1 DEF ComputeGrid
    <3>2. GivenIsReal'
      BY <3>1 DEF GivenIsReal, Rises
    <3> QED
      BY <2>1, <3>2, GridStep
  <2>2. CASE UNCHANGED gridVars
    BY <2>2 DEF gridVars, GivenIsReal, Rises, GridFansOut, BoundsInOrder, Falling, Rising
  <2> QED
    BY <2>1, <2>2 DEF GridNext
<1> QED
  BY <1>1, <1>2, PTL DEF GridSpec

=============================================================================
