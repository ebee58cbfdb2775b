------------------------------ MODULE FoldProofs ------------------------------
(***************************************************************************)
(* Induction over data, without operator parameters: over the numbers and  *)
(* over the subsets of a finite set, for a set of the good ones, and from  *)
(* it what the folds of the community modules compute.                     *)
(***************************************************************************)
EXTENDS Integers, SequencesExt, FiniteSetTheorems, SequenceTheorems,
  WellFoundedInduction, TLAPS

-----------------------------------------------------------------------------
(* Induction.                                                              *)

LEMMA LeastNatural ==
  ASSUME NEW S \in SUBSET Nat, S # {}
  PROVE  \E m \in S : \A k \in S : m <= k
<1> DEFINE R == OpToRel(<, Nat)
<1>1. \A x, y \in Nat : x < y => <<x, y>> \in R
  BY DEF OpToRel
<1>2. IsWellFoundedOn(R, Nat)
  BY NatLessThanWellFounded
<1> HIDE DEF R
<1>3. PICK m \in S : \A y \in S : ~ (<<y, m>> \in R)
  BY <1>2, WFMin
<1>4. ASSUME NEW k \in S PROVE m <= k
  <2>1. ~(<<k, m>> \in R)
    BY <1>3
  <2>2. k \in Nat /\ m \in Nat
    OBVIOUS
  <2>3. ~(k < m)
    BY <1>1, <2>1, <2>2
  <2> QED
    BY <2>2, <2>3
<1> QED
  BY <1>4

\* Up to n, or for all of Nat: what holds of 0 and goes from each number to the next.
LEMMA CountUp ==
  ASSUME NEW n \in Nat, NEW Good, 0 \in Good, \A k \in 0 .. n - 1 : k \in Good => k + 1 \in Good
  PROVE  \A k \in 0 .. n : k \in Good
<1> DEFINE Bad == {k \in 0 .. n : k \notin Good}
<1> SUFFICES ASSUME Bad # {} PROVE FALSE
  OBVIOUS
<1>1. Bad \in SUBSET Nat
  OBVIOUS
<1> HIDE DEF Bad
<1>2. PICK m \in Bad : \A k \in Bad : m <= k
  BY <1>1, LeastNatural
<1>3. m \in 0 .. n /\ m \notin Good
  BY <1>2 DEF Bad
<1>4. m # 0 /\ m - 1 \in 0 .. n - 1 /\ m - 1 \in 0 .. n /\ (m - 1) + 1 = m
  BY <1>3
<1>5. m - 1 \notin Good
  BY <1>3, <1>4
<1>6. m - 1 \in Bad
  BY <1>4, <1>5 DEF Bad
<1> QED
  BY <1>2, <1>3, <1>6

\* What holds of {}, and of a set when it holds of the set without any one element, holds
\* of every subset of a finite set.
LEMMA SetBySet ==
  ASSUME NEW S, IsFiniteSet(S), NEW Good, {} \in Good,
         \A t \in SUBSET S : t # {} /\ (\A x \in t : t \ {x} \in Good) => t \in Good
  PROVE  \A t \in SUBSET S : t \in Good
<1> DEFINE n == Cardinality(S)
           Sizes == {k \in Nat : \A t \in SUBSET S : Cardinality(t) = k => t \in Good}
<1>1. n \in Nat /\ \A t \in SUBSET S : IsFiniteSet(t) /\ Cardinality(t) \in 0 .. n
  BY FS_Subset, FS_CardinalityType
<1>2. 0 \in Sizes
  <2>1. \A t \in SUBSET S : Cardinality(t) = 0 => t = {}
    BY <1>1, FS_EmptySet
  <2> QED
    BY <2>1
<1>3. ASSUME NEW k \in 0 .. n - 1, k \in Sizes
      PROVE  k + 1 \in Sizes
  <2>1. ASSUME NEW t \in SUBSET S, Cardinality(t) = k + 1
        PROVE  t \in Good
    <3>1. k \in Nat /\ k + 1 # 0
      BY <1>1
    <3>2. t # {}
      BY <2>1, <3>1, FS_EmptySet
    <3>3. ASSUME NEW x \in t
          PROVE  t \ {x} \in Good
      <4>1. Cardinality(t \ {x}) = Cardinality(t) - 1
        BY <1>1, FS_RemoveElement
      <4>2. Cardinality(t \ {x}) = k /\ t \ {x} \in SUBSET S
        BY <2>1, <3>1, <4>1
      <4> QED
        BY <1>3, <4>2
    <3> QED
      BY <3>2, <3>3
  <2> QED
    BY <2>1
<1> HIDE DEF Sizes, n
<1>4. \A k \in 0 .. n : k \in Sizes
  BY <1>1, <1>2, <1>3, CountUp
<1> QED
  BY <1>1, <1>4 DEF Sizes

-----------------------------------------------------------------------------
(* What MapThenFoldSet computes.                                           *)

\* iter is the recursion over the subsets of S, which takes the element pick[t] off t.
Recurses(S, base, op, pick, iter) ==
  \A t \in SUBSET S : iter[t] = IF t = {} THEN base ELSE op[<<iter[t \ {pick[t]}], pick[t]>>]

\* On a finite set it is sound, whatever element is chosen.
LEMMA RecursionExists ==
  ASSUME NEW S, IsFiniteSet(S), NEW T, NEW base \in T, NEW op \in [T \X S -> T],
         NEW pick \in [SUBSET S -> S \cup {S}], \A t \in SUBSET S : t # {} => pick[t] \in t
  PROVE  \E iter \in [SUBSET S -> T] : Recurses(S, base, op, pick, iter)
<1> DEFINE n == Cardinality(S)
           Small(k) == {t \in SUBSET S : Cardinality(t) <= k}
           Body(g, t) == IF t = {} THEN base ELSE op[<<g[t \ {pick[t]}], pick[t]>>]
           Sizes == {k \in Nat : \E g \in [Small(k) -> T] : \A t \in Small(k) : g[t] = Body(g, t)}
<1>1. n \in Nat /\ \A t \in SUBSET S : IsFiniteSet(t) /\ Cardinality(t) \in 0 .. n
  BY FS_Subset, FS_CardinalityType
<1>2. 0 \in Sizes
  <2>1. \A t \in Small(0) : t = {}
    BY <1>1, FS_EmptySet
  <2> DEFINE g == [t \in Small(0) |-> base]
  <2>2. g \in [Small(0) -> T] /\ \A t \in Small(0) : g[t] = Body(g, t)
    BY <2>1
  <2> QED
    BY <2>2
<1>3. ASSUME NEW k \in 0 .. n - 1, k \in Sizes
      PROVE  k + 1 \in Sizes
  <2>1. k \in Nat
    BY <1>1
  <2>2. PICK g \in [Small(k) -> T] : \A t \in Small(k) : g[t] = Body(g, t)
    BY <1>3
  <2> DEFINE h == [t \in Small(k + 1) |-> Body(g, t)]
  <2>3. \A t \in Small(k + 1) : t # {} => pick[t] \in t /\ t \ {pick[t]} \in Small(k)
    <3>1. SUFFICES ASSUME NEW t \in SUBSET S, Cardinality(t) <= k + 1, t # {}
                   PROVE  pick[t] \in t /\ t \ {pick[t]} \in Small(k)
      OBVIOUS
    <3>2. Cardinality(t \ {pick[t]}) = Cardinality(t) - 1
      BY <1>1, <3>1, FS_RemoveElement
    <3>3. Cardinality(t) \in Nat
      BY <1>1
    <3> QED
      BY <2>1, <3>1, <3>2, <3>3
  <2>4. \A t \in Small(k + 1) : Body(g, t) \in T
    <3> SUFFICES ASSUME NEW t \in Small(k + 1), t # {} PROVE op[<<g[t \ {pick[t]}], pick[t]>>] \in T
      OBVIOUS
    <3>1. pick[t] \in S /\ g[t \ {pick[t]}] \in T
      BY <2>2, <2>3
    <3> QED
      BY <3>1
  <2>5. h \in [Small(k + 1) -> T]
    BY <2>4
  <2>6. \A t \in Small(k) : t \in Small(k + 1) /\ h[t] = g[t]
    <3>1. \A t \in Small(k) : t \in Small(k + 1)
      BY <1>1, <2>1
    <3> QED
      BY <2>2, <3>1
  <2>7. \A t \in Small(k + 1) : h[t] = Body(h, t)
    <3> SUFFICES ASSUME NEW t \in Small(k + 1) PROVE h[t] = Body(h, t)
      OBVIOUS
    <3>1. h[t] = Body(g, t)
      OBVIOUS
    <3>2. t # {} => g[t \ {pick[t]}] = h[t \ {pick[t]}]
      BY <2>3, <2>6
    <3> QED
      BY <3>1, <3>2
  <2> HIDE DEF h, Small, Body
  <2>8. \E f \in [Small(k + 1) -> T] : \A t \in Small(k + 1) : f[t] = Body(f, t)
    BY <2>5, <2>7
  <2>9. k + 1 \in Nat
    BY <2>1
  <2> QED
    BY <2>8, <2>9
<1> HIDE DEF Sizes
<1>4. n \in Sizes
  <2>1. \A k \in 0 .. n : k \in Sizes
    BY <1>1, <1>2, <1>3, CountUp
  <2> QED
    BY <1>1, <2>1
<1>5. Small(n) = SUBSET S
  BY <1>1
<1> QED
  BY <1>4, <1>5 DEF Sizes, Recurses

\* MapThenSumSet: the sum of f over a set, element by element.
AnyOf(t) == CHOOSE x \in t : TRUE

Sums(S, f, sum) ==
  sum = [t \in SUBSET S |-> IF t = {} THEN 0 ELSE f[AnyOf(t)] + sum[t \ {AnyOf(t)}]]

LEMMA SumExists ==
  ASSUME NEW S, IsFiniteSet(S), NEW f \in [S -> Int]
  PROVE  /\ \E sum : Sums(S, f, sum)
         /\ \A sum : Sums(S, f, sum) => sum \in [SUBSET S -> Int]
<1> DEFINE op == [p \in Int \X S |-> f[p[2]] + p[1]]
           pick == [t \in SUBSET S |-> IF t = {} THEN S ELSE AnyOf(t)]
<1>1. op \in [Int \X S -> Int] /\ \A i \in Int, x \in S : op[<<i, x>>] = f[x] + i
  OBVIOUS
<1>2. \A t \in SUBSET S : t # {} => AnyOf(t) \in t /\ AnyOf(t) \in S
  BY DEF AnyOf
<1>3. pick \in [SUBSET S -> S \cup {S}] /\ \A t \in SUBSET S : t # {} => pick[t] = AnyOf(t) /\ pick[t] \in t
  BY <1>2
<1> HIDE DEF op, pick
<1>4. PICK iter \in [SUBSET S -> Int] : Recurses(S, 0, op, pick, iter)
  <2>1. 0 \in Int
    OBVIOUS
  <2> QED
    BY <1>1, <1>3, <2>1, RecursionExists, Zenon
<1>5. \A t \in SUBSET S : t # {} => iter[t] = f[AnyOf(t)] + iter[t \ {AnyOf(t)}]
  BY <1>1, <1>2, <1>3, <1>4 DEF Recurses
<1>6. Sums(S, f, iter)
  <2>1. iter = [t \in SUBSET S |-> iter[t]]
    BY <1>4
  <2>2. \A t \in SUBSET S : iter[t] = IF t = {} THEN 0 ELSE f[AnyOf(t)] + iter[t \ {AnyOf(t)}]
    BY <1>4, <1>5 DEF Recurses
  <2> QED
    BY <2>1, <2>2 DEF Sums
<1>7. ASSUME NEW sum, Sums(S, f, sum)
      PROVE  sum \in [SUBSET S -> Int]
  <2> DEFINE Good == {t \in SUBSET S : sum[t] \in Int}
  <2>1. {} \in Good
    BY <1>7 DEF Sums
  <2>2. ASSUME NEW t \in SUBSET S, t # {}, \A x \in t : t \ {x} \in Good
        PROVE  t \in Good
    <3>1. AnyOf(t) \in S /\ sum[t \ {AnyOf(t)}] \in Int
      BY <1>2, <2>2
    <3>2. sum[t] = f[AnyOf(t)] + sum[t \ {AnyOf(t)}]
      BY <1>7, <2>2 DEF Sums
    <3> QED
      BY <3>1, <3>2
  <2> HIDE DEF Good
  <2>3. \A t \in SUBSET S : t \in Good
    BY <2>1, <2>2, SetBySet
  <2> QED
    BY <1>7, <2>3 DEF Good, Sums
<1> QED
  BY <1>6, <1>7

\* The largest of some of the first n.
LEMMA MaxIsIn ==
  ASSUME NEW n \in Nat, NEW t \in SUBSET (1 .. n), t # {}
  PROVE  Max(t) \in t
<1> DEFINE Above == {n - x : x \in t}
<1>1. Above \in SUBSET Nat /\ Above # {}
  <2>1. \A x \in t : n - x \in Nat
    OBVIOUS
  <2> QED
    BY <2>1
<1> HIDE DEF Above
<1>2. PICK m \in Above : \A k \in Above : m <= k
  BY <1>1, LeastNatural
<1>3. PICK x \in t : m = n - x
  BY <1>2 DEF Above
<1>4. \A y \in t : x >= y
  <2>1. \A y \in t : n - y \in Above
    BY DEF Above
  <2> QED
    BY <1>2, <1>3, <2>1
<1> QED
  BY <1>4 DEF Max

LEMMA PrefixOf ==
  ASSUME NEW n \in Nat, NEW k \in 1 .. n
  PROVE  /\ Max(1 .. k) = k
         /\ (1 .. k) \ {k} = 1 .. k - 1
         /\ 1 .. k # {}
         /\ 1 .. k \in SUBSET (1 .. n)
<1>1. \A x \in 1 .. k : (\A y \in 1 .. k : x >= y) <=> x = k
  OBVIOUS
<1>2. k \in 1 .. k
  OBVIOUS
<1>3. Max(1 .. k) = k
  BY <1>1, <1>2 DEF Max
<1>4. (1 .. k) \ {k} = 1 .. k - 1
  OBVIOUS
<1>5. 1 .. k \in SUBSET (1 .. n)
  OBVIOUS
<1> QED
  BY <1>2, <1>3, <1>4, <1>5

\* FoldLeft, on a sequence of length n: a value for each set of its indices, from the
\* value without the largest of them.
FoldsLeft(n, base, op, iter) ==
  iter = [t \in SUBSET (1 .. n) |-> IF t = {} THEN base ELSE op[<<iter[t \ {Max(t)}], Max(t)>>]]

LEMMA LeftFoldExists ==
  ASSUME NEW n \in Nat, NEW T, NEW base \in T, NEW op \in [T \X (1 .. n) -> T]
  PROVE  \E iter \in [SUBSET (1 .. n) -> T] : FoldsLeft(n, base, op, iter)
<1> DEFINE S == 1 .. n
           pick == [t \in SUBSET S |-> IF t = {} THEN S ELSE Max(t)]
<1>1. \A t \in SUBSET S : t # {} => Max(t) \in t /\ Max(t) \in S
  BY MaxIsIn
<1>2. pick \in [SUBSET S -> S \cup {S}] /\ \A t \in SUBSET S : t # {} => pick[t] = Max(t) /\ pick[t] \in t
  BY <1>1
<1>3. IsFiniteSet(S)
  BY FS_Interval
<1> HIDE DEF pick
<1>4. PICK iter \in [SUBSET S -> T] : Recurses(S, base, op, pick, iter)
  <2>1. op \in [T \X S -> T]
    OBVIOUS
  <2> HIDE DEF S
  <2> QED
    BY <1>2, <1>3, <2>1, RecursionExists, Zenon
<1>5. iter = [t \in SUBSET S |-> iter[t]]
  BY <1>4
<1>6. \A t \in SUBSET S : iter[t] = IF t = {} THEN base ELSE op[<<iter[t \ {Max(t)}], Max(t)>>]
  <2>1. \A t \in SUBSET S : t # {} => iter[t] = op[<<iter[t \ {Max(t)}], Max(t)>>]
    BY <1>2, <1>4 DEF Recurses
  <2>2. iter[{}] = base
    BY <1>4 DEF Recurses
  <2> QED
    BY <2>1, <2>2
<1> QED
  BY <1>4, <1>5, <1>6 DEF FoldsLeft

\* It passes through a value for each prefix, all of them of the type of its operator.
Passes(n, T, base, op, iter) ==
  /\ iter[1 .. 0] = base
  /\ \A k \in 1 .. n : iter[1 .. k] = op[<<iter[1 .. k - 1], k>>]
  /\ \A k \in 0 .. n : iter[1 .. k] \in T

LEMMA LeftFold ==
  ASSUME NEW n \in Nat, NEW T, NEW base \in T, NEW op \in [T \X (1 .. n) -> T],
         NEW iter, FoldsLeft(n, base, op, iter)
  PROVE  Passes(n, T, base, op, iter)
<1>1. iter[1 .. 0] = base
  BY DEF FoldsLeft
<1>2. ASSUME NEW k \in 1 .. n
      PROVE  iter[1 .. k] = op[<<iter[1 .. k - 1], k>>]
  <2>1. \A t \in SUBSET (1 .. n) : t # {} => iter[t] = op[<<iter[t \ {Max(t)}], Max(t)>>]
    BY DEF FoldsLeft
  <2>2. Max(1 .. k) = k /\ (1 .. k) \ {k} = 1 .. k - 1 /\ 1 .. k # {} /\ 1 .. k \in SUBSET (1 .. n)
    BY PrefixOf
  <2> QED
    BY <2>1, <2>2
<1> DEFINE Good == {k \in 0 .. n : iter[1 .. k] \in T}
<1>3. 0 \in Good
  BY <1>1
<1>4. ASSUME NEW k \in 0 .. n - 1, k \in Good
      PROVE  k + 1 \in Good
  <2>1. k + 1 \in 1 .. n /\ (k + 1) - 1 = k /\ k + 1 \in 0 .. n
    OBVIOUS
  <2>2. iter[1 .. k + 1] = op[<<iter[1 .. k], k + 1>>]
    BY <1>2, <2>1
  <2> QED
    BY <1>4, <2>1, <2>2
<1> HIDE DEF Good
<1>5. \A k \in 0 .. n : k \in Good
  BY <1>3, <1>4, CountUp
<1> QED
  BY <1>1, <1>2, <1>5 DEF Good, Passes

\* A function defined by recursion over 0 .. n.
Steps(n, base, op, f) == f = [k \in 0 .. n |-> IF k = 0 THEN base ELSE op[<<f[k - 1], k>>]]

LEMMA StepsThrough ==
  ASSUME NEW n \in Nat, NEW T, NEW base \in T, NEW op \in [T \X (1 .. n) -> T]
  PROVE  \E f \in [0 .. n -> T] : Steps(n, base, op, f)
<1>1. PICK iter : FoldsLeft(n, base, op, iter)
  BY LeftFoldExists
<1>2. /\ iter[1 .. 0] = base
      /\ \A k \in 1 .. n : iter[1 .. k] = op[<<iter[1 .. k - 1], k>>]
      /\ \A k \in 0 .. n : iter[1 .. k] \in T
  <2>1. Passes(n, T, base, op, iter)
    BY <1>1, LeftFold, Zenon
  <2> QED
    BY <2>1 DEF Passes
<1> DEFINE g == [k \in 0 .. n |-> iter[1 .. k]]
<1>3. \A k \in 0 .. n : k # 0 => k \in 1 .. n /\ k - 1 \in 0 .. n
  OBVIOUS
<1>4. Steps(n, base, op, g)
  <2>1. g[0] = base /\ \A k \in 1 .. n : g[k] = op[<<g[k - 1], k>>]
    BY <1>2, <1>3
  <2>2. g = [k \in 0 .. n |-> g[k]]
    OBVIOUS
  <2> HIDE DEF g
  <2>3. \A k \in 0 .. n : g[k] = IF k = 0 THEN base ELSE op[<<g[k - 1], k>>]
    BY <1>3, <2>1
  <2> QED
    BY <2>2, <2>3 DEF Steps
<1>5. g \in [0 .. n -> T]
  BY <1>2
<1> QED
  BY <1>4, <1>5

\* FoldLeft with + over val: the sum so far, prefix by prefix.
Accumulates(n, val, iter) ==
  iter = [t \in SUBSET (1 .. n) |-> IF t = {} THEN 0 ELSE iter[t \ {Max(t)}] + val[Max(t)]]

LEMMA SumAccumulates ==
  ASSUME NEW n \in Nat, NEW val \in [1 .. n -> Int]
  PROVE  /\ \E iter : Accumulates(n, val, iter)
         /\ \A iter : Accumulates(n, val, iter) =>
              /\ iter[1 .. 0] = 0
              /\ \A k \in 1 .. n : iter[1 .. k] = iter[1 .. k - 1] + val[k]
<1> DEFINE S == 1 .. n
           op == [p \in Int \X S |-> p[1] + val[p[2]]]
           pick == [t \in SUBSET S |-> IF t = {} THEN S ELSE Max(t)]
<1>1. op \in [Int \X S -> Int] /\ \A i \in Int, x \in S : op[<<i, x>>] = i + val[x]
  OBVIOUS
<1>2. \A t \in SUBSET S : t # {} => Max(t) \in t /\ Max(t) \in S
  BY MaxIsIn
<1>3. pick \in [SUBSET S -> S \cup {S}] /\ \A t \in SUBSET S : t # {} => pick[t] = Max(t) /\ pick[t] \in t
  BY <1>2
<1>4. IsFiniteSet(S) /\ 0 \in Int
  BY FS_Interval
<1> HIDE DEF op, pick
<1>5. PICK iter \in [SUBSET S -> Int] : Recurses(S, 0, op, pick, iter)
  <2> HIDE DEF S
  <2> QED
    BY <1>1, <1>3, <1>4, RecursionExists, Zenon
<1>6. Accumulates(n, val, iter)
  <2>1. iter = [t \in SUBSET S |-> iter[t]]
    BY <1>5
  <2>2. \A t \in SUBSET S : t # {} => iter[t] = op[<<iter[t \ {Max(t)}], Max(t)>>]
    BY <1>3, <1>5 DEF Recurses
  <2>3. \A t \in SUBSET S : t # {} => iter[t] = iter[t \ {Max(t)}] + val[Max(t)]
    BY <1>1, <1>2, <1>5, <2>2
  <2>4. \A t \in SUBSET S : iter[t] = IF t = {} THEN 0 ELSE iter[t \ {Max(t)}] + val[Max(t)]
    BY <1>5, <2>3 DEF Recurses
  <2> QED
    BY <2>1, <2>4 DEF Accumulates
<1>7. ASSUME NEW sum, Accumulates(n, val, sum)
      PROVE  /\ sum[1 .. 0] = 0
             /\ \A k \in 1 .. n : sum[1 .. k] = sum[1 .. k - 1] + val[k]
  <2>1. \A k \in 1 .. n :
          Max(1 .. k) = k /\ (1 .. k) \ {k} = 1 .. k - 1 /\ 1 .. k # {} /\ 1 .. k \in SUBSET S
    BY PrefixOf
  <2>2. 1 .. 0 = {} /\ {} \in SUBSET S
    OBVIOUS
  <2>3. \A t \in SUBSET S : sum[t] = IF t = {} THEN 0 ELSE sum[t \ {Max(t)}] + val[Max(t)]
    BY <1>7 DEF Accumulates
  <2> QED
    BY <2>1, <2>2, <2>3
<1> QED
  BY <1>6, <1>7

\* A sum of n numbers, each at most, or at least, c.
LEMMA SumIsBounded ==
  ASSUME NEW n \in Nat, NEW val \in [1 .. n -> Int], NEW c \in Int,
         NEW iter, Accumulates(n, val, iter)
  PROVE  /\ iter[1 .. n] \in Int
         /\ (\A k \in 1 .. n : val[k] <= c) => iter[1 .. n] <= c * n
         /\ (\A k \in 1 .. n : val[k] >= c) => iter[1 .. n] >= c * n
<1> DEFINE Good == {k \in 0 .. n :
              /\ iter[1 .. k] \in Int
              /\ (\A j \in 1 .. n : val[j] <= c) => iter[1 .. k] <= c * k
              /\ (\A j \in 1 .. n : val[j] >= c) => iter[1 .. k] >= c * k}
<1>1. iter[1 .. 0] = 0 /\ \A k \in 1 .. n : iter[1 .. k] = iter[1 .. k - 1] + val[k]
  BY SumAccumulates
<1>2. 0 \in Good
  BY <1>1
<1>3. ASSUME NEW k \in 0 .. n - 1, k \in Good
      PROVE  k + 1 \in Good
  <2>1. k + 1 \in 1 .. n /\ (k + 1) - 1 = k /\ k + 1 \in 0 .. n
    OBVIOUS
  <2> DEFINE a == iter[1 .. k]
             b == iter[1 .. k + 1]
             v == val[k + 1]
  <2>2. b = a + v /\ v \in Int /\ a \in Int
    BY <1>1, <1>3, <2>1
  <2>3. (\A j \in 1 .. n : val[j] <= c) => v <= c /\ a <= c * k
    BY <1>3, <2>1
  <2>4. (\A j \in 1 .. n : val[j] >= c) => v >= c /\ a >= c * k
    BY <1>3, <2>1
  <2> HIDE DEF a, b, v
  <2>5. c * (k + 1) = c * k + c /\ c * k \in Int
    OBVIOUS
  <2>6. v <= c /\ a <= c * k => b <= c * (k + 1)
    BY <2>2, <2>5
  <2>7. v >= c /\ a >= c * k => b >= c * (k + 1)
    BY <2>2, <2>5
  <2>8. b \in Int
    BY <2>2
  <2> QED
    BY <2>1, <2>3, <2>4, <2>6, <2>7, <2>8 DEF b
<1> HIDE DEF Good
<1>4. n \in Good
  <2>1. \A k \in 0 .. n : k \in Good
    BY <1>2, <1>3, CountUp
  <2> QED
    BY <2>1
<1> QED
  BY <1>4 DEF Good

-----------------------------------------------------------------------------
(* What SumFunction computes.                                              *)

LEMMA SumTakesAny ==
  ASSUME NEW S, IsFiniteSet(S), NEW f \in [S -> Int], NEW sum, Sums(S, f, sum)
  PROVE  \A t \in SUBSET S : \A x \in t : sum[t] = f[x] + sum[t \ {x}]
<1> DEFINE Good == {t \in SUBSET S : \A x \in t : sum[t] = f[x] + sum[t \ {x}]}
<1>1. {} \in Good
  OBVIOUS
<1>2. \A t \in SUBSET S : sum[t] \in Int
  <2>1. sum \in [SUBSET S -> Int]
    BY SumExists, Zenon
  <2> QED
    BY <2>1
<1>3. ASSUME NEW t \in SUBSET S, t # {}, \A y \in t : t \ {y} \in Good
      PROVE  t \in Good
  <2>1. SUFFICES ASSUME NEW x \in t PROVE sum[t] = f[x] + sum[t \ {x}]
    OBVIOUS
  <2> DEFINE a == AnyOf(t)
  <2>2. a \in t
    BY <1>3 DEF AnyOf
  <2>3. sum[t] = f[a] + sum[t \ {a}]
    BY <1>3 DEF Sums
  <2> HIDE DEF a
  <2>4. CASE a # x
    <3>1. a \in t \ {x} /\ x \in t \ {a} /\ (t \ {a}) \ {x} = (t \ {x}) \ {a}
      BY <2>1, <2>2, <2>4
    <3>2. sum[t \ {a}] = f[x] + sum[(t \ {a}) \ {x}] /\ sum[t \ {x}] = f[a] + sum[(t \ {x}) \ {a}]
      BY <1>3, <2>1, <2>2, <3>1
    <3> DEFINE c == sum[(t \ {x}) \ {a}]
    <3>3. f[a] \in Int /\ f[x] \in Int /\ c \in Int
      BY <1>2, <2>1, <2>2
    <3>4. sum[t] = f[a] + (f[x] + c) /\ sum[t \ {x}] = f[a] + c
      BY <2>3, <3>1, <3>2
    <3> HIDE DEF c
    <3> QED
      BY <3>3, <3>4
  <2> QED
    BY <2>3, <2>4
<1> HIDE DEF Good
<1>4. \A t \in SUBSET S : t \in Good
  BY <1>1, <1>3, SetBySet
<1> QED
  BY <1>4 DEF Good

\* What is the same on S sums up to the same over S.
LEMMA SumsAgree ==
  ASSUME NEW S, IsFiniteSet(S), NEW f \in [S -> Int], NEW sum, Sums(S, f, sum),
         NEW R, S \subseteq R, NEW g \in [R -> Int], NEW all, Sums(R, g, all),
         \A x \in S : f[x] = g[x]
  PROVE  sum[S] = all[S]
<1> DEFINE Good == {t \in SUBSET S : sum[t] = all[t]}
<1>1. {} \in Good
  BY DEF Sums
<1>2. ASSUME NEW t \in SUBSET S, t # {}, \A y \in t : t \ {y} \in Good
      PROVE  t \in Good
  <2>1. AnyOf(t) \in t /\ t \in SUBSET R
    BY <1>2 DEF AnyOf
  <2>2. sum[t] = f[AnyOf(t)] + sum[t \ {AnyOf(t)}] /\ all[t] = g[AnyOf(t)] + all[t \ {AnyOf(t)}]
    BY <1>2, <2>1 DEF Sums
  <2>3. sum[t \ {AnyOf(t)}] = all[t \ {AnyOf(t)}]
    BY <1>2, <2>1
  <2> QED
    BY <2>1, <2>2, <2>3
<1> HIDE DEF Good
<1>3. \A t \in SUBSET S : t \in Good
  BY <1>1, <1>2, SetBySet
<1> QED
  BY <1>3 DEF Good

LEMMA SumFunctionIs ==
  ASSUME NEW S, IsFiniteSet(S), NEW f \in [S -> Int]
  PROVE  \E sum \in [SUBSET S -> Int] : Sums(S, f, sum) /\ SumFunction(f) = sum[S]
<1> DEFINE IsSum(D, iter) ==
             iter = [t \in SUBSET D |-> IF t = {} THEN 0
                       ELSE f[CHOOSE x \in t : TRUE] + iter[t \ {CHOOSE x \in t : TRUE}]]
<1>1. SumFunction(f) = (CHOOSE iter : IsSum(DOMAIN f, iter))[DOMAIN f]
  BY DEF SumFunction, SumFunctionOnSet, FoldFunctionOnSet, MapThenFoldSet
<1>2. DOMAIN f = S
  OBVIOUS
<1> DEFINE sum == CHOOSE iter : IsSum(S, iter)
<1>3. \A iter : IsSum(S, iter) <=> Sums(S, f, iter)
  BY DEF Sums, AnyOf
<1> HIDE DEF IsSum
<1>4. \E iter : IsSum(S, iter)
  BY <1>3, SumExists
<1>5. Sums(S, f, sum)
  BY <1>3, <1>4
<1>6. SumFunction(f) = sum[S]
  BY <1>1, <1>2
<1> HIDE DEF sum
<1>7. sum \in [SUBSET S -> Int]
  BY <1>5, SumExists
<1> QED
  BY <1>5, <1>6, <1>7

\* The sum of a sequence, from its first element on.
LEMMA SumOfAppended ==
  ASSUME NEW s \in Seq(Int), NEW x \in Int
  PROVE  /\ SumFunction(s) \in Int
         /\ SumFunction(Append(s, x)) = SumFunction(s) + x
<1> DEFINE n == Len(s)
           r == Append(s, x)
           S == 1 .. n
           R == 1 .. n + 1
<1>0. n \in Nat /\ s \in [S -> Int] /\ r \in Seq(Int) /\ Len(r) = n + 1
  OBVIOUS
<1>1. /\ n \in Nat /\ s \in [S -> Int]
      /\ r \in [R -> Int] /\ r[n + 1] = x /\ \A i \in S : r[i] = s[i]
      /\ S \subseteq R /\ n + 1 \in R /\ R \ {n + 1} = S
  <2>1. r[n + 1] = x /\ \A i \in S : r[i] = s[i]
    OBVIOUS
  <2>2. r \in [R -> Int]
    <3> HIDE DEF r
    <3> QED
      BY <1>0
  <2>3. S \subseteq R /\ n + 1 \in R /\ R \ {n + 1} = S
    BY <1>0
  <2> QED
    BY <1>0, <2>1, <2>2, <2>3
<1>2. IsFiniteSet(S) /\ IsFiniteSet(R)
  BY <1>1, FS_Interval
<1> HIDE DEF S, R, r
<1>3. PICK sum \in [SUBSET S -> Int] : Sums(S, s, sum) /\ SumFunction(s) = sum[S]
  BY <1>1, <1>2, SumFunctionIs
<1>4. PICK all \in [SUBSET R -> Int] : Sums(R, r, all) /\ SumFunction(r) = all[R]
  BY <1>1, <1>2, SumFunctionIs
<1>5. all[R] = r[n + 1] + all[R \ {n + 1}]
  BY <1>1, <1>2, <1>4, SumTakesAny
<1>6. sum[S] = all[S]
  BY <1>1, <1>2, <1>3, <1>4, SumsAgree
<1>7. sum[S] \in Int
  BY <1>3
<1>8. SumFunction(s) \in Int /\ SumFunction(r) = x + SumFunction(s)
  BY <1>1, <1>3, <1>4, <1>5, <1>6, <1>7
<1> DEFINE a == SumFunction(s)
           b == SumFunction(r)
<1> HIDE DEF a, b
<1>9. a \in Int /\ b = a + x
  BY <1>8 DEF a, b
<1> QED
  BY <1>9 DEF a, b, r

LEMMA SumOfNone == SumFunction(<<>>) = 0
<1> DEFINE S == {}
           f == <<>>
<1>1. f \in [S -> Int] /\ IsFiniteSet(S)
  BY FS_EmptySet
<1>2. PICK sum \in [SUBSET S -> Int] : Sums(S, f, sum) /\ SumFunction(f) = sum[S]
  BY <1>1, SumFunctionIs
<1> QED
  BY <1>2 DEF Sums

\* Of no negative numbers, it is none, and as large as any of them.
LEMMA SumOfNaturals ==
  ASSUME NEW s \in Seq(Nat)
  PROVE  /\ SumFunction(s) \in Nat
         /\ \A i \in 1 .. Len(s) : s[i] <= SumFunction(s)
         /\ (\A i \in 1 .. Len(s) : s[i] = 0) => SumFunction(s) = 0
<1> DEFINE n == Len(s)
           S == 1 .. n
<1>1. n \in Nat /\ s \in [S -> Int] /\ \A i \in S : s[i] \in Nat
  OBVIOUS
<1>2. IsFiniteSet(S)
  BY <1>1, FS_Interval
<1> HIDE DEF S
<1>3. PICK sum \in [SUBSET S -> Int] : Sums(S, s, sum) /\ SumFunction(s) = sum[S]
  BY <1>1, <1>2, SumFunctionIs
<1> DEFINE Good == {t \in SUBSET S : sum[t] \in Nat /\ ((\A i \in S : s[i] = 0) => sum[t] = 0)}
<1>4. {} \in Good
  BY <1>3 DEF Sums
<1>5. \A t \in SUBSET S : \A x \in t : sum[t] = s[x] + sum[t \ {x}]
  <2>1. s \in [S -> Int] /\ IsFiniteSet(S) /\ Sums(S, s, sum)
    BY <1>1, <1>2, <1>3
  <2>2. SUFFICES ASSUME NEW t \in SUBSET S, NEW x \in t PROVE sum[t] = s[x] + sum[t \ {x}]
    OBVIOUS
  <2> QED
    BY <2>1, <2>2, SumTakesAny
<1>6. ASSUME NEW t \in SUBSET S, t # {}, \A y \in t : t \ {y} \in Good
      PROVE  t \in Good
  <2>1. PICK x \in t : TRUE
    BY <1>6
  <2>2. sum[t] = s[x] + sum[t \ {x}] /\ s[x] \in Nat /\ t \ {x} \in Good
    BY <1>1, <1>5, <1>6, <2>1
  <2> QED
    BY <2>2
<1> HIDE DEF Good
<1>7. \A t \in SUBSET S : t \in Good
  BY <1>2, <1>4, <1>6, SetBySet
<1>8. \A i \in S : s[i] <= sum[S]
  <2>1. \A i \in S : sum[S] = s[i] + sum[S \ {i}] /\ sum[S \ {i}] \in Nat
    <3>1. S \in SUBSET S /\ \A i \in S : S \ {i} \in SUBSET S
      OBVIOUS
    <3> QED
      BY <1>5, <1>7, <3>1 DEF Good
  <2> SUFFICES ASSUME NEW i \in S PROVE s[i] <= sum[S]
    OBVIOUS
  <2> DEFINE a == sum[S \ {i}]
             b == sum[S]
             v == s[i]
  <2>2. b = v + a /\ a \in Nat /\ v \in Nat
    BY <1>1, <2>1
  <2> HIDE DEF a, b, v
  <2>3. v <= b
    BY <2>2
  <2> QED
    BY <2>3 DEF b, v
<1> QED
  BY <1>3, <1>7, <1>8 DEF Good, S

\* A sequence that goes on by one element.
LEMMA AppendedIs ==
  ASSUME NEW S, NEW u \in Seq(S), NEW x \in S, NEW v, DOMAIN v = 1 .. Len(u) + 1,
         v = [i \in DOMAIN v |-> v[i]],
         v[Len(u) + 1] = x, \A i \in 1 .. Len(u) : v[i] = u[i]
  PROVE  v = Append(u, x)
<1> DEFINE w == Append(u, x)
           n == Len(u)
<1>1. n \in Nat /\ w \in Seq(S) /\ Len(w) = n + 1
  OBVIOUS
<1>2. w[n + 1] = x /\ \A i \in 1 .. n : w[i] = u[i] /\ u[i] \in S
  OBVIOUS
<1> HIDE DEF w
<1>3. \A i \in 1 .. n + 1 : i \in 1 .. n \/ i = n + 1
  BY <1>1
<1>4. \A i \in 1 .. n + 1 : v[i] = w[i] /\ v[i] \in S
  BY <1>2, <1>3
<1>5. w = [i \in 1 .. n + 1 |-> w[i]]
  BY <1>1
<1> QED
  BY <1>4, <1>5 DEF w

\* What the elements of a sequence weigh together.
Tally(w, s) == SumFunction([i \in DOMAIN s |-> w[s[i]]])

LEMMA TallyIs ==
  ASSUME NEW S, NEW w \in [S -> Nat], NEW s \in Seq(S)
  PROVE  /\ Tally(w, s) \in Nat
         /\ \A x \in S : Tally(w, Append(s, x)) = Tally(w, s) + w[x]
         /\ Tally(w, <<>>) = 0
         /\ \A i \in 1 .. Len(s) : w[s[i]] <= Tally(w, s)
         /\ (\A i \in 1 .. Len(s) : w[s[i]] = 0) => Tally(w, s) = 0
<1> DEFINE of(q) == [i \in DOMAIN q |-> w[q[i]]]
<1>1. \A q : Tally(w, q) = SumFunction(of(q))
  BY DEF Tally
<1>2. \A q \in Seq(S) : of(q) \in Seq(Nat) /\ Len(of(q)) = Len(q)
  <2> SUFFICES ASSUME NEW q \in Seq(S) PROVE of(q) \in Seq(Nat) /\ Len(of(q)) = Len(q)
    OBVIOUS
  <2>1. Len(q) \in Nat /\ DOMAIN q = 1 .. Len(q) /\ \A i \in 1 .. Len(q) : q[i] \in S
    OBVIOUS
  <2>2. of(q) \in [1 .. Len(q) -> Nat]
    BY <2>1
  <2> DEFINE m == Len(q)
             r == of(q)
  <2>3. m \in Nat /\ r \in [1 .. m -> Nat]
    BY <2>1, <2>2
  <2> HIDE DEF m, r
  <2>4. r \in Seq(Nat) /\ Len(r) = m
    BY <2>3
  <2> QED
    BY <2>4 DEF m, r
<1>3. ASSUME NEW x \in S
      PROVE  of(Append(s, x)) = Append(of(s), w[x])
  <2> DEFINE n == Len(s)
             a == Append(s, x)
             u == of(s)
             v == of(a)
  <2>1. /\ n \in Nat /\ a \in Seq(S) /\ Len(a) = n + 1 /\ a[n + 1] = x
        /\ \A i \in 1 .. n : a[i] = s[i]
    OBVIOUS
  <2> HIDE DEF a
  <2>2. DOMAIN a = 1 .. n + 1 /\ DOMAIN s = 1 .. n
    BY <2>1
  <2>3. \A i \in 1 .. n : i \in 1 .. n + 1
    BY <2>1
  <2>4. v = [i \in 1 .. n + 1 |-> w[a[i]]] /\ u = [i \in 1 .. n |-> w[s[i]]]
    BY <2>2
  <2>5. u \in Seq(Nat) /\ Len(u) = n
    BY <1>2
  <2> HIDE DEF u, v, of, n
  <2>6. n + 1 \in 1 .. n + 1
    BY <2>1
  <2>7. /\ DOMAIN v = 1 .. n + 1 /\ v = [i \in DOMAIN v |-> v[i]]
        /\ v[n + 1] = w[x]
        /\ \A i \in 1 .. n : v[i] = u[i]
    BY <2>1, <2>3, <2>4, <2>6
  <2> DEFINE T == Nat
             y == w[x]
  <2>8. y \in T
    OBVIOUS
  <2> HIDE DEF T, y
  <2>9. v = Append(u, y)
    <3>1. u \in Seq(T)
      BY <2>5 DEF T
    <3>2. DOMAIN v = 1 .. Len(u) + 1 /\ v[Len(u) + 1] = y /\ \A i \in 1 .. Len(u) : v[i] = u[i]
      BY <2>5, <2>7 DEF y
    <3> QED
      BY <2>7, <2>8, <3>1, <3>2, AppendedIs
  <2> QED
    BY <2>9 DEF a, u, v, y
<1>4. of(<<>>) = <<>>
  OBVIOUS
<1>5. of(s) \in Seq(Nat) /\ of(s) \in Seq(Int) /\ Len(of(s)) = Len(s)
  BY <1>2
<1>6. \A i \in 1 .. Len(s) : of(s)[i] = w[s[i]]
  OBVIOUS
<1> HIDE DEF of
<1>7. /\ Tally(w, s) \in Nat
      /\ \A i \in 1 .. Len(s) : w[s[i]] <= Tally(w, s)
      /\ (\A i \in 1 .. Len(s) : w[s[i]] = 0) => Tally(w, s) = 0
  <2> DEFINE r == of(s)
  <2>1. r \in Seq(Nat) /\ Len(r) = Len(s) /\ \A i \in 1 .. Len(s) : r[i] = w[s[i]]
    BY <1>5, <1>6
  <2> HIDE DEF r
  <2>2. /\ SumFunction(r) \in Nat
        /\ \A i \in 1 .. Len(r) : r[i] <= SumFunction(r)
        /\ (\A i \in 1 .. Len(r) : r[i] = 0) => SumFunction(r) = 0
    BY <2>1, SumOfNaturals
  <2>3. Tally(w, s) = SumFunction(r)
    BY <1>1 DEF r
  <2> QED
    BY <2>1, <2>2, <2>3
<1>8. ASSUME NEW x \in S
      PROVE  Tally(w, Append(s, x)) = Tally(w, s) + w[x]
  <2> DEFINE y == w[x]
             r == of(s)
  <2>1. y \in Int /\ r \in Seq(Int)
    BY <1>5
  <2>2. Tally(w, s) = SumFunction(r) /\ Tally(w, Append(s, x)) = SumFunction(Append(r, y))
    BY <1>1, <1>3
  <2> HIDE DEF r, y
  <2>3. SumFunction(Append(r, y)) = SumFunction(r) + y
    BY <2>1, SumOfAppended
  <2> QED
    BY <2>2, <2>3 DEF y
<1>9. Tally(w, <<>>) = 0
  BY <1>1, <1>4, SumOfNone
<1> QED
  BY <1>7, <1>8, <1>9

LEMMA AppendToBoth ==
  ASSUME NEW S, NEW s \in Seq(S), NEW t \in Seq(S), NEW x \in S
  PROVE  s \o Append(t, x) = Append(s \o t, x) /\ s \o t \in Seq(S)
<1> DEFINE y == <<x>>
           c == s \o t
<1>1. y \in Seq(S) /\ Append(t, x) = t \o y
  BY AppendIsConcat
<1>2. c \in Seq(S)
  OBVIOUS
<1> HIDE DEF c
<1>3. Append(c, x) = c \o y
  BY <1>2, AppendIsConcat
<1> HIDE DEF y
<1>4. (s \o t) \o y = s \o (t \o y)
  BY <1>1, ConcatAssociative
<1> QED
  BY <1>1, <1>2, <1>3, <1>4 DEF c

\* One sequence after another.
LEMMA TallyOfBoth ==
  ASSUME NEW S, NEW w \in [S -> Nat], NEW s \in Seq(S), NEW t \in Seq(S)
  PROVE  Tally(w, s \o t) = Tally(w, s) + Tally(w, t)
<1> DEFINE n == Len(t)
           part(k) == SubSeq(t, 1, k)
           Good == {k \in 0 .. n : Tally(w, s \o part(k)) = Tally(w, s) + Tally(w, part(k))}
<1>1. n \in Nat
  OBVIOUS
<1>2. Tally(w, s) \in Nat
  BY TallyIs
<1>3. part(0) = <<>> /\ part(n) = t
  BY SubSeqFull
<1>4. 0 \in Good
  <2>1. s \o <<>> = s
    OBVIOUS
  <2>2. Tally(w, <<>>) = 0
    BY TallyIs
  <2> HIDE DEF part
  <2>3. Tally(w, s \o part(0)) = Tally(w, s) /\ Tally(w, part(0)) = 0
    BY <1>3, <2>1, <2>2
  <2>4. Tally(w, s \o part(0)) = Tally(w, s) + Tally(w, part(0))
    BY <1>2, <2>3
  <2>5. 0 \in 0 .. n
    BY <1>1
  <2> QED
    BY <2>4, <2>5
<1>5. ASSUME NEW k \in 0 .. n - 1, k \in Good
      PROVE  k + 1 \in Good
  <2> DEFINE x == t[k + 1]
             p == part(k)
             a == s \o p
  <2>1. k + 1 \in 1 .. n /\ k + 1 \in 0 .. n
    BY <1>1
  <2>2. x \in S /\ p \in Seq(S) /\ part(k + 1) = Append(p, x)
    <3>1. x \in S
      BY <2>1
    <3>2. p \in Seq(S)
      OBVIOUS
    <3>3. part(k + 1) = Append(p, x)
      BY <2>1
    <3> QED
      BY <3>1, <3>2, <3>3
  <2> HIDE DEF x
  <2>3. s \o Append(p, x) = Append(a, x) /\ a \in Seq(S)
    <3> HIDE DEF p
    <3> QED
      BY <2>2, AppendToBoth
  <2>4. Tally(w, a) = Tally(w, s) + Tally(w, p)
    BY <1>5
  <2> HIDE DEF a, p, part
  <2>5. Tally(w, Append(a, x)) = Tally(w, a) + w[x]
    BY <2>2, <2>3, TallyIs
  <2>6. Tally(w, Append(p, x)) = Tally(w, p) + w[x] /\ Tally(w, p) \in Nat
    BY <2>2, TallyIs
  <2>7. w[x] \in Nat
    BY <2>2
  <2>8. Tally(w, Append(a, x)) = Tally(w, s) + Tally(w, Append(p, x))
    BY <1>2, <2>4, <2>5, <2>6, <2>7
  <2> QED
    BY <2>1, <2>2, <2>3, <2>8 DEF a, p
<1> HIDE DEF Good
<1>6. \A k \in 0 .. n : k \in Good
  BY <1>1, <1>4, <1>5, CountUp
<1> HIDE DEF part
<1> QED
  BY <1>1, <1>3, <1>6 DEF Good

=============================================================================
