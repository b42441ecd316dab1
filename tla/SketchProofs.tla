---------------------------- MODULE SketchProofs ----------------------------
(***************************************************************************)
(* Proofs about the counting Bloom filters of both builds, for any pages,  *)
(* hash and size of a counter.                                             *)
(***************************************************************************)
EXTENDS HugeSketch, DataLemmas

(***************************************************************************)
(* Least and greatest elements                                             *)
(***************************************************************************)

LEMMA MinNat ==
  ASSUME NEW S \in SUBSET Nat, S # {}
  PROVE  Min(S) \in S /\ \A x \in S : Min(S) <= x
<1>1. \E m \in S : \A x \in S : m <= x
  BY LeastNat
<1> QED
  BY <1>1 DEF Min

LEMMA MaxNat ==
  ASSUME NEW b \in Nat, NEW S \in SUBSET (0 .. b), S # {}
  PROVE  Max(S) \in S /\ \A x \in S : x <= Max(S)
<1> DEFINE T == {b - x : x \in S}
<1>1. T \in SUBSET Nat /\ T # {}
  <2>1. \A x \in S : b - x \in Nat
    OBVIOUS
  <2> QED
    BY <2>1
<1>2. Min(T) \in T /\ \A y \in T : Min(T) <= y
  BY <1>1, MinNat
<1>3. PICK m \in S : Min(T) = b - m
  BY <1>2
<1>4. \A x \in S : m >= x
  <2> TAKE x \in S
  <2>1. b - m <= b - x
    BY <1>2, <1>3
  <2> QED
    BY <2>1
<1>5. Max(S) \in S /\ \A x \in S : Max(S) >= x
  BY <1>4 DEF Max
<1> QED
  BY <1>5

LEMMA MinPair ==
  ASSUME NEW a \in Int, NEW b \in Int
  PROVE  /\ Min({a, b}) \in {a, b}
         /\ Min({a, b}) <= a /\ Min({a, b}) <= b
<1>1. \E x \in {a, b} : \A y \in {a, b} : x <= y
  BY a <= b \/ b <= a
<1>2. Min({a, b}) \in {a, b} /\ \A y \in {a, b} : Min({a, b}) <= y
  BY <1>1 DEF Min
<1> QED
  BY <1>2

-----------------------------------------------------------------------------
(***************************************************************************)
(* The counters of a page                                                  *)
(***************************************************************************)

Tables == [Counters -> 0 .. MaxCount]

LEMMA OfCounters ==
  ASSUME NEW p \in Pages
  PROVE  Of(p) \in SUBSET Counters /\ Of(p) # {}
<1>1. \A r \in Rows : Slot[p][r] \in Slots
  BY SketchAssumption
<1>2. \A r \in Rows : <<r, Slot[p][r]>> \in Rows \X Slots
  BY <1>1
<1> QED
  BY <1>2, SketchAssumption DEF Of, Counters

\* The frequency is that of a counter, and no counter of the page is less.
LEMMA FreqLeast ==
  ASSUME NEW t \in Tables, NEW p \in Pages
  PROVE  /\ Freq(t, p) \in 0 .. MaxCount
         /\ \E c \in Of(p) : Freq(t, p) = t[c]
         /\ \A c \in Of(p) : Freq(t, p) <= t[c]
<1> USE SketchAssumption
<1> DEFINE S == {t[c] : c \in Of(p)}
<1>1. /\ \A c \in Of(p) : t[c] \in 0 .. MaxCount
      /\ Of(p) # {}
  BY OfCounters DEF Tables
<1>2. S \in SUBSET Nat /\ S # {}
  BY <1>1
<1>3. Min(S) \in S /\ \A x \in S : Min(S) <= x
  BY <1>2, MinNat
<1>4. Freq(t, p) = Min(S)
  BY DEF Freq
<1> HIDE DEF S
<1>5. /\ \E c \in Of(p) : Min(S) = t[c]
      /\ \A c \in Of(p) : Min(S) <= t[c]
  BY <1>3 DEF S
<1> QED
  BY <1>1, <1>4, <1>5

\* More than v is the frequency when each counter is.
LEMMA FreqAbove ==
  ASSUME NEW t \in Tables, NEW p \in Pages, NEW v \in Int
  PROVE  /\ Freq(t, p) > v <=> \A c \in Of(p) : t[c] > v
         /\ Freq(t, p) >= v <=> \A c \in Of(p) : t[c] >= v
<1> USE SketchAssumption
<1>1. \A c \in Of(p) : t[c] \in Int
  BY OfCounters DEF Tables
<1>2. /\ Freq(t, p) \in Int
      /\ \E c \in Of(p) : Freq(t, p) = t[c]
      /\ \A c \in Of(p) : Freq(t, p) <= t[c]
  BY FreqLeast
<1> QED
  BY <1>1, <1>2

LEMMA SaturateFacts ==
  ASSUME NEW c \in 0 .. MaxCount, NEW n \in Nat \ {0}
  PROVE  /\ Saturate(c, n) \in 1 .. MaxCount
         /\ Saturate(c, n) >= c
         /\ c < MaxCount => Saturate(c, n) > c
         /\ Saturate(c, n) - c \in 0 .. MaxCount
         /\ \A d \in 0 .. MaxCount : /\ Saturate(c, n) - c <= Saturate(d, n)
                                     /\ d <= c => Saturate(d, n) <= Saturate(c, n)
<1>1. MaxCount \in Nat /\ MaxCount >= 1
  BY SketchAssumption
<1> QED
  BY <1>1 DEF Saturate

LEMMA SaturateMonotone ==
  ASSUME NEW a \in 0 .. MaxCount, NEW b \in 0 .. MaxCount, NEW n \in Nat \ {0}, a <= b
  PROVE  Saturate(a, n) <= Saturate(b, n)
BY SaturateFacts

LEMMA RaiseFacts ==
  ASSUME NEW t \in Tables, NEW p \in Pages, NEW n \in Nat \ {0}
  PROVE  /\ Raise(t, p, n) \in Tables
         /\ \A c \in Counters : Raise(t, p, n)[c] >= t[c]
         /\ \A c \in Of(p) : Raise(t, p, n)[c] = Saturate(t[c], n)
<1> DEFINE u == Raise(t, p, n)
<1>1. \A c \in Counters : t[c] \in 0 .. MaxCount
  BY DEF Tables
<1>2. \A c \in Counters : u[c] = IF c \in Of(p) THEN Saturate(t[c], n) ELSE t[c]
  BY DEF Raise
<1>3. \A c \in Counters : Saturate(t[c], n) \in 0 .. MaxCount /\ Saturate(t[c], n) >= t[c]
  <2>1. \A c \in Counters : Saturate(t[c], n) \in 1 .. MaxCount /\ Saturate(t[c], n) >= t[c]
    BY <1>1, SaturateFacts
  <2> QED
    BY <2>1
<1>4. \A c \in Counters : u[c] \in 0 .. MaxCount /\ u[c] >= t[c]
  BY <1>1, <1>2, <1>3
<1>5. u = [c \in Counters |-> u[c]]
  BY DEF Raise
<1> HIDE DEF u
<1>6. u \in Tables
  BY <1>4, <1>5 DEF Tables
<1> QED
  BY <1>2, <1>4, <1>6, OfCounters DEF u

\* The frequency of a page that is raised is one at least, and what it gained is
\* no more than that.
LEMMA RaisedFacts ==
  ASSUME NEW t \in Tables, NEW p \in Pages, NEW n \in Nat \ {0}
  PROVE  /\ Raised(t, p, n) \in 1 .. MaxCount
         /\ MaxIncreased(t, p, n) \in 0 .. Raised(t, p, n)
<1> USE SketchAssumption
<1> DEFINE S == {Saturate(t[c], n) - t[c] : c \in Of(p)}
<1>1. /\ \A c \in Of(p) : t[c] \in 0 .. MaxCount
      /\ Of(p) # {}
  BY OfCounters DEF Tables
<1>2. PICK d \in Of(p) : Raised(t, p, n) = Saturate(t[d], n)
  BY RaiseFacts, FreqLeast DEF Raised
<1>3. Raised(t, p, n) \in 1 .. MaxCount
  BY <1>1, <1>2, SaturateFacts
<1>4. \A x \in S : x \in 0 .. Raised(t, p, n)
  <2>1. \A c \in Of(p) : /\ Saturate(t[c], n) - t[c] \in 0 .. MaxCount
                         /\ Saturate(t[c], n) - t[c] <= Saturate(t[d], n)
    BY <1>1, SaturateFacts
  <2> QED
    BY <1>2, <1>3, <2>1
<1>5. Raised(t, p, n) \in Nat /\ S \in SUBSET (0 .. Raised(t, p, n)) /\ S # {}
  BY <1>1, <1>3, <1>4
<1>6. Max(S) \in S
  BY <1>5, MaxNat
<1> HIDE DEF S
<1>7. Max(S) \in 0 .. Raised(t, p, n)
  BY <1>4, <1>6
<1> QED
  BY <1>3, <1>7 DEF MaxIncreased, S

LEMMA HalveFacts ==
  ASSUME NEW D, NEW f \in [D -> 0 .. MaxCount]
  PROVE  /\ Halve(f) \in [D -> 0 .. MaxCount]
         /\ \A x \in D : Halve(f)[x] = f[x] \div 2
<1>1. MaxCount \in Nat
  BY SketchAssumption
<1>2. \A x \in D : f[x] \div 2 \in 0 .. MaxCount
  BY <1>1
<1> QED
  BY <1>2 DEF Halve

LEMMA HalveMonotone ==
  ASSUME NEW a \in Nat, NEW b \in Nat, a <= b
  PROVE  a \div 2 <= b \div 2
OBVIOUS

Dists == [1 .. MaxCount -> Int]

LEMMA CountedType ==
  ASSUME NEW d \in Dists, NEW f \in Int, NEW inc \in Int
  PROVE  Counted(d, f, inc) \in Dists
BY DEF Counted, Dists

\* MaxCount is odd: the bin above the last even one is there.
LEMMA HalveDistType ==
  ASSUME NEW d \in Dists
  PROVE  HalveDist(d) \in Dists
<1>1. MaxCount \in Nat /\ MaxCount % 2 = 1
  BY SketchAssumption
<1>2. \A i \in 1 .. MaxCount :
        ~(2 * i > MaxCount) => 2 * i \in 1 .. MaxCount /\ 2 * i + 1 \in 1 .. MaxCount
  BY <1>1
<1>3. \A i \in 1 .. MaxCount : ~(2 * i > MaxCount) => d[2 * i] + d[2 * i + 1] \in Int
  BY <1>2 DEF Dists
<1> QED
  BY <1>3 DEF HalveDist, Dists

\* The frequency a page is counted at, and the least index that is used.
LEMMA LeastIndexFacts ==
  ASSUME NEW f \in 0 .. MaxCount, NEW inc \in 0 .. MaxCount
  PROVE  /\ LeastIndex(f, inc) \in -MaxCount .. MaxCount
         /\ f >= 1 /\ inc <= f => LeastIndex(f, inc) >= 1
<1> USE SketchAssumption
<1>1. CASE inc = 0
  BY <1>1 DEF LeastIndex
<1>2. CASE inc # 0 /\ inc = f
  BY <1>2 DEF LeastIndex
<1>3. CASE inc # 0 /\ inc # f
  <2>1. LeastIndex(f, inc) = Min({f, f - inc})
    BY <1>3 DEF LeastIndex
  <2>2. f \in Int /\ f - inc \in Int
    OBVIOUS
  <2>3. Min({f, f - inc}) \in {f, f - inc}
    BY <2>2, MinPair
  <2> QED
    BY <1>3, <2>1, <2>3
<1> QED
  BY <1>1, <1>2, <1>3

-----------------------------------------------------------------------------
(***************************************************************************)
(* The pages counted from a threshold on                                   *)
(***************************************************************************)

Hot(d, t) == FoldFunctionOnSet(+, 0, d, t .. MaxCount)

LEMMA HotFacts ==
  ASSUME NEW d \in Dists
  PROVE  /\ Hot(d, MaxCount + 1) = 0
         /\ \A t \in 1 .. MaxCount + 1 : Hot(d, t) \in Int
         /\ \A t \in 1 .. MaxCount : Hot(d, t) = d[t] + Hot(d, t + 1)
<1>1. MaxCount \in Nat /\ d \in [1 .. MaxCount -> Int]
  BY SketchAssumption DEF Dists
<1>2. ASSUME NEW t \in 1 .. MaxCount + 1
      PROVE  /\ Hot(d, t) = SumFunctionOnSet(d, t .. MaxCount)
             /\ IsFiniteSet(t .. MaxCount) /\ IntValued(d, t .. MaxCount)
             /\ Hot(d, t) \in Int
  <2>1. Hot(d, t) = SumFunctionOnSet(d, t .. MaxCount)
    BY DEF Hot, SumFunctionOnSet
  <2>2. IsFiniteSet(t .. MaxCount)
    BY <1>1, FS_Interval
  <2>3. IntValued(d, t .. MaxCount)
    BY <1>1 DEF IntValued
  <2>4. SumFunctionOnSet(d, t .. MaxCount) \in Int
    BY <2>2, <2>3, SumOnType
  <2> QED
    BY <2>1, <2>2, <2>3, <2>4
<1>3. Hot(d, MaxCount + 1) = 0
  <2>1. (MaxCount + 1) .. MaxCount = {} /\ MaxCount + 1 \in 1 .. MaxCount + 1
    BY <1>1
  <2> QED
    BY <1>2, <2>1, SumOnEmpty
<1>4. ASSUME NEW t \in 1 .. MaxCount
      PROVE  Hot(d, t) = d[t] + Hot(d, t + 1)
  <2>1. /\ t \in t .. MaxCount /\ (t .. MaxCount) \ {t} = (t + 1) .. MaxCount
        /\ t \in 1 .. MaxCount + 1 /\ t + 1 \in 1 .. MaxCount + 1
    BY <1>1
  <2>2. SumFunctionOnSet(d, t .. MaxCount) = d[t] + SumFunctionOnSet(d, (t .. MaxCount) \ {t})
    BY <1>2, <2>1, SumOnWithout
  <2> QED
    BY <1>2, <2>1, <2>2
<1> QED
  BY <1>2, <1>3, <1>4

\* Induction from the highest threshold down.
LEMMA Downwards ==
  ASSUME NEW S, MaxCount + 1 \in S, \A t \in 1 .. MaxCount : t + 1 \in S => t \in S
  PROVE  \A t \in 1 .. MaxCount + 1 : t \in S
<1> DEFINE Bad == {n \in 0 .. MaxCount : MaxCount + 1 - n \notin S}
<1>1. MaxCount \in Nat
  BY SketchAssumption
<1>2. Bad = {}
  <2> SUFFICES ASSUME Bad # {} PROVE FALSE
    OBVIOUS
  <2>1. Bad \in SUBSET Nat
    BY <1>1
  <2>2. PICK n \in Bad : \A y \in Bad : n <= y
    BY <2>1, LeastNat
  <2>3. n # 0
    BY <1>1
  <2>4. /\ n \in 0 .. MaxCount /\ n - 1 \in 0 .. MaxCount /\ ~(n <= n - 1)
        /\ MaxCount + 1 - (n - 1) = (MaxCount + 1 - n) + 1
        /\ MaxCount + 1 - n \in 1 .. MaxCount
    BY <1>1, <2>3
  <2>5. MaxCount + 1 - (n - 1) \in S
    BY <2>2, <2>4
  <2> QED
    BY <2>4, <2>5
<1>3. \A t \in 1 .. MaxCount + 1 : /\ MaxCount + 1 - t \in 0 .. MaxCount
                                   /\ MaxCount + 1 - (MaxCount + 1 - t) = t
  BY <1>1
<1> QED
  BY <1>2, <1>3

\* A page that is counted at f and no longer below is one more for the thresholds
\* between.
LEMMA HotCounted ==
  ASSUME NEW d \in Dists, NEW f \in 0 .. MaxCount, NEW inc \in 0 .. MaxCount,
         NEW t \in 1 .. MaxCount + 1
  PROVE  Hot(Counted(d, f, inc), t) >= Hot(d, t)
<1> DEFINE e == Counted(d, f, inc)
           More(u) == IF inc # 0 /\ f - inc < u /\ u <= f THEN 1 ELSE 0
           S == {u \in 1 .. MaxCount + 1 : Hot(e, u) = Hot(d, u) + More(u)}
<1>1. MaxCount \in Nat
  BY SketchAssumption
<1>2. e \in Dists
  BY <1>1, CountedType
<1>3. \A u \in 1 .. MaxCount :
        e[u] = IF inc = 0 THEN d[u]
               ELSE d[u] + (IF u = f THEN 1 ELSE 0) - (IF u = f - inc THEN 1 ELSE 0)
  BY DEF Counted, Dists
<1>4. \A u \in 1 .. MaxCount : d[u] \in Int
  BY DEF Dists
<1> HIDE DEF e
<1>5. MaxCount + 1 \in S
  <2>1. Hot(e, MaxCount + 1) = 0 /\ Hot(d, MaxCount + 1) = 0
    BY <1>2, HotFacts
  <2>2. More(MaxCount + 1) = 0
    BY <1>1
  <2> QED
    BY <1>1, <2>1, <2>2
<1>6. ASSUME NEW u \in 1 .. MaxCount, u + 1 \in S
      PROVE  u \in S
  <2>1. Hot(e, u) = e[u] + Hot(e, u + 1) /\ Hot(d, u) = d[u] + Hot(d, u + 1)
    BY <1>2, HotFacts
  <2>2. Hot(e, u + 1) = Hot(d, u + 1) + More(u + 1)
    BY <1>6
  <2>3. e[u] = d[u] + More(u) - More(u + 1)
    <3>1. CASE inc = 0
      BY <1>3, <1>4, <3>1
    <3>2. CASE inc # 0
      <4>1. e[u] = d[u] + (IF u = f THEN 1 ELSE 0) - (IF u = f - inc THEN 1 ELSE 0)
        BY <1>3, <3>2
      <4>2. inc \in Nat /\ inc > 0 /\ u \in Nat /\ f \in Nat
        BY <1>1, <3>2
      <4> QED
        BY <1>4, <3>2, <4>1, <4>2
    <3> QED
      BY <3>1, <3>2
  <2>4. d[u] \in Int /\ Hot(d, u + 1) \in Int /\ More(u) \in Int /\ More(u + 1) \in Int
    <3>1. u + 1 \in 1 .. MaxCount + 1
      BY <1>1
    <3>2. Hot(d, u + 1) \in Int
      BY <3>1, HotFacts
    <3> QED
      BY <1>4, <3>2
  <2>5. u \in 1 .. MaxCount + 1
    BY <1>1
  <2> HIDE DEF More
  <2>6. Hot(e, u) = Hot(d, u) + More(u)
    BY <2>1, <2>2, <2>3, <2>4
  <2> QED
    BY <2>5, <2>6
<1>7. Hot(e, t) = Hot(d, t) + More(t)
  <2> HIDE DEF S
  <2>1. t \in S
    BY <1>5, <1>6, Downwards
  <2> QED
    BY <2>1 DEF S
<1>8. Hot(d, t) \in Int /\ More(t) \in 0 .. 1
  BY HotFacts
<1> HIDE DEF More
<1>9. Hot(e, t) >= Hot(d, t)
  BY <1>7, <1>8
<1> QED
  BY <1>9 DEF e

\* Those at a frequency of t or more after aging are those of twice that before.
LEMMA HotHalved ==
  ASSUME NEW d \in Dists, NEW t \in 1 .. MaxCount + 1
  PROVE  Hot(HalveDist(d), t) = IF 2 * t > MaxCount THEN 0 ELSE Hot(d, 2 * t)
<1> DEFINE e == HalveDist(d)
           Then(u) == IF 2 * u > MaxCount THEN 0 ELSE Hot(d, 2 * u)
           S == {u \in 1 .. MaxCount + 1 : Hot(e, u) = Then(u)}
<1>1. MaxCount \in Nat /\ MaxCount % 2 = 1
  BY SketchAssumption
<1>2. e \in Dists
  BY HalveDistType
<1>3. \A u \in 1 .. MaxCount :
        e[u] = IF 2 * u > MaxCount THEN 0 ELSE d[2 * u] + d[2 * u + 1]
  BY DEF HalveDist, Dists
<1> HIDE DEF e
<1>4. MaxCount + 1 \in S
  <2>1. Hot(e, MaxCount + 1) = 0
    BY <1>2, HotFacts
  <2> QED
    BY <1>1, <2>1
<1>5. ASSUME NEW u \in 1 .. MaxCount, u + 1 \in S
      PROVE  u \in S
  <2>1. Hot(e, u) = e[u] + Hot(e, u + 1)
    BY <1>2, HotFacts
  <2>2. Hot(e, u + 1) = Then(u + 1) /\ u \in 1 .. MaxCount + 1
    BY <1>1, <1>5
  <2>3. CASE 2 * u > MaxCount
    <3>1. e[u] = 0 /\ Then(u) = 0
      BY <1>3, <2>3
    <3>2. Then(u + 1) = 0
      <4>1. 2 * (u + 1) > MaxCount
        BY <1>1, <2>3
      <4> QED
        BY <4>1
    <3> QED
      BY <2>1, <2>2, <3>1, <3>2
  <2>4. CASE ~(2 * u > MaxCount)
    <3> DEFINE v == 2 * u
    <3>1. /\ v \in 1 .. MaxCount /\ v + 1 \in 1 .. MaxCount
          /\ (v + 1) + 1 \in 1 .. MaxCount + 1
          /\ 2 * (u + 1) = (v + 1) + 1
          /\ 2 * (u + 1) > MaxCount => (v + 1) + 1 = MaxCount + 1
      BY <1>1, <2>4
    <3>2. e[u] = d[v] + d[v + 1] /\ Then(u) = Hot(d, v)
      BY <1>3, <2>4
    <3> HIDE DEF v
    <3>3. Hot(d, v) = d[v] + Hot(d, v + 1) /\ Hot(d, v + 1) = d[v + 1] + Hot(d, (v + 1) + 1)
      BY <3>1, HotFacts
    <3>4. Then(u + 1) = Hot(d, (v + 1) + 1)
      <4>1. CASE 2 * (u + 1) > MaxCount
        <5>1. Hot(d, (v + 1) + 1) = 0
          BY <3>1, <4>1, HotFacts
        <5> QED
          BY <4>1, <5>1
      <4>2. CASE ~(2 * (u + 1) > MaxCount)
        BY <3>1, <4>2
      <4> QED
        BY <4>1, <4>2
    <3>5. d[v] \in Int /\ d[v + 1] \in Int /\ Hot(d, (v + 1) + 1) \in Int
      BY <3>1, HotFacts DEF Dists
    <3> HIDE DEF Then
    <3>6. Hot(e, u) = Then(u)
      BY <2>1, <2>2, <3>2, <3>3, <3>4, <3>5
    <3> QED
      BY <2>2, <3>6
  <2> QED
    BY <2>3, <2>4
<1>6. Hot(e, t) = Then(t)
  <2> HIDE DEF S
  <2>1. t \in S
    BY <1>4, <1>5, Downwards
  <2> QED
    BY <2>1 DEF S
<1> QED
  BY <1>6 DEF e

\* The sums are none of them negative.
NoneNegative(d) == \A t \in 1 .. MaxCount : Hot(d, t) >= 0

LEMMA NoneNegativeCounted ==
  ASSUME NEW d \in Dists, NoneNegative(d), NEW f \in 0 .. MaxCount, NEW inc \in 0 .. MaxCount
  PROVE  NoneNegative(Counted(d, f, inc))
<1> DEFINE e == Counted(d, f, inc)
<1>1. e \in Dists
  BY SketchAssumption, CountedType
<1>2. ASSUME NEW t \in 1 .. MaxCount
      PROVE  Hot(e, t) >= 0
  <2>1. t \in 1 .. MaxCount + 1
    BY SketchAssumption
  <2>2. Hot(e, t) >= Hot(d, t)
    BY <2>1, HotCounted
  <2> HIDE DEF e
  <2>3. Hot(d, t) >= 0 /\ Hot(d, t) \in Int /\ Hot(e, t) \in Int
    BY <1>1, <2>1, HotFacts DEF NoneNegative
  <2> QED
    BY <2>2, <2>3
<1> QED
  BY <1>2 DEF NoneNegative

LEMMA NoneNegativeHalved ==
  ASSUME NEW d \in Dists, NoneNegative(d)
  PROVE  NoneNegative(HalveDist(d))
<1>1. ASSUME NEW t \in 1 .. MaxCount
      PROVE  Hot(HalveDist(d), t) >= 0
  <2>1. /\ t \in 1 .. MaxCount + 1
        /\ ~(2 * t > MaxCount) => 2 * t \in 1 .. MaxCount
    BY SketchAssumption
  <2>2. Hot(HalveDist(d), t) = IF 2 * t > MaxCount THEN 0 ELSE Hot(d, 2 * t)
    BY <2>1, HotHalved
  <2> QED
    BY <2>1, <2>2 DEF NoneNegative
<1> QED
  BY <1>1 DEF NoneNegative

LEMMA NoneNegativeInit ==
  ASSUME HugeInit
  PROVE  NoneNegative(dist)
<1> DEFINE S == {u \in 1 .. MaxCount + 1 : Hot(dist, u) = 0}
<1>1. MaxCount \in Nat /\ dist \in Dists /\ \A u \in 1 .. MaxCount : dist[u] = 0
  BY SketchAssumption DEF HugeInit, Init, Dists
<1>2. MaxCount + 1 \in S
  BY <1>1, HotFacts
<1>3. ASSUME NEW u \in 1 .. MaxCount, u + 1 \in S
      PROVE  u \in S
  <2>1. Hot(dist, u) = dist[u] + Hot(dist, u + 1) /\ u \in 1 .. MaxCount + 1
    BY <1>1, HotFacts
  <2> QED
    BY <1>1, <1>3, <2>1
<1>4. \A u \in 1 .. MaxCount + 1 : u \in S
  <2> HIDE DEF S
  <2> QED
    BY <1>2, <1>3, Downwards
<1>5. \A u \in 1 .. MaxCount : Hot(dist, u) = 0
  BY <1>1, <1>4
<1> QED
  BY <1>5 DEF NoneNegative

-----------------------------------------------------------------------------
(***************************************************************************)
(* The inductive invariant                                                 *)
(***************************************************************************)

\* Each counter of a page holds its own count at least: NeverUndercounts of each.
Under == \A p \in Pages \ lowered : \A c \in Of(p) : table[c] >= exact[p]

\* No counter is below the frequency recorded with a second chance, and after a
\* sample each is above it.
Watched ==
  \A p \in Pages \ excused : oldfreq[p] # None =>
    \A c \in Of(p) : /\ table[c] >= oldfreq[p]
                     /\ p \in touched => table[c] > oldfreq[p]

TouchedWatched == \A p \in touched : oldfreq[p] # None

\* The huge build counts no page of frequency 0.
HugeLeast == huge => least >= 1

Inv ==
  /\ TypeOK
  /\ huge \in BOOLEAN
  /\ Under
  /\ Watched
  /\ TouchedWatched
  /\ HugeLeast

\* The types the steps need.
LEMMA Types ==
  ASSUME TypeOK
  PROVE  /\ table \in Tables /\ dist \in Dists
         /\ size \in Nat /\ size < sample_size
         /\ least \in Int /\ least <= 1 /\ least >= -MaxCount
         /\ oldfreq \in [Pages -> {None} \cup (0 .. MaxCount - 1)]
         /\ exact \in [Pages -> 0 .. MaxCount]
         /\ lowered \in SUBSET Pages
         /\ touched \in SUBSET Pages
         /\ excused \in SUBSET Pages
         /\ MaxCount \in Nat /\ MaxCount >= 1
<1>1. MaxCount \in Nat /\ MaxCount >= 1 /\ sample_size \in Nat
  BY SketchAssumption
<1>2. table \in Tables /\ dist \in Dists
  BY DEF TypeOK, Tables, Dists
<1>3. size \in Nat /\ size < sample_size
  BY <1>1 DEF TypeOK
<1>4. least \in Int /\ least <= 1 /\ least >= -MaxCount
  BY <1>1 DEF TypeOK
<1> QED
  BY <1>1, <1>2, <1>3, <1>4 DEF TypeOK

LEMMA InitInv ==
  ASSUME HugeInit
  PROVE  Inv
<1> USE SketchAssumption
<1>1. MaxCount \in Nat /\ MaxCount >= 1
  OBVIOUS
<1>2. TypeOK
  BY <1>1 DEF HugeInit, Init, TypeOK
<1>3. Under
  <2>1. \A p \in Pages : \A c \in Of(p) : table[c] \in 0 .. MaxCount /\ exact[p] = 0
    BY OfCounters DEF HugeInit, Init
  <2> QED
    BY <1>1, <2>1 DEF Under
<1>4. Watched /\ TouchedWatched /\ HugeLeast /\ huge \in BOOLEAN
  BY DEF HugeInit, Init, Watched, TouchedWatched, HugeLeast, None
<1> QED
  BY <1>2, <1>3, <1>4 DEF Inv

-----------------------------------------------------------------------------
(***************************************************************************)
(* An increase                                                             *)
(***************************************************************************)

\* The own counts of the pages, raised.
Own(p, n) == [exact EXCEPT ![p] = Saturate(@, n)]

LEMMA OwnFacts ==
  ASSUME TypeOK, NEW p \in Pages, NEW n, NEW q \in Pages
  PROVE  Own(p, n)[q] = IF q = p THEN Saturate(exact[p], n) ELSE exact[q]
<1>1. exact \in [Pages -> 0 .. MaxCount]
  BY DEF TypeOK
<1> QED
  BY <1>1 DEF Own

\* What is in table_ and exact after an increase.
LEMMA IncreaseTables ==
  ASSUME TypeOK, NEW p \in Pages, NEW n \in Nat \ {0}, NEW f, NEW d, Increase(p, n, f, d)
  PROVE  /\ Raise(table, p, n) \in Tables
         /\ Own(p, n) \in [Pages -> 0 .. MaxCount]
         /\ ~Ages(n) => table' = Raise(table, p, n) /\ exact' = Own(p, n)
         /\ Ages(n) => table' = Halve(Raise(table, p, n)) /\ exact' = Halve(Own(p, n))
         /\ table' \in Tables /\ exact' \in [Pages -> 0 .. MaxCount]
<1>1. Raise(table, p, n) \in Tables
  BY Types, RaiseFacts
<1>2. Own(p, n) \in [Pages -> 0 .. MaxCount]
  <2>1. exact[p] \in 0 .. MaxCount
    BY Types
  <2>2. Saturate(exact[p], n) \in 0 .. MaxCount
    BY <2>1, SaturateFacts, Types
  <2> QED
    BY <2>2, Types DEF Own
<1>3. /\ ~Ages(n) => table' = Raise(table, p, n) /\ exact' = Own(p, n)
      /\ Ages(n) => table' = Halve(Raise(table, p, n)) /\ exact' = Halve(Own(p, n))
  BY DEF Increase, Own
<1>4. Halve(Raise(table, p, n)) \in Tables /\ Halve(Own(p, n)) \in [Pages -> 0 .. MaxCount]
  BY <1>1, <1>2, HalveFacts DEF Tables
<1>5. table' \in Tables /\ exact' \in [Pages -> 0 .. MaxCount]
  BY <1>1, <1>2, <1>3, <1>4
<1> QED
  BY <1>1, <1>2, <1>3, <1>5

LEMMA IncreaseType ==
  ASSUME Inv, UNCHANGED huge, NEW p \in Pages, NEW n \in 1 .. MaxIncrease,
         NEW f \in 0 .. MaxCount, NEW d \in Dists, Increase(p, n, f, d)
  PROVE  TypeOK'
<1> USE SketchAssumption
<1> DEFINE inc == MaxIncreased(table, p, n)
           low == LeastIndex(f, inc)
           left == IF Ages(n) THEN (size + n) \div 2 ELSE size + n
<1>1. n \in Nat /\ n >= 1 /\ n <= sample_size /\ TypeOK
  BY DEF Inv
<1>2. table' \in Tables /\ exact' \in [Pages -> 0 .. MaxCount]
  BY <1>1, IncreaseTables
<1>3. inc \in 0 .. MaxCount
  BY <1>1, Types, RaisedFacts
<1>4. low \in -MaxCount .. MaxCount
  BY <1>3, LeastIndexFacts
\* An aging halves two samples at least, so there is one left to take away.
<1>5. left \in 1 .. sample_size - 1
  BY <1>1, Types DEF Ages
<1>6. size' = IF low = -1 THEN left - 1 ELSE left
  BY DEF Increase
<1>7. least' = Min({least, low})
  BY DEF Increase
<1> HIDE DEF low, left, inc
<1>8. size' \in 0 .. sample_size - 1
  BY <1>5, <1>6
<1>9. least' \in -MaxCount .. 1
  <2>1. least \in Int /\ low \in Int /\ least <= 1 /\ least >= -MaxCount
    BY <1>1, <1>4, Types
  <2>2. least' \in {least, low} /\ least' <= least
    BY <1>7, <2>1, MinPair
  <2> QED
    BY <1>4, <2>1, <2>2
<1>10. /\ dist' = d
       /\ UNCHANGED <<oldfreq, lowered>>
       /\ touched' \in SUBSET Pages /\ excused' \in SUBSET Pages
  BY <1>1, Types DEF Increase
<1> QED
  BY <1>1, <1>2, <1>8, <1>9, <1>10 DEF TypeOK, Tables, Dists

\* An increase raises a counter at least as much as the page's own count, and
\* aging halves both.
LEMMA IncreaseUnder ==
  ASSUME Inv, NEW p \in Pages, NEW n \in 1 .. MaxIncrease,
         NEW f, NEW d, Increase(p, n, f, d)
  PROVE  Under'
<1> USE SketchAssumption
<1> DEFINE own == Own(p, n)
           up == Raise(table, p, n)
<1>1. n \in Nat \ {0} /\ TypeOK /\ Under /\ lowered' = lowered
  BY DEF Inv, Increase
<1>2. /\ up \in Tables /\ own \in [Pages -> 0 .. MaxCount]
      /\ ~Ages(n) => table' = up /\ exact' = own
      /\ Ages(n) => table' = Halve(up) /\ exact' = Halve(own)
  BY <1>1, IncreaseTables
<1>3. ASSUME NEW q \in Pages \ lowered, NEW c \in Of(q)
      PROVE  up[c] >= own[q]
  <2>1. /\ c \in Counters /\ table[c] \in 0 .. MaxCount /\ exact[q] \in 0 .. MaxCount
        /\ table[c] >= exact[q] /\ up[c] \in Nat
    BY <1>1, <1>2, Types, OfCounters DEF Under, Tables
  <2>2. CASE q = p
    <3>1. up[c] = Saturate(table[c], n)
      BY <1>1, <2>2, Types, RaiseFacts
    <3>2. own[q] = Saturate(exact[q], n)
      BY <1>1, <2>2, OwnFacts
    <3>3. Saturate(exact[q], n) <= Saturate(table[c], n)
      BY <1>1, <2>1, SaturateMonotone
    <3>4. /\ Saturate(table[c], n) \in 1 .. MaxCount
          /\ Saturate(exact[q], n) \in 1 .. MaxCount
      BY <1>1, <2>1, SaturateFacts
    <3> QED
      BY <3>1, <3>2, <3>3, <3>4
  <2>3. CASE q # p
    <3>1. up[c] >= table[c]
      BY <1>1, <2>1, Types, RaiseFacts
    <3>2. own[q] = exact[q]
      BY <1>1, <2>3, OwnFacts
    <3> QED
      BY <2>1, <3>1, <3>2
  <2> QED
    BY <2>2, <2>3
<1>4. ASSUME NEW q \in Pages \ lowered, NEW c \in Of(q)
      PROVE  table'[c] >= exact'[q]
  <2>1. c \in Counters /\ up[c] \in Nat /\ own[q] \in Nat /\ own[q] <= up[c]
    BY <1>2, <1>3, OfCounters DEF Tables
  <2>2. CASE ~Ages(n)
    BY <1>2, <2>1, <2>2
  <2>3. CASE Ages(n)
    <3>1. table'[c] = up[c] \div 2 /\ exact'[q] = own[q] \div 2
      BY <1>2, <2>1, <2>3, HalveFacts DEF Tables
    <3> QED
      BY <2>1, <3>1, HalveMonotone
  <2> QED
    BY <2>2, <2>3
<1> QED
  BY <1>1, <1>4 DEF Under, Of

\* A page that is sampled rises above what was recorded, which is never the
\* maximum; when the counters are halved every recorded frequency is excused.
LEMMA IncreaseWatched ==
  ASSUME Inv, NEW p \in Pages, NEW n \in 1 .. MaxIncrease,
         NEW f, NEW d, Increase(p, n, f, d)
  PROVE  Watched' /\ TouchedWatched'
<1> USE SketchAssumption
<1> DEFINE up == Raise(table, p, n)
<1>1. /\ n \in Nat \ {0} /\ TypeOK /\ Watched /\ TouchedWatched
      /\ oldfreq' = oldfreq
      /\ touched' = IF oldfreq[p] # None THEN touched \cup {p} ELSE touched
      /\ excused' = IF Ages(n) THEN {q \in Pages : oldfreq[q] # None} ELSE excused
  BY DEF Inv, Increase
<1>2. TouchedWatched'
  BY <1>1 DEF TouchedWatched
<1>3. CASE Ages(n)
  <2>1. \A q \in Pages \ excused' : oldfreq'[q] = None
    BY <1>1, <1>3
  <2> QED
    BY <1>2, <2>1 DEF Watched
<1>4. CASE ~Ages(n)
  <2>1. table' = up /\ up \in Tables
    BY <1>1, <1>4, IncreaseTables
  <2>2. ASSUME NEW q \in Pages \ excused, oldfreq[q] # None, NEW c \in Of(q)
        PROVE  /\ up[c] >= oldfreq[q]
               /\ q \in touched' => up[c] > oldfreq[q]
    <3>1. /\ c \in Counters /\ table[c] \in 0 .. MaxCount
          /\ oldfreq[q] \in 0 .. MaxCount - 1
          /\ table[c] >= oldfreq[q]
          /\ q \in touched => table[c] > oldfreq[q]
          /\ up[c] >= table[c] /\ up[c] \in Nat
      <4>1. c \in Counters
        BY OfCounters
      <4>2. table[c] \in 0 .. MaxCount /\ oldfreq[q] \in 0 .. MaxCount - 1
        BY <1>1, <2>2, <4>1, Types DEF Tables
      <4>3. table[c] >= oldfreq[q] /\ (q \in touched => table[c] > oldfreq[q])
        BY <1>1, <2>2 DEF Watched
      <4>4. up[c] >= table[c]
        BY <1>1, <4>1, Types, RaiseFacts
      <4>5. up[c] \in Nat
        BY <2>1, <4>1 DEF Tables
      <4> QED
        BY <4>1, <4>2, <4>3, <4>4, <4>5
    <3>2. CASE q = p
      <4>1. up[c] = Saturate(table[c], n)
        BY <1>1, <3>2, Types, RaiseFacts
      <4>2. up[c] > oldfreq[q]
        <5>1. CASE table[c] < MaxCount
          <6>1. Saturate(table[c], n) > table[c] /\ Saturate(table[c], n) \in 1 .. MaxCount
            BY <1>1, <3>1, <5>1, SaturateFacts
          <6> QED
            BY <3>1, <4>1, <6>1
        <5>2. CASE table[c] = MaxCount
          BY <3>1, <5>2
        <5> QED
          BY <3>1, <5>1, <5>2
      <4> QED
        BY <3>1, <4>2
    <3>3. CASE q # p
      <4>1. q \in touched' => q \in touched
        BY <1>1, <3>3
      <4> QED
        BY <3>1, <4>1
    <3> QED
      BY <3>2, <3>3
  <2>3. excused' = excused
    BY <1>1, <1>4
  <2> HIDE DEF up
  <2> QED
    BY <1>1, <1>2, <2>1, <2>2, <2>3 DEF Watched
<1> QED
  BY <1>2, <1>3, <1>4

-----------------------------------------------------------------------------
(***************************************************************************)
(* A second chance                                                         *)
(***************************************************************************)

\* Every counter of a page at the maximum is at the maximum.
LEMMA AtMaximum ==
  ASSUME TypeOK, NEW p \in Pages, MustDecrement(p)
  PROVE  \A c \in Of(p) : table[c] = MaxCount
<1>1. table \in Tables /\ MaxCount \in Nat
  BY Types
<1>2. Freq(table, p) = MaxCount
  BY DEF MustDecrement, frequency
<1>3. \A c \in Of(p) : Freq(table, p) <= table[c] /\ table[c] \in 0 .. MaxCount
  BY <1>1, FreqLeast, OfCounters DEF Tables
<1> QED
  BY <1>1, <1>2, <1>3

\* The decrement borrows from no neighbour, and takes one off the counters of the
\* page only.
LEMMA DecrementFacts ==
  ASSUME TypeOK, NEW p \in Pages, MustDecrement(p)
  PROVE  /\ Decrement(table, p) \in Tables
         /\ \A c \in Of(p) : Decrement(table, p)[c] = MaxCount - 1
         /\ \A c \in Counters \ Of(p) : Decrement(table, p)[c] = table[c]
<1> DEFINE u == Decrement(table, p)
<1>1. /\ \A c \in Of(p) : table[c] = MaxCount
      /\ \A c \in Counters : table[c] \in 0 .. MaxCount
      /\ Of(p) \in SUBSET Counters
      /\ MaxCount \in Nat /\ MaxCount >= 1
  BY AtMaximum, Types, OfCounters DEF Tables
<1>2. u = [c \in Counters |-> IF c \in Of(p) THEN table[c] - 1 ELSE table[c]]
  BY DEF Decrement
<1>3. /\ \A c \in Of(p) : u[c] = MaxCount - 1
      /\ \A c \in Counters \ Of(p) : u[c] = table[c]
  BY <1>1, <1>2
<1>4. \A c \in Counters : u[c] \in 0 .. MaxCount
  BY <1>1, <1>3
<1>5. u = [c \in Counters |-> u[c]]
  BY <1>2
<1> HIDE DEF u
<1>6. u \in Tables
  BY <1>4, <1>5 DEF Tables
<1> QED
  BY <1>3, <1>6 DEF u

\* A page that shares no counter with another is not changed with it.
LEMMA NotSharing ==
  ASSUME NEW p \in Pages, NEW q \in Pages, q # p, q \notin Sharing(p), NEW c \in Of(q)
  PROVE  c \in Counters \ Of(p)
BY OfCounters DEF Sharing

LEMMA SecondChanceType ==
  ASSUME Inv, NEW p \in Pages, SecondChance(p)
  PROVE  TypeOK' /\ Recorded(p) \in 0 .. MaxCount - 1
<1>1. TypeOK
  BY DEF Inv
<1>2. Recorded(p) \in 0 .. MaxCount - 1
  <2>1. frequency(p) \in 0 .. MaxCount
    BY <1>1, Types, FreqLeast DEF frequency
  <2> QED
    BY <1>1, <2>1, Types DEF Recorded
<1>3. /\ oldfreq' = [oldfreq EXCEPT ![p] = Recorded(p)]
      /\ touched' = touched \ {p}
      /\ UNCHANGED <<size, dist, least>>
  BY DEF SecondChance
<1>4. oldfreq' \in [Pages -> {None} \cup (0 .. MaxCount - 1)]
  BY <1>1, <1>2, <1>3, Types
<1>5. CASE MustDecrement(p)
  <2>1. /\ table' = Decrement(table, p)
        /\ exact' = [exact EXCEPT ![p] = IF @ = MaxCount THEN @ - 1 ELSE @]
        /\ lowered' = lowered \cup Sharing(p)
        /\ excused' = (excused \ {p}) \cup {q \in Sharing(p) : oldfreq[q] # None}
    BY <1>5 DEF SecondChance
  <2>2. table' \in Tables
    BY <1>1, <1>5, <2>1, DecrementFacts
  <2>3. exact' \in [Pages -> 0 .. MaxCount]
    <3>1. exact[p] \in 0 .. MaxCount
      BY <1>1, Types
    <3>2. (IF exact[p] = MaxCount THEN exact[p] - 1 ELSE exact[p]) \in 0 .. MaxCount
      BY <1>1, <3>1, Types
    <3> QED
      BY <1>1, <2>1, <3>2, Types
  <2>4. Sharing(p) \in SUBSET Pages
    BY DEF Sharing
  <2> QED
    BY <1>1, <1>3, <1>4, <1>2, <2>1, <2>2, <2>3, <2>4 DEF TypeOK, Tables
<1>6. CASE ~MustDecrement(p)
  <2>1. UNCHANGED <<table, exact, lowered>> /\ excused' = excused \ {p}
    BY <1>6 DEF SecondChance
  <2> QED
    BY <1>1, <1>2, <1>3, <1>4, <2>1 DEF TypeOK
<1> QED
  BY <1>5, <1>6

LEMMA SecondChanceUnder ==
  ASSUME Inv, NEW p \in Pages, SecondChance(p)
  PROVE  Under'
<1>1. TypeOK /\ Under
  BY DEF Inv
<1>2. CASE MustDecrement(p)
  <2>1. /\ table' = Decrement(table, p)
        /\ exact' = [exact EXCEPT ![p] = IF @ = MaxCount THEN @ - 1 ELSE @]
        /\ lowered' = lowered \cup Sharing(p)
    BY <1>2 DEF SecondChance
  <2>2. ASSUME NEW q \in Pages \ lowered', NEW c \in Of(q)
        PROVE  table'[c] >= exact'[q]
    <3>1. q \notin Sharing(p) /\ q \in Pages \ lowered
      BY <2>1
    <3>2. /\ table[c] >= exact[q]
          /\ exact[q] \in 0 .. MaxCount
          /\ MaxCount \in Nat /\ MaxCount >= 1
      BY <1>1, <3>1, Types DEF Under
    <3>3. CASE q = p
      <4>1. table'[c] = MaxCount - 1
        BY <1>1, <1>2, <2>1, <3>3, DecrementFacts
      <4>2. exact'[q] = IF exact[q] = MaxCount THEN exact[q] - 1 ELSE exact[q]
        BY <1>1, <2>1, <3>3, Types
      <4> QED
        BY <3>2, <4>1, <4>2
    <3>4. CASE q # p
      <4>1. c \in Counters \ Of(p)
        BY <3>1, <3>4, NotSharing
      <4>2. table'[c] = table[c]
        BY <1>1, <1>2, <2>1, <4>1, DecrementFacts
      <4>3. exact'[q] = exact[q]
        BY <1>1, <2>1, <3>4, Types
      <4> QED
        BY <3>2, <4>2, <4>3
    <3> QED
      BY <3>3, <3>4
  <2> QED
    BY <2>2 DEF Under
<1>3. CASE ~MustDecrement(p)
  <2>1. UNCHANGED <<table, exact, lowered>>
    BY <1>3 DEF SecondChance
  <2> QED
    BY <1>1, <2>1 DEF Under
<1> QED
  BY <1>2, <1>3

LEMMA SecondChanceWatched ==
  ASSUME Inv, NEW p \in Pages, SecondChance(p)
  PROVE  Watched' /\ TouchedWatched'
<1>1. TypeOK /\ Watched /\ TouchedWatched
  BY DEF Inv
<1>2. /\ oldfreq' = [oldfreq EXCEPT ![p] = Recorded(p)]
      /\ touched' = touched \ {p}
      /\ Recorded(p) \in 0 .. MaxCount - 1
  BY SecondChanceType DEF SecondChance
<1>3. /\ oldfreq'[p] = Recorded(p)
      /\ \A q \in Pages : q # p => oldfreq'[q] = oldfreq[q]
  BY <1>1, <1>2, Types
<1>4. TouchedWatched'
  <2>1. touched \in SUBSET Pages
    BY <1>1, Types
  <2> QED
    BY <1>1, <1>2, <1>3, <2>1 DEF TouchedWatched
<1>5. ASSUME NEW q \in Pages \ excused', oldfreq'[q] # None, NEW c \in Of(q)
      PROVE  /\ table'[c] >= oldfreq'[q]
             /\ q \in touched' => table'[c] > oldfreq'[q]
  <2>1. CASE q = p
    <3>1. q \notin touched' /\ oldfreq'[q] = Recorded(p)
      BY <1>2, <1>3, <2>1
    <3>2. CASE MustDecrement(p)
      <4>1. table' = Decrement(table, p)
        BY <3>2 DEF SecondChance
      <4>2. table'[c] = MaxCount - 1
        BY <1>1, <2>1, <3>2, <4>1, DecrementFacts
      <4>3. Recorded(p) = MaxCount - 1
        BY <3>2 DEF Recorded, MustDecrement
      <4>4. MaxCount \in Nat
        BY <1>1, Types
      <4> QED
        BY <3>1, <4>2, <4>3, <4>4
    <3>3. CASE ~MustDecrement(p)
      <4>1. table' = table
        BY <3>3 DEF SecondChance
      <4>2. Recorded(p) = Freq(table, p)
        BY <3>3 DEF Recorded, MustDecrement, frequency
      <4>3. Freq(table, p) <= table[c]
        BY <1>1, <2>1, Types, FreqLeast
      <4>4. Freq(table, p) \in Int /\ table[c] \in Int
        BY <1>1, Types, FreqLeast, OfCounters, SketchAssumption DEF Tables
      <4> QED
        BY <3>1, <4>1, <4>2, <4>3, <4>4
    <3> QED
      BY <3>2, <3>3
  <2>2. CASE q # p
    <3>1. oldfreq'[q] = oldfreq[q] /\ oldfreq[q] # None /\ (q \in touched' => q \in touched)
      BY <1>2, <1>3, <1>5, <2>2
    <3>2. CASE MustDecrement(p)
      <4>1. /\ table' = Decrement(table, p)
            /\ excused' = (excused \ {p}) \cup {r \in Sharing(p) : oldfreq[r] # None}
        BY <3>2 DEF SecondChance
      <4>2. q \notin excused /\ q \notin Sharing(p)
        BY <1>5, <2>2, <3>1, <4>1
      <4>3. c \in Counters \ Of(p)
        BY <2>2, <4>2, NotSharing
      <4>4. table'[c] = table[c]
        BY <1>1, <3>2, <4>1, <4>3, DecrementFacts
      <4> QED
        BY <1>1, <3>1, <4>2, <4>4 DEF Watched
    <3>3. CASE ~MustDecrement(p)
      <4>1. table' = table /\ q \notin excused
        BY <1>5, <2>2, <3>3 DEF SecondChance
      <4> QED
        BY <1>1, <3>1, <4>1 DEF Watched
    <3> QED
      BY <3>2, <3>3
  <2> QED
    BY <2>1, <2>2
<1> QED
  BY <1>4, <1>5 DEF Watched

-----------------------------------------------------------------------------
(***************************************************************************)
(* The steps together                                                      *)
(***************************************************************************)

LEMMA AgeInv ==
  ASSUME Inv, age, UNCHANGED huge
  PROVE  Inv'
<1> USE SketchAssumption
<1>1. /\ TypeOK /\ Under /\ HugeLeast /\ huge \in BOOLEAN
      /\ table' = Halve(table) /\ exact' = Halve(exact) /\ size' = size \div 2
      /\ dist' = HalveDist(dist) /\ oldfreq' = [q \in Pages |-> None]
      /\ touched' = {} /\ excused' = {} /\ UNCHANGED <<lowered, least>>
  BY DEF Inv, age
<1>2. /\ table' \in Tables /\ exact' \in [Pages -> 0 .. MaxCount]
      /\ dist' \in Dists
  BY <1>1, Types, HalveFacts, HalveDistType DEF Tables
<1>3. size' \in 0 .. sample_size - 1
  BY <1>1, Types
<1>4. TypeOK'
  BY <1>1, <1>2, <1>3 DEF TypeOK, Tables, Dists
<1>5. Under'
  <2>1. ASSUME NEW q \in Pages \ lowered, NEW c \in Of(q)
        PROVE  table'[c] >= exact'[q]
    <3>1. c \in Counters /\ table[c] \in Nat /\ exact[q] \in Nat /\ exact[q] <= table[c]
      BY <1>1, Types, OfCounters DEF Tables, Under
    <3>2. table'[c] = table[c] \div 2 /\ exact'[q] = exact[q] \div 2
      BY <1>1, <3>1, Types, HalveFacts DEF Tables
    <3> QED
      BY <3>1, <3>2, HalveMonotone
  <2> QED
    BY <1>1, <2>1 DEF Under
<1>6. Watched' /\ TouchedWatched' /\ HugeLeast'
  BY <1>1 DEF Watched, TouchedWatched, HugeLeast
<1> QED
  BY <1>1, <1>4, <1>5, <1>6 DEF Inv

LEMMA CheckSecondChanceInv ==
  ASSUME Inv, CheckSecondChance, UNCHANGED huge
  PROVE  Inv'
<1>1. /\ TypeOK /\ Under /\ HugeLeast /\ huge \in BOOLEAN
      /\ oldfreq' = [q \in Pages |-> None] /\ touched' = {} /\ excused' = {}
      /\ UNCHANGED <<table, exact, lowered, size, dist, least>>
  BY DEF Inv, CheckSecondChance
<1>2. TypeOK'
  BY <1>1 DEF TypeOK
<1>3. Under' /\ Watched' /\ TouchedWatched' /\ HugeLeast'
  BY <1>1 DEF Under, Watched, TouchedWatched, HugeLeast
<1> QED
  BY <1>1, <1>2, <1>3 DEF Inv

LEMMA IncreaseInv ==
  ASSUME Inv, UNCHANGED huge, NEW p \in Pages, NEW n \in 1 .. MaxIncrease,
         NEW f \in 0 .. MaxCount, NEW d \in Dists, Increase(p, n, f, d),
         huge => f = Raised(table, p, n)
  PROVE  Inv'
<1> USE SketchAssumption
<1>1. TypeOK'
  BY IncreaseType
<1>2. Under' /\ Watched' /\ TouchedWatched'
  BY IncreaseUnder, IncreaseWatched
<1>3. huge' \in BOOLEAN
  BY DEF Inv
<1>4. HugeLeast'
  <2> DEFINE inc == MaxIncreased(table, p, n)
             low == LeastIndex(f, inc)
  <2>1. n \in Nat \ {0} /\ TypeOK
    BY DEF Inv
  <2>2. Raised(table, p, n) \in 1 .. MaxCount /\ inc \in 0 .. Raised(table, p, n)
    BY <2>1, Types, RaisedFacts
  <2>3. /\ low \in -MaxCount .. MaxCount
        /\ huge => low >= 1
    BY <2>2, LeastIndexFacts
  <2>4. least' = Min({least, low})
    BY DEF Increase
  <2> HIDE DEF low
  <2>5. least' \in {least, low}
    <3>1. least \in Int /\ low \in Int
      BY <2>1, <2>3, Types
    <3> QED
      BY <2>4, <3>1, MinPair
  <2> QED
    BY <2>3, <2>5 DEF Inv, HugeLeast
<1> QED
  BY <1>1, <1>2, <1>3, <1>4 DEF Inv

LEMMA StepInv ==
  ASSUME Inv, [HugeNext]_hugeVars
  PROVE  Inv'
<1> USE SketchAssumption
<1>1. ASSUME huge, UNCHANGED huge, NEW p \in Pages, NEW n \in 1 .. MaxIncrease,
             huge_increase_frequency(p, n)
      PROVE  Inv'
  <2> DEFINE f == Raised(table, p, n)
             c == Counted(dist, f, MaxIncreased(table, p, n))
             d == IF Ages(n) THEN HalveDist(c) ELSE c
  <2>1. TypeOK /\ n \in Nat \ {0}
    BY DEF Inv
  <2>2. f \in 0 .. MaxCount /\ f \in Int /\ MaxIncreased(table, p, n) \in Int
    BY <2>1, Types, RaisedFacts
  <2>3. c \in Dists
    BY <2>1, <2>2, CountedType, Types
  <2>4. d \in Dists
    BY <2>3, HalveDistType
  <2>5. Increase(p, n, f, d)
    BY <1>1 DEF huge_increase_frequency
  <2> HIDE DEF d
  <2> QED
    BY <1>1, <2>2, <2>4, <2>5, IncreaseInv
<1>2. ASSUME ~huge, UNCHANGED huge, NEW p \in Pages, NEW n \in 1 .. MaxIncrease,
             increase_frequency(p, n)
      PROVE  Inv'
  <2> DEFINE r == Raised(table, p, n)
             f == IF Ages(n) THEN r \div 2 ELSE r
             o == IF Ages(n) THEN HalveDist(dist) ELSE dist
             d == Counted(o, f, MaxIncreased(table, p, n))
  <2>1. TypeOK /\ n \in Nat \ {0}
    BY DEF Inv
  <2>2. r \in 0 .. MaxCount /\ MaxIncreased(table, p, n) \in Int
    BY <2>1, Types, RaisedFacts
  <2>3. f \in 0 .. MaxCount /\ f \in Int
    BY <2>2
  <2>4. o \in Dists
    BY <2>1, HalveDistType, Types
  <2>5. Increase(p, n, f, d)
    BY <1>2 DEF increase_frequency
  <2> HIDE DEF f, o
  <2>6. d \in Dists
    BY <2>2, <2>3, <2>4, CountedType
  <2> HIDE DEF d
  <2> QED
    BY <1>2, <2>3, <2>5, <2>6, IncreaseInv
<1>3. ASSUME UNCHANGED huge, NEW p \in Pages, SecondChance(p)
      PROVE  Inv'
  <2>1. TypeOK' /\ Under' /\ Watched' /\ TouchedWatched'
    BY <1>3, SecondChanceType, SecondChanceUnder, SecondChanceWatched
  <2>2. HugeLeast' /\ huge' \in BOOLEAN
    BY <1>3 DEF SecondChance, Inv, HugeLeast
  <2> QED
    BY <2>1, <2>2 DEF Inv
<1>4. CASE UNCHANGED hugeVars
  BY <1>4 DEF hugeVars, vars, Inv, TypeOK, Under, Watched, TouchedWatched, HugeLeast
<1> QED
  BY <1>1, <1>2, <1>3, <1>4, AgeInv, CheckSecondChanceInv DEF HugeNext, Others, hugeVars

-----------------------------------------------------------------------------
(***************************************************************************)
(* The theorems                                                            *)
(***************************************************************************)

LEMMA Invariance == HugeSpec => []Inv
<1>1. HugeInit => Inv
  BY InitInv
<1>2. Inv /\ [HugeNext]_hugeVars => Inv'
  BY StepInv
<1> QED
  BY <1>1, <1>2, PTL DEF HugeSpec

\* No counter of either build overflows its bits or borrows from its neighbour, and
\* no call leaves more samples than the next aging waits for.
THEOREM CountersCorrect == HugeSpec => []TypeOK
<1>1. Inv => TypeOK
  BY DEF Inv
<1> QED
  BY <1>1, Invariance, PTL

\* The estimate of a page is never below its own count.
THEOREM UndercountCorrect == HugeSpec => []NeverUndercounts
<1>1. ASSUME Inv
      PROVE  NeverUndercounts
  <2>1. TypeOK /\ Under
    BY <1>1 DEF Inv
  <2>2. ASSUME NEW p \in Pages \ lowered
        PROVE  frequency(p) >= exact[p]
    <3>1. exact[p] \in Int /\ table \in Tables
      BY <2>1, Types
    <3>2. \A c \in Of(p) : table[c] >= exact[p]
      BY <2>1 DEF Under
    <3> QED
      BY <3>1, <3>2, FreqAbove DEF frequency
  <2> QED
    BY <2>2 DEF NeverUndercounts
<1> QED
  BY <1>1, Invariance, PTL

\* A page that was sampled since its second chance shows a higher frequency than
\* the one recorded with it.
THEOREM SecondChanceCorrect == HugeSpec => []SecondChanceSound
<1>1. ASSUME Inv
      PROVE  SecondChanceSound
  <2>1. TypeOK /\ Watched /\ TouchedWatched
    BY <1>1 DEF Inv
  <2>2. ASSUME NEW p \in touched \ excused
        PROVE  frequency(p) # oldfreq[p]
    <3>1. p \in Pages /\ oldfreq[p] # None /\ table \in Tables
      BY <2>1, Types DEF TouchedWatched
    <3>2. oldfreq[p] \in Int
      BY <2>1, <3>1, Types
    <3>3. \A c \in Of(p) : table[c] > oldfreq[p]
      BY <2>1, <3>1 DEF Watched
    <3>4. Freq(table, p) > oldfreq[p] /\ Freq(table, p) \in 0 .. MaxCount
      BY <3>1, <3>2, <3>3, FreqAbove, FreqLeast
    <3> QED
      BY <3>2, <3>4, Types, <2>1 DEF frequency
  <2> QED
    BY <2>2 DEF SecondChanceSound
<1> QED
  BY <1>1, Invariance, PTL

\* What a step does to the distribution: it is halved, counts a page anew, or both.
LEMMA StepNoneNegative ==
  ASSUME Inv, NoneNegative(dist), [HugeNext]_hugeVars
  PROVE  NoneNegative(dist')
<1> USE SketchAssumption
<1>1. TypeOK /\ dist \in Dists
  BY Types DEF Inv
<1>2. ASSUME NEW p \in Pages, NEW n \in 1 .. MaxIncrease
      PROVE  /\ Raised(table, p, n) \in 0 .. MaxCount
             /\ Raised(table, p, n) \div 2 \in 0 .. MaxCount
             /\ MaxIncreased(table, p, n) \in 0 .. MaxCount
  <2>1. n \in Nat \ {0} /\ table \in Tables
    BY <1>1, Types
  <2>2. /\ Raised(table, p, n) \in 1 .. MaxCount
        /\ MaxIncreased(table, p, n) \in 0 .. Raised(table, p, n)
    BY <2>1, RaisedFacts
  <2>3. MaxCount \in Nat
    OBVIOUS
  <2> QED
    BY <2>2, <2>3
<1>3. ASSUME NEW p \in Pages, NEW n \in 1 .. MaxIncrease, huge_increase_frequency(p, n)
      PROVE  NoneNegative(dist')
  <2> DEFINE inc == MaxIncreased(table, p, n)
             c == Counted(dist, Raised(table, p, n), inc)
  <2>1. inc \in 0 .. MaxCount /\ inc \in Int /\ Raised(table, p, n) \in Int
    BY <1>2
  <2>2. NoneNegative(c) /\ c \in Dists
    BY <1>1, <1>2, <2>1, NoneNegativeCounted, CountedType
  <2>3. dist' = IF Ages(n) THEN HalveDist(c) ELSE c
    BY <1>3 DEF huge_increase_frequency, Increase
  <2> HIDE DEF c
  <2>4. NoneNegative(HalveDist(c))
    BY <2>2, NoneNegativeHalved
  <2> QED
    BY <2>2, <2>3, <2>4
<1>4. ASSUME NEW p \in Pages, NEW n \in 1 .. MaxIncrease, increase_frequency(p, n)
      PROVE  NoneNegative(dist')
  <2> DEFINE r == Raised(table, p, n)
             f == IF Ages(n) THEN r \div 2 ELSE r
             o == IF Ages(n) THEN HalveDist(dist) ELSE dist
             inc == MaxIncreased(table, p, n)
  <2>1. f \in 0 .. MaxCount /\ inc \in 0 .. MaxCount
    BY <1>2
  <2>2. o \in Dists /\ NoneNegative(o)
    BY <1>1, HalveDistType, NoneNegativeHalved
  <2>3. dist' = Counted(o, f, inc)
    BY <1>4 DEF increase_frequency, Increase
  <2> HIDE DEF f, o, inc
  <2> QED
    BY <2>1, <2>2, <2>3, NoneNegativeCounted
<1>5. CASE age
  BY <1>1, <1>5, NoneNegativeHalved DEF age
<1>6. CASE CheckSecondChance \/ UNCHANGED hugeVars \/ \E p \in Pages : SecondChance(p)
  <2>1. dist' = dist
    BY <1>6 DEF CheckSecondChance, SecondChance, hugeVars, vars
  <2> QED
    BY <2>1
<1> QED
  BY <1>3, <1>4, <1>5, <1>6 DEF HugeNext, Others, hugeVars

\* The pages counted as hot, by which a plateau is judged, are never less than none,
\* and the huge page build uses no bin at 0 or before it.
THEOREM HistogramCorrect == HugeSpec => []HistogramSound
<1> DEFINE Some == NoneNegative(dist)
<1>1. HugeInit => Some
  BY NoneNegativeInit
<1>2. Inv /\ Some /\ [HugeNext]_hugeVars => Some'
  BY StepNoneNegative
<1>3. Inv /\ Some => HistogramSound
  <2>1. Inv => (huge => NotCountingZeros)
    BY DEF Inv, HugeLeast, NotCountingZeros
  <2>2. Some => HotPagesCounted
    BY DEF NoneNegative, Hot, HotPagesCounted, get_num_hot_pages
  <2> QED
    BY <2>1, <2>2 DEF HistogramSound
<1> QED
  BY <1>1, <1>2, <1>3, Invariance, PTL DEF HugeSpec
=============================================================================
