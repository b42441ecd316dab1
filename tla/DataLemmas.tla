----------------------------- MODULE DataLemmas -----------------------------
(***************************************************************************)
(* Lemmas about the data of the models, for the proofs about them: what the *)
(* list operations of the caches do, what sums over sequences and finite   *)
(* sets are, and how positions in a ring are counted.  The library proves  *)
(* no induction over them that the provers could use, so that each         *)
(* induction here is one over the least number for which a claim fails.    *)
(***************************************************************************)
EXTENDS Integers, PageLists, SequencesExt, FiniteSetsExt, Functions,
        FiniteSetTheorems, WellFoundedInduction, TLAPS

LEMMA LeastNat ==
  ASSUME NEW S \in SUBSET Nat, S # {}
  PROVE  \E m \in S : \A y \in S : m <= y
<1>1. PICK m \in S : \A y \in S : ~(<<y, m>> \in OpToRel(<, Nat))
  BY NatLessThanWellFounded, WFMin, Zenon
<1>2. ASSUME NEW y \in S
      PROVE  m <= y
  <2>1. m \in Nat /\ y \in Nat
    OBVIOUS
  <2>2. ~(y < m)
    BY <1>1, <2>1 DEF OpToRel
  <2> QED
    BY <2>1, <2>2
<1> QED
  BY <1>2

-----------------------------------------------------------------------------
(***************************************************************************)
(* Lists, most of them without repetitions                                 *)
(***************************************************************************)

LEMMA EmptyList == Elems(<< >>) = {} /\ Len(<< >>) = 0 /\ NoRepeats(<< >>)
BY DEF Elems, NoRepeats

\* A list that has no element is empty, and the other way round.
LEMMA NonEmptyList ==
  ASSUME NEW S, NEW s \in Seq(S)
  PROVE  /\ Len(s) \in Nat
         /\ DOMAIN s = 1 .. Len(s)
         /\ s # << >> <=> Len(s) > 0
         /\ \A k \in DOMAIN s : s[k] \in S
         /\ Elems(s) \subseteq S
BY DEF Elems

LEMMA PushFrontProperties ==
  ASSUME NEW S, NEW s \in Seq(S), NEW x \in S
  PROVE  /\ PushFront(x, s) \in Seq(S)
         /\ Len(PushFront(x, s)) = Len(s) + 1
         /\ Elems(PushFront(x, s)) = Elems(s) \cup {x}
         /\ NoRepeats(s) /\ x \notin Elems(s) => NoRepeats(PushFront(x, s))
<1> DEFINE t == PushFront(x, s)
<1>1. /\ t \in Seq(S)
      /\ Len(t) = Len(s) + 1
      /\ DOMAIN t = 1 .. Len(s) + 1
      /\ t[1] = x
      /\ \A k \in 2 .. Len(s) + 1 : t[k] = s[k - 1]
  BY DEF PushFront
<1>2. Len(s) \in Nat /\ DOMAIN s = 1 .. Len(s)
  OBVIOUS
<1>3. \A k \in DOMAIN t : \/ k = 1 /\ t[k] = x
                          \/ k - 1 \in DOMAIN s /\ t[k] = s[k - 1]
  BY <1>1, <1>2
<1>4. \A k \in DOMAIN s : k + 1 \in DOMAIN t /\ t[k + 1] = s[k]
  <2> SUFFICES ASSUME NEW k \in DOMAIN s
               PROVE  k + 1 \in DOMAIN t /\ t[k + 1] = s[k]
    OBVIOUS
  <2>1. k \in 1 .. Len(s) /\ k + 1 \in 2 .. Len(s) + 1 /\ (k + 1) - 1 = k
    BY <1>2
  <2> QED
    BY <2>1, <1>1, <1>2
<1>5. 1 \in DOMAIN t
  BY <1>1, <1>2
<1> HIDE DEF t
<1>6. Elems(t) = Elems(s) \cup {x}
  <2>1. Elems(t) \subseteq Elems(s) \cup {x}
    BY <1>3 DEF Elems
  <2>2. Elems(s) \cup {x} \subseteq Elems(t)
    BY <1>1, <1>4, <1>5 DEF Elems
  <2> QED
    BY <2>1, <2>2
<1>7. ASSUME NoRepeats(s), x \notin Elems(s) PROVE NoRepeats(t)
  <2> SUFFICES ASSUME NEW i \in DOMAIN t, NEW j \in DOMAIN t, t[i] = t[j]
               PROVE  i = j
    BY DEF NoRepeats
  <2>1. i \in Nat /\ j \in Nat
    BY <1>1, <1>2
  <2>2. CASE i = 1
    BY <2>2, <1>1, <1>3, <1>7 DEF Elems
  <2>3. CASE j = 1
    BY <2>3, <1>1, <1>3, <1>7 DEF Elems
  <2>4. CASE i # 1 /\ j # 1
    <3>1. i - 1 \in DOMAIN s /\ j - 1 \in DOMAIN s /\ s[i - 1] = s[j - 1]
      BY <2>4, <1>3
    <3>2. i - 1 = j - 1
      BY <3>1, <1>7 DEF NoRepeats
    <3> QED
      BY <3>2, <2>1
  <2> QED
    BY <2>2, <2>3, <2>4
<1> QED
  BY <1>1, <1>6, <1>7 DEF t

LEMMA PopBackProperties ==
  ASSUME NEW S, NEW s \in Seq(S), s # << >>
  PROVE  /\ PopBack(s) \in Seq(S)
         /\ Len(PopBack(s)) = Len(s) - 1
         /\ Back(s) \in Elems(s)
         /\ Elems(PopBack(s)) \subseteq Elems(s)
         /\ NoRepeats(s) => /\ NoRepeats(PopBack(s))
                            /\ Elems(PopBack(s)) = Elems(s) \ {Back(s)}
<1>1. Len(s) \in Nat /\ Len(s) # 0 /\ DOMAIN s = 1 .. Len(s)
  OBVIOUS
<1> DEFINE t == PopBack(s)
<1>2. t = [k \in 1 .. Len(s) - 1 |-> s[k]]
  BY DEF PopBack
<1>3. Len(s) - 1 \in Nat /\ \A k \in 1 .. Len(s) - 1 : s[k] \in S /\ k \in DOMAIN s
  BY <1>1
<1>4. t \in Seq(S) /\ Len(t) = Len(s) - 1 /\ DOMAIN t = 1 .. Len(s) - 1
  BY <1>2, <1>3
<1>5. \A k \in DOMAIN t : k \in DOMAIN s /\ t[k] = s[k] /\ k # Len(s)
  BY <1>1, <1>2, <1>4
<1>6. \A k \in DOMAIN s : k = Len(s) \/ k \in DOMAIN t
  BY <1>1, <1>4
<1> HIDE DEF t
<1>7. Back(s) \in Elems(s)
  BY <1>1 DEF Back, Elems
<1>8. Elems(t) \subseteq Elems(s)
  BY <1>5 DEF Elems
<1>9. ASSUME NoRepeats(s)
      PROVE  NoRepeats(t) /\ Elems(t) = Elems(s) \ {Back(s)}
  <2>1. NoRepeats(t)
    BY <1>5, <1>9 DEF NoRepeats
  <2>2. \A k \in DOMAIN t : t[k] # Back(s)
    BY <1>1, <1>5, <1>9 DEF NoRepeats, Back
  <2>3. \A k \in DOMAIN s : s[k] # Back(s) => k \in DOMAIN t
    BY <1>6 DEF Back
  <2> QED
    BY <1>5, <1>8, <2>1, <2>2, <2>3 DEF Elems
<1> QED
  BY <1>4, <1>7, <1>8, <1>9 DEF t

\* Whatever its repetitions, a list keeps its elements when its last one goes, but
\* for that one.
LEMMA PopBackElems ==
  ASSUME NEW S, NEW s \in Seq(S), s # << >>
  PROVE  Elems(s) \ {Back(s)} \subseteq Elems(PopBack(s))
<1>1. Len(s) \in Nat /\ Len(s) # 0 /\ DOMAIN s = 1 .. Len(s)
  OBVIOUS
<1>2. DOMAIN PopBack(s) = 1 .. Len(s) - 1
  BY DEF PopBack
<1>3. \A k \in DOMAIN s : \/ k = Len(s)
                          \/ k \in DOMAIN PopBack(s) /\ PopBack(s)[k] = s[k]
  BY <1>1, <1>2 DEF PopBack
<1> QED
  BY <1>3 DEF Elems, Back

LEMMA EraseProperties ==
  ASSUME NEW S, NEW s \in Seq(S), NEW x \in Elems(s), NoRepeats(s)
  PROVE  /\ Erase(s, x) \in Seq(S)
         /\ Len(Erase(s, x)) = Len(s) - 1
         /\ Elems(Erase(s, x)) = Elems(s) \ {x}
         /\ NoRepeats(Erase(s, x))
<1>1. Len(s) \in Nat /\ DOMAIN s = 1 .. Len(s)
  OBVIOUS
<1> DEFINE i == CHOOSE k \in DOMAIN s : s[k] = x
<1> DEFINE t == Erase(s, x)
<1>2. i \in 1 .. Len(s) /\ s[i] = x
  BY <1>1 DEF Elems
<1>3. t = [k \in 1 .. Len(s) - 1 |-> IF k < i THEN s[k] ELSE s[k + 1]]
  BY DEF Erase
<1> HIDE DEF i, t
<1>4. \A k \in 1 .. Len(s) - 1 : /\ k \in DOMAIN s /\ k + 1 \in DOMAIN s
                                 /\ s[k] \in S /\ s[k + 1] \in S
  BY <1>1
<1>5. t \in Seq(S) /\ Len(t) = Len(s) - 1 /\ DOMAIN t = 1 .. Len(s) - 1
  <2>1. Len(s) - 1 \in Nat
    BY <1>1, <1>2
  <2> QED
    BY <1>3, <1>4, <2>1
<1> DEFINE from(k) == IF k < i THEN k ELSE k + 1
<1>6. \A k \in DOMAIN t : from(k) \in DOMAIN s /\ t[k] = s[from(k)] /\ from(k) # i
  BY <1>1, <1>2, <1>3, <1>5
<1>7. \A k, l \in DOMAIN t : from(k) = from(l) => k = l
  BY <1>1, <1>2, <1>5
<1>8. \A k \in DOMAIN s : k # i => \E l \in DOMAIN t : from(l) = k
  <2> SUFFICES ASSUME NEW k \in DOMAIN s, k # i
               PROVE  \E l \in DOMAIN t : from(l) = k
    OBVIOUS
  <2>1. CASE k < i
    BY <2>1, <1>1, <1>2, <1>5
  <2>2. CASE k > i
    <3>1. k - 1 \in DOMAIN t /\ from(k - 1) = k
      BY <2>2, <1>1, <1>2, <1>5
    <3> QED
      BY <3>1
  <2> QED
    BY <2>1, <2>2, <1>1, <1>2
<1> HIDE DEF from
<1>9. NoRepeats(t)
  BY <1>6, <1>7 DEF NoRepeats
<1>10. Elems(t) \subseteq Elems(s) \ {x}
  BY <1>1, <1>2, <1>6 DEF Elems, NoRepeats
<1>11. Elems(s) \ {x} \subseteq Elems(t)
  <2> SUFFICES ASSUME NEW k \in DOMAIN s, s[k] # x PROVE s[k] \in Elems(t)
    BY DEF Elems
  <2>1. PICK l \in DOMAIN t : from(l) = k
    BY <1>2, <1>8
  <2> QED
    BY <1>6, <2>1 DEF Elems
<1> QED
  BY <1>5, <1>9, <1>10, <1>11 DEF t

\* Without repetitions a list has as many elements as places.
LEMMA ElemsCardinality ==
  ASSUME NEW S, NEW s \in Seq(S), NoRepeats(s)
  PROVE  IsFiniteSet(Elems(s)) /\ Cardinality(Elems(s)) = Len(s)
<1>1. Len(s) \in Nat /\ DOMAIN s = 1 .. Len(s)
  OBVIOUS
<1>2. IsFiniteSet(1 .. Len(s)) /\ Cardinality(1 .. Len(s)) = Len(s)
  BY <1>1, FS_Interval
<1> DEFINE f == [k \in 1 .. Len(s) |-> s[k]]
<1>3. f \in Bijection(1 .. Len(s), Elems(s))
  <2>1. f \in [1 .. Len(s) -> Elems(s)]
    BY <1>1 DEF Elems
  <2>2. \A j, k \in 1 .. Len(s) : f[j] = f[k] => j = k
    BY <1>1 DEF NoRepeats
  <2>3. \A e \in Elems(s) : \E k \in 1 .. Len(s) : f[k] = e
    BY <1>1 DEF Elems
  <2> HIDE DEF f
  <2> QED
    BY <2>1, <2>2, <2>3 DEF Bijection, Injection, Surjection, IsInjective
<1> HIDE DEF f
<1>4. ExistsBijection(1 .. Len(s), Elems(s))
  BY <1>3 DEF ExistsBijection
<1> QED
  BY <1>2, <1>4, FS_Bijection

(***************************************************************************)
(* The order of a list                                                     *)
(***************************************************************************)

\* a stands before b in s.
Before(s, a, b) == \E i, j \in DOMAIN s : s[i] = a /\ s[j] = b /\ i < j

LEMMA BeforeElems ==
  ASSUME NEW s, NEW a, NEW b, Before(s, a, b)
  PROVE  a \in Elems(s) /\ b \in Elems(s)
BY DEF Before, Elems

\* A new head stands before everything else, whose order does not change.
LEMMA PushFrontOrder ==
  ASSUME NEW S, NEW s \in Seq(S), NEW x \in S, NEW a, NEW b
  PROVE  Before(PushFront(x, s), a, b) <=>
           (a = x /\ b \in Elems(s)) \/ Before(s, a, b)
<1> DEFINE t == PushFront(x, s)
<1>1. /\ DOMAIN t = 1 .. Len(s) + 1
      /\ t[1] = x
      /\ \A k \in 2 .. Len(s) + 1 : t[k] = s[k - 1]
  BY DEF PushFront
<1>2. Len(s) \in Nat /\ DOMAIN s = 1 .. Len(s)
  OBVIOUS
<1>3. \A k \in DOMAIN t : \/ k = 1 /\ t[k] = x
                          \/ k - 1 \in DOMAIN s /\ t[k] = s[k - 1]
  BY <1>1, <1>2
<1>4. \A k \in DOMAIN s : k + 1 \in DOMAIN t /\ t[k + 1] = s[k]
  <2> SUFFICES ASSUME NEW k \in DOMAIN s
               PROVE  k + 1 \in DOMAIN t /\ t[k + 1] = s[k]
    OBVIOUS
  <2>1. k \in 1 .. Len(s) /\ k + 1 \in 2 .. Len(s) + 1 /\ (k + 1) - 1 = k
    BY <1>2
  <2> QED
    BY <2>1, <1>1, <1>2
<1>5. 1 \in DOMAIN t /\ DOMAIN t \subseteq Nat /\ DOMAIN s \subseteq Nat \ {0}
  BY <1>1, <1>2
<1> HIDE DEF t
<1>6. ASSUME Before(t, a, b)
      PROVE  (a = x /\ b \in Elems(s)) \/ Before(s, a, b)
  <2>1. PICK i \in DOMAIN t, j \in DOMAIN t : t[i] = a /\ t[j] = b /\ i < j
    BY <1>6 DEF Before
  <2>2. i \in Nat /\ j \in Nat /\ j # 1
    BY <1>1, <1>2, <2>1
  <2>3. j - 1 \in DOMAIN s /\ b = s[j - 1]
    BY <1>3, <2>1, <2>2
  <2>4. CASE i = 1
    BY <1>1, <2>1, <2>3, <2>4 DEF Elems
  <2>5. CASE i # 1
    <3>1. i - 1 \in DOMAIN s /\ a = s[i - 1] /\ i - 1 < j - 1
      BY <1>3, <2>1, <2>2, <2>5
    <3> QED
      BY <2>3, <3>1 DEF Before
  <2> QED
    BY <2>4, <2>5
<1>7. ASSUME a = x, b \in Elems(s) PROVE Before(t, a, b)
  <2>1. PICK j \in DOMAIN s : s[j] = b
    BY <1>7 DEF Elems
  <2>2. j + 1 \in DOMAIN t /\ t[j + 1] = b /\ 1 < j + 1
    BY <1>4, <1>5, <2>1
  <2> QED
    BY <1>1, <1>5, <1>7, <2>2 DEF Before
<1>8. ASSUME Before(s, a, b) PROVE Before(t, a, b)
  <2>1. PICK i \in DOMAIN s, j \in DOMAIN s : s[i] = a /\ s[j] = b /\ i < j
    BY <1>8 DEF Before
  <2>2. /\ i + 1 \in DOMAIN t /\ t[i + 1] = a
        /\ j + 1 \in DOMAIN t /\ t[j + 1] = b
        /\ i + 1 < j + 1
    BY <1>4, <1>5, <2>1
  <2> QED
    BY <2>2 DEF Before
<1> QED
  BY <1>6, <1>7, <1>8 DEF t

\* Without its last element a list keeps its order, and that element stood
\* behind all the others.
LEMMA PopBackOrder ==
  ASSUME NEW S, NEW s \in Seq(S), s # << >>
  PROVE  /\ \A a, b : Before(PopBack(s), a, b) => Before(s, a, b)
         /\ \A a \in Elems(PopBack(s)) : Before(s, a, Back(s))
<1>1. Len(s) \in Nat /\ Len(s) # 0 /\ DOMAIN s = 1 .. Len(s)
  OBVIOUS
<1> DEFINE t == PopBack(s)
<1>2. t = [k \in 1 .. Len(s) - 1 |-> s[k]]
  BY DEF PopBack
<1>3. \A k \in DOMAIN t : k \in DOMAIN s /\ t[k] = s[k] /\ k < Len(s)
  BY <1>1, <1>2
<1>4. Len(s) \in DOMAIN s /\ s[Len(s)] = Back(s)
  BY <1>1 DEF Back
<1> HIDE DEF t
<1>5. \A a, b : Before(t, a, b) => Before(s, a, b)
  BY <1>3 DEF Before
<1>6. \A a \in Elems(t) : Before(s, a, Back(s))
  BY <1>3, <1>4 DEF Before, Elems
<1> QED
  BY <1>5, <1>6 DEF t

\* The elements that are left when one is erased keep their order.
LEMMA EraseOrder ==
  ASSUME NEW S, NEW s \in Seq(S), NEW x \in Elems(s)
  PROVE  /\ \A a, b : Before(Erase(s, x), a, b) => Before(s, a, b)
         /\ \A a, b : Before(s, a, b) /\ a # x /\ b # x =>
              Before(Erase(s, x), a, b)
<1>1. Len(s) \in Nat /\ DOMAIN s = 1 .. Len(s)
  OBVIOUS
<1> DEFINE i == CHOOSE k \in DOMAIN s : s[k] = x
<1> DEFINE t == Erase(s, x)
<1>2. i \in 1 .. Len(s) /\ s[i] = x
  BY <1>1 DEF Elems
<1>3. t = [k \in 1 .. Len(s) - 1 |-> IF k < i THEN s[k] ELSE s[k + 1]]
  BY DEF Erase
<1> HIDE DEF i, t
<1> DEFINE from(k) == IF k < i THEN k ELSE k + 1
<1> DEFINE to(k) == IF k < i THEN k ELSE k - 1
<1>4. \A k \in DOMAIN t : from(k) \in DOMAIN s /\ t[k] = s[from(k)]
  BY <1>1, <1>2, <1>3
<1>5. \A k, l \in DOMAIN t : k < l => from(k) < from(l)
  BY <1>1, <1>2, <1>3
<1>6. \A k \in DOMAIN s : k # i => to(k) \in DOMAIN t /\ t[to(k)] = s[k]
  <2> SUFFICES ASSUME NEW k \in DOMAIN s, k # i
               PROVE  to(k) \in DOMAIN t /\ t[to(k)] = s[k]
    OBVIOUS
  <2>1. CASE k < i
    BY <2>1, <1>1, <1>2, <1>3
  <2>2. CASE k > i
    <3>1. k - 1 \in 1 .. Len(s) - 1 /\ ~(k - 1 < i) /\ (k - 1) + 1 = k /\ ~(k < i)
      BY <2>2, <1>1, <1>2
    <3> QED
      BY <3>1, <1>3
  <2> QED
    BY <2>1, <2>2, <1>1, <1>2
<1>7. \A k, l \in DOMAIN s : k < l /\ k # i /\ l # i => to(k) < to(l)
  BY <1>1, <1>2
<1> HIDE DEF from, to
<1>8. ASSUME NEW a, NEW b, Before(t, a, b) PROVE Before(s, a, b)
  <2>1. PICK k \in DOMAIN t, l \in DOMAIN t : t[k] = a /\ t[l] = b /\ k < l
    BY <1>8 DEF Before
  <2> QED
    BY <1>4, <1>5, <2>1 DEF Before
<1>9. ASSUME NEW a, NEW b, Before(s, a, b), a # x, b # x
      PROVE  Before(t, a, b)
  <2>1. PICK k \in DOMAIN s, l \in DOMAIN s : s[k] = a /\ s[l] = b /\ k < l
    BY <1>9 DEF Before
  <2>2. k # i /\ l # i
    BY <1>2, <1>9, <2>1
  <2> QED
    BY <1>6, <1>7, <2>1, <2>2 DEF Before
<1> QED
  BY <1>8, <1>9 DEF t

-----------------------------------------------------------------------------
(***************************************************************************)
(* The sum of a sequence                                                   *)
(*                                                                         *)
(* FoldLeft is a fold over the positions, chosen as a function on the sets *)
(* of positions.  It is what one gets by adding up from the front.         *)
(***************************************************************************)

\* What FoldLeft(+, 0, s) chooses: g gives the sum of each set x of positions.
Sums(g, s, D) == g = [x \in SUBSET D |-> IF x = {} THEN 0 ELSE g[x \ {Max(x)}] + s[Max(x)]]

TheSums(s) == CHOOSE g : Sums(g, s, DOMAIN s)

LEMMA FoldIs ==
  ASSUME NEW s
  PROVE  FoldLeft(+, 0, s) = TheSums(s)[DOMAIN s]
BY DEF FoldLeft, MapThenFoldSet, TheSums, Sums

LEMMA MaxIs ==
  ASSUME NEW k \in Nat, NEW x \in SUBSET (1 .. k), k \in x
  PROVE  Max(x) = k
<1>1. \A y \in x : k >= y
  OBVIOUS
<1>2. \A m \in x : (\A y \in x : m >= y) => m = k
  OBVIOUS
<1>3. (CHOOSE m \in x : \A y \in x : m >= y) = k
  BY <1>1, <1>2
<1> QED
  BY <1>3 DEF Max

\* The function FoldLeft chooses exists: from the one for k positions follows the
\* one for k + 1.
LEMMA SumsExist ==
  ASSUME NEW s \in Seq(Nat)
  PROVE  Sums(TheSums(s), s, DOMAIN s)
<1> DEFINE Have(k) == \E g \in [SUBSET (1 .. k) -> Nat] : Sums(g, s, 1 .. k)
<1> DEFINE Bad == {k \in 0 .. Len(s) : ~Have(k)}
<1>1. Len(s) \in Nat /\ DOMAIN s = 1 .. Len(s) /\ \A k \in 1 .. Len(s) : s[k] \in Nat
  OBVIOUS
<1>2. Have(0)
  <2> DEFINE g == [x \in SUBSET (1 .. 0) |-> 0]
  <2>1. 1 .. 0 = {}
    OBVIOUS
  <2>2. g \in [SUBSET (1 .. 0) -> Nat]
    OBVIOUS
  <2>3. \A x \in SUBSET (1 .. 0) : x = {}
    BY <2>1
  <2>4. Sums(g, s, 1 .. 0)
    BY <2>3 DEF Sums
  <2> QED
    BY <2>2, <2>4
<1>3. ASSUME NEW k \in 0 .. Len(s) - 1, Have(k)
      PROVE  Have(k + 1)
  <2>1. PICK g \in [SUBSET (1 .. k) -> Nat] : Sums(g, s, 1 .. k)
    BY <1>3
  <2> DEFINE h == [x \in SUBSET (1 .. k + 1) |->
                     IF k + 1 \in x THEN g[x \ {k + 1}] + s[k + 1] ELSE g[x]]
  <2>2. k \in Nat /\ k + 1 \in 1 .. Len(s) /\ s[k + 1] \in Nat
    BY <1>1
  <2>3. /\ \A x \in SUBSET (1 .. k + 1) : k + 1 \in x => x \ {k + 1} \in SUBSET (1 .. k)
        /\ \A x \in SUBSET (1 .. k + 1) : k + 1 \notin x => x \in SUBSET (1 .. k)
    BY <2>2
  <2>4. h \in [SUBSET (1 .. k + 1) -> Nat]
    <3>1. \A x \in SUBSET (1 .. k) : g[x] \in Nat
      OBVIOUS
    <3>2. \A x \in SUBSET (1 .. k + 1) : h[x] \in Nat
      BY <2>2, <2>3, <3>1
    <3> QED
      BY <3>2
  <2>5. ASSUME NEW x \in SUBSET (1 .. k + 1)
        PROVE  h[x] = IF x = {} THEN 0 ELSE h[x \ {Max(x)}] + s[Max(x)]
    <3>1. CASE k + 1 \in x
      <4>1. Max(x) = k + 1
        BY <2>2, <3>1, MaxIs
      <4>2. x \ {k + 1} \in SUBSET (1 .. k) /\ x \ {k + 1} \in SUBSET (1 .. k + 1)
        BY <2>3, <3>1
      <4>3. h[x \ {k + 1}] = g[x \ {k + 1}]
        BY <4>2
      <4>4. h[x] = g[x \ {k + 1}] + s[k + 1]
        BY <3>1
      <4> QED
        BY <3>1, <4>1, <4>3, <4>4
    <3>2. CASE k + 1 \notin x
      <4>1. x \in SUBSET (1 .. k) /\ x \ {Max(x)} \in SUBSET (1 .. k)
        BY <2>3, <3>2
      <4>2. g[x] = IF x = {} THEN 0 ELSE g[x \ {Max(x)}] + s[Max(x)]
        BY <2>1, <4>1 DEF Sums
      <4>3. h[x] = g[x]
        BY <3>2
      <4>4. h[x \ {Max(x)}] = g[x \ {Max(x)}]
        BY <3>2, <4>1
      <4> QED
        BY <4>2, <4>3, <4>4
    <3> QED
      BY <3>1, <3>2
  <2>6. Sums(h, s, 1 .. k + 1)
    <3>1. DOMAIN h = SUBSET (1 .. k + 1)
      OBVIOUS
    <3>2. h = [x \in SUBSET (1 .. k + 1) |-> h[x]]
      BY <3>1
    <3> HIDE DEF h
    <3>3. h = [x \in SUBSET (1 .. k + 1) |-> IF x = {} THEN 0 ELSE h[x \ {Max(x)}] + s[Max(x)]]
      BY <3>2, <2>5
    <3> QED
      BY <3>3 DEF Sums
  <2> HIDE DEF h
  <2> QED
    BY <2>4, <2>6
<1> HIDE DEF Have
<1>4. Bad = {}
  <2> SUFFICES ASSUME Bad # {} PROVE FALSE
    OBVIOUS
  <2>1. Bad \in SUBSET Nat
    BY <1>1
  <2>2. PICK m \in Bad : \A y \in Bad : m <= y
    BY <2>1, LeastNat
  <2>3. m \in 0 .. Len(s) /\ m # 0 /\ ~Have(m)
    BY <1>2
  <2>4. m - 1 \in 0 .. Len(s) - 1 /\ (m - 1) + 1 = m /\ ~(m <= m - 1) /\ m - 1 \in 0 .. Len(s)
    BY <1>1, <2>3
  <2>5. Have(m - 1)
    BY <2>2, <2>4
  <2> QED
    BY <1>3, <2>3, <2>4, <2>5
<1>5. Have(Len(s))
  BY <1>1, <1>4
<1> QED
  BY <1>1, <1>5 DEF Have, TheSums

\* f[k] is the sum of the first k values of s.
PartialSums(f, s) ==
  /\ f \in [0 .. Len(s) -> Nat]
  /\ f[0] = 0
  /\ \A k \in 1 .. Len(s) : f[k] = f[k - 1] + s[k]

LEMMA FoldPartial ==
  ASSUME NEW s \in Seq(Nat)
  PROVE  \E f : PartialSums(f, s) /\ FoldLeft(+, 0, s) = f[Len(s)]
<1> DEFINE g == TheSums(s)
<1> DEFINE f == [k \in 0 .. Len(s) |-> g[1 .. k]]
<1>1. Len(s) \in Nat /\ DOMAIN s = 1 .. Len(s) /\ \A k \in 1 .. Len(s) : s[k] \in Nat
  OBVIOUS
<1>2. Sums(g, s, DOMAIN s)
  BY SumsExist
<1> HIDE DEF g
<1>3. g[1 .. 0] = 0
  <2>1. 1 .. 0 = {} /\ 1 .. 0 \in SUBSET DOMAIN s
    OBVIOUS
  <2> QED
    BY <1>2, <2>1 DEF Sums
<1>4. ASSUME NEW k \in 1 .. Len(s)
      PROVE  g[1 .. k] = g[1 .. k - 1] + s[k]
  <2>1. k \in Nat /\ 1 .. k \in SUBSET (1 .. k) /\ k \in 1 .. k /\ 1 .. k \in SUBSET DOMAIN s
    BY <1>1
  <2>2. Max(1 .. k) = k
    BY <2>1, MaxIs
  <2>3. 1 .. k # {}
    BY <2>1
  <2>4. (1 .. k) \ {k} = 1 .. (k - 1)
    <3>1. \A j : j \in (1 .. k) \ {k} <=> j \in 1 .. (k - 1)
      BY <2>1
    <3> QED
      BY <3>1
  <2> QED
    BY <1>2, <2>1, <2>2, <2>3, <2>4 DEF Sums
<1>5. \A k \in 0 .. Len(s) : g[1 .. k] \in Nat
  <2> DEFINE Bad == {k \in 0 .. Len(s) : g[1 .. k] \notin Nat}
  <2> SUFFICES ASSUME Bad # {} PROVE FALSE
    OBVIOUS
  <2>1. Bad \in SUBSET Nat
    BY <1>1
  <2>2. PICK m \in Bad : \A y \in Bad : m <= y
    BY <2>1, LeastNat
  <2>3. m \in 0 .. Len(s) /\ m # 0 /\ g[1 .. m] \notin Nat
    BY <1>3
  <2>4. m \in 1 .. Len(s) /\ ~(m <= m - 1) /\ m - 1 \in 0 .. Len(s)
    BY <1>1, <2>3
  <2>5. g[1 .. m - 1] \in Nat
    BY <2>2, <2>4
  <2> QED
    BY <1>1, <1>4, <2>3, <2>4, <2>5
<1>6. PartialSums(f, s)
  <2>1. f \in [0 .. Len(s) -> Nat]
    BY <1>5
  <2>2. f[0] = 0
    BY <1>1, <1>3
  <2>3. \A k \in 1 .. Len(s) : f[k] = f[k - 1] + s[k]
    <3> TAKE k \in 1 .. Len(s)
    <3>1. k \in 0 .. Len(s) /\ k - 1 \in 0 .. Len(s)
      BY <1>1
    <3> QED
      BY <1>4, <3>1
  <2> HIDE DEF f
  <2> QED
    BY <2>1, <2>2, <2>3 DEF PartialSums
<1>7. FoldLeft(+, 0, s) = f[Len(s)]
  <2>1. FoldLeft(+, 0, s) = g[DOMAIN s]
    BY FoldIs DEF g
  <2>2. Len(s) \in 0 .. Len(s)
    BY <1>1
  <2>3. f[Len(s)] = g[1 .. Len(s)]
    BY <2>2
  <2> QED
    BY <1>1, <2>1, <2>3, Zenon
<1> HIDE DEF f
<1> QED
  BY <1>6, <1>7

\* The first n values of t are those of s behind the first d.
Shifted(s, t, d, n) ==
  n <= Len(t) /\ d + n <= Len(s) /\ \A k \in 1 .. n : t[k] = s[k + d]

LEMMA PartialShift ==
  ASSUME NEW s \in Seq(Nat), NEW t \in Seq(Nat), NEW f, NEW h,
         PartialSums(f, s), PartialSums(h, t),
         NEW d \in Nat, NEW n \in Nat, Shifted(s, t, d, n)
  PROVE  f[n + d] = h[n] + f[d]
<1>0. /\ Len(s) \in Nat /\ Len(t) \in Nat
      /\ \A k \in 0 .. Len(s) : f[k] \in Nat
      /\ \A k \in 0 .. Len(t) : h[k] \in Nat
      /\ \A k \in 1 .. Len(s) : s[k] \in Nat
  <2>1. Len(s) \in Nat /\ Len(t) \in Nat /\ \A k \in 1 .. Len(s) : s[k] \in Nat
    OBVIOUS
  <2>2. \A k \in 0 .. Len(s) : f[k] \in Nat
    BY DEF PartialSums
  <2>3. \A k \in 0 .. Len(t) : h[k] \in Nat
    BY DEF PartialSums
  <2> QED
    BY <2>1, <2>2, <2>3
<1> DEFINE Bad == {k \in 0 .. n : f[k + d] # h[k] + f[d]}
<1>1. Bad = {}
  <2> SUFFICES ASSUME Bad # {} PROVE FALSE
    OBVIOUS
  <2>1. Bad \in SUBSET Nat
    OBVIOUS
  <2>2. PICK m \in Bad : \A y \in Bad : m <= y
    BY <2>1, LeastNat
  <2>3. m \in 0 .. n /\ f[m + d] # h[m] + f[d]
    OBVIOUS
  <2>4. m # 0
    <3>1. d \in 0 .. Len(s)
      BY <1>0 DEF Shifted
    <3>2. h[0] = 0 /\ f[d] \in Nat /\ 0 + d = d
      BY <1>0, <3>1 DEF PartialSums
    <3> QED
      BY <2>3, <3>2
  <2>5. /\ m \in 1 .. n /\ ~(m <= m - 1) /\ m - 1 \in 0 .. n
        /\ m \in 1 .. Len(t) /\ m + d \in 1 .. Len(s)
        /\ (m + d) - 1 = (m - 1) + d
        /\ m - 1 \in 0 .. Len(t) /\ (m - 1) + d \in 0 .. Len(s) /\ d \in 0 .. Len(s)
    <3>1. /\ m \in 0 .. n /\ m # 0 /\ Len(s) \in Nat /\ Len(t) \in Nat
          /\ n <= Len(t) /\ d + n <= Len(s)
      BY <1>0, <2>3, <2>4 DEF Shifted
    <3> QED
      BY <3>1
  <2>6. f[(m - 1) + d] = h[m - 1] + f[d]
    BY <2>2, <2>5
  <2>7. f[m + d] = f[(m - 1) + d] + s[m + d] /\ h[m] = h[m - 1] + t[m] /\ t[m] = s[m + d]
    BY <2>5 DEF PartialSums, Shifted
  <2>8. h[m - 1] \in Nat /\ f[d] \in Nat /\ s[m + d] \in Nat
    BY <1>0, <2>5
  <2> QED
    BY <2>3, <2>6, <2>7, <2>8
<1>2. n \in 0 .. n
  OBVIOUS
<1> QED
  BY <1>1, <1>2

\* Two ways of adding up the same history agree.
LEMMA PartialSame ==
  ASSUME NEW s \in Seq(Nat), NEW f, NEW h, PartialSums(f, s), PartialSums(h, s)
  PROVE  f[Len(s)] = h[Len(s)]
<1>1. Len(s) \in Nat /\ 0 \in Nat /\ Shifted(s, s, 0, Len(s))
  BY DEF Shifted
<1>2. f[Len(s) + 0] = h[Len(s)] + f[0]
  BY <1>1, PartialShift
<1>3. f[0] = 0 /\ h[Len(s)] \in Nat
  BY <1>1 DEF PartialSums
<1> QED
  BY <1>1, <1>2, <1>3

-----------------------------------------------------------------------------
(***************************************************************************)
(* The sum of a function over a finite set                                 *)
(*                                                                         *)
(* FoldFunctionOnSet adds up in an order of its own, by a function on sets *)
(* that it chooses.  The function exists, and the order does not matter;   *)
(* the inductions are over the least size of a set for which a claim       *)
(* fails.                                                                  *)
(***************************************************************************)

\* The element of s that is added last.
Picked(s) == CHOOSE x \in s : TRUE

LEMMA PickedIn ==
  ASSUME NEW s, s # {}
  PROVE  Picked(s) \in s
BY DEF Picked

\* What is chosen: g gives the sum of d over each set of elements of S.
SetSums(g, d, S) ==
  g = [s \in SUBSET S |-> IF s = {} THEN 0 ELSE d[Picked(s)] + g[s \ {Picked(s)}]]

TheSetSums(d, S) == CHOOSE g : SetSums(g, d, S)

LEMMA SumOnIs ==
  ASSUME NEW d, NEW S
  PROVE  SumFunctionOnSet(d, S) = TheSetSums(d, S)[S]
BY DEF SumFunctionOnSet, FoldFunctionOnSet, MapThenFoldSet, TheSetSums, SetSums, Picked

IntValued(d, S) == \A x \in S : d[x] \in Int

Agree(d, e, S) == \A x \in S : d[x] = e[x]

LEMMA FiniteSubset ==
  ASSUME NEW S, IsFiniteSet(S), NEW s \in SUBSET S
  PROVE  /\ IsFiniteSet(s) /\ Cardinality(s) \in Nat
         /\ \A x \in s : /\ s \ {x} \in SUBSET S
                         /\ Cardinality(s) > 0
                         /\ Cardinality(s \ {x}) = Cardinality(s) - 1
<1>1. IsFiniteSet(s) /\ Cardinality(s) \in Nat
  BY FS_Subset, FS_CardinalityType
<1>2. ASSUME NEW x \in s
      PROVE  /\ s \ {x} \in SUBSET S
             /\ Cardinality(s) > 0
             /\ Cardinality(s \ {x}) = Cardinality(s) - 1
  <2>1. Cardinality(s \ {x}) = Cardinality(s) - 1
    BY <1>1, FS_RemoveElement
  <2>2. Cardinality(s) # 0
    BY <1>1, FS_EmptySet
  <2> QED
    BY <1>1, <2>1, <2>2
<1> QED
  BY <1>1, <1>2

\* Functions that agree on a set are chosen the same sum for it, also as a part of
\* larger sets.
LEMMA SetSumsAgree ==
  ASSUME NEW S, NEW T, NEW U, IsFiniteSet(S), U \subseteq S, U \subseteq T,
         NEW d, NEW e, Agree(d, e, U),
         NEW g, NEW h, SetSums(g, d, S), SetSums(h, e, T)
  PROVE  g[U] = h[U]
<1> DEFINE Bad == {n \in Nat : \E s \in SUBSET U : Cardinality(s) = n /\ g[s] # h[s]}
<1>1. Bad = {}
  <2> SUFFICES ASSUME Bad # {} PROVE FALSE
    OBVIOUS
  <2>1. PICK n \in Bad : \A y \in Bad : n <= y
    BY LeastNat
  <2>2. PICK s \in SUBSET U : Cardinality(s) = n /\ g[s] # h[s]
    OBVIOUS
  <2>3. /\ g[s] = IF s = {} THEN 0 ELSE d[Picked(s)] + g[s \ {Picked(s)}]
        /\ h[s] = IF s = {} THEN 0 ELSE e[Picked(s)] + h[s \ {Picked(s)}]
    BY DEF SetSums
  <2>4. s # {}
    BY <2>2, <2>3
  <2>5. Picked(s) \in s /\ s \ {Picked(s)} \in SUBSET U /\ d[Picked(s)] = e[Picked(s)]
    BY <2>4, PickedIn DEF Agree
  <2>6. Cardinality(s \ {Picked(s)}) = n - 1 /\ n - 1 \in Nat /\ ~(n <= n - 1)
    <3>1. s \in SUBSET S
      OBVIOUS
    <3>2. /\ Cardinality(s) \in Nat /\ Cardinality(s) > 0
          /\ Cardinality(s \ {Picked(s)}) = Cardinality(s) - 1
      BY <2>5, <3>1, FiniteSubset
    <3> QED
      BY <2>2, <3>2
  <2>7. g[s \ {Picked(s)}] = h[s \ {Picked(s)}]
    BY <2>1, <2>5, <2>6
  <2> QED
    BY <2>2, <2>3, <2>4, <2>5, <2>7
<1>2. IsFiniteSet(U) /\ Cardinality(U) \in Nat /\ U \in SUBSET U
  BY FS_Subset, FS_CardinalityType
<1> QED
  BY <1>1, <1>2

\* A function that is right for the sets of up to n elements gives one that is
\* right for those of one more.
LEMMA SetSumsExist ==
  ASSUME NEW S, IsFiniteSet(S), NEW d, IntValued(d, S)
  PROVE  /\ SetSums(TheSetSums(d, S), d, S)
         /\ TheSetSums(d, S) \in [SUBSET S -> Int]
<1> DEFINE Step(g, s) == IF s = {} THEN 0 ELSE d[Picked(s)] + g[s \ {Picked(s)}]
           Right(g, n) == \A s \in SUBSET S : Cardinality(s) <= n => g[s] = Step(g, s)
           Have(n) == \E g \in [SUBSET S -> Int] : Right(g, n)
           Bad == {n \in Nat : ~Have(n)}
<1>1. Have(0)
  <2> DEFINE g == [s \in SUBSET S |-> 0]
  <2>1. g \in [SUBSET S -> Int]
    OBVIOUS
  <2>2. ASSUME NEW s \in SUBSET S, Cardinality(s) <= 0
        PROVE  g[s] = Step(g, s)
    <3>1. Cardinality(s) = 0 /\ IsFiniteSet(s)
      BY <2>2, FiniteSubset
    <3>2. s = {}
      BY <3>1, FS_EmptySet
    <3> QED
      BY <3>2
  <2> QED
    BY <2>1, <2>2
<1>2. ASSUME NEW n \in Nat, Have(n)
      PROVE  Have(n + 1)
  <2>1. PICK g \in [SUBSET S -> Int] : Right(g, n)
    BY <1>2
  <2> DEFINE h == [s \in SUBSET S |-> Step(g, s)]
  <2>2. \A s \in SUBSET S : s # {} => /\ Picked(s) \in s
                                      /\ d[Picked(s)] \in Int
                                      /\ s \ {Picked(s)} \in SUBSET S
    BY PickedIn DEF IntValued
  <2>3. h \in [SUBSET S -> Int]
    <3>1. \A s \in SUBSET S : Step(g, s) \in Int
      BY <2>2
    <3> QED
      BY <3>1
  <2>4. ASSUME NEW s \in SUBSET S, Cardinality(s) <= n + 1
        PROVE  h[s] = Step(h, s)
    <3>1. CASE s = {}
      BY <3>1
    <3>2. CASE s # {}
      <4> DEFINE t == s \ {Picked(s)}
      <4>1. Picked(s) \in s /\ t \in SUBSET S
        BY <2>2, <3>2
      <4>2. Cardinality(t) = Cardinality(s) - 1 /\ Cardinality(s) \in Nat
        BY <4>1, FiniteSubset
      <4>3. Cardinality(t) <= n
        BY <2>4, <4>2
      <4> HIDE DEF t
      <4>4. g[t] = Step(g, t) /\ h[t] = Step(g, t)
        BY <2>1, <4>1, <4>3
      <4>5. h[s] = d[Picked(s)] + g[t]
        BY <3>2 DEF t
      <4> HIDE DEF h
      <4>6. h[s] = d[Picked(s)] + h[t]
        BY <4>4, <4>5
      <4> QED
        BY <3>2, <4>6 DEF t
    <3> QED
      BY <3>1, <3>2
  <2> HIDE DEF h, Step
  <2> QED
    BY <2>3, <2>4
<1> HIDE DEF Have
<1>3. Bad = {}
  <2> SUFFICES ASSUME Bad # {} PROVE FALSE
    OBVIOUS
  <2>1. PICK n \in Bad : \A y \in Bad : n <= y
    BY LeastNat
  <2>2. n \in Nat /\ n # 0 /\ ~Have(n)
    BY <1>1
  <2>3. n - 1 \in Nat /\ ~(n <= n - 1) /\ (n - 1) + 1 = n
    BY <2>2
  <2>4. Have(n - 1)
    BY <2>1, <2>3
  <2> QED
    BY <1>2, <2>2, <2>3, <2>4
<1>4. Cardinality(S) \in Nat
  BY FS_CardinalityType
<1>5. PICK g \in [SUBSET S -> Int] : Right(g, Cardinality(S))
  BY <1>3, <1>4 DEF Have
<1>6. \A s \in SUBSET S : Cardinality(s) <= Cardinality(S)
  BY FS_Subset
<1>7. g = [s \in SUBSET S |-> Step(g, s)]
  <2>1. \A s \in SUBSET S : g[s] = Step(g, s)
    BY <1>5, <1>6
  <2> HIDE DEF Step
  <2> QED
    BY <2>1
<1>8. SetSums(g, d, S)
  BY <1>7 DEF SetSums
<1>9. SetSums(TheSetSums(d, S), d, S)
  BY <1>8 DEF TheSetSums
<1> DEFINE h == TheSetSums(d, S)
<1>10. ASSUME NEW e, NEW f, SetSums(e, d, S), SetSums(f, d, S)
       PROVE  e = f
  <2>1. ASSUME NEW s \in SUBSET S PROVE e[s] = f[s]
    BY <1>10, SetSumsAgree DEF Agree
  <2>2. e = [s \in SUBSET S |-> e[s]] /\ f = [s \in SUBSET S |-> f[s]]
    BY <1>10 DEF SetSums
  <2> QED
    BY <2>1, <2>2
<1> HIDE DEF h
<1>11. g = TheSetSums(d, S)
  BY <1>8, <1>9, <1>10
<1> QED
  BY <1>9, <1>11

\* The sum of nothing.
LEMMA SumOnEmpty ==
  ASSUME NEW d
  PROVE  SumFunctionOnSet(d, {}) = 0
<1> DEFINE g == TheSetSums(d, {})
<1>1. IsFiniteSet({}) /\ IntValued(d, {})
  BY FS_EmptySet DEF IntValued
<1>2. SetSums(g, d, {})
  BY <1>1, SetSumsExist
<1>3. {} \in SUBSET {}
  OBVIOUS
<1> HIDE DEF g
<1>4. g[{}] = 0
  BY <1>2, <1>3 DEF SetSums
<1>5. SumFunctionOnSet(d, {}) = g[{}]
  BY SumOnIs DEF g
<1> QED
  BY <1>4, <1>5

LEMMA SumOnType ==
  ASSUME NEW S, IsFiniteSet(S), NEW d, IntValued(d, S)
  PROVE  SumFunctionOnSet(d, S) \in Int
<1>1. TheSetSums(d, S) \in [SUBSET S -> Int] /\ S \in SUBSET S
  BY SetSumsExist
<1>2. TheSetSums(d, S)[S] \in Int
  BY <1>1
<1> QED
  BY <1>2, SumOnIs

\* Functions that agree on a set have one sum over it.
LEMMA SumOnAgree ==
  ASSUME NEW S, IsFiniteSet(S), NEW d, NEW e, IntValued(d, S), Agree(d, e, S)
  PROVE  SumFunctionOnSet(d, S) = SumFunctionOnSet(e, S)
<1>1. IntValued(e, S)
  BY DEF IntValued, Agree
<1> DEFINE g == TheSetSums(d, S)
           h == TheSetSums(e, S)
<1>2. SetSums(g, d, S) /\ SetSums(h, e, S)
  BY <1>1, SetSumsExist
<1> HIDE DEF g, h
<1>3. g[S] = h[S]
  BY <1>2, SetSumsAgree
<1> QED
  BY <1>3, SumOnIs DEF g, h

\* Whichever element is taken out of the set, it is what the sum loses.
LEMMA SumOnWithout ==
  ASSUME NEW S, IsFiniteSet(S), NEW d, IntValued(d, S), NEW x \in S
  PROVE  SumFunctionOnSet(d, S) = d[x] + SumFunctionOnSet(d, S \ {x})
<1> DEFINE g == TheSetSums(d, S)
<1>1. SetSums(g, d, S) /\ g \in [SUBSET S -> Int]
  BY SetSumsExist
<1>2. SumFunctionOnSet(d, S) = g[S]
  BY SumOnIs
<1> HIDE DEF g
<1> DEFINE Bad == {n \in Nat : \E s \in SUBSET S :
                     Cardinality(s) = n /\ \E y \in s : g[s] # d[y] + g[s \ {y}]}
<1>3. Bad = {}
  <2> SUFFICES ASSUME Bad # {} PROVE FALSE
    OBVIOUS
  <2>1. PICK n \in Bad : \A y \in Bad : n <= y
    BY LeastNat
  <2> PICK s \in SUBSET S :
         Cardinality(s) = n /\ \E y \in s : g[s] # d[y] + g[s \ {y}]
    OBVIOUS
  <2>2. PICK y \in s : Cardinality(s) = n /\ g[s] # d[y] + g[s \ {y}]
    OBVIOUS
  <2> DEFINE c == Picked(s)
  <2>3. c \in s
    BY <2>2, PickedIn
  <2>4. g[s] = d[c] + g[s \ {c}]
    BY <1>1, <2>2 DEF SetSums
  <2> HIDE DEF c
  <2>5. c # y
    BY <2>2, <2>4
  <2>6. /\ s \ {y} \in SUBSET S /\ s \ {c} \in SUBSET S
        /\ Cardinality(s \ {y}) = n - 1 /\ Cardinality(s \ {c}) = n - 1
        /\ n - 1 \in Nat /\ ~(n <= n - 1)
    <3>1. /\ Cardinality(s) \in Nat /\ Cardinality(s) > 0
          /\ s \ {y} \in SUBSET S /\ s \ {c} \in SUBSET S
          /\ Cardinality(s \ {y}) = Cardinality(s) - 1
          /\ Cardinality(s \ {c}) = Cardinality(s) - 1
      BY <2>3, FiniteSubset
    <3> QED
      BY <2>2, <3>1
  <2>7. n - 1 \notin Bad
    BY <2>1, <2>6
  <2>8. c \in s \ {y} /\ y \in s \ {c}
    BY <2>3, <2>5
  <2>9. /\ g[s \ {y}] = d[c] + g[(s \ {y}) \ {c}]
        /\ g[s \ {c}] = d[y] + g[(s \ {c}) \ {y}]
    BY <2>6, <2>7, <2>8
  <2>10. (s \ {y}) \ {c} = (s \ {c}) \ {y} /\ (s \ {c}) \ {y} \in SUBSET S
    OBVIOUS
  <2>11. d[c] \in Int /\ d[y] \in Int /\ g[(s \ {c}) \ {y}] \in Int
    BY <1>1, <2>3, <2>10 DEF IntValued
  <2>12. \A k, l, m \in Int : k + (l + m) = l + (k + m)
    OBVIOUS
  <2> DEFINE r == g[(s \ {c}) \ {y}]
  <2>13. g[s \ {y}] = d[c] + r /\ g[s \ {c}] = d[y] + r /\ r \in Int
    BY <2>9, <2>10, <2>11
  <2> HIDE DEF r
  <2>14. d[c] + (d[y] + r) = d[y] + (d[c] + r)
    BY <2>11, <2>12, <2>13
  <2>15. g[s] = d[y] + g[s \ {y}]
    BY <2>4, <2>13, <2>14, Zenon
  <2> QED
    BY <2>2, <2>15
<1>4. S \in SUBSET S /\ Cardinality(S) \in Nat
  BY FS_CardinalityType
<1>5. g[S] = d[x] + g[S \ {x}]
  BY <1>3, <1>4
<1> DEFINE R == S \ {x}
<1>6. IsFiniteSet(R) /\ IntValued(d, R) /\ R \subseteq S
  BY FS_Subset DEF IntValued
<1>7. SetSums(TheSetSums(d, R), d, R)
  BY <1>6, SetSumsExist
<1>8. TheSetSums(d, R)[R] = g[R]
  BY <1>1, <1>6, <1>7, SetSumsAgree DEF Agree
<1>9. SumFunctionOnSet(d, R) = g[R]
  BY <1>8, SumOnIs
<1> QED
  BY <1>2, <1>5, <1>9, Zenon

LEMMA SumOnZero ==
  ASSUME NEW S, IsFiniteSet(S), NEW d, \A x \in S : d[x] = 0
  PROVE  SumFunctionOnSet(d, S) = 0
<1> DEFINE Bad == {n \in Nat : \E s \in SUBSET S :
                                 Cardinality(s) = n /\ SumFunctionOnSet(d, s) # 0}
<1>1. Bad = {}
  <2> SUFFICES ASSUME Bad # {} PROVE FALSE
    OBVIOUS
  <2>1. PICK n \in Bad : \A y \in Bad : n <= y
    BY LeastNat
  <2>2. PICK s \in SUBSET S : Cardinality(s) = n /\ SumFunctionOnSet(d, s) # 0
    OBVIOUS
  <2>3. PICK x \in s : TRUE
    BY <2>2, SumOnEmpty
  <2>4. /\ s \ {x} \in SUBSET S /\ IsFiniteSet(s)
        /\ Cardinality(s \ {x}) = n - 1 /\ n - 1 \in Nat /\ ~(n <= n - 1)
    <3>1. /\ Cardinality(s) \in Nat /\ Cardinality(s) > 0 /\ IsFiniteSet(s)
          /\ s \ {x} \in SUBSET S /\ Cardinality(s \ {x}) = Cardinality(s) - 1
      BY FiniteSubset
    <3> QED
      BY <2>2, <3>1
  <2>5. SumFunctionOnSet(d, s \ {x}) = 0
    BY <2>1, <2>4
  <2>6. IntValued(d, s) /\ d[x] = 0
    BY DEF IntValued
  <2>7. SumFunctionOnSet(d, s) = d[x] + SumFunctionOnSet(d, s \ {x})
    BY <2>4, <2>6, SumOnWithout
  <2> QED
    BY <2>2, <2>5, <2>6, <2>7
<1>2. S \in SUBSET S /\ Cardinality(S) \in Nat
  BY FS_CardinalityType
<1> QED
  BY <1>1, <1>2

-----------------------------------------------------------------------------
(***************************************************************************)
(* Counting modulo a period                                                *)
(***************************************************************************)

LEMMA ModIs ==
  ASSUME NEW p \in Nat \ {0}, NEW a \in Nat
  PROVE  (a % p) \in 0 .. p - 1 /\ (a \div p) \in Nat /\ a = (p * (a \div p)) + (a % p)
<1>1. (a % p) \in 0 .. p - 1
  OBVIOUS
<1>2. (a \div p) \in Nat
  OBVIOUS
<1>3. a = (p * (a \div p)) + (a % p)
  OBVIOUS
<1> QED
  BY <1>1, <1>2, <1>3

LEMMA ModUnique ==
  ASSUME NEW p \in Nat \ {0}, NEW d \in Nat, NEW r \in 0 .. p - 1
  PROVE  ((p * d) + r) % p = r
<1> DEFINE a == (p * d) + r
<1>1. a \in Nat
  OBVIOUS
<1> HIDE DEF a
<1>2. (a % p) \in 0 .. p - 1 /\ (a \div p) \in Nat /\ a = (p * (a \div p)) + (a % p)
  BY <1>1, ModIs
<1>3. \A e \in Nat, t \in 0 .. p - 1 : (p * d) + r = (p * e) + t => r = t
  OBVIOUS
<1> QED
  BY <1>2, <1>3 DEF a

LEMMA ModAdd ==
  ASSUME NEW p \in Nat \ {0}, NEW a \in Nat
  PROVE  (a + p) % p = a % p
<1> DEFINE d == a \div p
           r == a % p
<1>1. r \in 0 .. p - 1 /\ d \in Nat /\ a = (p * d) + r
  BY ModIs
<1> HIDE DEF d, r
<1>2. a + p = (p * (d + 1)) + r
  BY <1>1
<1>3. d + 1 \in Nat
  BY <1>1
<1>4. ((p * (d + 1)) + r) % p = r
  BY <1>1, <1>3, ModUnique
<1> QED
  BY <1>2, <1>4 DEF r

LEMMA ModNext ==
  ASSUME NEW p \in Nat \ {0}, NEW a \in Nat
  PROVE  (a + 1) % p = IF a % p = p - 1 THEN 0 ELSE (a % p) + 1
<1> DEFINE d == a \div p
           r == a % p
<1>1. r \in 0 .. p - 1 /\ d \in Nat /\ a = (p * d) + r
  BY ModIs
<1> HIDE DEF d, r
<1>2. CASE r = p - 1
  <2>1. a + 1 = (p * (d + 1)) + 0 /\ d + 1 \in Nat /\ 0 \in 0 .. p - 1
    BY <1>1, <1>2
  <2>2. ((p * (d + 1)) + 0) % p = 0
    BY <2>1, ModUnique
  <2> QED
    BY <1>2, <2>1, <2>2 DEF r
<1>3. CASE r # p - 1
  <2>1. a + 1 = (p * d) + (r + 1) /\ r + 1 \in 0 .. p - 1
    BY <1>1, <1>3
  <2>2. ((p * d) + (r + 1)) % p = r + 1
    BY <1>1, <2>1, ModUnique
  <2> QED
    BY <1>3, <2>1, <2>2 DEF r
<1> QED
  BY <1>2, <1>3

\* A position that is at most one turn off.
LEMMA ModNear ==
  ASSUME NEW p \in Nat \ {0}, NEW a \in Int, -p <= a, a < 2 * p
  PROVE  a % p = IF a < 0 THEN a + p ELSE IF a < p THEN a ELSE a - p
  OBVIOUS
=============================================================================
