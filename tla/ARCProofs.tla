----------------------------- MODULE ARCProofs -----------------------------
(***************************************************************************)
(* Proofs about the ARC cache, for every capacity and every set of pages:  *)
(* its lists keep their sizes and stay disjoint, no list is popped while   *)
(* empty, the lists keep the order of recency, and the cache implements    *)
(* TierCache.                                                              *)
(***************************************************************************)
EXTENDS ARC, DataLemmas

Inv ==
  /\ TypeOK
  /\ NoRepeats(recent)
  /\ OnePlace
  /\ Sizes

(***************************************************************************)
(* The target                                                              *)
(***************************************************************************)

LEMMA TargetBound ==
  ASSUME NEW q \in 0 .. PUnit * c
  PROVE  Target(q) \in Nat /\ Target(q) <= c
<1>1. PUnit \in Nat /\ PUnit > 0 /\ c \in Nat /\ q \in Nat /\ q <= PUnit * c
  BY ARCAssumption
<1> DEFINE d == q \div PUnit
<1>2. d \in Int /\ PUnit * d <= q
  BY <1>1
<1>3. d >= 0
  BY <1>1
<1>4. d <= c
  <2> SUFFICES ASSUME d >= c + 1 PROVE FALSE
    BY <1>1, <1>2
  <2>1. PUnit * d >= PUnit * (c + 1)
    BY <1>1, <1>2
  <2>2. PUnit * (c + 1) = PUnit * c + PUnit
    BY <1>1
  <2>3. PUnit * d \in Int /\ PUnit * c \in Int
    BY <1>1, <1>2
  <2> HIDE DEF d
  <2> QED
    BY <1>1, <1>2, <2>1, <2>2, <2>3
<1> QED
  BY <1>2, <1>3, <1>4 DEF Target

LEMMA DeltaType ==
  ASSUME NEW own \in Nat \ {0}, NEW other \in Nat
  PROVE  Delta(own, other) \in Nat
<1>1. PUnit * other \in Nat /\ PUnit \in Nat
  BY ARCAssumption
<1>2. \A a \in Nat : a \div own \in Nat
  OBVIOUS
<1> QED
  BY <1>1, <1>2 DEF Delta

LEMMA TargetType ==
  ASSUME TypeOK
  PROVE  /\ lists.B1 # << >> => RaisedTarget(lists) \in 0 .. PUnit * c
         /\ lists.B2 # << >> => LoweredTarget(lists) \in 0 .. PUnit * c
<1>1. lists.B1 \in Seq(Pages) /\ lists.B2 \in Seq(Pages)
  BY DEF TypeOK, Lists
<1>2. /\ Len(lists.B1) \in Nat /\ Len(lists.B2) \in Nat
      /\ lists.B1 # << >> => Len(lists.B1) # 0
      /\ lists.B2 # << >> => Len(lists.B2) # 0
  BY <1>1
<1>3. PUnit * c \in Nat /\ p \in 0 .. PUnit * c
  BY ARCAssumption DEF TypeOK
<1>4. ASSUME lists.B1 # << >> PROVE RaisedTarget(lists) \in 0 .. PUnit * c
  <2>1. Delta(Len(lists.B1), Len(lists.B2)) \in Nat
    BY <1>2, <1>4, DeltaType
  <2> QED
    BY <1>3, <2>1 DEF RaisedTarget
<1>5. ASSUME lists.B2 # << >> PROVE LoweredTarget(lists) \in 0 .. PUnit * c
  <2>1. Delta(Len(lists.B2), Len(lists.B1)) \in Nat
    BY <1>2, <1>5, DeltaType
  <2> QED
    BY <1>3, <2>1 DEF LoweredTarget
<1> QED
  BY <1>4, <1>5

(***************************************************************************)
(* The lists                                                               *)
(***************************************************************************)

\* The sizes of the lists, and the pages on them.
Size(L, t1, t2, b1, b2) ==
  Len(L.T1) = t1 /\ Len(L.T2) = t2 /\ Len(L.B1) = b1 /\ Len(L.B2) = b2

LEMMA ListsType ==
  ASSUME NEW L \in Lists
  PROVE  /\ L.T1 \in Seq(Pages) /\ L.T2 \in Seq(Pages)
         /\ L.B1 \in Seq(Pages) /\ L.B2 \in Seq(Pages)
         /\ Len(L.T1) \in Nat /\ Len(L.T2) \in Nat
         /\ Len(L.B1) \in Nat /\ Len(L.B2) \in Nat
         /\ L.T1 # << >> <=> Len(L.T1) > 0
         /\ L.T2 # << >> <=> Len(L.T2) > 0
         /\ L.B1 # << >> <=> Len(L.B1) > 0
         /\ L.B2 # << >> <=> Len(L.B2) > 0
BY NonEmptyList DEF Lists

\* The page an eviction takes from T1, or from T2, becomes a ghost of its list.
EvictsT1(L, M) ==
  /\ Size(M, Len(L.T1) - 1, Len(L.T2), Len(L.B1) + 1, Len(L.B2))
  /\ M.T2 = L.T2 /\ M.B2 = L.B2
  /\ Back(L.T1) \in Elems(L.T1)
  /\ Elems(M.T1) = Elems(L.T1) \ {Back(L.T1)}
  /\ Elems(M.B1) = Elems(L.B1) \cup {Back(L.T1)}

EvictsT2(L, M) ==
  /\ Size(M, Len(L.T1), Len(L.T2) - 1, Len(L.B1), Len(L.B2) + 1)
  /\ M.T1 = L.T1 /\ M.B1 = L.B1
  /\ Back(L.T2) \in Elems(L.T2)
  /\ Elems(M.T2) = Elems(L.T2) \ {Back(L.T2)}
  /\ Elems(M.B2) = Elems(L.B2) \cup {Back(L.T2)}

LEMMA ReplaceProperties ==
  ASSUME NEW L \in Lists, OnePlaceIn(L), NEW q, NEW x,
         TakesT1(L, q, x) \/ L.T2 # << >>
  PROVE  /\ Replace(L, q, x) \in Lists
         /\ OnePlaceIn(Replace(L, q, x))
         /\ \/ EvictsT1(L, Replace(L, q, x))
            \/ EvictsT2(L, Replace(L, q, x))
<1> DEFINE M == Replace(L, q, x)
<1>1. CASE TakesT1(L, q, x)
  <2>1. L.T1 # << >>
    BY <1>1 DEF TakesT1
  <2>2. M = [L EXCEPT !.T1 = PopBack(@), !.B1 = PushFront(Back(L.T1), @)]
    BY <1>1 DEF Replace
  <2>3. /\ M.T1 = PopBack(L.T1) /\ M.B1 = PushFront(Back(L.T1), L.B1)
        /\ M.T2 = L.T2 /\ M.B2 = L.B2
    BY <2>2 DEF Lists
  <2>4. NoRepeats(L.T1) /\ NoRepeats(L.B1) /\ Disjoint(L.T1, L.B1)
    BY DEF OnePlaceIn
  <2>5. /\ PopBack(L.T1) \in Seq(Pages)
        /\ Len(PopBack(L.T1)) = Len(L.T1) - 1
        /\ Back(L.T1) \in Elems(L.T1)
        /\ NoRepeats(PopBack(L.T1))
        /\ Elems(PopBack(L.T1)) = Elems(L.T1) \ {Back(L.T1)}
    BY <2>1, <2>4, ListsType, PopBackProperties
  <2>6. Back(L.T1) \in Pages /\ Back(L.T1) \notin Elems(L.B1)
    BY <2>4, <2>5, ListsType, NonEmptyList DEF Disjoint
  <2>7. /\ PushFront(Back(L.T1), L.B1) \in Seq(Pages)
        /\ Len(PushFront(Back(L.T1), L.B1)) = Len(L.B1) + 1
        /\ Elems(PushFront(Back(L.T1), L.B1)) = Elems(L.B1) \cup {Back(L.T1)}
        /\ NoRepeats(PushFront(Back(L.T1), L.B1))
    BY <2>4, <2>6, ListsType, PushFrontProperties
  <2>8. M \in Lists
    BY <2>2, <2>5, <2>7 DEF Lists
  <2>9. OnePlaceIn(M)
    BY <2>3, <2>5, <2>7 DEF OnePlaceIn, Disjoint
  <2>10. EvictsT1(L, M)
    BY <2>3, <2>5, <2>7 DEF EvictsT1, Size
  <2> QED
    BY <2>8, <2>9, <2>10
<1>2. CASE ~TakesT1(L, q, x) /\ L.T2 # << >>
  <2>2. M = [L EXCEPT !.T2 = PopBack(@), !.B2 = PushFront(Back(L.T2), @)]
    BY <1>2 DEF Replace
  <2>3. /\ M.T2 = PopBack(L.T2) /\ M.B2 = PushFront(Back(L.T2), L.B2)
        /\ M.T1 = L.T1 /\ M.B1 = L.B1
    BY <2>2 DEF Lists
  <2>4. NoRepeats(L.T2) /\ NoRepeats(L.B2) /\ Disjoint(L.T2, L.B2)
    BY DEF OnePlaceIn
  <2>5. /\ PopBack(L.T2) \in Seq(Pages)
        /\ Len(PopBack(L.T2)) = Len(L.T2) - 1
        /\ Back(L.T2) \in Elems(L.T2)
        /\ NoRepeats(PopBack(L.T2))
        /\ Elems(PopBack(L.T2)) = Elems(L.T2) \ {Back(L.T2)}
    BY <1>2, <2>4, ListsType, PopBackProperties
  <2>6. Back(L.T2) \in Pages /\ Back(L.T2) \notin Elems(L.B2)
    BY <2>4, <2>5, ListsType, NonEmptyList DEF Disjoint
  <2>7. /\ PushFront(Back(L.T2), L.B2) \in Seq(Pages)
        /\ Len(PushFront(Back(L.T2), L.B2)) = Len(L.B2) + 1
        /\ Elems(PushFront(Back(L.T2), L.B2)) = Elems(L.B2) \cup {Back(L.T2)}
        /\ NoRepeats(PushFront(Back(L.T2), L.B2))
    BY <2>4, <2>6, ListsType, PushFrontProperties
  <2>8. M \in Lists
    BY <2>2, <2>5, <2>7 DEF Lists
  <2>9. OnePlaceIn(M)
    BY <2>3, <2>5, <2>7 DEF OnePlaceIn, Disjoint
  <2>10. EvictsT2(L, M)
    BY <2>3, <2>5, <2>7 DEF EvictsT2, Size
  <2> QED
    BY <2>8, <2>9, <2>10
<1> QED
  BY <1>1, <1>2

\* A page that is on no list enters T1 or T2.
WithT1(L, x) == [L EXCEPT !.T1 = PushFront(x, @)]

LEMMA EnterT1 ==
  ASSUME NEW L \in Lists, OnePlaceIn(L), NEW x \in Pages,
         x \notin Elems(L.T1), x \notin Elems(L.T2),
         x \notin Elems(L.B1), x \notin Elems(L.B2),
         NEW M, M = WithT1(L, x)
  PROVE  /\ M \in Lists
         /\ OnePlaceIn(M)
         /\ Size(M, Len(L.T1) + 1, Len(L.T2), Len(L.B1), Len(L.B2))
         /\ Elems(M.T1) = Elems(L.T1) \cup {x}
         /\ M.T2 = L.T2 /\ M.B1 = L.B1 /\ M.B2 = L.B2
<1>1. M.T1 = PushFront(x, L.T1) /\ M.T2 = L.T2 /\ M.B1 = L.B1 /\ M.B2 = L.B2
  BY DEF Lists, WithT1
<1>2. /\ PushFront(x, L.T1) \in Seq(Pages)
      /\ Len(PushFront(x, L.T1)) = Len(L.T1) + 1
      /\ Elems(PushFront(x, L.T1)) = Elems(L.T1) \cup {x}
      /\ NoRepeats(PushFront(x, L.T1))
  BY ListsType, PushFrontProperties DEF OnePlaceIn
<1>3. M \in Lists
  BY <1>2 DEF Lists, WithT1
<1>4. OnePlaceIn(M)
  BY <1>1, <1>2 DEF OnePlaceIn, Disjoint
<1> QED
  BY <1>1, <1>2, <1>3, <1>4 DEF Size

LEMMA EnterT2 ==
  ASSUME NEW L \in Lists, OnePlaceIn(L), NEW x \in Pages,
         x \notin Elems(L.T1), x \notin Elems(L.T2),
         x \notin Elems(L.B1), x \notin Elems(L.B2),
         NEW M, M = [L EXCEPT !.T2 = PushFront(x, @)]
  PROVE  /\ M \in Lists
         /\ OnePlaceIn(M)
         /\ Size(M, Len(L.T1), Len(L.T2) + 1, Len(L.B1), Len(L.B2))
         /\ Elems(M.T2) = Elems(L.T2) \cup {x}
         /\ M.T1 = L.T1 /\ M.B1 = L.B1 /\ M.B2 = L.B2
<1>1. M.T2 = PushFront(x, L.T2) /\ M.T1 = L.T1 /\ M.B1 = L.B1 /\ M.B2 = L.B2
  BY DEF Lists
<1>2. /\ PushFront(x, L.T2) \in Seq(Pages)
      /\ Len(PushFront(x, L.T2)) = Len(L.T2) + 1
      /\ Elems(PushFront(x, L.T2)) = Elems(L.T2) \cup {x}
      /\ NoRepeats(PushFront(x, L.T2))
  BY ListsType, PushFrontProperties DEF OnePlaceIn
<1>3. M \in Lists
  BY <1>2 DEF Lists
<1>4. OnePlaceIn(M)
  BY <1>1, <1>2 DEF OnePlaceIn, Disjoint
<1> QED
  BY <1>1, <1>2, <1>3, <1>4 DEF Size

\* A list that loses elements.
LEMMA Shrink ==
  ASSUME NEW L \in Lists, OnePlaceIn(L), NEW s \in Seq(Pages), NoRepeats(s),
         NEW M
  PROVE  /\ M = [L EXCEPT !.T1 = s] /\ Elems(s) \subseteq Elems(L.T1) =>
              M \in Lists /\ OnePlaceIn(M)
         /\ M = [L EXCEPT !.T2 = s] /\ Elems(s) \subseteq Elems(L.T2) =>
              M \in Lists /\ OnePlaceIn(M)
         /\ M = [L EXCEPT !.B1 = s] /\ Elems(s) \subseteq Elems(L.B1) =>
              M \in Lists /\ OnePlaceIn(M)
         /\ M = [L EXCEPT !.B2 = s] /\ Elems(s) \subseteq Elems(L.B2) =>
              M \in Lists /\ OnePlaceIn(M)
<1>1. ASSUME M = [L EXCEPT !.T1 = s], Elems(s) \subseteq Elems(L.T1)
      PROVE  M \in Lists /\ OnePlaceIn(M)
  <2>1. M \in Lists
    BY <1>1 DEF Lists
  <2>2. M.T1 = s /\ M.T2 = L.T2 /\ M.B1 = L.B1 /\ M.B2 = L.B2
    BY <1>1 DEF Lists
  <2> QED
    BY <1>1, <2>1, <2>2 DEF OnePlaceIn, Disjoint
<1>2. ASSUME M = [L EXCEPT !.T2 = s], Elems(s) \subseteq Elems(L.T2)
      PROVE  M \in Lists /\ OnePlaceIn(M)
  <2>1. M \in Lists
    BY <1>2 DEF Lists
  <2>2. M.T2 = s /\ M.T1 = L.T1 /\ M.B1 = L.B1 /\ M.B2 = L.B2
    BY <1>2 DEF Lists
  <2> QED
    BY <1>2, <2>1, <2>2 DEF OnePlaceIn, Disjoint
<1>3. ASSUME M = [L EXCEPT !.B1 = s], Elems(s) \subseteq Elems(L.B1)
      PROVE  M \in Lists /\ OnePlaceIn(M)
  <2>1. M \in Lists
    BY <1>3 DEF Lists
  <2>2. M.B1 = s /\ M.T1 = L.T1 /\ M.T2 = L.T2 /\ M.B2 = L.B2
    BY <1>3 DEF Lists
  <2> QED
    BY <1>3, <2>1, <2>2 DEF OnePlaceIn, Disjoint
<1>4. ASSUME M = [L EXCEPT !.B2 = s], Elems(s) \subseteq Elems(L.B2)
      PROVE  M \in Lists /\ OnePlaceIn(M)
  <2>1. M \in Lists
    BY <1>4 DEF Lists
  <2>2. M.B2 = s /\ M.T1 = L.T1 /\ M.T2 = L.T2 /\ M.B1 = L.B1
    BY <1>4 DEF Lists
  <2> QED
    BY <1>4, <2>1, <2>2 DEF OnePlaceIn, Disjoint
<1> QED
  BY <1>1, <1>2, <1>3, <1>4

\* The directory in numbers.
DirectoryOf(t1, t2, b1, b2) ==
  /\ t1 + t2 <= c
  /\ t1 + b1 <= c
  /\ t1 + b1 + t2 + b2 <= 2 * c
  /\ b1 + b2 > 0 => t1 + t2 = c

LEMMA DirectorySizes ==
  /\ Sizes <=> DirectoryOf(Len(lists.T1), Len(lists.T2), Len(lists.B1), Len(lists.B2))
  /\ \A t1, t2, b1, b2 :
       Size(lists', t1, t2, b1, b2) /\ DirectoryOf(t1, t2, b1, b2) => Sizes'
BY DEF Sizes, DirectoryOf, Size, L1Size, Total

(***************************************************************************)
(* The steps                                                               *)
(***************************************************************************)

\* What every request does, said of the state it leads to.  A hit keeps the
\* cached pages; any other request adds its page, for another one if the
\* cache is full.
Outcome(x) ==
  /\ lists' \in Lists
  /\ OnePlaceIn(lists')
  /\ Sizes'
  /\ \/ x \in Cached /\ Cached' = Cached
     \/ /\ x \notin Cached
        /\ Len(lists.T1) + Len(lists.T2) < c
        /\ Cached' = Cached \cup {x}
     \/ /\ x \notin Cached
        /\ Len(lists.T1) + Len(lists.T2) = c
        /\ \E v \in Cached : Cached' = (Cached \ {v}) \cup {x}

LEMMA HitT1Outcome ==
  ASSUME Inv, NEW x \in Pages, HitT1(x)
  PROVE  Outcome(x)
<1> DEFINE s == Erase(lists.T1, x)
<1> DEFINE L == [lists EXCEPT !.T1 = s]
<1>0. lists \in Lists /\ OnePlaceIn(lists) /\ x \in Elems(lists.T1) /\ NoRepeats(lists.T1)
  BY DEF Inv, TypeOK, OnePlace, HitT1, OnePlaceIn
<1>1. /\ s \in Seq(Pages) /\ NoRepeats(s)
      /\ Len(s) = Len(lists.T1) - 1
      /\ Elems(s) = Elems(lists.T1) \ {x}
  BY <1>0, ListsType, EraseProperties
<1> HIDE DEF s
<1>2. L \in Lists /\ OnePlaceIn(L)
  BY <1>0, <1>1, Shrink
<1>3. L.T1 = s /\ L.T2 = lists.T2 /\ L.B1 = lists.B1 /\ L.B2 = lists.B2
  BY <1>0 DEF Lists
<1>4. lists' = [L EXCEPT !.T2 = PushFront(x, @)]
  BY <1>0 DEF HitT1, Lists, s
<1> HIDE DEF L
<1>5. /\ x \notin Elems(L.T1) /\ x \notin Elems(L.T2)
      /\ x \notin Elems(L.B1) /\ x \notin Elems(L.B2)
  BY <1>0, <1>1, <1>3 DEF OnePlaceIn, Disjoint
<1>6. /\ lists' \in Lists /\ OnePlaceIn(lists')
      /\ Size(lists', Len(L.T1), Len(L.T2) + 1, Len(L.B1), Len(L.B2))
      /\ Elems(lists'.T2) = Elems(L.T2) \cup {x}
      /\ lists'.T1 = L.T1
  BY <1>2, <1>4, <1>5, EnterT2
<1>7. Cached' = Cached /\ x \in Cached
  BY <1>0, <1>1, <1>3, <1>6 DEF Cached
<1>8. Sizes'
  <2> DEFINE t1 == Len(lists.T1) t2 == Len(lists.T2) b1 == Len(lists.B1) b2 == Len(lists.B2)
  <2>1. t1 \in Nat /\ t2 \in Nat /\ b1 \in Nat /\ b2 \in Nat
    BY <1>0, ListsType
  <2>2. Size(lists', t1 - 1, t2 + 1, b1, b2)
    BY <1>1, <1>3, <1>6
  <2>3. DirectoryOf(t1, t2, b1, b2)
    BY DirectorySizes DEF Inv
  <2> HIDE DEF t1, t2, b1, b2
  <2>4. DirectoryOf(t1 - 1, t2 + 1, b1, b2)
    BY <2>1, <2>3, ARCAssumption DEF DirectoryOf
  <2> QED
    BY <2>2, <2>4, DirectorySizes
<1> QED
  BY <1>6, <1>7, <1>8 DEF Outcome

LEMMA HitT2Outcome ==
  ASSUME Inv, NEW x \in Pages, HitT2(x)
  PROVE  Outcome(x)
<1> DEFINE s == Erase(lists.T2, x)
<1> DEFINE L == [lists EXCEPT !.T2 = s]
<1>0. lists \in Lists /\ OnePlaceIn(lists) /\ x \in Elems(lists.T2) /\ NoRepeats(lists.T2)
  BY DEF Inv, TypeOK, OnePlace, HitT2, OnePlaceIn
<1>1. /\ s \in Seq(Pages) /\ NoRepeats(s)
      /\ Len(s) = Len(lists.T2) - 1
      /\ Elems(s) = Elems(lists.T2) \ {x}
  BY <1>0, ListsType, EraseProperties
<1> HIDE DEF s
<1>2. L \in Lists /\ OnePlaceIn(L)
  BY <1>0, <1>1, Shrink
<1>3. L.T2 = s /\ L.T1 = lists.T1 /\ L.B1 = lists.B1 /\ L.B2 = lists.B2
  BY <1>0 DEF Lists
<1>4. lists' = [L EXCEPT !.T2 = PushFront(x, @)]
  BY <1>0 DEF HitT2, Lists, s
<1> HIDE DEF L
<1>5. /\ x \notin Elems(L.T1) /\ x \notin Elems(L.T2)
      /\ x \notin Elems(L.B1) /\ x \notin Elems(L.B2)
  BY <1>0, <1>1, <1>3 DEF OnePlaceIn, Disjoint
<1>6. /\ lists' \in Lists /\ OnePlaceIn(lists')
      /\ Size(lists', Len(L.T1), Len(L.T2) + 1, Len(L.B1), Len(L.B2))
      /\ Elems(lists'.T2) = Elems(L.T2) \cup {x}
      /\ lists'.T1 = L.T1
  BY <1>2, <1>4, <1>5, EnterT2
<1>7. Cached' = Cached /\ x \in Cached
  BY <1>0, <1>1, <1>3, <1>6 DEF Cached
<1>8. Sizes'
  <2> DEFINE t1 == Len(lists.T1) t2 == Len(lists.T2) b1 == Len(lists.B1) b2 == Len(lists.B2)
  <2>1. t1 \in Nat /\ t2 \in Nat /\ b1 \in Nat /\ b2 \in Nat
    BY <1>0, ListsType
  <2>2. Size(lists', t1, t2 - 1 + 1, b1, b2)
    BY <1>1, <1>3, <1>6
  <2>3. DirectoryOf(t1, t2, b1, b2)
    BY DirectorySizes DEF Inv
  <2> HIDE DEF t1, t2, b1, b2
  <2>4. DirectoryOf(t1, t2 - 1 + 1, b1, b2)
    BY <2>1, <2>3, ARCAssumption DEF DirectoryOf
  <2> QED
    BY <2>2, <2>4, DirectorySizes
<1> QED
  BY <1>6, <1>7, <1>8 DEF Outcome

\* An eviction takes one page out of the cache.
LEMMA EvictedCached ==
  ASSUME NEW B, NEW L, OnePlaceIn(B), EvictsT1(B, L) \/ EvictsT2(B, L)
  PROVE  \E v \in Elems(B.T1) \cup Elems(B.T2) :
           Elems(L.T1) \cup Elems(L.T2) = (Elems(B.T1) \cup Elems(B.T2)) \ {v}
<1>1. CASE EvictsT1(B, L)
  <2>1. /\ Back(B.T1) \in Elems(B.T1) \cup Elems(B.T2)
        /\ Elems(L.T1) \cup Elems(L.T2) =
             (Elems(B.T1) \cup Elems(B.T2)) \ {Back(B.T1)}
    BY <1>1 DEF EvictsT1, OnePlaceIn, Disjoint
  <2> QED
    BY <2>1
<1>2. CASE EvictsT2(B, L)
  <2>1. /\ Back(B.T2) \in Elems(B.T1) \cup Elems(B.T2)
        /\ Elems(L.T1) \cup Elems(L.T2) =
             (Elems(B.T1) \cup Elems(B.T2)) \ {Back(B.T2)}
    BY <1>2 DEF EvictsT2, OnePlaceIn, Disjoint
  <2> QED
    BY <2>1
<1> QED
  BY <1>1, <1>2

LEMMA GhostB1Outcome ==
  ASSUME Inv, NEW x \in Pages, GhostB1(x)
  PROVE  Outcome(x)
<1> DEFINE L == Replace(lists, p', x)
<1> DEFINE s == Erase(L.B1, x)
<1> DEFINE M == [L EXCEPT !.B1 = s]
<1> DEFINE t1 == Len(lists.T1) t2 == Len(lists.T2) b1 == Len(lists.B1) b2 == Len(lists.B2)
<1>0. lists \in Lists /\ OnePlaceIn(lists) /\ x \in Elems(lists.B1)
  BY DEF Inv, TypeOK, OnePlace, GhostB1
<1>1. /\ t1 \in Nat /\ t2 \in Nat /\ b1 \in Nat /\ b2 \in Nat
      /\ lists.T1 # << >> <=> t1 > 0
      /\ lists.T2 # << >> <=> t2 > 0
      /\ lists.B1 # << >> <=> b1 > 0
  BY <1>0, ListsType
<1>2. lists.B1 # << >>
  BY <1>0, EmptyList
<1>3. DirectoryOf(t1, t2, b1, b2) /\ t1 + t2 = c /\ b1 > 0
  <2>1. DirectoryOf(t1, t2, b1, b2)
    BY DirectorySizes DEF Inv
  <2> HIDE DEF t1, t2, b1, b2
  <2> QED
    BY <2>1, <1>1, <1>2 DEF DirectoryOf
\* The replacement evicts a page: the cache is full, so if T2 is empty then
\* T1 has c pages, more than the ghosts leave room for.
<1>4. TakesT1(lists, p', x) \/ lists.T2 # << >>
  <2> HIDE DEF t1, t2, b1, b2
  <2> QED
    BY <1>1, <1>3, ARCAssumption DEF DirectoryOf
<1>5. L \in Lists /\ OnePlaceIn(L) /\ (EvictsT1(lists, L) \/ EvictsT2(lists, L))
  BY <1>0, <1>4, ReplaceProperties
<1>6. x \notin Elems(lists.T1) /\ x \notin Elems(lists.T2) /\ x \in Elems(L.B1)
  BY <1>0, <1>5 DEF OnePlaceIn, Disjoint, EvictsT1, EvictsT2
<1>7. lists' = [M EXCEPT !.T2 = PushFront(x, @)]
  <2>1. lists' = [L EXCEPT !.B1 = Erase(@, x), !.T2 = PushFront(x, @)]
    BY DEF GhostB1
  <2> HIDE DEF L
  <2> QED
    BY <1>5, <2>1 DEF Lists
<1> HIDE DEF L
<1>8. /\ s \in Seq(Pages) /\ NoRepeats(s)
      /\ Len(s) = Len(L.B1) - 1
      /\ Elems(s) = Elems(L.B1) \ {x}
  BY <1>5, <1>6, ListsType, EraseProperties DEF OnePlaceIn
<1> HIDE DEF s
<1>9. M \in Lists /\ OnePlaceIn(M)
  BY <1>5, <1>8, Shrink
<1>10. M.B1 = s /\ M.T1 = L.T1 /\ M.T2 = L.T2 /\ M.B2 = L.B2
  BY <1>5 DEF Lists
<1> HIDE DEF M
<1>11. /\ x \notin Elems(M.T1) /\ x \notin Elems(M.T2)
       /\ x \notin Elems(M.B1) /\ x \notin Elems(M.B2)
  BY <1>5, <1>6, <1>8, <1>10 DEF OnePlaceIn, Disjoint
<1>12. /\ lists' \in Lists /\ OnePlaceIn(lists')
       /\ Size(lists', Len(M.T1), Len(M.T2) + 1, Len(M.B1), Len(M.B2))
       /\ Elems(lists'.T2) = Elems(M.T2) \cup {x}
       /\ lists'.T1 = M.T1
  BY <1>7, <1>9, <1>11, EnterT2
<1>13. x \notin Cached /\ \E v \in Cached : Cached' = (Cached \ {v}) \cup {x}
  <2>1. PICK v \in Cached : Elems(L.T1) \cup Elems(L.T2) = Cached \ {v}
    BY <1>0, <1>5, EvictedCached DEF Cached
  <2>2. Cached' = (Cached \ {v}) \cup {x}
    BY <1>10, <1>12, <2>1 DEF Cached
  <2> QED
    BY <1>6, <2>2 DEF Cached
<1>14. Sizes'
  <2>1. \/ Size(lists', t1 - 1, t2 + 1, b1 + 1 - 1, b2)
        \/ Size(lists', t1, t2 - 1 + 1, b1 - 1, b2 + 1)
    BY <1>5, <1>8, <1>10, <1>12 DEF EvictsT1, EvictsT2, Size
  <2> HIDE DEF t1, t2, b1, b2
  <2>2. /\ DirectoryOf(t1 - 1, t2 + 1, b1 + 1 - 1, b2)
        /\ DirectoryOf(t1, t2 - 1 + 1, b1 - 1, b2 + 1)
    BY <1>1, <1>3, ARCAssumption DEF DirectoryOf
  <2> QED
    BY <2>1, <2>2, DirectorySizes
<1> QED
  BY <1>3, <1>12, <1>13, <1>14 DEF Outcome

LEMMA GhostB2Outcome ==
  ASSUME Inv, NEW x \in Pages, GhostB2(x)
  PROVE  Outcome(x)
<1> DEFINE L == Replace(lists, p', x)
<1> DEFINE s == Erase(L.B2, x)
<1> DEFINE M == [L EXCEPT !.B2 = s]
<1> DEFINE t1 == Len(lists.T1) t2 == Len(lists.T2) b1 == Len(lists.B1) b2 == Len(lists.B2)
<1>0. lists \in Lists /\ OnePlaceIn(lists) /\ x \in Elems(lists.B2)
  BY DEF Inv, TypeOK, OnePlace, GhostB2
<1>1. /\ t1 \in Nat /\ t2 \in Nat /\ b1 \in Nat /\ b2 \in Nat
      /\ lists.T1 # << >> <=> t1 > 0
      /\ lists.T2 # << >> <=> t2 > 0
      /\ lists.B2 # << >> <=> b2 > 0
  BY <1>0, ListsType
<1>2. lists.B2 # << >>
  BY <1>0, EmptyList
<1>3. DirectoryOf(t1, t2, b1, b2) /\ t1 + t2 = c /\ b2 > 0
  <2>1. DirectoryOf(t1, t2, b1, b2)
    BY DirectorySizes DEF Inv
  <2> HIDE DEF t1, t2, b1, b2
  <2> QED
    BY <2>1, <1>1, <1>2 DEF DirectoryOf
\* The replacement evicts a page: the cache is full, so if T2 is empty then
\* T1 has c pages and takes the second test of replace.
<1>4. TakesT1(lists, p', x) \/ lists.T2 # << >>
  <2>1. p' \in 0 .. PUnit * c
    BY <1>2, TargetType DEF Inv, GhostB2
  <2>2. Target(p') \in Nat /\ Target(p') <= c
    BY <2>1, TargetBound
  <2>3. lists.T2 = << >> => t1 = c /\ lists.T1 # << >>
    <3> HIDE DEF t1, t2, b1, b2
    <3> QED
      BY <1>1, <1>3, ARCAssumption
  <2> QED
    BY <1>0, <1>1, <2>2, <2>3, ARCAssumption DEF TakesT1
<1>5. L \in Lists /\ OnePlaceIn(L) /\ (EvictsT1(lists, L) \/ EvictsT2(lists, L))
  BY <1>0, <1>4, ReplaceProperties
<1>6. x \notin Elems(lists.T1) /\ x \notin Elems(lists.T2) /\ x \in Elems(L.B2)
  BY <1>0, <1>5 DEF OnePlaceIn, Disjoint, EvictsT1, EvictsT2
<1>7. lists' = [M EXCEPT !.T2 = PushFront(x, @)]
  <2>1. lists' = [L EXCEPT !.B2 = Erase(@, x), !.T2 = PushFront(x, @)]
    BY DEF GhostB2
  <2> HIDE DEF L
  <2> QED
    BY <1>5, <2>1 DEF Lists
<1> HIDE DEF L
<1>8. /\ s \in Seq(Pages) /\ NoRepeats(s)
      /\ Len(s) = Len(L.B2) - 1
      /\ Elems(s) = Elems(L.B2) \ {x}
  BY <1>5, <1>6, ListsType, EraseProperties DEF OnePlaceIn
<1> HIDE DEF s
<1>9. M \in Lists /\ OnePlaceIn(M)
  BY <1>5, <1>8, Shrink
<1>10. M.B2 = s /\ M.T1 = L.T1 /\ M.T2 = L.T2 /\ M.B1 = L.B1
  BY <1>5 DEF Lists
<1> HIDE DEF M
<1>11. /\ x \notin Elems(M.T1) /\ x \notin Elems(M.T2)
       /\ x \notin Elems(M.B1) /\ x \notin Elems(M.B2)
  BY <1>5, <1>6, <1>8, <1>10 DEF OnePlaceIn, Disjoint
<1>12. /\ lists' \in Lists /\ OnePlaceIn(lists')
       /\ Size(lists', Len(M.T1), Len(M.T2) + 1, Len(M.B1), Len(M.B2))
       /\ Elems(lists'.T2) = Elems(M.T2) \cup {x}
       /\ lists'.T1 = M.T1
  BY <1>7, <1>9, <1>11, EnterT2
<1>13. x \notin Cached /\ \E v \in Cached : Cached' = (Cached \ {v}) \cup {x}
  <2>1. PICK v \in Cached : Elems(L.T1) \cup Elems(L.T2) = Cached \ {v}
    BY <1>0, <1>5, EvictedCached DEF Cached
  <2>2. Cached' = (Cached \ {v}) \cup {x}
    BY <1>10, <1>12, <2>1 DEF Cached
  <2> QED
    BY <1>6, <2>2 DEF Cached
<1>14. Sizes'
  <2>1. \/ Size(lists', t1 - 1, t2 + 1, b1 + 1, b2 - 1)
        \/ Size(lists', t1, t2 - 1 + 1, b1, b2 + 1 - 1)
    BY <1>5, <1>8, <1>10, <1>12 DEF EvictsT1, EvictsT2, Size
  <2> HIDE DEF t1, t2, b1, b2
  <2>2. /\ DirectoryOf(t1 - 1, t2 + 1, b1 + 1, b2 - 1)
        /\ DirectoryOf(t1, t2 - 1 + 1, b1, b2 + 1 - 1)
    BY <1>1, <1>3, ARCAssumption DEF DirectoryOf
  <2> QED
    BY <2>1, <2>2, DirectorySizes
<1> QED
  BY <1>3, <1>12, <1>13, <1>14 DEF Outcome

\* The cached pages of M are those of L with x for another page.
Exchanges(L, M, x) ==
  \E v \in Elems(L.T1) \cup Elems(L.T2) :
    Elems(M.T1) \cup Elems(M.T2) = ((Elems(L.T1) \cup Elems(L.T2)) \ {v}) \cup {x}

\* A page on no list enters T1 after an eviction.
LEMMA ReplaceEnterT1 ==
  ASSUME NEW base \in Lists, OnePlaceIn(base), base.T2 # << >>, NEW q,
         NEW x \in Pages, x \notin Elems(base.T1), x \notin Elems(base.T2),
         x \notin Elems(base.B1), x \notin Elems(base.B2),
         NEW M, M = WithT1(Replace(base, q, x), x)
  PROVE  /\ M \in Lists
         /\ OnePlaceIn(M)
         /\ \/ Size(M, Len(base.T1) - 1 + 1, Len(base.T2), Len(base.B1) + 1, Len(base.B2))
            \/ Size(M, Len(base.T1) + 1, Len(base.T2) - 1, Len(base.B1), Len(base.B2) + 1)
         /\ Exchanges(base, M, x)
<1> DEFINE L == Replace(base, q, x)
<1>1. L \in Lists /\ OnePlaceIn(L) /\ (EvictsT1(base, L) \/ EvictsT2(base, L))
  BY ReplaceProperties
<1>2. M = WithT1(L, x)
  OBVIOUS
<1> HIDE DEF L
<1>3. /\ x \notin Elems(L.T1) /\ x \notin Elems(L.T2)
      /\ x \notin Elems(L.B1) /\ x \notin Elems(L.B2)
  BY <1>1 DEF EvictsT1, EvictsT2
<1>4. /\ M \in Lists /\ OnePlaceIn(M)
      /\ Size(M, Len(L.T1) + 1, Len(L.T2), Len(L.B1), Len(L.B2))
      /\ Elems(M.T1) = Elems(L.T1) \cup {x}
      /\ M.T2 = L.T2
  BY <1>1, <1>2, <1>3, EnterT1
<1>5. \/ Size(M, Len(base.T1) - 1 + 1, Len(base.T2), Len(base.B1) + 1, Len(base.B2))
      \/ Size(M, Len(base.T1) + 1, Len(base.T2) - 1, Len(base.B1), Len(base.B2) + 1)
  BY <1>1, <1>4 DEF EvictsT1, EvictsT2, Size
<1>6. PICK v \in Elems(base.T1) \cup Elems(base.T2) :
        Elems(L.T1) \cup Elems(L.T2) = (Elems(base.T1) \cup Elems(base.T2)) \ {v}
  BY <1>1, EvictedCached
<1> QED
  BY <1>4, <1>5, <1>6 DEF Exchanges

\* A miss that replaces starts from lists, or from lists less a ghost: the
\* cache is full, T1 does not fill it, and there is room for one more page in
\* T1 and for one more ghost.
Replaceable(base) ==
  /\ base \in Lists
  /\ OnePlaceIn(base)
  /\ base.T1 = lists.T1 /\ base.T2 = lists.T2
  /\ Elems(base.B1) \subseteq Elems(lists.B1)
  /\ Elems(base.B2) \subseteq Elems(lists.B2)

MissRoom(t1, t2, b1, b2) ==
  t1 + t2 = c /\ t1 < c /\ t1 + b1 < c /\ t2 + b2 <= 2 * c - t1 - b1 - 1

LEMMA MissSizes ==
  ASSUME NEW t1 \in Nat, NEW t2 \in Nat, NEW b1 \in Nat, NEW b2 \in Nat,
         MissRoom(t1, t2, b1, b2)
  PROVE  /\ DirectoryOf(t1 - 1 + 1, t2, b1 + 1, b2)
         /\ DirectoryOf(t1 + 1, t2 - 1, b1, b2 + 1)
BY ARCAssumption DEF DirectoryOf, MissRoom

LEMMA MissOutcome ==
  ASSUME NEW x \in Pages, x \notin Cached \cup Ghosts,
         NEW base, Replaceable(base),
         MissRoom(Len(base.T1), Len(base.T2), Len(base.B1), Len(base.B2)),
         lists' = WithT1(Replace(base, p, x), x)
  PROVE  Outcome(x)
<1> DEFINE t1 == Len(base.T1) t2 == Len(base.T2) b1 == Len(base.B1) b2 == Len(base.B2)
<1>1. base \in Lists /\ OnePlaceIn(base)
  BY DEF Replaceable
<1>2. t1 \in Nat /\ t2 \in Nat /\ b1 \in Nat /\ b2 \in Nat /\ (base.T2 # << >> <=> t2 > 0)
  BY <1>1, ListsType
<1>3. /\ x \notin Elems(base.T1) /\ x \notin Elems(base.T2)
      /\ x \notin Elems(base.B1) /\ x \notin Elems(base.B2)
  BY DEF Cached, Ghosts, Replaceable
<1>4. MissRoom(t1, t2, b1, b2)
  OBVIOUS
<1>5. base.T2 # << >> /\ t1 + t2 = c
  <2> HIDE DEF t1, t2, b1, b2
  <2> QED
    BY <1>2, <1>4, ARCAssumption DEF MissRoom
<1>6. /\ lists' \in Lists
      /\ OnePlaceIn(lists')
      /\ \/ Size(lists', t1 - 1 + 1, t2, b1 + 1, b2)
         \/ Size(lists', t1 + 1, t2 - 1, b1, b2 + 1)
      /\ Exchanges(base, lists', x)
  BY <1>1, <1>3, <1>5, ReplaceEnterT1
<1>7. x \notin Cached /\ \E v \in Cached : Cached' = (Cached \ {v}) \cup {x}
  BY <1>6 DEF Cached, Replaceable, Exchanges
<1>8. Sizes'
  <2> HIDE DEF t1, t2, b1, b2
  <2>1. DirectoryOf(t1 - 1 + 1, t2, b1 + 1, b2) /\ DirectoryOf(t1 + 1, t2 - 1, b1, b2 + 1)
    BY <1>2, <1>4, MissSizes
  <2> QED
    BY <1>6, <2>1, DirectorySizes
<1> QED
  BY <1>5, <1>6, <1>7, <1>8 DEF Outcome, Replaceable

LEMMA MissDropsGhostOutcome ==
  ASSUME Inv, NEW x \in Pages, MissDropsGhost(x)
  PROVE  Outcome(x)
<1> DEFINE s == PopBack(lists.B1)
<1> DEFINE base == [lists EXCEPT !.B1 = s]
<1> DEFINE t1 == Len(lists.T1) t2 == Len(lists.T2) b1 == Len(lists.B1) b2 == Len(lists.B2)
<1>0. lists \in Lists /\ OnePlaceIn(lists) /\ x \notin Cached \cup Ghosts
  BY DEF Inv, TypeOK, OnePlace, MissDropsGhost, Miss
<1>1. /\ t1 \in Nat /\ t2 \in Nat /\ b1 \in Nat /\ b2 \in Nat
      /\ lists.B1 # << >> <=> b1 > 0
  BY <1>0, ListsType
<1>2. DirectoryOf(t1, t2, b1, b2) /\ t1 + b1 = c /\ t1 < c
  BY DirectorySizes DEF Inv, MissDropsGhost, L1Size
<1>3. b1 > 0 /\ t1 + t2 = c /\ t1 + (b1 - 1) < c
      /\ t2 + b2 <= 2 * c - t1 - (b1 - 1) - 1 /\ b1 - 1 \in Nat
  <2> HIDE DEF t1, t2, b1, b2
  <2> QED
    BY <1>1, <1>2, ARCAssumption DEF DirectoryOf
<1>4. /\ s \in Seq(Pages) /\ NoRepeats(s)
      /\ Len(s) = b1 - 1
      /\ Elems(s) \subseteq Elems(lists.B1)
  BY <1>0, <1>1, <1>3, ListsType, PopBackProperties DEF OnePlaceIn
<1>5. lists' = WithT1(Replace(base, p, x), x)
  BY <1>0 DEF MissDropsGhost, WithT1
<1> HIDE DEF s
<1>6. base \in Lists /\ OnePlaceIn(base)
  BY <1>0, <1>4, Shrink
<1>7. base.B1 = s /\ base.T1 = lists.T1 /\ base.T2 = lists.T2 /\ base.B2 = lists.B2
  BY <1>0 DEF Lists
<1> HIDE DEF base
<1>8. Replaceable(base)
  BY <1>4, <1>6, <1>7 DEF Replaceable
<1>9. MissRoom(t1, t2, b1 - 1, b2)
  BY <1>2, <1>3 DEF MissRoom
<1> QED
  BY <1>0, <1>4, <1>5, <1>7, <1>8, <1>9, MissOutcome

LEMMA MissReplacesOutcome ==
  ASSUME Inv, NEW x \in Pages, MissReplaces(x)
  PROVE  Outcome(x)
<1> DEFINE t1 == Len(lists.T1) t2 == Len(lists.T2) b1 == Len(lists.B1) b2 == Len(lists.B2)
<1>0. lists \in Lists /\ OnePlaceIn(lists) /\ x \notin Cached \cup Ghosts
  BY DEF Inv, TypeOK, OnePlace, MissReplaces, Miss
<1>1. /\ t1 \in Nat /\ t2 \in Nat /\ b1 \in Nat /\ b2 \in Nat
      /\ lists.B2 # << >> <=> b2 > 0
  BY <1>0, ListsType
<1>2. /\ DirectoryOf(t1, t2, b1, b2) /\ t1 + b1 < c
      /\ Total = t1 + b1 + t2 + b2 /\ Total >= c
  BY DirectorySizes DEF Inv, MissReplaces, L1Size, Total
<1>3. t1 + t2 = c /\ t1 < c
  <2>1. DirectoryOf(t1, t2, b1, b2) /\ t1 + b1 < c /\ t1 + b1 + t2 + b2 >= c
    BY <1>2
  <2> HIDE DEF t1, t2, b1, b2
  <2> QED
    BY <1>1, <2>1, ARCAssumption DEF DirectoryOf
<1>4. lists' = WithT1(Replace(Trim(lists), p, x), x)
  BY DEF MissReplaces, WithT1
<1>5. CASE Total >= 2 * c
  <2> DEFINE s == PopBack(lists.B2)
  <2> DEFINE base == [lists EXCEPT !.B2 = s]
  <2>1. /\ b2 > 0 /\ b2 - 1 \in Nat
        /\ t2 + (b2 - 1) <= 2 * c - t1 - b1 - 1
    <3>1. t1 + b1 + t2 + b2 >= 2 * c
      BY <1>2, <1>5
    <3> HIDE DEF t1, t2, b1, b2
    <3> QED
      BY <1>1, <1>2, <1>3, <3>1, ARCAssumption DEF DirectoryOf
  <2>2. /\ s \in Seq(Pages) /\ NoRepeats(s)
        /\ Len(s) = b2 - 1
        /\ Elems(s) \subseteq Elems(lists.B2)
    BY <1>0, <1>1, <2>1, ListsType, PopBackProperties DEF OnePlaceIn
  <2>3. Trim(lists) = base
    BY <1>5 DEF Trim
  <2> HIDE DEF s
  <2>4. base \in Lists /\ OnePlaceIn(base)
    BY <1>0, <2>2, Shrink
  <2>5. base.B2 = s /\ base.T1 = lists.T1 /\ base.T2 = lists.T2 /\ base.B1 = lists.B1
    BY <1>0 DEF Lists
  <2> HIDE DEF base
  <2>6. Replaceable(base)
    BY <2>2, <2>4, <2>5 DEF Replaceable
  <2>7. MissRoom(t1, t2, b1, b2 - 1)
    BY <1>2, <1>3, <2>1 DEF MissRoom
  <2> QED
    BY <1>0, <1>4, <2>2, <2>3, <2>5, <2>6, <2>7, MissOutcome
<1>6. CASE ~(Total >= 2 * c)
  <2>1. Trim(lists) = lists
    BY <1>6 DEF Trim
  <2>2. t2 + b2 <= 2 * c - t1 - b1 - 1
    <3>1. ~(t1 + b1 + t2 + b2 >= 2 * c)
      BY <1>2, <1>6
    <3> HIDE DEF t1, t2, b1, b2
    <3> QED
      BY <1>1, <3>1, ARCAssumption
  <2>3. Replaceable(lists) /\ MissRoom(t1, t2, b1, b2)
    BY <1>0, <1>2, <1>3, <2>2 DEF Replaceable, MissRoom
  <2> QED
    BY <1>0, <1>4, <2>1, <2>3, MissOutcome
<1> QED
  BY <1>5, <1>6

LEMMA MissDropsPageOutcome ==
  ASSUME Inv, NEW x \in Pages, MissDropsPage(x)
  PROVE  Outcome(x)
<1> DEFINE s == PopBack(lists.T1)
<1> DEFINE base == [lists EXCEPT !.T1 = s]
<1> DEFINE t1 == Len(lists.T1) t2 == Len(lists.T2) b1 == Len(lists.B1) b2 == Len(lists.B2)
<1>0. lists \in Lists /\ OnePlaceIn(lists) /\ x \notin Cached \cup Ghosts
  BY DEF Inv, TypeOK, OnePlace, MissDropsPage, Miss
<1>1. /\ t1 \in Nat /\ t2 \in Nat /\ b1 \in Nat /\ b2 \in Nat
      /\ lists.T1 # << >> <=> t1 > 0
  BY <1>0, ListsType
<1>2. DirectoryOf(t1, t2, b1, b2) /\ t1 = c
  BY DirectorySizes DEF Inv, MissDropsPage
<1>3. t1 > 0 /\ t1 + t2 = c /\ DirectoryOf(t1 - 1 + 1, t2, b1, b2)
  <2> HIDE DEF t1, t2, b1, b2
  <2> QED
    BY <1>1, <1>2, ARCAssumption DEF DirectoryOf
<1>4. /\ s \in Seq(Pages) /\ NoRepeats(s)
      /\ Len(s) = t1 - 1
      /\ Back(lists.T1) \in Elems(lists.T1)
      /\ Elems(s) = Elems(lists.T1) \ {Back(lists.T1)}
  BY <1>0, <1>1, <1>3, ListsType, PopBackProperties DEF OnePlaceIn
<1>5. lists' = WithT1(base, x)
  BY <1>0 DEF MissDropsPage, WithT1, Lists
<1> HIDE DEF s
<1>6. base \in Lists /\ OnePlaceIn(base)
  BY <1>0, <1>4, Shrink
<1>7. base.T1 = s /\ base.T2 = lists.T2 /\ base.B1 = lists.B1 /\ base.B2 = lists.B2
  BY <1>0 DEF Lists
<1> HIDE DEF base
<1>8. /\ x \notin Elems(base.T1) /\ x \notin Elems(base.T2)
      /\ x \notin Elems(base.B1) /\ x \notin Elems(base.B2)
  BY <1>0, <1>4, <1>7 DEF Cached, Ghosts
<1>9. /\ lists' \in Lists /\ OnePlaceIn(lists')
      /\ Size(lists', Len(base.T1) + 1, Len(base.T2), Len(base.B1), Len(base.B2))
      /\ Elems(lists'.T1) = Elems(base.T1) \cup {x}
      /\ lists'.T2 = base.T2
  BY <1>5, <1>6, <1>8, EnterT1
<1>10. x \notin Cached /\ \E v \in Cached : Cached' = (Cached \ {v}) \cup {x}
  <2>1. Back(lists.T1) \in Cached /\ Back(lists.T1) \notin Elems(lists.T2)
    BY <1>0, <1>4 DEF Cached, OnePlaceIn, Disjoint
  <2>2. Cached' = (Cached \ {Back(lists.T1)}) \cup {x}
    BY <1>4, <1>7, <1>9, <2>1 DEF Cached
  <2> QED
    BY <1>0, <2>1, <2>2
<1>11. Sizes'
  BY <1>3, <1>4, <1>7, <1>9, DirectorySizes
<1> QED
  BY <1>3, <1>9, <1>10, <1>11 DEF Outcome

LEMMA MissFillsOutcome ==
  ASSUME Inv, NEW x \in Pages, MissFills(x)
  PROVE  Outcome(x)
<1> DEFINE t1 == Len(lists.T1) t2 == Len(lists.T2) b1 == Len(lists.B1) b2 == Len(lists.B2)
<1>0. lists \in Lists /\ OnePlaceIn(lists) /\ x \notin Cached \cup Ghosts
  BY DEF Inv, TypeOK, OnePlace, MissFills, Miss
<1>1. t1 \in Nat /\ t2 \in Nat /\ b1 \in Nat /\ b2 \in Nat
  BY <1>0, ListsType
<1>2. DirectoryOf(t1, t2, b1, b2) /\ t1 + b1 + t2 + b2 < c
  BY DirectorySizes DEF Inv, MissFills, L1Size, Total
<1>3. t1 + t2 < c /\ DirectoryOf(t1 + 1, t2, b1, b2)
  <2> HIDE DEF t1, t2, b1, b2
  <2> QED
    BY <1>1, <1>2, ARCAssumption DEF DirectoryOf
<1>4. lists' = WithT1(lists, x)
  BY DEF MissFills, WithT1
<1>5. /\ x \notin Elems(lists.T1) /\ x \notin Elems(lists.T2)
      /\ x \notin Elems(lists.B1) /\ x \notin Elems(lists.B2)
  BY <1>0 DEF Cached, Ghosts
<1>6. /\ lists' \in Lists /\ OnePlaceIn(lists')
      /\ Size(lists', t1 + 1, t2, b1, b2)
      /\ Elems(lists'.T1) = Elems(lists.T1) \cup {x}
      /\ lists'.T2 = lists.T2
  BY <1>0, <1>4, <1>5, EnterT1
<1>7. x \notin Cached /\ Cached' = Cached \cup {x}
  BY <1>5, <1>6 DEF Cached
<1>8. Sizes'
  BY <1>3, <1>6, DirectorySizes
<1> QED
  BY <1>3, <1>6, <1>7, <1>8 DEF Outcome

LEMMA RequestOutcome ==
  ASSUME Inv, NEW x \in Pages, Request(x)
  PROVE  Outcome(x)
BY HitT1Outcome, HitT2Outcome, GhostB1Outcome, GhostB2Outcome,
   MissDropsGhostOutcome, MissDropsPageOutcome, MissReplacesOutcome,
   MissFillsOutcome DEF Request

(***************************************************************************)
(* The moves                                                               *)
(***************************************************************************)

\* Whatever moves fail, a request leaves a set of pages on the fast node; if
\* none fails, the requested page is there afterwards and no other page leaves.
LEMMA MovesOutcome ==
  ASSUME NEW x \in Pages, fast \in SUBSET Pages,
         NEW f \in Demote(fast, x) \cup {fast}, NEW g \in Promote(f, x)
  PROVE  g \in SUBSET Pages /\ (~MovesMayFail => g = fast \cup {x})
BY DEF Demote, Promote, Outcomes

LEMMA RequestMoves ==
  ASSUME TypeOK, NEW x \in Pages, Request(x)
  PROVE  /\ fast' \in SUBSET Pages
         /\ ~MovesMayFail => /\ fast \subseteq fast'
                             /\ x \in Cached \/ x \in fast'
<1>1. fast \in SUBSET Pages
  BY DEF TypeOK
<1>2. CASE HitT1(x) \/ HitT2(x)
  BY <1>1, <1>2 DEF HitT1, HitT2, Cached
<1>3. CASE ~(HitT1(x) \/ HitT2(x))
  <2>1. PICK f \in Demote(fast, x) \cup {fast} : fast' \in Promote(f, x)
    BY <1>3 DEF Request, GhostB1, GhostB2, MissDropsGhost, MissDropsPage,
                MissReplaces, MissFills, AfterReplace
  <2> QED
    BY <1>1, <2>1, MovesOutcome
<1> QED
  BY <1>2, <1>3

(***************************************************************************)
(* The invariant                                                           *)
(***************************************************************************)

LEMMA RecentStep ==
  ASSUME TypeOK, NoRepeats(recent), NEW x \in Pages, Seen(x)
  PROVE  recent' \in Seq(Pages) /\ NoRepeats(recent')
<1>1. recent \in Seq(Pages)
  BY DEF TypeOK
<1>2. CASE x \in Elems(recent)
  <2>1. /\ Erase(recent, x) \in Seq(Pages) /\ NoRepeats(Erase(recent, x))
        /\ x \notin Elems(Erase(recent, x))
    BY <1>1, <1>2, EraseProperties
  <2> QED
    BY <1>2, <2>1, PushFrontProperties DEF Seen
<1>3. CASE x \notin Elems(recent)
  BY <1>1, <1>3, PushFrontProperties DEF Seen
<1> QED
  BY <1>2, <1>3

LEMMA TargetStep ==
  ASSUME TypeOK, NEW x \in Pages, Request(x)
  PROVE  p' \in 0 .. PUnit * c
<1>1. p \in 0 .. PUnit * c
  BY DEF TypeOK
<1>2. CASE GhostB1(x)
  <2>1. lists.B1 # << >>
    BY <1>2, EmptyList DEF GhostB1
  <2> QED
    BY <1>2, <2>1, TargetType DEF GhostB1
<1>3. CASE GhostB2(x)
  <2>1. lists.B2 # << >>
    BY <1>3, EmptyList DEF GhostB2
  <2> QED
    BY <1>3, <2>1, TargetType DEF GhostB2
<1>4. CASE ~(GhostB1(x) \/ GhostB2(x))
  BY <1>1, <1>4 DEF Request, HitT1, HitT2, Miss, MissDropsGhost, MissDropsPage,
                    MissReplaces, MissFills
<1> QED
  BY <1>2, <1>3, <1>4

LEMMA InvInit == Init => Inv
<1> SUFFICES ASSUME Init PROVE Inv
  OBVIOUS
<1>1. /\ lists.T1 = << >> /\ lists.T2 = << >> /\ lists.B1 = << >> /\ lists.B2 = << >>
      /\ lists \in Lists
  BY DEF Init, Lists
<1>2. OnePlace
  BY <1>1, EmptyList DEF OnePlace, OnePlaceIn, Disjoint
<1>3. Sizes
  BY <1>1, ARCAssumption DEF Sizes, L1Size, Total
<1>4. TypeOK /\ NoRepeats(recent)
  BY <1>1, EmptyList, ARCAssumption DEF Init, TypeOK
<1> QED
  BY <1>2, <1>3, <1>4 DEF Inv

LEMMA InvStep == Inv /\ [Next]_vars => Inv'
<1> SUFFICES ASSUME Inv, [Next]_vars PROVE Inv'
  OBVIOUS
<1>1. ASSUME NEW x \in Pages, Request(x) PROVE Inv'
  <2>1. lists' \in Lists /\ OnePlace' /\ Sizes'
    BY <1>1, RequestOutcome DEF Outcome, OnePlace
  <2>2. Seen(x)
    BY <1>1 DEF Request, HitT1, HitT2, GhostB1, GhostB2, MissDropsGhost,
                MissDropsPage, MissReplaces, MissFills, Miss
  <2> QED
    BY <1>1, <2>1, <2>2, RecentStep, TargetStep, RequestMoves DEF Inv, TypeOK
<1>2. CASE UNCHANGED vars
  BY <1>2 DEF vars, Inv, TypeOK, OnePlace, Sizes, L1Size, Total
<1> QED
  BY <1>1, <1>2 DEF Next

\* The lists hold pages, a page is at one place of one list, and the cache and
\* its directory keep to their sizes, for every capacity.
THEOREM DirectoryCorrect == Spec => [](TypeOK /\ Directory)
<1>1. Inv => TypeOK /\ Directory
  BY DEF Inv, Directory
<1> QED
  BY <1>1, InvInit, InvStep, PTL DEF Spec

LEMMA InvBack == Inv => BackExists
<1> SUFFICES ASSUME Inv PROVE BackExists
  OBVIOUS
<1> DEFINE t1 == Len(lists.T1) t2 == Len(lists.T2) b1 == Len(lists.B1) b2 == Len(lists.B2)
<1>1. /\ t1 \in Nat /\ t2 \in Nat /\ b1 \in Nat /\ b2 \in Nat
      /\ lists.B1 # << >> <=> b1 > 0
      /\ lists.B2 # << >> <=> b2 > 0
  BY ListsType DEF Inv, TypeOK
<1>2. DirectoryOf(t1, t2, b1, b2)
  BY DirectorySizes DEF Inv
<1>3. L1Size = t1 + b1 /\ Total = t1 + b1 + t2 + b2
  BY DEF L1Size, Total
<1>4. /\ t1 + b1 = c /\ t1 < c => b1 > 0
      /\ t1 + b1 < c /\ t1 + b1 + t2 + b2 >= 2 * c => b2 > 0
  <2> HIDE DEF t1, t2, b1, b2
  <2> QED
    BY <1>1, <1>2, ARCAssumption DEF DirectoryOf
<1> QED
  BY <1>1, <1>3, <1>4 DEF BackExists

\* request never takes the last element of an empty list.
THEOREM BackCorrect == Spec => []BackExists
BY InvBack, InvInit, InvStep, PTL DEF Spec

\* As long as no move fails, what the cache keeps is on the fast node.
THEOREM CachedOnFastCorrect == Spec => []CachedOnFast
<1>1. Init => CachedOnFast
  BY EmptyList DEF Init, CachedOnFast, Cached
<1>2. Inv /\ CachedOnFast /\ [Next]_vars => CachedOnFast'
  <2> SUFFICES ASSUME Inv, CachedOnFast, [Next]_vars PROVE CachedOnFast'
    OBVIOUS
  <2>1. ASSUME NEW x \in Pages, Request(x) PROVE CachedOnFast'
    <3>1. Cached' \subseteq Cached \cup {x}
      BY <2>1, RequestOutcome DEF Outcome
    <3>2. ~MovesMayFail => /\ fast \subseteq fast'
                           /\ x \in Cached \/ x \in fast'
      BY <2>1, RequestMoves DEF Inv
    <3> QED
      BY <3>1, <3>2 DEF CachedOnFast
  <2>2. CASE UNCHANGED vars
    BY <2>2 DEF vars, CachedOnFast, Cached
  <2> QED
    BY <2>1, <2>2 DEF Next
<1> QED
  BY <1>1, <1>2, InvInit, InvStep, PTL DEF Spec

(***************************************************************************)
(* The order of recency                                                    *)
(***************************************************************************)

\* a stands above b on the list s continued by its ghosts t.
Above(s, t, a, b) ==
  Before(s, a, b) \/ Before(t, a, b) \/ (a \in Elems(s) /\ b \in Elems(t))

Listed(L) == Elems(L.T1) \cup Elems(L.T2) \cup Elems(L.B1) \cup Elems(L.B2)

\* Every page on a list was requested, and the pages on each list and on its
\* ghosts stand in the order of their last requests.  RecencyOrder alone is
\* not inductive: it does not say that a page alone on its list was requested.
OrderInv ==
  /\ Listed(lists) \subseteq Elems(recent)
  /\ \A a, b : Above(lists.T1, lists.B1, a, b) => Before(recent, a, b)
  /\ \A a, b : Above(lists.T2, lists.B2, a, b) => Before(recent, a, b)

\* M has no page and no order that L does not have.
Keeps(L, M) ==
  /\ Listed(M) \subseteq Listed(L)
  /\ \A a, b : Above(M.T1, M.B1, a, b) => Above(L.T1, L.B1, a, b)
  /\ \A a, b : Above(M.T2, M.B2, a, b) => Above(L.T2, L.B2, a, b)

Sublist(s, t) ==
  /\ Elems(s) \subseteq Elems(t)
  /\ \A a, b : Before(s, a, b) => Before(t, a, b)

LEMMA KeepsTransitive ==
  ASSUME NEW L, NEW M, NEW N, Keeps(L, M), Keeps(M, N)
  PROVE  Keeps(L, N)
BY DEF Keeps

LEMMA KeepsShrink ==
  ASSUME NEW L \in Lists, NEW s \in Seq(Pages), NEW M
  PROVE  /\ M = [L EXCEPT !.T1 = s] /\ Sublist(s, L.T1) => Keeps(L, M) /\ M \in Lists
         /\ M = [L EXCEPT !.T2 = s] /\ Sublist(s, L.T2) => Keeps(L, M) /\ M \in Lists
         /\ M = [L EXCEPT !.B1 = s] /\ Sublist(s, L.B1) => Keeps(L, M) /\ M \in Lists
         /\ M = [L EXCEPT !.B2 = s] /\ Sublist(s, L.B2) => Keeps(L, M) /\ M \in Lists
<1>1. ASSUME M = [L EXCEPT !.T1 = s], Sublist(s, L.T1)
      PROVE  Keeps(L, M) /\ M \in Lists
  <2>1. M.T1 = s /\ M.T2 = L.T2 /\ M.B1 = L.B1 /\ M.B2 = L.B2 /\ M \in Lists
    BY <1>1 DEF Lists
  <2> QED
    BY <1>1, <2>1 DEF Keeps, Listed, Above, Sublist
<1>2. ASSUME M = [L EXCEPT !.T2 = s], Sublist(s, L.T2)
      PROVE  Keeps(L, M) /\ M \in Lists
  <2>1. M.T2 = s /\ M.T1 = L.T1 /\ M.B1 = L.B1 /\ M.B2 = L.B2 /\ M \in Lists
    BY <1>2 DEF Lists
  <2> QED
    BY <1>2, <2>1 DEF Keeps, Listed, Above, Sublist
<1>3. ASSUME M = [L EXCEPT !.B1 = s], Sublist(s, L.B1)
      PROVE  Keeps(L, M) /\ M \in Lists
  <2>1. M.B1 = s /\ M.T1 = L.T1 /\ M.T2 = L.T2 /\ M.B2 = L.B2 /\ M \in Lists
    BY <1>3 DEF Lists
  <2> QED
    BY <1>3, <2>1 DEF Keeps, Listed, Above, Sublist
<1>4. ASSUME M = [L EXCEPT !.B2 = s], Sublist(s, L.B2)
      PROVE  Keeps(L, M) /\ M \in Lists
  <2>1. M.B2 = s /\ M.T1 = L.T1 /\ M.T2 = L.T2 /\ M.B1 = L.B1 /\ M \in Lists
    BY <1>4 DEF Lists
  <2> QED
    BY <1>4, <2>1 DEF Keeps, Listed, Above, Sublist
<1> QED
  BY <1>1, <1>2, <1>3, <1>4

\* The last page of a list, pushed to the front of its ghosts, stays where it
\* is in their common order.
LEMMA EvictionOrder ==
  ASSUME NEW s \in Seq(Pages), s # << >>, NEW t \in Seq(Pages)
  PROVE  /\ PopBack(s) \in Seq(Pages)
         /\ PushFront(Back(s), t) \in Seq(Pages)
         /\ Elems(PopBack(s)) \cup Elems(PushFront(Back(s), t)) \subseteq
              Elems(s) \cup Elems(t)
         /\ \A a, b : Above(PopBack(s), PushFront(Back(s), t), a, b) =>
              Above(s, t, a, b)
<1>1. /\ PopBack(s) \in Seq(Pages)
      /\ Back(s) \in Elems(s) /\ Back(s) \in Pages
      /\ Elems(PopBack(s)) \subseteq Elems(s)
  BY PopBackProperties, NonEmptyList
<1>2. /\ PushFront(Back(s), t) \in Seq(Pages)
      /\ Elems(PushFront(Back(s), t)) = Elems(t) \cup {Back(s)}
  BY <1>1, PushFrontProperties
<1>3. /\ \A a, b : Before(PopBack(s), a, b) => Before(s, a, b)
      /\ \A a \in Elems(PopBack(s)) : Before(s, a, Back(s))
  BY PopBackOrder
<1>4. ASSUME NEW a, NEW b, Before(PushFront(Back(s), t), a, b)
      PROVE  Above(s, t, a, b)
  <2>1. (a = Back(s) /\ b \in Elems(t)) \/ Before(t, a, b)
    BY <1>1, <1>4, PushFrontOrder
  <2> QED
    BY <1>1, <2>1 DEF Above
<1> QED
  BY <1>1, <1>2, <1>3, <1>4 DEF Above

LEMMA KeepsReplace ==
  ASSUME NEW L \in Lists, NEW q, NEW x
  PROVE  Keeps(L, Replace(L, q, x)) /\ Replace(L, q, x) \in Lists
<1> DEFINE M == Replace(L, q, x)
<1>1. CASE TakesT1(L, q, x)
  <2>1. L.T1 # << >>
    BY <1>1 DEF TakesT1
  <2>2. M = [L EXCEPT !.T1 = PopBack(@), !.B1 = PushFront(Back(L.T1), @)]
    BY <1>1 DEF Replace
  <2>3. /\ M.T1 = PopBack(L.T1) /\ M.B1 = PushFront(Back(L.T1), L.B1)
        /\ M.T2 = L.T2 /\ M.B2 = L.B2
    BY <2>2 DEF Lists
  <2>4. /\ M.T1 \in Seq(Pages) /\ M.B1 \in Seq(Pages)
        /\ Elems(M.T1) \cup Elems(M.B1) \subseteq Elems(L.T1) \cup Elems(L.B1)
        /\ \A a, b : Above(M.T1, M.B1, a, b) => Above(L.T1, L.B1, a, b)
    BY <2>1, <2>3, ListsType, EvictionOrder
  <2>5. M \in Lists
    BY <2>2, <2>3, <2>4 DEF Lists
  <2> HIDE DEF M
  <2>6. Keeps(L, M)
    BY <2>3, <2>4 DEF Keeps, Listed
  <2> QED
    BY <2>5, <2>6 DEF M
<1>2. CASE ~TakesT1(L, q, x) /\ L.T2 # << >>
  <2>2. M = [L EXCEPT !.T2 = PopBack(@), !.B2 = PushFront(Back(L.T2), @)]
    BY <1>2 DEF Replace
  <2>3. /\ M.T2 = PopBack(L.T2) /\ M.B2 = PushFront(Back(L.T2), L.B2)
        /\ M.T1 = L.T1 /\ M.B1 = L.B1
    BY <2>2 DEF Lists
  <2>4. /\ M.T2 \in Seq(Pages) /\ M.B2 \in Seq(Pages)
        /\ Elems(M.T2) \cup Elems(M.B2) \subseteq Elems(L.T2) \cup Elems(L.B2)
        /\ \A a, b : Above(M.T2, M.B2, a, b) => Above(L.T2, L.B2, a, b)
    BY <1>2, <2>3, ListsType, EvictionOrder
  <2>5. M \in Lists
    BY <2>2, <2>3, <2>4 DEF Lists
  <2> HIDE DEF M
  <2>6. Keeps(L, M)
    BY <2>3, <2>4 DEF Keeps, Listed
  <2> QED
    BY <2>5, <2>6 DEF M
<1>3. CASE ~TakesT1(L, q, x) /\ ~(L.T2 # << >>)
  <2>1. M = L
    BY <1>3 DEF Replace
  <2> QED
    BY <2>1 DEF Keeps
<1> QED
  BY <1>1, <1>2, <1>3

LEMMA EraseSublist ==
  ASSUME NEW s \in Seq(Pages), NoRepeats(s), NEW x \in Elems(s)
  PROVE  /\ Erase(s, x) \in Seq(Pages)
         /\ Sublist(Erase(s, x), s)
         /\ x \notin Elems(Erase(s, x))
BY EraseProperties, EraseOrder DEF Sublist

LEMMA PopBackSublist ==
  ASSUME NEW s \in Seq(Pages), s # << >>
  PROVE  PopBack(s) \in Seq(Pages) /\ Sublist(PopBack(s), s)
BY PopBackProperties, PopBackOrder DEF Sublist

\* What a request does to the lists: it takes its page off them, keeps the
\* order of the others, and puts its page in front of T1 or of T2.
Refronted(x) ==
  \E M \in Lists :
    /\ Keeps(lists, M)
    /\ x \notin Listed(M)
    /\ \/ lists' = WithT1(M, x)
       \/ lists' = [M EXCEPT !.T2 = PushFront(x, @)]

LEMMA HitRefronted ==
  ASSUME Inv, NEW x \in Pages, HitT1(x) \/ HitT2(x)
  PROVE  Refronted(x)
<1>1. lists \in Lists /\ OnePlaceIn(lists)
  BY DEF Inv, TypeOK, OnePlace
<1>2. CASE HitT1(x)
  <2> DEFINE s == Erase(lists.T1, x)
  <2> DEFINE M == [lists EXCEPT !.T1 = s]
  <2>1. x \in Elems(lists.T1) /\ NoRepeats(lists.T1)
    BY <1>1, <1>2 DEF HitT1, OnePlaceIn
  <2>2. s \in Seq(Pages) /\ Sublist(s, lists.T1) /\ x \notin Elems(s)
    BY <1>1, <2>1, ListsType, EraseSublist
  <2>3. lists' = [M EXCEPT !.T2 = PushFront(x, @)]
    BY <1>1, <1>2 DEF HitT1, Lists
  <2> HIDE DEF s
  <2>4. Keeps(lists, M) /\ M \in Lists
    BY <1>1, <2>2, KeepsShrink
  <2>5. M.T1 = s /\ M.T2 = lists.T2 /\ M.B1 = lists.B1 /\ M.B2 = lists.B2
    BY <1>1 DEF Lists
  <2> HIDE DEF M
  <2>6. x \notin Listed(M)
    BY <1>1, <2>1, <2>2, <2>5 DEF Listed, OnePlaceIn, Disjoint
  <2> QED
    BY <2>3, <2>4, <2>6 DEF Refronted
<1>3. CASE HitT2(x)
  <2> DEFINE s == Erase(lists.T2, x)
  <2> DEFINE M == [lists EXCEPT !.T2 = s]
  <2>1. x \in Elems(lists.T2) /\ NoRepeats(lists.T2)
    BY <1>1, <1>3 DEF HitT2, OnePlaceIn
  <2>2. s \in Seq(Pages) /\ Sublist(s, lists.T2) /\ x \notin Elems(s)
    BY <1>1, <2>1, ListsType, EraseSublist
  <2>3. lists' = [M EXCEPT !.T2 = PushFront(x, @)]
    BY <1>1, <1>3 DEF HitT2, Lists
  <2> HIDE DEF s
  <2>4. Keeps(lists, M) /\ M \in Lists
    BY <1>1, <2>2, KeepsShrink
  <2>5. M.T2 = s /\ M.T1 = lists.T1 /\ M.B1 = lists.B1 /\ M.B2 = lists.B2
    BY <1>1 DEF Lists
  <2> HIDE DEF M
  <2>6. x \notin Listed(M)
    BY <1>1, <2>1, <2>2, <2>5 DEF Listed, OnePlaceIn, Disjoint
  <2> QED
    BY <2>3, <2>4, <2>6 DEF Refronted
<1> QED
  BY <1>2, <1>3

\* The lists a ghost hit leaves, whether or not an eviction comes first.
LEMMA GhostRefronted ==
  ASSUME Inv, NEW x \in Pages, GhostB1(x) \/ GhostB2(x)
  PROVE  Refronted(x)
<1> DEFINE L == Replace(lists, p', x)
<1>1. lists \in Lists /\ OnePlaceIn(lists)
  BY DEF Inv, TypeOK, OnePlace
<1>2. Keeps(lists, L) /\ L \in Lists
  BY <1>1, KeepsReplace
<1>3. /\ OnePlaceIn(L)
      /\ Elems(lists.B1) \subseteq Elems(L.B1)
      /\ Elems(lists.B2) \subseteq Elems(L.B2)
  <2>1. CASE TakesT1(lists, p', x) \/ lists.T2 # << >>
    <3>1. OnePlaceIn(L) /\ (EvictsT1(lists, L) \/ EvictsT2(lists, L))
      BY <1>1, <2>1, ReplaceProperties
    <3> HIDE DEF L
    <3> QED
      BY <3>1 DEF EvictsT1, EvictsT2
  <2>2. CASE ~(TakesT1(lists, p', x) \/ lists.T2 # << >>)
    <3>1. L = lists
      BY <2>2 DEF Replace
    <3> QED
      BY <1>1, <3>1
  <2> QED
    BY <2>1, <2>2
<1>4. CASE GhostB1(x)
  <2> DEFINE s == Erase(L.B1, x)
  <2> DEFINE M == [L EXCEPT !.B1 = s]
  <2>1. lists' = [L EXCEPT !.B1 = Erase(@, x), !.T2 = PushFront(x, @)]
    BY <1>4 DEF GhostB1
  <2>2. x \in Elems(lists.B1)
    BY <1>4 DEF GhostB1
  <2> HIDE DEF L
  <2>3. x \in Elems(L.B1) /\ NoRepeats(L.B1)
    BY <1>3, <2>2 DEF OnePlaceIn
  <2>4. s \in Seq(Pages) /\ Sublist(s, L.B1) /\ x \notin Elems(s)
    BY <1>2, <2>3, ListsType, EraseSublist
  <2>5. lists' = [M EXCEPT !.T2 = PushFront(x, @)]
    BY <1>2, <2>1 DEF Lists
  <2> HIDE DEF s
  <2>6. Keeps(L, M) /\ M \in Lists
    BY <1>2, <2>4, KeepsShrink
  <2>7. M.B1 = s /\ M.T1 = L.T1 /\ M.T2 = L.T2 /\ M.B2 = L.B2
    BY <1>2 DEF Lists
  <2> HIDE DEF M
  <2>8. x \notin Listed(M)
    BY <1>3, <2>3, <2>4, <2>7 DEF Listed, OnePlaceIn, Disjoint
  <2>9. Keeps(lists, M)
    BY <1>2, <2>6, KeepsTransitive
  <2> QED
    BY <2>5, <2>6, <2>8, <2>9 DEF Refronted
<1>5. CASE GhostB2(x)
  <2> DEFINE s == Erase(L.B2, x)
  <2> DEFINE M == [L EXCEPT !.B2 = s]
  <2>1. lists' = [L EXCEPT !.B2 = Erase(@, x), !.T2 = PushFront(x, @)]
    BY <1>5 DEF GhostB2
  <2>2. x \in Elems(lists.B2)
    BY <1>5 DEF GhostB2
  <2> HIDE DEF L
  <2>3. x \in Elems(L.B2) /\ NoRepeats(L.B2)
    BY <1>3, <2>2 DEF OnePlaceIn
  <2>4. s \in Seq(Pages) /\ Sublist(s, L.B2) /\ x \notin Elems(s)
    BY <1>2, <2>3, ListsType, EraseSublist
  <2>5. lists' = [M EXCEPT !.T2 = PushFront(x, @)]
    BY <1>2, <2>1 DEF Lists
  <2> HIDE DEF s
  <2>6. Keeps(L, M) /\ M \in Lists
    BY <1>2, <2>4, KeepsShrink
  <2>7. M.B2 = s /\ M.T1 = L.T1 /\ M.T2 = L.T2 /\ M.B1 = L.B1
    BY <1>2 DEF Lists
  <2> HIDE DEF M
  <2>8. x \notin Listed(M)
    BY <1>3, <2>3, <2>4, <2>7 DEF Listed, OnePlaceIn, Disjoint
  <2>9. Keeps(lists, M)
    BY <1>2, <2>6, KeepsTransitive
  <2> QED
    BY <2>5, <2>6, <2>8, <2>9 DEF Refronted
<1> QED
  BY <1>4, <1>5

\* A miss: the page is on no list, and the lists lose at most their ends.
LEMMA MissRefronted ==
  ASSUME Inv, NEW x \in Pages,
         \/ MissDropsGhost(x) \/ MissDropsPage(x)
         \/ MissReplaces(x) \/ MissFills(x)
  PROVE  Refronted(x)
<1>1. lists \in Lists
  BY DEF Inv, TypeOK
<1>2. x \notin Listed(lists)
  BY DEF MissDropsGhost, MissDropsPage, MissReplaces, MissFills, Miss,
         Listed, Cached, Ghosts
<1>3. ASSUME NEW M \in Lists, Keeps(lists, M), lists' = WithT1(M, x)
      PROVE  Refronted(x)
  BY <1>2, <1>3 DEF Refronted, Keeps
<1>4. ASSUME NEW M \in Lists, Keeps(lists, M),
             lists' = WithT1(Replace(M, p, x), x)
      PROVE  Refronted(x)
  <2>1. Keeps(M, Replace(M, p, x)) /\ Replace(M, p, x) \in Lists
    BY KeepsReplace
  <2>2. Keeps(lists, Replace(M, p, x))
    BY <1>4, <2>1, KeepsTransitive
  <2> QED
    BY <1>3, <1>4, <2>1, <2>2
<1>5. Keeps(lists, lists)
  BY DEF Keeps
<1>6. CASE MissDropsGhost(x)
  <2> DEFINE s == PopBack(lists.B1)
  <2> DEFINE M == [lists EXCEPT !.B1 = s]
  <2>1. lists.B1 # << >>
    BY <1>6, InvBack DEF BackExists, MissDropsGhost
  <2>2. s \in Seq(Pages) /\ Sublist(s, lists.B1)
    BY <1>1, <2>1, ListsType, PopBackSublist
  <2>3. lists' = WithT1(Replace(M, p, x), x)
    BY <1>1, <1>6 DEF MissDropsGhost, WithT1
  <2> HIDE DEF s
  <2>4. Keeps(lists, M) /\ M \in Lists
    BY <1>1, <2>2, KeepsShrink
  <2> HIDE DEF M
  <2> QED
    BY <1>4, <2>3, <2>4
<1>7. CASE MissDropsPage(x)
  <2> DEFINE s == PopBack(lists.T1)
  <2> DEFINE M == [lists EXCEPT !.T1 = s]
  <2>1. lists.T1 # << >>
    BY <1>1, <1>7, ListsType, ARCAssumption DEF MissDropsPage
  <2>2. s \in Seq(Pages) /\ Sublist(s, lists.T1)
    BY <1>1, <2>1, ListsType, PopBackSublist
  <2>3. lists' = WithT1(M, x)
    BY <1>1, <1>7 DEF MissDropsPage, WithT1, Lists
  <2> HIDE DEF s
  <2>4. Keeps(lists, M) /\ M \in Lists
    BY <1>1, <2>2, KeepsShrink
  <2> HIDE DEF M
  <2> QED
    BY <1>3, <2>3, <2>4
<1>8. CASE MissReplaces(x)
  <2>1. lists' = WithT1(Replace(Trim(lists), p, x), x)
    BY <1>8 DEF MissReplaces, WithT1
  <2>2. CASE Total >= 2 * c
    <3> DEFINE s == PopBack(lists.B2)
    <3>1. lists.B2 # << >>
      BY <1>8, <2>2, InvBack DEF BackExists, MissReplaces
    <3>2. s \in Seq(Pages) /\ Sublist(s, lists.B2)
      BY <1>1, <3>1, ListsType, PopBackSublist
    <3>3. Trim(lists) = [lists EXCEPT !.B2 = s]
      BY <2>2 DEF Trim
    <3> HIDE DEF s
    <3>4. Keeps(lists, Trim(lists)) /\ Trim(lists) \in Lists
      BY <1>1, <3>2, <3>3, KeepsShrink
    <3> QED
      BY <1>4, <2>1, <3>4
  <2>3. CASE ~(Total >= 2 * c)
    <3>1. Trim(lists) = lists
      BY <2>3 DEF Trim
    <3> QED
      BY <1>1, <1>4, <1>5, <2>1, <3>1
  <2> QED
    BY <2>2, <2>3
<1>9. CASE MissFills(x)
  <2>1. lists' = WithT1(lists, x)
    BY <1>9 DEF MissFills, WithT1
  <2> QED
    BY <1>1, <1>3, <1>5, <2>1
<1> QED
  BY <1>6, <1>7, <1>8, <1>9

\* The history after a request: its page first, the others in their order.
LEMMA RecentOrder ==
  ASSUME TypeOK, NoRepeats(recent), NEW x \in Pages, Seen(x)
  PROVE  /\ Elems(recent') = Elems(recent) \cup {x}
         /\ \A b \in Elems(recent) : b # x => Before(recent', x, b)
         /\ \A a, b : Before(recent, a, b) /\ b # x => Before(recent', a, b)
<1> DEFINE r == IF x \in Elems(recent) THEN Erase(recent, x) ELSE recent
<1>1. recent \in Seq(Pages)
  BY DEF TypeOK
<1>2. /\ r \in Seq(Pages)
      /\ Elems(r) = Elems(recent) \ {x}
      /\ \A a, b : Before(recent, a, b) /\ a # x /\ b # x => Before(r, a, b)
  <2>1. CASE x \in Elems(recent)
    BY <1>1, <2>1, EraseProperties, EraseOrder
  <2>2. CASE x \notin Elems(recent)
    BY <1>1, <2>2
  <2> QED
    BY <2>1, <2>2
<1>3. recent' = PushFront(x, r)
  BY DEF Seen
<1> HIDE DEF r
<1>4. Elems(recent') = Elems(r) \cup {x}
  <2>1. r \in Seq(Pages)
    BY <1>2
  <2>2. Elems(PushFront(x, r)) = Elems(r) \cup {x}
    BY <2>1, PushFrontProperties
  <2> QED
    BY <1>3, <2>2
<1>5. \A a, b : (a = x /\ b \in Elems(r)) \/ Before(r, a, b) => Before(recent', a, b)
  BY <1>2, <1>3, PushFrontOrder
<1>6. ASSUME NEW a, NEW b, Before(recent, a, b), b # x
      PROVE  Before(recent', a, b)
  <2>1. b \in Elems(recent)
    BY <1>6, BeforeElems
  <2> QED
    BY <1>2, <1>5, <1>6, <2>1
<1> QED
  BY <1>2, <1>4, <1>5, <1>6

\* A page in front of a list stands above the pages below it, and nothing
\* else changes.
LEMMA EnterAbove ==
  ASSUME NEW s \in Seq(Pages), NEW t, NEW x \in Pages, NEW a, NEW b,
         Above(PushFront(x, s), t, a, b)
  PROVE  (a = x /\ b \in Elems(s) \cup Elems(t)) \/ Above(s, t, a, b)
<1>1. Elems(PushFront(x, s)) = Elems(s) \cup {x}
  BY PushFrontProperties
<1>2. Before(PushFront(x, s), a, b) => (a = x /\ b \in Elems(s)) \/ Before(s, a, b)
  BY PushFrontOrder
<1> QED
  BY <1>1, <1>2 DEF Above

LEMMA AboveElems ==
  ASSUME NEW s, NEW t, NEW a, NEW b, Above(s, t, a, b)
  PROVE  b \in Elems(s) \cup Elems(t)
BY BeforeElems DEF Above

LEMMA OrderStep ==
  ASSUME Inv, OrderInv, NEW x \in Pages, Refronted(x), Seen(x)
  PROVE  OrderInv'
<1>1. PICK M \in Lists :
        /\ Keeps(lists, M)
        /\ x \notin Listed(M)
        /\ \/ lists' = WithT1(M, x)
           \/ lists' = [M EXCEPT !.T2 = PushFront(x, @)]
  BY DEF Refronted
<1>2. /\ Elems(recent') = Elems(recent) \cup {x}
      /\ \A b \in Elems(recent) : b # x => Before(recent', x, b)
      /\ \A a, b : Before(recent, a, b) /\ b # x => Before(recent', a, b)
  BY RecentOrder DEF Inv
<1>3. Listed(M) \subseteq Elems(recent)
  BY <1>1 DEF OrderInv, Keeps
\* What M keeps is ordered by the new history, and x comes before all of it.
<1>4. \A b \in Listed(M) : Before(recent', x, b)
  BY <1>1, <1>2, <1>3
<1>5. /\ \A a, b : Above(M.T1, M.B1, a, b) => Before(recent', a, b)
      /\ \A a, b : Above(M.T2, M.B2, a, b) => Before(recent', a, b)
  <2>1. /\ \A a, b : Above(M.T1, M.B1, a, b) => b # x /\ Before(recent, a, b)
        /\ \A a, b : Above(M.T2, M.B2, a, b) => b # x /\ Before(recent, a, b)
    BY <1>1, AboveElems DEF OrderInv, Keeps, Listed
  <2> QED
    BY <1>2, <2>1
<1>6. CASE lists' = WithT1(M, x)
  <2>1. /\ lists'.T1 = PushFront(x, M.T1) /\ lists'.T2 = M.T2
        /\ lists'.B1 = M.B1 /\ lists'.B2 = M.B2
    BY <1>6 DEF WithT1, Lists
  <2>2. M.T1 \in Seq(Pages)
    BY ListsType
  <2>3. Elems(PushFront(x, M.T1)) = Elems(M.T1) \cup {x}
    BY <2>2, PushFrontProperties
  <2>4. Listed(lists') = Listed(M) \cup {x}
    BY <2>1, <2>3 DEF Listed
  <2>5. \A a, b : Above(PushFront(x, M.T1), M.B1, a, b) =>
          (a = x /\ b \in Listed(M)) \/ Above(M.T1, M.B1, a, b)
    BY <2>2, EnterAbove DEF Listed
  <2> QED
    BY <1>2, <1>3, <1>4, <1>5, <2>1, <2>4, <2>5 DEF OrderInv
<1>7. CASE lists' = [M EXCEPT !.T2 = PushFront(x, @)]
  <2>1. /\ lists'.T2 = PushFront(x, M.T2) /\ lists'.T1 = M.T1
        /\ lists'.B1 = M.B1 /\ lists'.B2 = M.B2
    BY <1>7 DEF Lists
  <2>2. M.T2 \in Seq(Pages)
    BY ListsType
  <2>3. Elems(PushFront(x, M.T2)) = Elems(M.T2) \cup {x}
    BY <2>2, PushFrontProperties
  <2>4. Listed(lists') = Listed(M) \cup {x}
    BY <2>1, <2>3 DEF Listed
  <2>5. \A a, b : Above(PushFront(x, M.T2), M.B2, a, b) =>
          (a = x /\ b \in Listed(M)) \/ Above(M.T2, M.B2, a, b)
    BY <2>2, EnterAbove DEF Listed
  <2> QED
    BY <1>2, <1>3, <1>4, <1>5, <2>1, <2>4, <2>5 DEF OrderInv
<1> QED
  BY <1>1, <1>6, <1>7

\* Read along a list and on along its ghosts, the order is that of Above.
LEMMA AboveOnLists ==
  ASSUME NEW s \in Seq(Pages), NEW t \in Seq(Pages),
         NEW i \in DOMAIN (s \o t), NEW j \in DOMAIN (s \o t), i < j
  PROVE  Above(s, t, (s \o t)[i], (s \o t)[j])
<1> DEFINE u == s \o t
<1>1. /\ Len(s) \in Nat /\ Len(t) \in Nat
      /\ DOMAIN s = 1 .. Len(s) /\ DOMAIN t = 1 .. Len(t)
      /\ DOMAIN u = 1 .. Len(s) + Len(t)
  OBVIOUS
<1>2. \A k \in DOMAIN u : \/ k \in DOMAIN s /\ u[k] = s[k]
                          \/ k > Len(s) /\ k - Len(s) \in DOMAIN t
                             /\ u[k] = t[k - Len(s)]
  BY <1>1
<1>3. i \in Nat /\ j \in Nat /\ i \in DOMAIN u /\ j \in DOMAIN u
  BY <1>1
<1> HIDE DEF u
<1>4. CASE i \in DOMAIN s /\ u[i] = s[i] /\ j \in DOMAIN s /\ u[j] = s[j]
  BY <1>4 DEF Above, Before
<1>5. CASE i \in DOMAIN s /\ u[i] = s[i] /\ j - Len(s) \in DOMAIN t /\ u[j] = t[j - Len(s)]
  BY <1>5 DEF Above, Elems
<1>6. CASE /\ i - Len(s) \in DOMAIN t /\ u[i] = t[i - Len(s)]
           /\ j - Len(s) \in DOMAIN t /\ u[j] = t[j - Len(s)]
  <2>1. i - Len(s) < j - Len(s)
    BY <1>1, <1>3
  <2> QED
    BY <1>6, <2>1 DEF Above, Before
<1>7. ~(i > Len(s) /\ j \in DOMAIN s)
  BY <1>1, <1>3
<1>8. Above(s, t, u[i], u[j])
  BY <1>2, <1>3, <1>4, <1>5, <1>6, <1>7
<1> QED
  BY <1>8 DEF u

\* A page in T1 was requested later than any ghost in B1 and than the pages
\* behind it in T1, and likewise for T2 and B2.
THEOREM RecencyCorrect == Spec => []RecencyOrder
<1>1. Init => OrderInv
  <2> SUFFICES ASSUME Init PROVE OrderInv
    OBVIOUS
  <2>1. /\ lists.T1 = << >> /\ lists.T2 = << >> /\ lists.B1 = << >> /\ lists.B2 = << >>
        /\ Elems(<< >>) = {}
    BY EmptyList DEF Init
  <2> QED
    BY <2>1, AboveElems DEF OrderInv, Listed
<1>2. Inv /\ OrderInv /\ [Next]_vars => OrderInv'
  <2> SUFFICES ASSUME Inv, OrderInv, [Next]_vars PROVE OrderInv'
    OBVIOUS
  <2>1. ASSUME NEW x \in Pages, Request(x) PROVE OrderInv'
    <3>1. Seen(x)
      BY <2>1 DEF Request, HitT1, HitT2, GhostB1, GhostB2, MissDropsGhost,
                  MissDropsPage, MissReplaces, MissFills, Miss
    <3>2. Refronted(x)
      BY <2>1, HitRefronted, GhostRefronted, MissRefronted DEF Request
    <3> QED
      BY <3>1, <3>2, OrderStep
  <2>2. CASE UNCHANGED vars
    BY <2>2 DEF vars, OrderInv
  <2> QED
    BY <2>1, <2>2 DEF Next
<1>3. Inv /\ OrderInv => RecencyOrder
  <2> SUFFICES ASSUME Inv, OrderInv PROVE RecencyOrder
    OBVIOUS
  <2>1. lists \in Lists
    BY DEF Inv, TypeOK
  <2>2. \A a, b : Before(recent, a, b) => MoreRecent(a, b)
    BY DEF Before, MoreRecent
  <2>3. \A i, j \in DOMAIN (lists.T1 \o lists.B1) : i < j =>
          MoreRecent((lists.T1 \o lists.B1)[i], (lists.T1 \o lists.B1)[j])
    BY <2>1, <2>2, ListsType, AboveOnLists DEF OrderInv
  <2>4. \A i, j \in DOMAIN (lists.T2 \o lists.B2) : i < j =>
          MoreRecent((lists.T2 \o lists.B2)[i], (lists.T2 \o lists.B2)[j])
    BY <2>1, <2>2, ListsType, AboveOnLists DEF OrderInv
  <2> QED
    BY <2>3, <2>4 DEF RecencyOrder
<1> QED
  BY <1>1, <1>2, <1>3, InvInit, InvStep, PTL DEF Spec

(***************************************************************************)
(* Refinement                                                              *)
(***************************************************************************)

LEMMA CachedSize ==
  ASSUME lists \in Lists, OnePlace
  PROVE  Cardinality(Cached) = Len(lists.T1) + Len(lists.T2)
<1>1. /\ lists.T1 \in Seq(Pages) /\ lists.T2 \in Seq(Pages)
      /\ Len(lists.T1) \in Nat /\ Len(lists.T2) \in Nat
  BY ListsType
<1>2. /\ IsFiniteSet(Elems(lists.T1)) /\ Cardinality(Elems(lists.T1)) = Len(lists.T1)
      /\ IsFiniteSet(Elems(lists.T2)) /\ Cardinality(Elems(lists.T2)) = Len(lists.T2)
  BY <1>1, ElemsCardinality DEF OnePlace, OnePlaceIn
<1>3. Elems(lists.T1) \cap Elems(lists.T2) = {}
  BY DEF OnePlace, OnePlaceIn, Disjoint
<1>4. Cardinality(Elems(lists.T1) \cap Elems(lists.T2)) = 0
  BY <1>3, FS_EmptySet
<1>5. Cardinality(Elems(lists.T1) \cup Elems(lists.T2)) =
        Cardinality(Elems(lists.T1)) + Cardinality(Elems(lists.T2))
          - Cardinality(Elems(lists.T1) \cap Elems(lists.T2))
  BY <1>2, FS_Union
<1> QED
  BY <1>1, <1>2, <1>4, <1>5 DEF Cached

\* The cache implements TierCache: it fills up to its capacity, then every
\* page that enters it takes the place of exactly one other.
THEOREM TierCacheCorrect == Spec => ImplementsTierCache
<1>1. Init => Cache!Init
  BY EmptyList DEF Init, Cache!Init, Cached
<1>2. Inv /\ [Next]_vars => [Cache!Next]_Cached
  <2> SUFFICES ASSUME Inv, [Next]_vars PROVE [Cache!Next]_Cached
    OBVIOUS
  <2>1. ASSUME NEW x \in Pages, Request(x) PROVE Cache!Next
    <3>1. Outcome(x)
      BY <2>1, RequestOutcome
    <3>2. Cardinality(Cached) = Len(lists.T1) + Len(lists.T2)
      BY CachedSize DEF Inv, TypeOK
    <3>3. Cache!Cardinality(Cached) = Cardinality(Cached)
      BY DEF Cache!Cardinality, Cardinality
    <3>4. Cache!Hit(x) \/ Cache!Admit(x) \/ Cache!Exchange(x)
      BY <3>1, <3>2, <3>3 DEF Outcome, Cache!Hit, Cache!Admit, Cache!Exchange
    <3> QED
      BY <3>4 DEF Cache!Next
  <2>2. CASE UNCHANGED vars
    BY <2>2 DEF vars, Cached
  <2> QED
    BY <2>1, <2>2 DEF Next
<1> QED
  BY <1>1, <1>2, InvInit, InvStep, PTL DEF Spec, ImplementsTierCache, Cache!Spec
=============================================================================
