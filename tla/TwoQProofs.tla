----------------------------- MODULE TwoQProofs -----------------------------
(***************************************************************************)
(* Proofs about the 2Q cache, for every capacity and every set of pages:   *)
(* lists and maps agree on where a page is, pages are evicted in the order *)
(* 2Q promises, the fast node holds what the lists say, and the cache      *)
(* implements TierCache.                                                   *)
(***************************************************************************)
EXTENDS TwoQ, DataLemmas

Inv == TypeOK /\ Directory /\ NoRepeats(recent)

(***************************************************************************)
(* The invariant, said of any lists L                                      *)
(***************************************************************************)

CachedOf(L) == Elems(L.Am) \cup Elems(L.A1in)

Sound(L) ==
  /\ L \in Lists
  /\ NoRepeats(L.Am)
  /\ NoRepeats(L.A1in)
  /\ Disjoint(L.Am, L.A1in)
  /\ L.A1outMap \cap CachedOf(L) = {}
  /\ L.A1outMap \subseteq Elems(L.A1out)
  /\ Len(L.A1out) <= Kout

Used(L) == Len(L.Am) + Len(L.A1in)

LEMMA InvSound ==
  /\ Inv <=> /\ Sound(lists) /\ Used(lists) <= maxSize /\ fast \in SUBSET Pages
             /\ recent \in Seq(Pages) /\ NoRepeats(recent)
  /\ Cached = CachedOf(lists)
BY DEF Inv, TypeOK, Directory, OnePlace, GhostsListed, Sound, Used, Cached, CachedOf

LEMMA SizesType == maxSize \in Nat /\ maxSize > 0 /\ Kin \in Nat /\ Kout \in Nat /\ Kin < maxSize
BY TwoQAssumption DEF Kin, Kout

LEMMA ListsType ==
  ASSUME NEW L \in Lists
  PROVE  /\ L.Am \in Seq(Pages) /\ L.A1in \in Seq(Pages) /\ L.A1out \in Seq(Pages)
         /\ L.A1outMap \subseteq Pages
         /\ Len(L.Am) \in Nat /\ Len(L.A1in) \in Nat /\ Len(L.A1out) \in Nat
         /\ L.Am # << >> <=> Len(L.Am) > 0
         /\ L.A1in # << >> <=> Len(L.A1in) > 0
         /\ Elems(L.Am) \subseteq Pages /\ Elems(L.A1in) \subseteq Pages
BY NonEmptyList DEF Lists

\* When the tier is full and A1in is within its share, Am has a page.
LEMMA AmNotEmpty ==
  ASSUME NEW L \in Lists, ~HasRoom(L), Len(L.A1in) <= Kin
  PROVE  L.Am # << >>
<1> DEFINE am == Len(L.Am) a1 == Len(L.A1in)
<1>1. am \in Nat /\ a1 \in Nat /\ (L.Am # << >> <=> am > 0)
  BY ListsType
<1>2. ~(am + a1 < maxSize) /\ a1 <= Kin
  BY DEF HasRoom
<1>3. am > 0
  <2> HIDE DEF am, a1
  <2> QED
    BY <1>1, <1>2, SizesType
<1> QED
  BY <1>1, <1>3

(***************************************************************************)
(* reclaim                                                                 *)
(***************************************************************************)

\* Lists that lost their page v to make room: it is cached no more, and at most
\* remembered as a ghost.
Evicts(L, M, v) ==
  /\ Sound(M)
  /\ v \in CachedOf(L)
  /\ CachedOf(M) = CachedOf(L) \ {v}
  /\ Used(M) = Used(L) - 1
  /\ M.A1outMap \subseteq L.A1outMap \cup {v}

LEMMA DropAmEvicts ==
  ASSUME NEW L, Sound(L), L.Am # << >>
  PROVE  Evicts(L, DropAm(L), Back(L.Am))
<1> DEFINE M == DropAm(L)
<1>1. L \in Lists /\ NoRepeats(L.Am) /\ Disjoint(L.Am, L.A1in)
  BY DEF Sound
<1>2. /\ PopBack(L.Am) \in Seq(Pages)
      /\ Len(PopBack(L.Am)) = Len(L.Am) - 1
      /\ Back(L.Am) \in Elems(L.Am)
      /\ NoRepeats(PopBack(L.Am))
      /\ Elems(PopBack(L.Am)) = Elems(L.Am) \ {Back(L.Am)}
  BY <1>1, ListsType, PopBackProperties
<1>3. M \in Lists
  BY <1>1, <1>2 DEF DropAm, Lists
<1>4. M.Am = PopBack(L.Am) /\ M.A1in = L.A1in /\ M.A1out = L.A1out /\ M.A1outMap = L.A1outMap
  BY <1>1 DEF DropAm, Lists
<1>5. Len(L.Am) \in Nat /\ Len(L.A1in) \in Nat
  BY <1>1, ListsType
<1> HIDE DEF M
<1>6. CachedOf(M) = CachedOf(L) \ {Back(L.Am)} /\ Back(L.Am) \in CachedOf(L)
  BY <1>1, <1>2, <1>4 DEF CachedOf, Disjoint
<1>7. Sound(M)
  BY <1>2, <1>3, <1>4, <1>6 DEF Sound, Disjoint
<1>8. Used(M) = Used(L) - 1
  <2> DEFINE am == Len(L.Am) a1 == Len(L.A1in)
  <2>1. am \in Nat /\ a1 \in Nat /\ Used(M) = (am - 1) + a1 /\ Used(L) = am + a1
    BY <1>2, <1>4, <1>5 DEF Used
  <2> HIDE DEF am, a1
  <2> QED
    BY <2>1
<1>9. M.A1outMap \subseteq L.A1outMap \cup {Back(L.Am)}
  BY <1>4
<1> QED
  BY <1>6, <1>7, <1>8, <1>9 DEF Evicts, M

\* The ghost list o and its map G after y entered them.
LEMMA GhostEnters ==
  ASSUME NEW o \in Seq(Pages), Len(o) <= Kout, NEW G \in SUBSET Elems(o),
         NEW y \in Pages
  PROVE  LET out == PushFront(y, o)
         IN  /\ out \in Seq(Pages)
             /\ G \cup {y} \subseteq Elems(out)
             /\ Len(out) <= Kout + 1
             /\ PopBack(out) \in Seq(Pages)
             /\ Len(PopBack(out)) <= Kout
             /\ (G \cup {y}) \ {Back(out)} \subseteq Elems(PopBack(out))
<1> DEFINE out == PushFront(y, o)
<1>1. Len(o) \in Nat
  OBVIOUS
<1>2. /\ out \in Seq(Pages)
      /\ Len(out) = Len(o) + 1
      /\ Elems(out) = Elems(o) \cup {y}
  BY PushFrontProperties
<1> HIDE DEF out
<1>3. out # << >>
  BY <1>1, <1>2, NonEmptyList
<1>4. PopBack(out) \in Seq(Pages) /\ Len(PopBack(out)) = Len(out) - 1
  BY <1>2, <1>3, PopBackProperties
<1>5. Elems(out) \ {Back(out)} \subseteq Elems(PopBack(out))
  BY <1>2, <1>3, PopBackElems
<1>6. Len(out) <= Kout + 1 /\ Len(PopBack(out)) <= Kout
  BY <1>1, <1>2, <1>4, SizesType
<1>7. /\ out \in Seq(Pages)
      /\ G \cup {y} \subseteq Elems(out)
      /\ Len(out) <= Kout + 1
      /\ PopBack(out) \in Seq(Pages)
      /\ Len(PopBack(out)) <= Kout
      /\ (G \cup {y}) \ {Back(out)} \subseteq Elems(PopBack(out))
  BY <1>2, <1>4, <1>5, <1>6
<1> QED
  BY <1>7 DEF out

LEMMA DropA1inEvicts ==
  ASSUME NEW L, Sound(L), L.A1in # << >>
  PROVE  Evicts(L, DropA1in(L), Back(L.A1in))
<1> DEFINE y == Back(L.A1in)
<1> DEFINE out == PushFront(y, L.A1out)
<1> DEFINE M == DropA1in(L)
<1>1. L \in Lists /\ NoRepeats(L.A1in) /\ Disjoint(L.Am, L.A1in)
  BY DEF Sound
<1>2. /\ PopBack(L.A1in) \in Seq(Pages)
      /\ Len(PopBack(L.A1in)) = Len(L.A1in) - 1
      /\ y \in Elems(L.A1in)
      /\ NoRepeats(PopBack(L.A1in))
      /\ Elems(PopBack(L.A1in)) = Elems(L.A1in) \ {y}
  BY <1>1, ListsType, PopBackProperties
<1>3. y \in Pages
  BY <1>1, <1>2, ListsType
<1>4. /\ out \in Seq(Pages)
      /\ L.A1outMap \cup {y} \subseteq Elems(out)
      /\ Len(out) <= Kout + 1
      /\ PopBack(out) \in Seq(Pages)
      /\ Len(PopBack(out)) <= Kout
      /\ (L.A1outMap \cup {y}) \ {Back(out)} \subseteq Elems(PopBack(out))
  <2>1. /\ L.A1out \in Seq(Pages) /\ Len(L.A1out) <= Kout
        /\ L.A1outMap \in SUBSET Elems(L.A1out)
    BY <1>1, ListsType DEF Sound
  <2> HIDE DEF y
  <2> QED
    BY <1>3, <2>1, GhostEnters
<1>5. L.A1outMap \cup {y} \in SUBSET Pages
  BY <1>1, <1>3, ListsType
<1>6. /\ M \in Lists
      /\ M.Am = L.Am /\ M.A1in = PopBack(L.A1in)
      /\ M.A1outMap \subseteq L.A1outMap \cup {y}
      /\ M.A1outMap \subseteq Elems(M.A1out)
      /\ Len(M.A1out) <= Kout
  <2> DEFINE G == [L EXCEPT !.A1in = PopBack(@), !.A1out = out, !.A1outMap = @ \cup {y}]
  <2>1. /\ G \in Lists
        /\ G.Am = L.Am /\ G.A1in = PopBack(L.A1in)
        /\ G.A1out = out /\ G.A1outMap = L.A1outMap \cup {y}
    BY <1>1, <1>2, <1>4, <1>5 DEF Lists
  <2> HIDE DEF out
  <2>2. M = IF Len(out) > Kout
              THEN [G EXCEPT !.A1out = PopBack(@), !.A1outMap = @ \ {Back(out)}]
              ELSE G
    BY DEF DropA1in, out
  <2> HIDE DEF G, M, y
  <2>3. CASE Len(out) > Kout
    BY <1>4, <2>1, <2>2, <2>3 DEF Lists
  <2>4. CASE ~(Len(out) > Kout)
    <3>1. Len(out) \in Nat /\ Len(out) <= Kout
      BY <1>4, <2>4, SizesType
    <3> QED
      BY <1>4, <2>1, <2>2, <2>4, <3>1
  <2> QED
    BY <2>3, <2>4
<1>7. Len(L.Am) \in Nat /\ Len(L.A1in) \in Nat
  BY <1>1, ListsType
<1> HIDE DEF M, out, y
<1>8. CachedOf(M) = CachedOf(L) \ {y} /\ y \in CachedOf(L)
  BY <1>1, <1>2, <1>6 DEF CachedOf, Disjoint
<1>9. Sound(M)
  <2>1. M.A1outMap \cap CachedOf(M) = {}
    BY <1>6, <1>8 DEF Sound
  <2> QED
    BY <1>2, <1>6, <2>1 DEF Sound, Disjoint
<1>10. Used(M) = Used(L) - 1
  <2> DEFINE am == Len(L.Am) a1 == Len(L.A1in)
  <2>1. am \in Nat /\ a1 \in Nat /\ Used(M) = am + (a1 - 1) /\ Used(L) = am + a1
    BY <1>2, <1>6, <1>7 DEF Used
  <2> HIDE DEF am, a1
  <2> QED
    BY <2>1
<1> QED
  BY <1>6, <1>8, <1>9, <1>10 DEF Evicts, M, y

\* reclaim leaves the lists alone while there is room, and otherwise takes one
\* page off the end of a list that has one.
LEMMA ReclaimProperties ==
  ASSUME NEW L, Sound(L), Used(L) <= maxSize
  PROVE  /\ HasRoom(L) => Reclaim(L) = L /\ Used(L) < maxSize
         /\ ~HasRoom(L) => /\ Used(L) = maxSize
                           /\ Evicts(L, Reclaim(L), Victim(L))
<1>1. Len(L.Am) \in Nat /\ Len(L.A1in) \in Nat /\ L \in Lists
      /\ (L.A1in # << >> <=> Len(L.A1in) > 0)
  BY ListsType DEF Sound
<1>2. ASSUME HasRoom(L) PROVE Reclaim(L) = L /\ Used(L) < maxSize
  BY <1>2 DEF Reclaim, HasRoom, Used
<1>3. ASSUME ~HasRoom(L) PROVE Used(L) = maxSize
  <2> DEFINE am == Len(L.Am) a1 == Len(L.A1in)
  <2>1. /\ am \in Nat /\ a1 \in Nat /\ Used(L) = am + a1
        /\ am + a1 <= maxSize /\ ~(am + a1 < maxSize)
    BY <1>1, <1>3 DEF Used, HasRoom
  <2> HIDE DEF am, a1
  <2> QED
    BY <2>1, SizesType
<1>4. ASSUME ~HasRoom(L), Len(L.A1in) > Kin PROVE Evicts(L, Reclaim(L), Victim(L))
  <2>1. L.A1in # << >>
    BY <1>1, <1>4, SizesType
  <2> QED
    BY <1>4, <2>1, DropA1inEvicts DEF Reclaim, Victim
<1>5. ASSUME ~HasRoom(L), ~(Len(L.A1in) > Kin) PROVE Evicts(L, Reclaim(L), Victim(L))
  <2>1. L.Am # << >>
    BY <1>1, <1>5, AmNotEmpty, SizesType
  <2> QED
    BY <1>5, <2>1, DropAmEvicts DEF Reclaim, Victim
<1> QED
  BY <1>2, <1>3, <1>4, <1>5

(***************************************************************************)
(* The lists a page enters                                                 *)
(***************************************************************************)

LEMMA EnterAm ==
  ASSUME NEW L, Sound(L), NEW x \in Pages, x \notin CachedOf(L),
         NEW M, M = [L EXCEPT !.Am = PushFront(x, @), !.A1outMap = @ \ {x}]
  PROVE  /\ Sound(M)
         /\ CachedOf(M) = CachedOf(L) \cup {x}
         /\ Used(M) = Used(L) + 1
<1>1. /\ L \in Lists /\ NoRepeats(L.Am) /\ Disjoint(L.Am, L.A1in)
      /\ x \notin Elems(L.Am) /\ x \notin Elems(L.A1in)
  BY DEF Sound, CachedOf
<1>2. /\ PushFront(x, L.Am) \in Seq(Pages)
      /\ Len(PushFront(x, L.Am)) = Len(L.Am) + 1
      /\ Elems(PushFront(x, L.Am)) = Elems(L.Am) \cup {x}
      /\ NoRepeats(PushFront(x, L.Am))
  BY <1>1, ListsType, PushFrontProperties
<1>3. M \in Lists
  BY <1>1, <1>2 DEF Lists
<1>4. /\ M.Am = PushFront(x, L.Am) /\ M.A1in = L.A1in /\ M.A1out = L.A1out
      /\ M.A1outMap = L.A1outMap \ {x}
  BY <1>1 DEF Lists
<1>5. CachedOf(M) = CachedOf(L) \cup {x}
  BY <1>2, <1>4 DEF CachedOf
<1>6. Sound(M)
  <2>1. M.A1outMap \cap CachedOf(M) = {} /\ M.A1outMap \subseteq Elems(M.A1out)
    BY <1>4, <1>5 DEF Sound
  <2> QED
    BY <1>1, <1>2, <1>3, <1>4, <2>1 DEF Sound, Disjoint
<1>7. Used(M) = Used(L) + 1
  <2> DEFINE am == Len(L.Am) a1 == Len(L.A1in)
  <2>1. am \in Nat /\ a1 \in Nat /\ Used(M) = (am + 1) + a1 /\ Used(L) = am + a1
    BY <1>1, <1>2, <1>4, ListsType DEF Used
  <2> HIDE DEF am, a1
  <2> QED
    BY <2>1
<1> QED
  BY <1>5, <1>6, <1>7

LEMMA EnterA1in ==
  ASSUME NEW L, Sound(L), NEW x \in Pages, x \notin CachedOf(L), x \notin L.A1outMap,
         NEW M, M = [L EXCEPT !.A1in = PushFront(x, @)]
  PROVE  /\ Sound(M)
         /\ CachedOf(M) = CachedOf(L) \cup {x}
         /\ Used(M) = Used(L) + 1
<1>1. /\ L \in Lists /\ NoRepeats(L.A1in) /\ Disjoint(L.Am, L.A1in)
      /\ x \notin Elems(L.Am) /\ x \notin Elems(L.A1in)
  BY DEF Sound, CachedOf
<1>2. /\ PushFront(x, L.A1in) \in Seq(Pages)
      /\ Len(PushFront(x, L.A1in)) = Len(L.A1in) + 1
      /\ Elems(PushFront(x, L.A1in)) = Elems(L.A1in) \cup {x}
      /\ NoRepeats(PushFront(x, L.A1in))
  BY <1>1, ListsType, PushFrontProperties
<1>3. M \in Lists
  BY <1>1, <1>2 DEF Lists
<1>4. /\ M.A1in = PushFront(x, L.A1in) /\ M.Am = L.Am /\ M.A1out = L.A1out
      /\ M.A1outMap = L.A1outMap
  BY <1>1 DEF Lists
<1>5. CachedOf(M) = CachedOf(L) \cup {x}
  BY <1>2, <1>4 DEF CachedOf
<1>6. Sound(M)
  <2>1. M.A1outMap \cap CachedOf(M) = {} /\ M.A1outMap \subseteq Elems(M.A1out)
    BY <1>4, <1>5 DEF Sound
  <2> QED
    BY <1>1, <1>2, <1>3, <1>4, <2>1 DEF Sound, Disjoint
<1>7. Used(M) = Used(L) + 1
  <2> DEFINE am == Len(L.Am) a1 == Len(L.A1in)
  <2>1. am \in Nat /\ a1 \in Nat /\ Used(M) = am + (a1 + 1) /\ Used(L) = am + a1
    BY <1>1, <1>2, <1>4, ListsType DEF Used
  <2> HIDE DEF am, a1
  <2> QED
    BY <2>1
<1> QED
  BY <1>5, <1>6, <1>7

(***************************************************************************)
(* The steps                                                               *)
(***************************************************************************)

\* What every access does.  A hit keeps the cached pages; any other access adds
\* its page, for another one if the cache is full.  The fast node follows.
Outcome(x) ==
  /\ Sound(lists') /\ Used(lists') <= maxSize
  /\ fast' \in SUBSET (Pages \cup fast)
  /\ \/ x \in Cached /\ Cached' = Cached /\ fast' = fast
     \/ /\ x \notin Cached
        /\ Used(lists) < maxSize
        /\ Cached' = Cached \cup {x}
        /\ ~MovesMayFail => fast' = fast \cup {x}
     \/ /\ x \notin Cached
        /\ Used(lists) = maxSize
        /\ \E v \in Cached :
             /\ Cached' = (Cached \ {v}) \cup {x}
             /\ ~MovesMayFail => fast' = (fast \ {v}) \cup {x}

\* A page moves as far as the list it was taken from allows.
LEMMA MovesProperties ==
  ASSUME NEW x \in Pages, NEW f \in AfterReclaim(lists), NEW g \in Promote(f, x)
  PROVE  /\ g \subseteq Pages \cup fast
         /\ HasRoom(lists) /\ ~MovesMayFail => g = fast \cup {x}
         /\ ~HasRoom(lists) /\ ~MovesMayFail => g = (fast \ {Victim(lists)}) \cup {x}
<1>1. f = fast \/ f = fast \ {Victim(lists)}
  BY DEF AfterReclaim, Demote, Outcomes
<1>2. g = f \/ g = f \cup {x}
  BY DEF Promote, Outcomes
<1>3. /\ HasRoom(lists) => f = fast
      /\ ~HasRoom(lists) /\ ~MovesMayFail => f = fast \ {Victim(lists)}
      /\ ~MovesMayFail => g = f \cup {x}
  BY DEF AfterReclaim, Demote, Promote, Outcomes
<1> QED
  BY <1>1, <1>2, <1>3

\* Room is made, and the page enters one of the lists.
LEMMA EnterOutcome ==
  ASSUME Inv, NEW x \in Pages, x \notin Cached,
         \E f \in AfterReclaim(lists) : fast' \in Promote(f, x),
         Sound(Reclaim(lists)) /\ x \notin CachedOf(Reclaim(lists)) =>
           /\ Sound(lists')
           /\ CachedOf(lists') = CachedOf(Reclaim(lists)) \cup {x}
           /\ Used(lists') = Used(Reclaim(lists)) + 1
  PROVE  Outcome(x)
<1>1. Sound(lists) /\ Used(lists) <= maxSize /\ Cached = CachedOf(lists)
  BY InvSound
<1>2. Cached' = CachedOf(lists')
  BY DEF Cached, CachedOf
<1>3. Used(lists) \in Nat
  <2> DEFINE am == Len(lists.Am) a1 == Len(lists.A1in)
  <2>1. am \in Nat /\ a1 \in Nat /\ Used(lists) = am + a1
    BY <1>1, ListsType DEF Sound, Used
  <2> HIDE DEF am, a1
  <2> QED
    BY <2>1
<1>4. /\ fast' \in SUBSET (Pages \cup fast)
      /\ HasRoom(lists) /\ ~MovesMayFail => fast' = fast \cup {x}
      /\ ~HasRoom(lists) /\ ~MovesMayFail =>
           fast' = (fast \ {Victim(lists)}) \cup {x}
  BY MovesProperties
<1>5. CASE HasRoom(lists)
  <2>1. Reclaim(lists) = lists /\ Used(lists) < maxSize
    BY <1>1, <1>5, ReclaimProperties
  <2> QED
    BY <1>1, <1>2, <1>3, <1>4, <1>5, <2>1, SizesType DEF Outcome
<1>6. CASE ~HasRoom(lists)
  <2>1. Used(lists) = maxSize /\ Evicts(lists, Reclaim(lists), Victim(lists))
    BY <1>1, <1>6, ReclaimProperties
  <2>2. /\ Sound(Reclaim(lists))
        /\ Victim(lists) \in Cached
        /\ CachedOf(Reclaim(lists)) = Cached \ {Victim(lists)}
        /\ Used(Reclaim(lists)) = maxSize - 1
    BY <1>1, <2>1 DEF Evicts
  <2>3. /\ Sound(lists')
        /\ Cached' = (Cached \ {Victim(lists)}) \cup {x}
        /\ Used(lists') = (maxSize - 1) + 1
    BY <1>2, <2>2
  <2>4. Used(lists') <= maxSize
    BY <2>3, SizesType
  <2> QED
    BY <1>4, <1>6, <2>1, <2>2, <2>3, <2>4 DEF Outcome
<1> QED
  BY <1>5, <1>6

LEMMA HitAmOutcome ==
  ASSUME Inv, NEW x \in Pages, HitAm(x)
  PROVE  Outcome(x)
<1> DEFINE s == Erase(lists.Am, x)
<1>1. /\ Sound(lists) /\ Used(lists) <= maxSize /\ Cached = CachedOf(lists)
      /\ lists \in Lists /\ NoRepeats(lists.Am) /\ x \in Elems(lists.Am)
  BY InvSound DEF Sound, HitAm
<1>2. /\ s \in Seq(Pages) /\ NoRepeats(s)
      /\ Len(s) = Len(lists.Am) - 1
      /\ Elems(s) = Elems(lists.Am) \ {x}
  BY <1>1, ListsType, EraseProperties
<1> HIDE DEF s
<1>3. /\ PushFront(x, s) \in Seq(Pages)
      /\ Len(PushFront(x, s)) = Len(s) + 1
      /\ Elems(PushFront(x, s)) = Elems(s) \cup {x}
      /\ NoRepeats(PushFront(x, s))
  BY <1>2, PushFrontProperties
<1>4. lists' = [lists EXCEPT !.Am = PushFront(x, s)] /\ fast' = fast
  BY DEF HitAm, s
<1>5. lists' \in Lists
  BY <1>1, <1>3, <1>4 DEF Lists
<1>6. /\ lists'.Am = PushFront(x, s) /\ lists'.A1in = lists.A1in
      /\ lists'.A1out = lists.A1out /\ lists'.A1outMap = lists.A1outMap
  BY <1>1, <1>4 DEF Lists
<1>7. Elems(lists'.Am) = Elems(lists.Am)
  BY <1>1, <1>2, <1>3, <1>6
<1>8. CachedOf(lists') = CachedOf(lists) /\ Cached' = Cached /\ x \in Cached
  BY <1>1, <1>6, <1>7 DEF Cached, CachedOf
<1>9. Sound(lists')
  BY <1>1, <1>3, <1>5, <1>6, <1>7, <1>8 DEF Sound, Disjoint
<1>10. Used(lists') <= maxSize
  <2> DEFINE am == Len(lists.Am) a1 == Len(lists.A1in)
  <2>1. /\ am \in Nat /\ a1 \in Nat
        /\ Used(lists') = ((am - 1) + 1) + a1 /\ am + a1 <= maxSize
    BY <1>1, <1>2, <1>3, <1>6, ListsType DEF Used
  <2> HIDE DEF am, a1
  <2> QED
    BY <2>1, SizesType
<1> QED
  BY <1>4, <1>8, <1>9, <1>10 DEF Outcome

LEMMA HitGhostOutcome ==
  ASSUME Inv, NEW x \in Pages, HitGhost(x)
  PROVE  Outcome(x)
<1>1. x \notin Cached
  BY DEF HitGhost, Inv, Directory, OnePlace
<1>2. lists' = [Reclaim(lists) EXCEPT !.Am = PushFront(x, @), !.A1outMap = @ \ {x}]
      /\ \E f \in AfterReclaim(lists) : fast' \in Promote(f, x)
  BY DEF HitGhost
<1> QED
  BY <1>1, <1>2, EnterAm, EnterOutcome

LEMMA HitA1inOutcome ==
  ASSUME Inv, NEW x \in Pages, HitA1in(x)
  PROVE  Outcome(x)
<1>1. lists' = lists /\ fast' = fast /\ x \in Cached /\ Cached' = Cached
  BY DEF HitA1in, Cached
<1> QED
  BY <1>1, InvSound DEF Outcome

\* The page that makes room for x is not x, so x is no ghost after that either.
LEMMA MissOutcome ==
  ASSUME Inv, NEW x \in Pages, Miss(x)
  PROVE  Outcome(x)
<1>1. x \notin Cached /\ x \notin lists.A1outMap
  BY DEF Miss, Cached
<1>2. lists' = [Reclaim(lists) EXCEPT !.A1in = PushFront(x, @)]
      /\ \E f \in AfterReclaim(lists) : fast' \in Promote(f, x)
  BY DEF Miss
<1>3. x \notin Reclaim(lists).A1outMap
  <2>1. Sound(lists) /\ Used(lists) <= maxSize /\ Cached = CachedOf(lists)
    BY InvSound
  <2>2. HasRoom(lists) => Reclaim(lists) = lists
    BY <2>1, ReclaimProperties
  <2>3. ~HasRoom(lists) => Evicts(lists, Reclaim(lists), Victim(lists))
    BY <2>1, ReclaimProperties
  <2> QED
    BY <1>1, <2>1, <2>2, <2>3 DEF Evicts
<1> QED
  BY <1>1, <1>2, <1>3, EnterA1in, EnterOutcome

LEMMA AccessOutcome ==
  ASSUME Inv, NEW x \in Pages, accessPage(x)
  PROVE  Outcome(x)
BY HitAmOutcome, HitGhostOutcome, HitA1inOutcome, MissOutcome DEF accessPage

LEMMA AccessSeen ==
  ASSUME NEW x, accessPage(x)
  PROVE  Seen(x)
BY DEF accessPage, HitAm, HitGhost, HitA1in, Miss

LEMMA RecentKept ==
  ASSUME Inv, NEW x \in Pages, Seen(x)
  PROVE  recent' \in Seq(Pages) /\ NoRepeats(recent')
<1> DEFINE r == IF x \in Elems(recent) THEN Erase(recent, x) ELSE recent
<1>1. recent \in Seq(Pages) /\ NoRepeats(recent)
  BY InvSound
<1>2. r \in Seq(Pages) /\ NoRepeats(r) /\ x \notin Elems(r)
  <2>1. CASE x \in Elems(recent)
    BY <1>1, <2>1, EraseProperties
  <2>2. CASE x \notin Elems(recent)
    BY <1>1, <2>2
  <2> QED
    BY <2>1, <2>2
<1>3. recent' = recent \/ recent' = PushFront(x, r)
  BY DEF Seen
<1> HIDE DEF r
<1>4. PushFront(x, r) \in Seq(Pages) /\ NoRepeats(PushFront(x, r))
  BY <1>2, PushFrontProperties
<1> QED
  BY <1>1, <1>3, <1>4

(***************************************************************************)
(* Invariance                                                              *)
(***************************************************************************)

LEMMA InvInit == Init => Inv
<1> SUFFICES ASSUME Init PROVE Inv
  OBVIOUS
<1>1. /\ lists.Am = << >> /\ lists.A1in = << >> /\ lists.A1out = << >>
      /\ lists.A1outMap = {} /\ lists \in Lists /\ fast = {}
      /\ recent = << >> /\ recent \in Seq(Pages)
  BY DEF Init, Lists
<1>2. Sound(lists)
  BY <1>1, EmptyList, SizesType DEF Sound, CachedOf, Disjoint
<1>3. Used(lists) <= maxSize
  BY <1>1, EmptyList, SizesType DEF Used
<1> QED
  BY <1>1, <1>2, <1>3, EmptyList, InvSound

LEMMA InvStep == Inv /\ [Next]_vars => Inv'
<1> SUFFICES ASSUME Inv, [Next]_vars PROVE Inv'
  OBVIOUS
<1>0. fast \in SUBSET Pages
  BY InvSound
<1>1. ASSUME NEW x \in Pages, accessPage(x) PROVE Inv'
  <2>1. Sound(lists') /\ Used(lists') <= maxSize /\ fast' \in SUBSET Pages
    BY <1>0, <1>1, AccessOutcome DEF Outcome
  <2>2. recent' \in Seq(Pages) /\ NoRepeats(recent')
    BY <1>1, AccessSeen, RecentKept
  <2> QED
    BY <2>1, <2>2 DEF Inv, TypeOK, Directory, OnePlace, GhostsListed, Sound, Used, Cached, CachedOf
<1>2. CASE UNCHANGED vars
  BY <1>2 DEF vars, Inv, TypeOK, Directory, OnePlace, GhostsListed, Cached
<1> QED
  BY <1>1, <1>2 DEF Next

\* The fast tier is not overcommitted, every page is in one list or a ghost, and
\* every ghost of the map is on the list of ghosts, for every capacity: an access
\* that takes its page out of the map alone does no harm.
THEOREM DirectoryCorrect == Spec => [](TypeOK /\ Directory)
<1>1. Inv => TypeOK /\ Directory
  BY DEF Inv
<1> QED
  BY <1>1, InvInit, InvStep, PTL DEF Spec

\* As long as no move fails, the fast node holds the pages of Am and A1in.
THEOREM CachedIsFastCorrect == Spec => []CachedIsFast
<1>1. Init => CachedIsFast
  BY EmptyList DEF Init, CachedIsFast, Cached
<1>2. Inv /\ CachedIsFast /\ [Next]_vars => CachedIsFast'
  <2> SUFFICES ASSUME Inv, CachedIsFast, [Next]_vars PROVE CachedIsFast'
    OBVIOUS
  <2>1. ASSUME NEW x \in Pages, accessPage(x) PROVE CachedIsFast'
    BY <2>1, AccessOutcome DEF Outcome, CachedIsFast
  <2>2. CASE UNCHANGED vars
    BY <2>2 DEF vars, CachedIsFast, Cached
  <2> QED
    BY <2>1, <2>2 DEF Next
<1> QED
  BY <1>1, <1>2, InvInit, InvStep, PTL DEF Spec

(***************************************************************************)
(* The order of eviction                                                   *)
(***************************************************************************)

\* a stands in the list s, continued by t, before the first b.
AheadIn(s, t, a, b) == Ahead(s, a, b) \/ (b \notin Elems(s) /\ Ahead(t, a, b))

Queued(L) == Elems(L.A1in) \cup L.A1outMap

\* M has no page and no order that L does not have.
Keeps(L, M) ==
  /\ Elems(M.Am) \cup Queued(M) \subseteq Elems(L.Am) \cup Queued(L)
  /\ Queued(M) \subseteq Queued(L)
  /\ \A a, b : Before(M.Am, a, b) => Before(L.Am, a, b)
  /\ \A a, b \in Queued(M) : a # b /\ AheadIn(M.A1in, M.A1out, a, b) =>
                               AheadIn(L.A1in, L.A1out, a, b)

\* Every page that is cached or a ghost was accessed, and the pages stand in the
\* order of the history.  EvictionOrder alone is not inductive: it does not say
\* that a page alone on its list was accessed.
OrderInv ==
  /\ Elems(lists.Am) \cup Queued(lists) \subseteq Elems(recent)
  /\ \A a, b : Before(lists.Am, a, b) => Before(recent, a, b)
  /\ \A a, b \in Queued(lists) : a # b /\ AheadIn(lists.A1in, lists.A1out, a, b) =>
                                   Before(recent, a, b)

LEMMA AheadElems ==
  ASSUME NEW s, NEW a, NEW b, Ahead(s, a, b)
  PROVE  a \in Elems(s)
BY DEF Ahead, Elems

\* A new head stands ahead of everything else, whose order does not change.
LEMMA PushFrontAhead ==
  ASSUME NEW s \in Seq(Pages), NEW x \in Pages, NEW a, NEW b,
         Ahead(PushFront(x, s), a, b)
  PROVE  x # b /\ (a = x \/ Ahead(s, a, b))
<1> DEFINE t == PushFront(x, s)
<1>1. /\ Len(s) \in Nat /\ DOMAIN s = 1 .. Len(s)
      /\ DOMAIN t = 1 .. Len(s) + 1
      /\ t[1] = x
      /\ \A k \in 2 .. Len(s) + 1 : t[k] = s[k - 1]
  BY DEF PushFront
<1>2. PICK i \in DOMAIN t : t[i] = a /\ \A k \in 1 .. i : t[k] # b
  BY DEF Ahead
<1> HIDE DEF t
<1>3. x # b
  BY <1>1, <1>2
<1>4. CASE i = 1
  BY <1>1, <1>2, <1>3, <1>4
<1>5. CASE i # 1
  <2>1. i - 1 \in DOMAIN s /\ s[i - 1] = a
    BY <1>1, <1>2, <1>5
  <2>2. ASSUME NEW k \in 1 .. i - 1 PROVE s[k] # b
    <3>1. k + 1 \in 1 .. i /\ t[k + 1] = s[k]
      BY <1>1, <1>2, <1>5
    <3> QED
      BY <1>2, <3>1
  <2> QED
    BY <1>3, <2>1, <2>2 DEF Ahead
<1> QED
  BY <1>4, <1>5

LEMMA PopBackAhead ==
  ASSUME NEW s \in Seq(Pages), s # << >>
  PROVE  /\ \A a, b : Ahead(PopBack(s), a, b) => Ahead(s, a, b)
         /\ \A b : b \notin Elems(s) => Ahead(s, Back(s), b)
<1>1. Len(s) \in Nat /\ Len(s) # 0 /\ DOMAIN s = 1 .. Len(s)
  OBVIOUS
<1> DEFINE t == PopBack(s)
<1>2. DOMAIN t = 1 .. Len(s) - 1 /\ \A k \in 1 .. Len(s) - 1 : t[k] = s[k]
  BY DEF PopBack
<1> HIDE DEF t
<1>3. ASSUME NEW a, NEW b, Ahead(t, a, b)
      PROVE  Ahead(s, a, b)
  <2>1. PICK i \in DOMAIN t : t[i] = a /\ \A k \in 1 .. i : t[k] # b
    BY <1>3 DEF Ahead
  <2>2. i \in DOMAIN s /\ s[i] = a /\ \A k \in 1 .. i : s[k] # b
    BY <1>1, <1>2, <2>1
  <2> QED
    BY <2>2 DEF Ahead
<1>4. ASSUME NEW b, b \notin Elems(s)
      PROVE  Ahead(s, Back(s), b)
  <2>1. Len(s) \in DOMAIN s /\ \A k \in 1 .. Len(s) : s[k] # b
    BY <1>1, <1>4 DEF Elems
  <2> QED
    BY <2>1 DEF Ahead, Back
<1> QED
  BY <1>3, <1>4 DEF t

LEMMA KeepsDropAm ==
  ASSUME NEW L \in Lists, L.Am # << >>
  PROVE  Keeps(L, DropAm(L)) /\ DropAm(L) \in Lists
<1> DEFINE M == DropAm(L)
<1>1. /\ PopBack(L.Am) \in Seq(Pages)
      /\ Elems(PopBack(L.Am)) \subseteq Elems(L.Am)
      /\ \A a, b : Before(PopBack(L.Am), a, b) => Before(L.Am, a, b)
  BY ListsType, PopBackProperties, PopBackOrder
<1>2. /\ M.Am = PopBack(L.Am) /\ M.A1in = L.A1in /\ M.A1out = L.A1out
      /\ M.A1outMap = L.A1outMap /\ M \in Lists
  BY <1>1 DEF DropAm, Lists
<1> HIDE DEF M
<1>3. Keeps(L, M)
  BY <1>1, <1>2 DEF Keeps, Queued
<1> QED
  BY <1>2, <1>3 DEF M

\* The page that leaves A1in goes on ahead of the ghosts, where it already stood.
LEMMA KeepsDropA1in ==
  ASSUME NEW L \in Lists, L.A1in # << >>
  PROVE  Keeps(L, DropA1in(L)) /\ DropA1in(L) \in Lists
<1> DEFINE s == L.A1in
<1> DEFINE y == Back(s)
<1> DEFINE out == PushFront(y, L.A1out)
<1> DEFINE M == DropA1in(L)
<1>1. s \in Seq(Pages) /\ L.A1out \in Seq(Pages) /\ L.A1outMap \subseteq Pages
  BY ListsType
<1>2. /\ PopBack(s) \in Seq(Pages)
      /\ y \in Elems(s) /\ y \in Pages
      /\ Elems(PopBack(s)) \subseteq Elems(s)
      /\ Elems(s) \ {y} \subseteq Elems(PopBack(s))
  BY <1>1, PopBackProperties, PopBackElems, NonEmptyList
<1>3. out \in Seq(Pages) /\ out # << >> /\ PopBack(out) \in Seq(Pages)
  <2> HIDE DEF y
  <2>1. L.A1out \in Seq(Pages) /\ y \in Pages
    BY <1>1, <1>2
  <2>2. out \in Seq(Pages) /\ Len(out) = Len(L.A1out) + 1
    BY <2>1, PushFrontProperties
  <2> HIDE DEF out
  <2>3. out # << >>
    BY <2>1, <2>2, NonEmptyList
  <2> QED
    BY <2>2, <2>3, PopBackProperties
<1>4. /\ M \in Lists
      /\ M.Am = L.Am /\ M.A1in = PopBack(s)
      /\ M.A1out = out \/ M.A1out = PopBack(out)
      /\ M.A1outMap \subseteq L.A1outMap \cup {y}
  <2> DEFINE G == [L EXCEPT !.A1in = PopBack(@), !.A1out = out, !.A1outMap = @ \cup {y}]
  <2>1. /\ G \in Lists
        /\ G.Am = L.Am /\ G.A1in = PopBack(s)
        /\ G.A1out = out /\ G.A1outMap = L.A1outMap \cup {y}
    BY <1>1, <1>2, <1>3 DEF Lists
  <2> HIDE DEF out
  <2>2. M = IF Len(out) > Kout
              THEN [G EXCEPT !.A1out = PopBack(@), !.A1outMap = @ \ {Back(out)}]
              ELSE G
    BY DEF DropA1in, out
  <2> HIDE DEF G, M, y, s
  <2> QED
    BY <1>3, <2>1, <2>2 DEF Lists
<1>5. \A a, b : Ahead(M.A1out, a, b) => b # y /\ (a = y \/ Ahead(L.A1out, a, b))
  <2> HIDE DEF M, y
  <2>1. \A a, b : Ahead(out, a, b) => b # y /\ (a = y \/ Ahead(L.A1out, a, b))
    BY <1>1, <1>2, PushFrontAhead
  <2> HIDE DEF out
  <2>2. \A a, b : Ahead(PopBack(out), a, b) => Ahead(out, a, b)
    BY <1>3, PopBackAhead
  <2> QED
    BY <1>4, <2>1, <2>2
<1>6. /\ \A a, b : Ahead(PopBack(s), a, b) => Ahead(s, a, b)
      /\ \A b : b \notin Elems(s) => Ahead(s, y, b)
  BY <1>1, PopBackAhead
<1> HIDE DEF M, out, y, s
<1>7. ASSUME NEW a, NEW b, AheadIn(M.A1in, M.A1out, a, b)
      PROVE  AheadIn(s, L.A1out, a, b)
  <2>1. CASE Ahead(PopBack(s), a, b)
    BY <1>6, <2>1 DEF AheadIn
  <2>2. CASE b \notin Elems(PopBack(s)) /\ Ahead(M.A1out, a, b)
    <3>1. b \notin Elems(s) /\ (a = y \/ Ahead(L.A1out, a, b))
      BY <1>2, <1>5, <2>2
    <3> QED
      BY <1>6, <3>1 DEF AheadIn
  <2> QED
    BY <1>4, <1>7, <2>1, <2>2 DEF AheadIn
<1>8. Queued(M) \subseteq Queued(L)
  BY <1>2, <1>4 DEF Queued, s
<1>9. Keeps(L, M)
  BY <1>4, <1>7, <1>8 DEF Keeps, s
<1> QED
  BY <1>4, <1>9 DEF M

LEMMA KeepsReclaim ==
  ASSUME NEW L \in Lists
  PROVE  Keeps(L, Reclaim(L)) /\ Reclaim(L) \in Lists
<1>1. CASE HasRoom(L)
  <2>1. Reclaim(L) = L
    BY <1>1 DEF Reclaim
  <2> QED
    BY <2>1 DEF Keeps
<1>2. CASE ~HasRoom(L) /\ Len(L.A1in) > Kin
  <2>1. L.A1in # << >>
    <3>1. Len(L.A1in) \in Nat /\ (L.A1in # << >> <=> Len(L.A1in) > 0)
      BY ListsType
    <3> QED
      BY <1>2, <3>1, SizesType
  <2>2. Reclaim(L) = DropA1in(L)
    BY <1>2 DEF Reclaim
  <2> QED
    BY <2>1, <2>2, KeepsDropA1in
<1>3. CASE ~HasRoom(L) /\ ~(Len(L.A1in) > Kin)
  <2>1. L.Am # << >>
    <3>1. Len(L.A1in) \in Nat
      BY ListsType
    <3> QED
      BY <1>3, <3>1, AmNotEmpty, SizesType
  <2>2. Reclaim(L) = DropAm(L)
    BY <1>3 DEF Reclaim
  <2> QED
    BY <2>1, <2>2, KeepsDropAm
<1> QED
  BY <1>1, <1>2, <1>3

\* What an access to a page does that is not in A1in: it takes the page off the
\* lists and the map, keeps the order of the others, and puts the page in front
\* of Am or of A1in.
Refronted(x) ==
  \E M \in Lists :
    /\ Keeps(lists, M)
    /\ x \notin Elems(M.Am) \cup Queued(M)
    /\ \/ lists' = [M EXCEPT !.Am = PushFront(x, @)]
       \/ lists' = [M EXCEPT !.A1in = PushFront(x, @)]

LEMMA HitAmRefronted ==
  ASSUME Inv, NEW x \in Pages, HitAm(x)
  PROVE  Refronted(x)
<1> DEFINE s == Erase(lists.Am, x)
<1> DEFINE M == [lists EXCEPT !.Am = s]
<1>1. /\ lists \in Lists /\ NoRepeats(lists.Am) /\ x \in Elems(lists.Am)
      /\ x \notin Queued(lists)
  BY InvSound DEF Sound, HitAm, CachedOf, Disjoint, Queued
<1>2. /\ s \in Seq(Pages) /\ Elems(s) = Elems(lists.Am) \ {x}
      /\ \A a, b : Before(s, a, b) => Before(lists.Am, a, b)
  BY <1>1, ListsType, EraseProperties, EraseOrder
<1>3. lists' = [M EXCEPT !.Am = PushFront(x, @)]
  BY <1>1 DEF HitAm, Lists
<1> HIDE DEF s
<1>4. /\ M.Am = s /\ M.A1in = lists.A1in /\ M.A1out = lists.A1out
      /\ M.A1outMap = lists.A1outMap /\ M \in Lists
  BY <1>1, <1>2 DEF Lists
<1> HIDE DEF M
<1>5. Keeps(lists, M) /\ x \notin Elems(M.Am) \cup Queued(M)
  BY <1>1, <1>2, <1>4 DEF Keeps, Queued
<1> QED
  BY <1>3, <1>4, <1>5 DEF Refronted

LEMMA HitGhostRefronted ==
  ASSUME Inv, NEW x \in Pages, HitGhost(x)
  PROVE  Refronted(x)
<1> DEFINE L == Reclaim(lists)
<1> DEFINE M == [L EXCEPT !.A1outMap = @ \ {x}]
<1>1. lists \in Lists /\ x \in Queued(lists)
  BY InvSound DEF Sound, HitGhost, Queued
<1>2. x \notin Elems(lists.Am) /\ x \notin Elems(lists.A1in)
  BY DEF HitGhost, Inv, Directory, OnePlace, Cached
<1>3. Keeps(lists, L) /\ L \in Lists
  BY <1>1, KeepsReclaim
<1>4. x \notin Elems(L.Am) /\ x \notin Elems(L.A1in)
  <2>1. Sound(lists) /\ Used(lists) <= maxSize /\ x \notin CachedOf(lists)
    BY <1>2, InvSound DEF CachedOf
  <2>2. CachedOf(L) \subseteq CachedOf(lists)
    BY <2>1, ReclaimProperties DEF Evicts
  <2> QED
    BY <2>1, <2>2 DEF CachedOf
<1>5. lists' = [L EXCEPT !.Am = PushFront(x, @), !.A1outMap = @ \ {x}]
  BY DEF HitGhost
<1> HIDE DEF L
<1>6. lists' = [M EXCEPT !.Am = PushFront(x, @)]
  BY <1>3, <1>5 DEF Lists
<1>7. /\ M.Am = L.Am /\ M.A1in = L.A1in /\ M.A1out = L.A1out
      /\ M.A1outMap = L.A1outMap \ {x} /\ M \in Lists
  BY <1>3 DEF Lists
<1> HIDE DEF M
<1>8. Keeps(lists, M) /\ x \notin Elems(M.Am) \cup Queued(M)
  BY <1>3, <1>4, <1>7 DEF Keeps, Queued
<1> QED
  BY <1>6, <1>7, <1>8 DEF Refronted

LEMMA MissRefronted ==
  ASSUME Inv, NEW x \in Pages, Miss(x)
  PROVE  Refronted(x)
<1> DEFINE L == Reclaim(lists)
<1>1. lists \in Lists /\ x \notin Elems(lists.Am) \cup Queued(lists)
  BY InvSound DEF Sound, Miss, Queued
<1>2. Keeps(lists, L) /\ L \in Lists
  BY <1>1, KeepsReclaim
<1>3. lists' = [L EXCEPT !.A1in = PushFront(x, @)]
  BY DEF Miss
<1> HIDE DEF L
<1>4. x \notin Elems(L.Am) \cup Queued(L)
  BY <1>1, <1>2 DEF Keeps
<1> QED
  BY <1>2, <1>3, <1>4 DEF Refronted

\* The history after such an access: its page first, the others in their order.
LEMMA RecentOrder ==
  ASSUME Inv, NEW x \in Pages, Seen(x), x \notin Elems(lists.A1in)
  PROVE  /\ Elems(recent') = Elems(recent) \cup {x}
         /\ \A b \in Elems(recent) : b # x => Before(recent', x, b)
         /\ \A a, b : Before(recent, a, b) /\ b # x => Before(recent', a, b)
<1> DEFINE r == IF x \in Elems(recent) THEN Erase(recent, x) ELSE recent
<1>1. recent \in Seq(Pages) /\ NoRepeats(recent)
  BY InvSound
<1>2. /\ r \in Seq(Pages)
      /\ Elems(r) = Elems(recent) \ {x}
      /\ \A a, b : Before(recent, a, b) /\ a # x /\ b # x => Before(r, a, b)
  <2>1. CASE x \in Elems(recent)
    BY <1>1, <2>1, EraseProperties, EraseOrder
  <2>2. CASE x \notin Elems(recent)
    BY <1>1, <2>2
  <2> QED
    BY <2>1, <2>2
<1>3. recent' = PushFront(x, r)
  BY DEF Seen
<1> HIDE DEF r
<1>4. Elems(PushFront(x, r)) = Elems(r) \cup {x}
  <2>1. r \in Seq(Pages)
    BY <1>2
  <2> QED
    BY <2>1, PushFrontProperties
<1>5. \A a, b : (a = x /\ b \in Elems(r)) \/ Before(r, a, b) => Before(recent', a, b)
  BY <1>2, <1>3, PushFrontOrder
<1>6. ASSUME NEW a, NEW b, Before(recent, a, b), b # x
      PROVE  Before(recent', a, b)
  <2>1. b \in Elems(recent)
    BY <1>6, BeforeElems
  <2> QED
    BY <1>2, <1>5, <1>6, <2>1
<1> QED
  BY <1>2, <1>3, <1>4, <1>5, <1>6

LEMMA OrderStep ==
  ASSUME Inv, OrderInv, NEW x \in Pages, Refronted(x), Seen(x), x \notin Elems(lists.A1in)
  PROVE  OrderInv'
<1>1. PICK M \in Lists :
        /\ Keeps(lists, M)
        /\ x \notin Elems(M.Am) \cup Queued(M)
        /\ \/ lists' = [M EXCEPT !.Am = PushFront(x, @)]
           \/ lists' = [M EXCEPT !.A1in = PushFront(x, @)]
  BY DEF Refronted
<1>2. /\ Elems(recent') = Elems(recent) \cup {x}
      /\ \A b \in Elems(recent) : b # x => Before(recent', x, b)
      /\ \A a, b : Before(recent, a, b) /\ b # x => Before(recent', a, b)
  BY RecentOrder
<1>3. Elems(M.Am) \cup Queued(M) \subseteq Elems(recent)
  BY <1>1 DEF OrderInv, Keeps
\* What M keeps is ordered by the new history, and x comes before all of it.
<1>4. \A b \in Elems(M.Am) \cup Queued(M) : Before(recent', x, b)
  BY <1>1, <1>2, <1>3
<1>5. \A a, b : Before(M.Am, a, b) => Before(recent', a, b)
  <2>1. \A a, b : Before(M.Am, a, b) => b # x /\ Before(recent, a, b)
    BY <1>1, BeforeElems DEF OrderInv, Keeps
  <2> QED
    BY <1>2, <2>1
<1>6. \A a, b \in Queued(M) : a # b /\ AheadIn(M.A1in, M.A1out, a, b) =>
                              Before(recent', a, b)
  <2>1. \A a, b \in Queued(M) : a # b /\ AheadIn(M.A1in, M.A1out, a, b) =>
                                b # x /\ Before(recent, a, b)
    BY <1>1 DEF OrderInv, Keeps
  <2> QED
    BY <1>2, <2>1
<1>7. M.Am \in Seq(Pages) /\ M.A1in \in Seq(Pages)
  BY ListsType
<1>8. CASE lists' = [M EXCEPT !.Am = PushFront(x, @)]
  <2>1. /\ lists'.Am = PushFront(x, M.Am) /\ lists'.A1in = M.A1in
        /\ lists'.A1out = M.A1out /\ lists'.A1outMap = M.A1outMap
    BY <1>8 DEF Lists
  <2>2. /\ Elems(PushFront(x, M.Am)) = Elems(M.Am) \cup {x}
        /\ \A a, b : Before(PushFront(x, M.Am), a, b) =>
                      (a = x /\ b \in Elems(M.Am)) \/ Before(M.Am, a, b)
    BY <1>7, PushFrontProperties, PushFrontOrder
  <2>3. Queued(lists') = Queued(M)
    BY <2>1 DEF Queued
  <2> QED
    BY <1>2, <1>3, <1>4, <1>5, <1>6, <2>1, <2>2, <2>3 DEF OrderInv
<1>9. CASE lists' = [M EXCEPT !.A1in = PushFront(x, @)]
  <2>1. /\ lists'.A1in = PushFront(x, M.A1in) /\ lists'.Am = M.Am
        /\ lists'.A1out = M.A1out /\ lists'.A1outMap = M.A1outMap
    BY <1>9 DEF Lists
  <2>2. Elems(PushFront(x, M.A1in)) = Elems(M.A1in) \cup {x}
    BY <1>7, PushFrontProperties
  <2>3. Queued(lists') = Queued(M) \cup {x}
    BY <2>1, <2>2 DEF Queued
  <2>4. ASSUME NEW a \in Queued(lists'), NEW b \in Queued(lists'), a # b,
               AheadIn(PushFront(x, M.A1in), M.A1out, a, b)
        PROVE  Before(recent', a, b)
    <3>1. b # x /\ (a = x \/ AheadIn(M.A1in, M.A1out, a, b))
      BY <1>7, <2>2, <2>4, PushFrontAhead DEF AheadIn
    <3> QED
      BY <1>4, <1>6, <2>3, <2>4, <3>1
  <2> QED
    BY <1>2, <1>3, <1>5, <2>1, <2>3, <2>4 DEF OrderInv
<1> QED
  BY <1>1, <1>8, <1>9

\* Read along A1in and on along A1out, the order is that of AheadIn.
LEMMA AheadOnLists ==
  ASSUME NEW s \in Seq(Pages), NEW t \in Seq(Pages), NEW a, NEW b, Ahead(s \o t, a, b)
  PROVE  AheadIn(s, t, a, b)
<1> DEFINE u == s \o t
<1>1. /\ Len(s) \in Nat /\ Len(t) \in Nat
      /\ DOMAIN s = 1 .. Len(s) /\ DOMAIN t = 1 .. Len(t)
      /\ DOMAIN u = 1 .. Len(s) + Len(t)
      /\ \A k \in DOMAIN s : u[k] = s[k]
      /\ \A k \in DOMAIN t : u[Len(s) + k] = t[k]
  OBVIOUS
<1>2. PICK i \in DOMAIN u : u[i] = a /\ \A k \in 1 .. i : u[k] # b
  BY DEF Ahead
<1> HIDE DEF u
<1>3. CASE i <= Len(s)
  <2>1. i \in DOMAIN s /\ s[i] = a /\ \A k \in 1 .. i : s[k] # b
    BY <1>1, <1>2, <1>3
  <2> QED
    BY <2>1 DEF AheadIn, Ahead
<1>4. CASE ~(i <= Len(s))
  <2>1. b \notin Elems(s)
    <3>1. \A k \in DOMAIN s : k \in 1 .. i /\ u[k] = s[k]
      BY <1>1, <1>2, <1>4
    <3> QED
      BY <1>2, <3>1 DEF Elems
  <2>2. PICK j \in DOMAIN t : i = Len(s) + j
    <3>1. i - Len(s) \in DOMAIN t /\ i = Len(s) + (i - Len(s))
      BY <1>1, <1>2, <1>4
    <3> QED
      BY <3>1
  <2>3. t[j] = a
    BY <1>1, <1>2, <2>2
  <2>4. ASSUME NEW k \in 1 .. j PROVE t[k] # b
    <3>1. k \in DOMAIN t /\ Len(s) + k \in 1 .. i
      BY <1>1, <1>2, <2>2
    <3> QED
      BY <1>1, <1>2, <3>1
  <2> QED
    BY <2>1, <2>3, <2>4 DEF AheadIn, Ahead
<1> QED
  BY <1>1, <1>2, <1>3, <1>4

\* Am is in the order of the last accesses, and A1in with the ghosts behind it in
\* the order in which the pages came in, for every capacity: pages that are taken
\* out of the map alone, come in again and are forgotten with their older entry do
\* not upset it.
THEOREM EvictionOrderCorrect == Spec => []EvictionOrder
<1>1. Init => OrderInv
  <2> SUFFICES ASSUME Init PROVE OrderInv
    OBVIOUS
  <2>1. /\ lists.Am = << >> /\ lists.A1in = << >> /\ lists.A1outMap = {}
        /\ Elems(<< >>) = {}
    BY EmptyList DEF Init
  <2> QED
    BY <2>1, BeforeElems DEF OrderInv, Queued
<1>2. Inv /\ OrderInv /\ [Next]_vars => OrderInv'
  <2> SUFFICES ASSUME Inv, OrderInv, [Next]_vars PROVE OrderInv'
    OBVIOUS
  <2>1. ASSUME NEW x \in Pages, HitAm(x) \/ HitGhost(x) \/ Miss(x) PROVE OrderInv'
    <3>1. Refronted(x)
      BY <2>1, HitAmRefronted, HitGhostRefronted, MissRefronted
    <3>2. Seen(x)
      BY <2>1 DEF HitAm, HitGhost, Miss
    <3>3. x \notin Elems(lists.A1in)
      BY <2>1, InvSound DEF HitAm, HitGhost, Miss, Sound, CachedOf, Disjoint
    <3> QED
      BY <3>1, <3>2, <3>3, OrderStep
  <2>2. ASSUME NEW x \in Pages, HitA1in(x) PROVE OrderInv'
    <3>1. lists' = lists /\ recent' = recent
      BY <2>2 DEF HitA1in, Seen
    <3> QED
      BY <3>1 DEF OrderInv
  <2>3. CASE UNCHANGED vars
    BY <2>3 DEF vars, OrderInv
  <2> QED
    BY <2>1, <2>2, <2>3 DEF Next, accessPage
<1>3. Inv /\ OrderInv => EvictionOrder
  <2> SUFFICES ASSUME Inv, OrderInv PROVE EvictionOrder
    OBVIOUS
  <2>1. lists.A1in \in Seq(Pages) /\ lists.A1out \in Seq(Pages)
    BY InvSound, ListsType DEF Sound
  <2>2. LeastRecentLast
    BY DEF LeastRecentLast, OrderInv, MoreRecent, Before
  <2>3. \A a, b : Before(recent, a, b) => MoreRecent(a, b)
    BY DEF MoreRecent, Before
  <2>4. FirstInFirstOut
    BY <2>1, <2>3, AheadOnLists DEF FirstInFirstOut, OrderInv, Queued
  <2> QED
    BY <2>2, <2>4 DEF EvictionOrder
<1> QED
  BY <1>1, <1>2, <1>3, InvInit, InvStep, PTL DEF Spec

(***************************************************************************)
(* Refinement                                                              *)
(***************************************************************************)

LEMMA CachedSize ==
  ASSUME Inv
  PROVE  Cardinality(Cached) = Used(lists)
<1>1. /\ lists \in Lists /\ NoRepeats(lists.Am) /\ NoRepeats(lists.A1in)
      /\ Disjoint(lists.Am, lists.A1in) /\ Cached = CachedOf(lists)
  BY InvSound DEF Sound
<1>2. /\ IsFiniteSet(Elems(lists.Am)) /\ Cardinality(Elems(lists.Am)) = Len(lists.Am)
      /\ IsFiniteSet(Elems(lists.A1in)) /\ Cardinality(Elems(lists.A1in)) = Len(lists.A1in)
      /\ Len(lists.Am) \in Nat /\ Len(lists.A1in) \in Nat
  BY <1>1, ListsType, ElemsCardinality
<1>3. Cardinality(Elems(lists.Am) \cap Elems(lists.A1in)) = 0
  BY <1>1, FS_EmptySet DEF Disjoint
<1>4. Cardinality(Elems(lists.Am) \cup Elems(lists.A1in)) =
        Cardinality(Elems(lists.Am)) + Cardinality(Elems(lists.A1in))
          - Cardinality(Elems(lists.Am) \cap Elems(lists.A1in))
  BY <1>2, FS_Union
<1> QED
  BY <1>1, <1>2, <1>3, <1>4 DEF CachedOf, Used

\* The cache implements TierCache: it fills up to its capacity, then every page
\* that enters it takes the place of exactly one other.
THEOREM TierCacheCorrect == Spec => ImplementsTierCache
<1>1. Init => Cache!Init
  BY EmptyList DEF Init, Cache!Init, Cached
<1>2. Inv /\ [Next]_vars => [Cache!Next]_Cached
  <2> SUFFICES ASSUME Inv, [Next]_vars PROVE [Cache!Next]_Cached
    OBVIOUS
  <2>1. ASSUME NEW x \in Pages, accessPage(x) PROVE Cache!Next
    <3>1. Outcome(x)
      BY <2>1, AccessOutcome
    <3>2. Cardinality(Cached) = Used(lists)
      BY CachedSize
    <3>3. Cache!Cardinality(Cached) = Cardinality(Cached)
      BY DEF Cache!Cardinality, Cardinality
    <3>4. Cache!Hit(x) \/ Cache!Admit(x) \/ Cache!Exchange(x)
      BY <3>1, <3>2, <3>3 DEF Outcome, Cache!Hit, Cache!Admit, Cache!Exchange
    <3> QED
      BY <3>4 DEF Cache!Next
  <2>2. CASE UNCHANGED vars
    BY <2>2 DEF vars, Cached
  <2> QED
    BY <2>1, <2>2 DEF Next
<1> QED
  BY <1>1, <1>2, InvInit, InvStep, PTL DEF Spec, ImplementsTierCache, Cache!Spec
=============================================================================
