-------------------------------- MODULE ARC --------------------------------
(***************************************************************************)
(* The adaptive replacement cache of tiering_runtime/arc.cpp.  Every       *)
(* sampled page is requested from the cache; a page that enters it is      *)
(* promoted with move_pages.  T1 and T2 are the cached pages seen once and *)
(* more often, B1 and B2 the ghosts of those evicted; the head of a list   *)
(* is its most recently used end.                                          *)
(*                                                                         *)
(* The target p of T1, a double in the code, is counted here in steps of   *)
(* 1/PUnit.  locationMap is the lists read backwards, and the counters of  *)
(* moved pages are only printed: neither is kept.                          *)
(***************************************************************************)
EXTENDS Naturals, Sequences, PageLists

CONSTANTS
  Pages,        \* the page addresses that are sampled
  c,            \* capacity: NUM_FAST_MEMORY_PAGES
  PUnit,        \* resolution of p
  MovesMayFail  \* whether move_pages can leave a page where it is

ASSUME ARCAssumption ==
  /\ c \in Nat \ {0}
  /\ PUnit \in Nat \ {0}
  /\ MovesMayFail \in BOOLEAN

VARIABLES
  lists,   \* T1, T2, B1 and B2
  p,       \* target size of T1, times PUnit
  fast,    \* the pages on the fast node
  recent   \* history: the requested pages, the latest request first

vars == <<lists, p, fast, recent>>

Lists == [T1 : Seq(Pages), T2 : Seq(Pages), B1 : Seq(Pages), B2 : Seq(Pages)]

Cached == Elems(lists.T1) \cup Elems(lists.T2)
Ghosts == Elems(lists.B1) \cup Elems(lists.B2)

-----------------------------------------------------------------------------
(* Moving a page: with one page per call it moves or it does not.          *)

Outcomes(before, after) == {after} \cup (IF MovesMayFail THEN {before} ELSE {})

Promote(f, x) == Outcomes(f, f \cup {x})
Demote(f, x)  == Outcomes(f, f \ {x})

-----------------------------------------------------------------------------
(* replace(x), on the lists L and with the target q.                       *)

Target(q) == q \div PUnit

TakesT1(L, q, x) ==
  /\ L.T1 # << >>
  /\ \/ Len(L.T1) > Target(q)
     \/ x \in Elems(L.B2) /\ Len(L.T1) = Target(q)

ReplaceFromT1Only(L, q, x) ==
  IF TakesT1(L, q, x)
    THEN [L EXCEPT !.T1 = PopBack(@), !.B1 = PushFront(Back(L.T1), @)]
    ELSE L

Replace(L, q, x) ==
  IF TakesT1(L, q, x)
    THEN [L EXCEPT !.T1 = PopBack(@), !.B1 = PushFront(Back(L.T1), @)]
    ELSE IF L.T2 # << >>
      THEN [L EXCEPT !.T2 = PopBack(@), !.B2 = PushFront(Back(L.T2), @)]
      ELSE L

\* The page replace moves to the slow node is the requested one, not the one
\* it takes off the list.
AfterReplace(L, q, x) ==
  IF TakesT1(L, q, x) \/ L.T2 # << >> THEN Demote(fast, x) ELSE {fast}

-----------------------------------------------------------------------------
(* request(x)                                                              *)

\* Every request makes x the most recent page.
Seen(x) == recent' = PushFront(x, IF x \in Elems(recent) THEN Erase(recent, x)
                                                         ELSE recent)

\* Case I: a hit moves x to the front of T2.
HitT1(x) ==
  /\ x \in Elems(lists.T1)
  /\ lists' = [lists EXCEPT !.T1 = Erase(@, x), !.T2 = PushFront(x, @)]
  /\ Seen(x)
  /\ UNCHANGED <<p, fast>>

HitT2InPlace(x) ==
  /\ x \in Elems(lists.T2)
  /\ Seen(x)
  /\ UNCHANGED <<lists, p, fast>>

HitT2(x) ==
  /\ x \in Elems(lists.T2)
  /\ lists' = [lists EXCEPT !.T2 = PushFront(x, Erase(@, x))]
  /\ Seen(x)
  /\ UNCHANGED <<p, fast>>

\* By how much a ghost hit moves the target, for a hit in a list of size own.
Delta(own, other) == IF own >= other THEN PUnit ELSE (PUnit * other) \div own

RaisedTargetUnbounded(L) == p + Delta(Len(L.B1), Len(L.B2))

RaisedTarget(L) ==
  LET q == p + Delta(Len(L.B1), Len(L.B2))
  IN  IF q <= PUnit * c THEN q ELSE PUnit * c

LoweredTarget(L) ==
  LET d == Delta(Len(L.B2), Len(L.B1))
  IN  IF d <= p THEN p - d ELSE 0

GhostB1PromotedFirst(x) ==
  /\ x \in Elems(lists.B1)
  /\ p' = RaisedTarget(lists)
  /\ LET L == Replace(lists, p', x)
     IN  lists' = [L EXCEPT !.B1 = Erase(@, x), !.T2 = PushFront(x, @)]
  /\ \E f \in Promote(fast, x) : fast' \in Demote(f, x)
  /\ Seen(x)

\* Case II: a ghost of T1 raises the target.
GhostB1(x) ==
  /\ x \in Elems(lists.B1)
  /\ p' = RaisedTarget(lists)
  /\ LET L == Replace(lists, p', x)
     IN  lists' = [L EXCEPT !.B1 = Erase(@, x), !.T2 = PushFront(x, @)]
  /\ \E f \in AfterReplace(lists, p', x) : fast' \in Promote(f, x)
  /\ Seen(x)

GhostB2Kept(x) ==
  /\ x \in Elems(lists.B2)
  /\ p' = LoweredTarget(lists)
  /\ LET L == Replace(lists, p', x)
     IN  lists' = [L EXCEPT !.T2 = PushFront(x, @)]
  /\ \E f \in AfterReplace(lists, p', x) : fast' \in Promote(f, x)
  /\ Seen(x)

\* Case III: a ghost of T2 lowers it.
GhostB2(x) ==
  /\ x \in Elems(lists.B2)
  /\ p' = LoweredTarget(lists)
  /\ LET L == Replace(lists, p', x)
     IN  lists' = [L EXCEPT !.B2 = Erase(@, x), !.T2 = PushFront(x, @)]
  /\ \E f \in AfterReplace(lists, p', x) : fast' \in Promote(f, x)
  /\ Seen(x)

\* Case IV: x is in none of the lists and enters T1.
Miss(x) ==
  /\ x \notin Cached \cup Ghosts
  /\ UNCHANGED p
  /\ Seen(x)

L1Size == Len(lists.T1) + Len(lists.B1)
Total  == L1Size + Len(lists.T2) + Len(lists.B2)

MissDropsGhostOnly(x) ==
  /\ Miss(x)
  /\ L1Size = c
  /\ Len(lists.T1) < c
  /\ lists' = [lists EXCEPT !.B1 = PopBack(@), !.T1 = PushFront(x, @)]
  /\ fast' \in Promote(fast, x)

\* T1 and B1 fill the capacity: the oldest ghost of B1 is forgotten.
MissDropsGhost(x) ==
  /\ Miss(x)
  /\ L1Size = c
  /\ Len(lists.T1) < c
  /\ LET L == Replace([lists EXCEPT !.B1 = PopBack(@)], p, x)
     IN  lists' = [L EXCEPT !.T1 = PushFront(x, @)]
  /\ \E f \in AfterReplace(lists, p, x) : fast' \in Promote(f, x)

\* T1 alone fills it: its oldest page goes without leaving a ghost.
MissDropsPage(x) ==
  /\ Miss(x)
  /\ L1Size = c
  /\ Len(lists.T1) = c
  /\ lists' = [lists EXCEPT !.T1 = PushFront(x, PopBack(@))]
  /\ \E f \in Demote(fast, x) : fast' \in Promote(f, x)

TrimNever(L) == L

\* At 2c pages and ghosts the oldest ghost of B2 is forgotten.
Trim(L) == IF Total >= 2 * c THEN [L EXCEPT !.B2 = PopBack(@)] ELSE L

MissReplaces(x) ==
  /\ Miss(x)
  /\ L1Size < c
  /\ Total >= c
  /\ LET L == Replace(Trim(lists), p, x)
     IN  lists' = [L EXCEPT !.T1 = PushFront(x, @)]
  /\ \E f \in AfterReplace(Trim(lists), p, x) : fast' \in Promote(f, x)

\* While there is room x is only added.
MissFills(x) ==
  /\ Miss(x)
  /\ L1Size < c
  /\ Total < c
  /\ lists' = [lists EXCEPT !.T1 = PushFront(x, @)]
  /\ fast' \in Promote(fast, x)

Request(x) ==
  \/ HitT1(x)
  \/ HitT2(x)
  \/ GhostB1(x)
  \/ GhostB2(x)
  \/ MissDropsGhost(x)
  \/ MissDropsPage(x)
  \/ MissReplaces(x)
  \/ MissFills(x)

-----------------------------------------------------------------------------
\* The application starts with its memory on the slow node.
Init ==
  /\ lists = [T1 |-> << >>, T2 |-> << >>, B1 |-> << >>, B2 |-> << >>]
  /\ p = 0
  /\ fast = {}
  /\ recent = << >>

Next == \E x \in Pages : Request(x)

Spec == Init /\ [][Next]_vars

-----------------------------------------------------------------------------
(* Properties                                                              *)

\* The lists hold pages, and the target lies between zero and the capacity.
TypeOK ==
  /\ lists \in Lists
  /\ p \in 0 .. PUnit * c
  /\ fast \in SUBSET Pages
  /\ recent \in Seq(Pages)

\* A page is at one place of one list: locationMap has an entry for each
\* element, and the iterator it hands to erase is of the right list.
OnePlaceIn(L) ==
  /\ NoRepeats(L.T1)
  /\ NoRepeats(L.T2)
  /\ NoRepeats(L.B1)
  /\ NoRepeats(L.B2)
  /\ Disjoint(L.T1, L.T2)
  /\ Disjoint(L.T1, L.B1)
  /\ Disjoint(L.T1, L.B2)
  /\ Disjoint(L.T2, L.B1)
  /\ Disjoint(L.T2, L.B2)
  /\ Disjoint(L.B1, L.B2)

OnePlace == OnePlaceIn(lists)

\* The cache stays within its capacity, the pages seen once and
\* their ghosts too, and everything together within twice the capacity.
\* Ghosts exist only once the cache is full, and then it stays full.
Sizes ==
  /\ Len(lists.T1) + Len(lists.T2) <= c
  /\ L1Size <= c
  /\ Total <= 2 * c
  /\ Len(lists.B1) + Len(lists.B2) > 0 => Len(lists.T1) + Len(lists.T2) = c

\* The directory: every page at one place, and as many of each kind as ARC
\* allows.
Directory == OnePlace /\ Sizes

\* pop_back is never called on an empty list: where B1 or B2 lose their
\* oldest ghost they have one.
BackExists ==
  /\ L1Size = c /\ Len(lists.T1) < c => lists.B1 # << >>
  /\ L1Size < c /\ Total >= 2 * c => lists.B2 # << >>

\* The order of recency: each ghost list continues the list of its cached
\* pages, so that a page in T1 was requested later than any ghost in B1, and
\* likewise for T2 and B2.
MoreRecent(x, y) ==
  \E i, j \in DOMAIN recent : recent[i] = x /\ recent[j] = y /\ i < j

RecencyOrder ==
  LET ordered(s) == \A i, j \in DOMAIN s : i < j => MoreRecent(s[i], s[j])
  IN  ordered(lists.T1 \o lists.B1) /\ ordered(lists.T2 \o lists.B2)

\* What the cache keeps is on the fast node, as long as no move fails.
CachedOnFast == ~MovesMayFail => Cached \subseteq fast

\* "The cache is the fast tier memory": no other page of the application is
\* on the fast node either.
FastIsCache == fast \subseteq Cached

Cache == INSTANCE TierCache WITH cached <- Cached, Capacity <- c

\* The cache does what any demand-filled cache of this capacity does.
ImplementsTierCache == Cache!Spec
=============================================================================
