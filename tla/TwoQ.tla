-------------------------------- MODULE TwoQ --------------------------------
(***************************************************************************)
(* The 2Q cache of tiering_runtime/twoq.cpp.  A page enters the fast tier  *)
(* through the FIFO A1in; one that is accessed again after it left A1in,   *)
(* while it is still remembered as a ghost, enters the LRU list Am.        *)
(*                                                                         *)
(* The ghosts are kept twice, as the list A1out and as the map A1outMap.   *)
(* An access takes its page out of the map only, so the list also holds    *)
(* pages that are no ghosts any more.                                      *)
(***************************************************************************)
EXTENDS Naturals, Sequences, PageLists

CONSTANTS
  Pages,        \* the page addresses that are sampled
  maxSize,      \* capacity: NUM_FAST_MEMORY_PAGES
  MovesMayFail  \* whether move_pages can leave a page where it is

ASSUME TwoQAssumption ==
  /\ maxSize \in Nat \ {0}
  /\ MovesMayFail \in BOOLEAN

VARIABLES
  lists,   \* Am, A1in, A1out and the key set of A1outMap
  fast,    \* the pages on the fast node
  recent   \* history: the accessed pages, the latest access first, see Seen

vars == <<lists, fast, recent>>

Kin  == maxSize \div 4
Kout == maxSize \div 2

Lists == [Am : Seq(Pages), A1in : Seq(Pages), A1out : Seq(Pages),
          A1outMap : SUBSET Pages]

Cached == Elems(lists.Am) \cup Elems(lists.A1in)

\* promote_page and demote_page: the caller looks at no result.
Outcomes(before, after) == {after} \cup (IF MovesMayFail THEN {before} ELSE {})

Promote(f, x) == Outcomes(f, f \cup {x})
Demote(f, x)  == Outcomes(f, f \ {x})

-----------------------------------------------------------------------------
(* reclaim(X)                                                              *)

HasRoomForOneMore(L) == Len(L.Am) + Len(L.A1in) <= maxSize

HasRoom(L) == Len(L.Am) + Len(L.A1in) < maxSize

DropA1inUntrimmed(L) ==
  LET y == Back(L.A1in)
  IN  [L EXCEPT !.A1in = PopBack(@), !.A1out = PushFront(y, @),
                !.A1outMap = @ \cup {y}]

DropA1inStale(L) ==
  LET y   == Back(L.A1in)
      out == PushFront(y, L.A1out)
      M   == [L EXCEPT !.A1in = PopBack(@), !.A1out = out,
                       !.A1outMap = @ \cup {y}]
  IN  IF Len(out) > Kout THEN [M EXCEPT !.A1out = PopBack(@)] ELSE M

\* A1in is over its share: its oldest page becomes a ghost, and when the ghost
\* list is too long its last entry is forgotten, in the map by its address.
DropA1in(L) ==
  LET y   == Back(L.A1in)
      out == PushFront(y, L.A1out)
      M   == [L EXCEPT !.A1in = PopBack(@), !.A1out = out,
                       !.A1outMap = @ \cup {y}]
  IN  IF Len(out) > Kout
        THEN [M EXCEPT !.A1out = PopBack(@), !.A1outMap = @ \ {Back(out)}]
        ELSE M

DropAm(L) == [L EXCEPT !.Am = PopBack(@)]

Victim(L) == IF Len(L.A1in) > Kin THEN Back(L.A1in) ELSE Back(L.Am)

Reclaim(L) ==
  IF HasRoom(L) THEN L
  ELSE IF Len(L.A1in) > Kin THEN DropA1in(L) ELSE DropAm(L)

AfterReclaim(L) == IF HasRoom(L) THEN {fast} ELSE Demote(fast, Victim(L))

-----------------------------------------------------------------------------
(* accessPage(X)                                                           *)

\* An access makes x the most recent page.  One to a page of A1in does not: 2Q
\* takes it for a part of the access that brought the page in.
Seen(x) ==
  recent' = IF x \in Elems(lists.A1in) THEN recent
            ELSE PushFront(x, IF x \in Elems(recent) THEN Erase(recent, x) ELSE recent)

HitAmInPlace(x) ==
  /\ x \in Elems(lists.Am)
  /\ Seen(x)
  /\ UNCHANGED <<lists, fast>>

\* A page of Am moves to the front.
HitAm(x) ==
  /\ x \in Elems(lists.Am)
  /\ lists' = [lists EXCEPT !.Am = PushFront(x, Erase(@, x))]
  /\ Seen(x)
  /\ UNCHANGED fast

HitGhostKept(x) ==
  /\ x \notin Elems(lists.Am)
  /\ x \in lists.A1outMap
  /\ lists' = [Reclaim(lists) EXCEPT !.Am = PushFront(x, @)]
  /\ \E f \in AfterReclaim(lists) : fast' \in Promote(f, x)
  /\ Seen(x)

\* A ghost enters Am.
HitGhost(x) ==
  /\ x \notin Elems(lists.Am)
  /\ x \in lists.A1outMap
  /\ lists' = [Reclaim(lists) EXCEPT !.Am = PushFront(x, @),
                                     !.A1outMap = @ \ {x}]
  /\ \E f \in AfterReclaim(lists) : fast' \in Promote(f, x)
  /\ Seen(x)

HitA1inToFront(x) ==
  /\ x \notin Elems(lists.Am) \cup lists.A1outMap
  /\ x \in Elems(lists.A1in)
  /\ lists' = [lists EXCEPT !.A1in = PushFront(x, Erase(@, x))]
  /\ Seen(x)
  /\ UNCHANGED fast

\* A page of A1in stays where it is.
HitA1in(x) ==
  /\ x \notin Elems(lists.Am) \cup lists.A1outMap
  /\ x \in Elems(lists.A1in)
  /\ Seen(x)
  /\ UNCHANGED <<lists, fast>>

MissUnpromoted(x) ==
  /\ x \notin Elems(lists.Am) \cup lists.A1outMap \cup Elems(lists.A1in)
  /\ lists' = [Reclaim(lists) EXCEPT !.A1in = PushFront(x, @)]
  /\ fast' \in AfterReclaim(lists)
  /\ Seen(x)

\* Any other page enters A1in.
Miss(x) ==
  /\ x \notin Elems(lists.Am) \cup lists.A1outMap \cup Elems(lists.A1in)
  /\ lists' = [Reclaim(lists) EXCEPT !.A1in = PushFront(x, @)]
  /\ \E f \in AfterReclaim(lists) : fast' \in Promote(f, x)
  /\ Seen(x)

accessPage(x) ==
  \/ HitAm(x)
  \/ HitGhost(x)
  \/ HitA1in(x)
  \/ Miss(x)

-----------------------------------------------------------------------------
\* The application starts with its memory on the slow node.
Init ==
  /\ lists = [Am |-> << >>, A1in |-> << >>, A1out |-> << >>, A1outMap |-> {}]
  /\ fast = {}
  /\ recent = << >>

Next == \E x \in Pages : accessPage(x)

Spec == Init /\ [][Next]_vars

-----------------------------------------------------------------------------
(* Properties                                                              *)

\* The lists and the map hold pages.  The fast tier is not overcommitted, and
\* the ghost list keeps to its size with the entries that are no ghosts any
\* more included.
TypeOK ==
  /\ lists \in Lists
  /\ fast \in SUBSET Pages
  /\ recent \in Seq(Pages)
  /\ Len(lists.Am) + Len(lists.A1in) <= maxSize
  /\ Len(lists.A1out) <= Kout

\* A page is at one place: in Am, in A1in or a ghost, and once.  AmMap and
\* A1inMap have an iterator for each page of their list.
OnePlace ==
  /\ NoRepeats(lists.Am)
  /\ NoRepeats(lists.A1in)
  /\ Disjoint(lists.Am, lists.A1in)
  /\ lists.A1outMap \cap Cached = {}

\* A ghost of the map is in the list too, so that it is forgotten in the end.
GhostsListed == lists.A1outMap \subseteq Elems(lists.A1out)

\* Lists and maps agree on where a page is, through ghosts that are hit and come
\* back while their old entry is still in A1out.
Directory == OnePlace /\ GhostsListed

MoreRecent(x, y) ==
  \E i, j \in DOMAIN recent : recent[i] = x /\ recent[j] = y /\ i < j

\* In the list s, an a stands before the first b.
Ahead(s, a, b) == \E i \in DOMAIN s : s[i] = a /\ \A k \in 1 .. i : s[k] # b

\* "LRU eviction": Am is in the order of the last accesses, so that its back,
\* which reclaim evicts, is the page accessed least recently.
LeastRecentLast ==
  \A i, j \in DOMAIN lists.Am : i < j => MoreRecent(lists.Am[i], lists.Am[j])

\* "FIFO eviction": the pages of A1in, and behind them the ghosts, stand in the
\* order in which they were brought in.  The entries of A1out that are no ghosts
\* any more, and the older entries of pages that are queued again, do not count.
FirstInFirstOut ==
  LET queue  == lists.A1in \o lists.A1out
      queued == Elems(lists.A1in) \cup lists.A1outMap
  IN  \A a, b \in queued : a # b /\ Ahead(queue, a, b) => MoreRecent(a, b)

\* Pages leave Am in the order of their last accesses, and A1in in the order in
\* which they entered it, through ghost hits, pages that enter A1in again while
\* their old entry is still in A1out, and ghosts that are forgotten.
EvictionOrder == LeastRecentLast /\ FirstInFirstOut

\* "Pages in Am and A1in are in fast tier", and no others: as long as no move
\* fails the fast node holds exactly what the lists say.
CachedIsFast == ~MovesMayFail => fast = Cached

Cache == INSTANCE TierCache WITH cached <- Cached, Capacity <- maxSize

\* The cache does what any demand-filled cache of this capacity does.
ImplementsTierCache == Cache!Spec
=============================================================================
