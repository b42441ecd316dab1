--------------------------- MODULE FrequencySketch ---------------------------
(***************************************************************************)
(* The counting Bloom filter of tiering_runtime/frequency_sketch_block.hpp *)
(* with the one sequence of calls that depends on it: a page at the        *)
(* maximum is decremented when it gets a second chance, and compared       *)
(* later.  A page has one counter in each row and shares it with any page  *)
(* that hashes to the same slot; its frequency is the least of them.       *)
(*                                                                         *)
(* The packing of sixteen counters into a word is left out: what it could  *)
(* do wrong, a borrow from the neighbour, is a counter below zero here.    *)
(***************************************************************************)
EXTENDS Integers, FiniteSetsExt, Functions

CONSTANTS
  Pages,       \* the keys
  Rows,        \* the counters of a page: 4
  Slots,       \* the counters of a row
  Slot,        \* the hash: the slot of a page in each row
  MaxCount,    \* 15
  MaxIncrease, \* the most samples of one page in a batch
  sample_size  \* samples until the next aging

ASSUME SketchAssumption ==
  /\ Slot \in [Pages -> [Rows -> Slots]]
  /\ Rows # {}
  /\ MaxCount \in Nat /\ MaxCount % 2 = 1
  \* A batch of 100000 samples is never enough for two agings: SAMPLE_SIZE is 160
  \* times the pages of the fast tier, and 1100000 for the momentum.
  /\ sample_size \in Nat /\ sample_size >= 2
  /\ MaxIncrease \in 1 .. sample_size

VARIABLES
  table,    \* the counters
  size,     \* samples since the last aging, which halves it
  dist,     \* frequency_dist, but for the element at 0, which is not read
  oldfreq   \* the frequency recorded with a second chance, or None

(***************************************************************************)
(* History, for the properties only.                                       *)
(***************************************************************************)
VARIABLES
  exact,    \* what a counter of the page's own would hold
  lowered,  \* pages with a counter another page's second chance decremented
  touched,  \* pages sampled since they got their second chance
  excused,  \* pages with a second chance whose counters sank since
  least     \* the least index of frequency_dist used so far, 1 at most

vars == <<table, size, dist, oldfreq, exact, lowered, touched, excused, least>>

None == -1

Counters == Rows \X Slots

Of(p) == {<<r, Slot[p][r]>> : r \in Rows}

Freq(t, p) == Min({t[c] : c \in Of(p)})

\* frequency
frequency(p) == Freq(table, p)

-----------------------------------------------------------------------------
SaturateWrapped(c, n) == (c + n) % (MaxCount + 1)

\* try_increase_counter_at
Saturate(c, n) == IF c + n >= MaxCount THEN MaxCount ELSE c + n

Raise(t, p, n) ==
  [c \in Counters |-> IF c \in Of(p) THEN Saturate(t[c], n) ELSE t[c]]

\* max_increased_amount
MaxIncreased(t, p, n) == Max({Saturate(t[c], n) - t[c] : c \in Of(p)})

Halve(f) == [x \in DOMAIN f |-> f[x] \div 2]

HalveDistDroppingOdd(d) ==
  [i \in DOMAIN d |-> IF 2 * i > MaxCount THEN 0 ELSE d[2 * i]]

\* Items of the frequencies 2 and 3 have the frequency 1 now, and so on.
HalveDist(d) ==
  [i \in DOMAIN d |-> IF 2 * i > MaxCount THEN 0 ELSE d[2 * i] + d[2 * i + 1]]

\* A page is counted at its frequency f and no longer at f - inc.  The difference
\* is unsigned: all but 0 are above it, and below 0 it is not in the array.
Counted(d, f, inc) ==
  [i \in DOMAIN d |-> IF inc = 0 THEN d[i]
                      ELSE d[i] + (IF i = f THEN 1 ELSE 0)
                                - (IF i = f - inc THEN 1 ELSE 0)]

LeastIndex(f, inc) ==
  CASE inc = 0 -> 1
    [] inc = f -> f
    [] OTHER   -> Min({f, f - inc})

\* updated_freq, before it is halved
Raised(t, p, n) == Freq(Raise(t, p, n), p)

Ages(n) == size + n >= sample_size

\* f is the frequency a page is counted at, and newdist the distribution then.
\* Before the array lie size_ and, below that, table_size_ and table_ itself: a
\* call that writes to these is the last one the model looks at.
Increase(p, n, f, newdist) ==
  LET up   == Raise(table, p, n)
      low  == LeastIndex(f, MaxIncreased(table, p, n))
      own  == [exact EXCEPT ![p] = Saturate(@, n)]
      left == IF Ages(n) THEN (size + n) \div 2 ELSE size + n
  IN  /\ table' = IF Ages(n) THEN Halve(up) ELSE up
      /\ exact' = IF Ages(n) THEN Halve(own) ELSE own
      /\ size' = IF low = -1 THEN left - 1 ELSE left
      /\ dist' = newdist
      /\ least' = Min({least, low})
      /\ touched' = IF oldfreq[p] # None THEN touched \cup {p} ELSE touched
      /\ excused' = IF Ages(n) THEN {q \in Pages : oldfreq[q] # None} ELSE excused
      /\ UNCHANGED <<oldfreq, lowered>>

\* The counters are halved first, and the page is counted at half its frequency
\* but taken out by the whole increase.
increase_frequency(p, n) ==
  LET f   == IF Ages(n) THEN Raised(table, p, n) \div 2 ELSE Raised(table, p, n)
      inc == MaxIncreased(table, p, n)
  IN  Increase(p, n, f, Counted(IF Ages(n) THEN HalveDist(dist) ELSE dist, f, inc))

\* age, called when the thread leaves monitor mode: the second chances are
\* forgotten with it.
age ==
  /\ table' = Halve(table)
  /\ exact' = Halve(exact)
  /\ size' = size \div 2
  /\ dist' = HalveDist(dist)
  /\ oldfreq' = [p \in Pages |-> None]
  /\ touched' = {}
  /\ excused' = {}
  /\ UNCHANGED <<lowered, least>>

-----------------------------------------------------------------------------
MustDecrementAlways(p) == TRUE

\* Only a page at the maximum is decremented.
MustDecrement(p) == frequency(p) = MaxCount

\* decrement_frequency takes one off each counter of the page.
Decrement(t, p) ==
  [c \in Counters |-> IF c \in Of(p) THEN t[c] - 1 ELSE t[c]]

Recorded(p) == IF frequency(p) = MaxCount THEN MaxCount - 1 ELSE frequency(p)

Sharing(p) == {q \in Pages \ {p} : Of(q) \cap Of(p) # {}}

\* A scan gives the page a second chance.
SecondChanceUnlowered(p) ==
  /\ oldfreq' = [oldfreq EXCEPT ![p] = frequency(p)]
  /\ touched' = touched \ {p}
  /\ excused' = excused \ {p}
  /\ UNCHANGED <<table, exact, lowered, size, dist, least>>

SecondChance(p) ==
  /\ oldfreq' = [oldfreq EXCEPT ![p] = Recorded(p)]
  /\ touched' = touched \ {p}
  /\ IF MustDecrement(p)
       THEN /\ table' = Decrement(table, p)
            /\ exact' = [exact EXCEPT ![p] = IF @ = MaxCount THEN @ - 1 ELSE @]
            /\ lowered' = lowered \cup Sharing(p)
            /\ excused' = (excused \ {p}) \cup
                          {q \in Sharing(p) : oldfreq[q] # None}
       ELSE /\ excused' = excused \ {p}
            /\ UNCHANGED <<table, exact, lowered>>
  /\ UNCHANGED <<size, dist, least>>

\* The second chances are checked and forgotten.
CheckSecondChance ==
  /\ \E p \in Pages : oldfreq[p] # None
  /\ oldfreq' = [p \in Pages |-> None]
  /\ touched' = {}
  /\ excused' = {}
  /\ UNCHANGED <<table, exact, lowered, size, dist, least>>

-----------------------------------------------------------------------------
\* change_capacity allocates the table and does not clear it.
Init ==
  /\ table \in [Counters -> 0 .. MaxCount]
  /\ size = 0
  /\ oldfreq = [p \in Pages |-> None]
  /\ exact = [p \in Pages |-> 0]
  /\ lowered = {}
  /\ touched = {}
  /\ excused = {}
  /\ dist = [i \in 1 .. MaxCount |-> 0]
  /\ least = 1

\* The members before size_ are as they should be.
Intact == least >= -1

\* What the sketch goes through apart from increases.
Others ==
  \/ /\ Intact
     /\ \/ \E p \in Pages : SecondChance(p)
        \/ CheckSecondChance
        \/ age
  \/ ~Intact /\ UNCHANGED vars

Next ==
  \/ Intact /\ \E p \in Pages, n \in 1 .. MaxIncrease : increase_frequency(p, n)
  \/ Others

Spec == Init /\ [][Next]_vars

-----------------------------------------------------------------------------
(* Properties                                                              *)

\* No counter leaves its four bits: an increase saturates, and a decrement
\* never meets a zero and borrows from the next counter of the word.
TypeOK ==
  /\ table \in [Counters -> 0 .. MaxCount]
  /\ size \in 0 .. sample_size - 1
  /\ dist \in [1 .. MaxCount -> Int]
  /\ least \in -MaxCount .. 1
  /\ oldfreq \in [Pages -> {None} \cup (0 .. MaxCount - 1)]
  /\ exact \in [Pages -> 0 .. MaxCount]
  /\ lowered \in SUBSET Pages
  /\ touched \in SUBSET Pages
  /\ excused \in SUBSET Pages

\* Sharing only raises a frequency: a page is not estimated below its own
\* count, unless the second chance of another page took one off its counters.
NeverUndercounts == \A p \in Pages \ lowered : frequency(p) >= exact[p]

\* The second chance check with shared counters: a page that was sampled since
\* it was queued does not show the recorded frequency, unless its counters were
\* halved or decremented for another page meanwhile.
SecondChanceSound ==
  \A p \in touched \ excused : frequency(p) # oldfreq[p]

get_num_hot_pages(thresh) == FoldFunctionOnSet(+, 0, dist, thresh .. MaxCount)

\* The pages counted as hot, of which the size of a plateau is judged, are never
\* less than none, though a bin may well be: a page that was raised by others is
\* taken out of a bin it was never put into.
HotPagesCounted == \A thresh \in 1 .. MaxCount : get_num_hot_pages(thresh) >= 0

\* What the comment on frequency_dist says: it does not count items of frequency
\* 0.  So nothing at 0, and nothing before it, is used.
NotCountingZeros == least >= 1
=============================================================================
