------------------------------ MODULE HugeSketch ------------------------------
(***************************************************************************)
(* The counting Bloom filters of both builds.  The counters of             *)
(* tiering_runtime/frequency_sketch_block_huge.hpp have 16 bits, and a     *)
(* call counts a page in frequency_dist before the counters are halved.    *)
(*                                                                         *)
(* decrement_frequency takes three bits of the hash for the one of four    *)
(* counters in a word.  The shift is undefined in C++ then; on x86-64 the  *)
(* third bit has no effect, which is how it is modelled.                   *)
(***************************************************************************)
EXTENDS FrequencySketch

VARIABLE huge  \* which build runs

hugeVars == <<vars, huge>>

huge_increase_frequency(p, n) ==
  LET f == Raised(table, p, n)
      d == Counted(dist, f, MaxIncreased(table, p, n))
  IN  Increase(p, n, f, IF Ages(n) THEN HalveDist(d) ELSE d)

HugeInit == Init /\ huge \in BOOLEAN

HugeNext ==
  /\ \/ /\ huge
        /\ \E p \in Pages, n \in 1 .. MaxIncrease : huge_increase_frequency(p, n)
     \/ /\ ~huge /\ Intact
        /\ \E p \in Pages, n \in 1 .. MaxIncrease : increase_frequency(p, n)
     \/ Others
  /\ UNCHANGED huge

HugeSpec == HugeInit /\ [][HugeNext]_hugeVars

\* The pages counted as hot are never less than none, and the distribution of
\* the huge build counts no page of frequency 0.
HistogramSound == HotPagesCounted /\ (huge => NotCountingZeros)
=============================================================================
