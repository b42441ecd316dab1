------------------------------ MODULE HugeTier ------------------------------
(***************************************************************************)
(* The tiering thread for 2 MB pages, tiering_runtime/hybridtier_huge.cpp. *)
(* It goes through the same batch as HybridTier, whose actions it shares   *)
(* where the two files agree.  What differs is defined here: counters of   *)
(* 16 bits with thresholds in the hundreds, a second chance that is lost   *)
(* by few accesses and not by none, a hot threshold that moves in steps    *)
(* and up again, and a budget in base pages that is spent in huge ones.    *)
(* A scan sees a page once, as though no two mappings met within 2 MB.     *)
(***************************************************************************)
EXTENDS HybridTier

CONSTANTS
  ColdMomentum,   \* below it a page has low momentum, for the cold case: 400
  ChanceMomentum, \* and for the second chance: 20
  IdleMargin,     \* accesses that keep a page with a second chance: 100
  HotStep,        \* step of hot_thresh: 100
  BasePages,      \* base pages in a huge page: 512
  SmallPages      \* bound on the base pages charged outside of Pages

ASSUME HugeAssumption ==
  /\ ColdMomentum \in Nat
  /\ ChanceMomentum \in Nat
  /\ IdleMargin \in Nat \ {0}
  /\ HotStep \in Nat \ {0}
  /\ HotMin < HotInit /\ (HotInit - HotMin) % HotStep = 0
  /\ BasePages \in Nat \ {0}
  /\ SmallPages \in Nat

(***************************************************************************)
(* History, for the properties only.                                       *)
(***************************************************************************)
VARIABLES
  accesses,  \* batches that sampled a page since it was queued, to IdleMargin
  usage      \* base pages in use when the headroom of the batch was read

hugeVars == <<vars, accesses, usage>>

NoAccess == [p \in Pages |-> 0]

-----------------------------------------------------------------------------
HugeProcessSample(p) ==
  /\ ProcessSample(p)
  /\ accesses' = IF p \in Queued
                   THEN [accesses EXCEPT ![p] = AtMost(@ + 1, IdleMargin)]
                   ELSE accesses
  /\ UNCHANGED usage

HugeWmarkInBase == HighWmark

\* high_wmark_huge_pages, of HighWmark base pages
HugeWmark == IF HighWmark < BasePages THEN 1 ELSE HighWmark \div BasePages

\* Watermark and usage are rounded down to huge pages and then subtracted.
HugeHeadroom(used) ==
  IF HighWmark = 0 THEN NoLimit
  ELSE IF used \div BasePages >= HugeWmark THEN 0
  ELSE HugeWmark - used \div BasePages

HugeReadBudget ==
  /\ pc = "sample"
  /\ todo = {}
  /\ pc' = "promote"
  /\ \E small \in 0 .. SmallPages : usage' = BasePages * Cardinality(fast) + small
  /\ headroom' = HugeHeadroom(usage')
  /\ granted' = headroom'
  /\ unserved' = {s \in Spaces : s \cap cands # {}}
  /\ UNCHANGED <<fast, freq, momentum, hot, todo, cands, scanVars, queueVars,
                 batchAged, moved, moveFailed, accesses>>

-----------------------------------------------------------------------------
(* Demotion                                                                *)

\* Queued pages whose frequency rose by less than IdleMargin.
Few == {queue[k].page : k \in {j \in DOMAIN queue :
                                 freq[queue[j].page] < queue[j].old + IdleMargin}}

HugeCheckSecondChance ==
  /\ pc = "check"
  /\ queue # << >>
  /\ pc' \in {"scan", "decide"}
  /\ \E X \in SUBSET (Few \cap fast) : fast' = fast \ X
  /\ queue' = << >>
  /\ touched' = {}
  /\ aged' = {}
  /\ accesses' = NoAccess
  /\ UNCHANGED <<freq, momentum, hot, batchVars, scanVars, batchAged,
                 promoteHist, usage>>

HugeScanCold(p) ==
  /\ Visit(p)
  /\ freq[p] < hot
  /\ momentum[p] < ColdMomentum
  /\ cold' = cold \cup {p}
  /\ UNCHANGED <<freq, queue, touched, accesses, usage>>

GivesChance(p) ==
  /\ freq[p] >= hot
  /\ momentum[p] < ChanceMomentum
  /\ Len(queue) < QueueCap

HugeScanSecondChanceDecremented(p) ==
  /\ Visit(p)
  /\ GivesChance(p)
  /\ freq' = [freq EXCEPT ![p] = @ - 1]
  /\ queue' = Append(queue, [page |-> p, old |-> OldFreq(freq[p])])
  /\ touched' = touched \ {p}
  /\ accesses' = [accesses EXCEPT ![p] = 0]
  /\ UNCHANGED <<cold, usage>>

HugeScanSecondChance(p) ==
  /\ Visit(p)
  /\ GivesChance(p)
  /\ freq' = [freq EXCEPT ![p] = OldFreq(@)]
  /\ queue' = Append(queue, [page |-> p, old |-> OldFreq(freq[p])])
  /\ touched' = touched \ {p}
  /\ accesses' = [accesses EXCEPT ![p] = 0]
  /\ UNCHANGED <<cold, usage>>

-----------------------------------------------------------------------------
(* End of a batch                                                          *)

HugeNextBatch == NextBatch /\ usage' = 0

HugeContinue ==
  /\ HugeNextBatch
  /\ UNCHANGED <<freq, momentum, hot, queueVars, accesses>>

HugeLowerUnbounded ==
  /\ HugeNextBatch
  /\ hot >= HotStep
  /\ hot' = hot - HotStep
  /\ UNCHANGED <<freq, momentum, queueVars, accesses>>

\* Promotion plateau with room left on the fast node.
HugeLowerHotThresh ==
  /\ HugeNextBatch
  /\ hot # HotMin
  /\ hot' = hot - HotStep
  /\ UNCHANGED <<freq, momentum, queueVars, accesses>>

ForgetQueue ==
  /\ queue' = << >>
  /\ touched' = {}
  /\ aged' = {}
  /\ accesses' = NoAccess

\* The same with the threshold at its minimum: after monitor mode it is one
\* step up, and only the momentum is aged.
RaiseHotThresh ==
  /\ HugeNextBatch
  /\ hot = HotMin
  /\ hot' = hot + HotStep
  /\ momentum' = Halve(momentum)
  /\ ForgetQueue
  /\ UNCHANGED freq

\* Monitor mode was entered for another reason.
HugeWake ==
  /\ HugeNextBatch
  /\ freq' = Halve(freq)
  /\ momentum' = Halve(momentum)
  /\ hot' = HotInit
  /\ ForgetQueue

-----------------------------------------------------------------------------
HugeInit ==
  /\ Init
  /\ accesses = NoAccess
  /\ usage = 0

\* The steps that hybridtier.cpp and hybridtier_huge.cpp have in common.
CommonStep ==
  /\ \/ \E s \in Spaces : SkipSpace(s) \/ PromoteAll(s) \/ PromotePartly(s)
     \/ NoPressure
     \/ Pressure
     \/ SkipSecondChance
     \/ FinishScan
     \/ \E p \in Pages : KernelMove(p)
  /\ UNCHANGED <<accesses, usage>>

HugeNext ==
  \/ CommonStep
  \/ \E p \in Pages : \/ HugeProcessSample(p)
                      \/ HugeScanCold(p)
                      \/ HugeScanSecondChance(p)
  \/ HugeReadBudget
  \/ HugeCheckSecondChance
  \/ HugeContinue
  \/ HugeLowerHotThresh
  \/ RaiseHotThresh
  \/ HugeWake

HugeSpec == HugeInit /\ [][HugeNext]_hugeVars

-----------------------------------------------------------------------------
(* Properties                                                              *)

\* The types of HybridTier: the threshold in particular keeps between its
\* bounds, which the test for its minimum by equality relies on.
HugeTypeOK ==
  /\ TypeOK
  /\ accesses \in [Pages -> 0 .. IdleMargin]
  /\ usage \in Nat

\* A queued page that was sampled often enough since is not taken for idle, as
\* long as its counter was not halved and has room for that many accesses.
ActiveNotIdle ==
  \A k \in DOMAIN queue :
    LET page == queue[k].page
    IN  /\ page \notin aged
        /\ accesses[page] >= IdleMargin
        /\ queue[k].old + IdleMargin <= MaxCount
        => freq[page] >= queue[k].old + IdleMargin

\* The watermark is in base pages and the headroom in huge ones.  What a batch
\* promotes takes the usage it read less than one huge page beyond the
\* watermark, as long as no promotion fails.
PromotionWithinOnePage ==
  ~moveFailed /\ moved # {} /\ HighWmark >= BasePages =>
    usage + BasePages * Cardinality(moved) < HighWmark + BasePages

\* "Very few accesses sampled since last visit", says the code of every page
\* whose second chance is over, and that the decrement of a page at the maximum
\* is there to see accesses.
FewAccesses == \A page \in Few \ aged : accesses[page] < IdleMargin

(***************************************************************************)
(* The inductive invariant behind these properties.                        *)
(***************************************************************************)

\* The threshold is a whole number of steps above its minimum, so that going
\* down it meets the minimum and does not pass it.
ThreshInv == (hot - HotMin) % HotStep = 0

\* Every access counts, up to the maximum, until the counter is halved.
ActiveInv ==
  \A k \in DOMAIN queue :
    LET page == queue[k].page
    IN  /\ queue[k].old < MaxCount
        /\ page \notin aged =>
             AtMost(queue[k].old + accesses[page], MaxCount) <= freq[page]

\* What is left of the headroom and what was promoted add up, and the headroom
\* is the one of the usage that was read.
HugeHeadroomInv ==
  /\ pc = "sample" => moved = {}
  /\ pc # "sample" => granted = HugeHeadroom(usage)
  /\ HighWmark # 0 /\ ~moveFailed =>
       /\ Cardinality(moved) <= granted
       /\ pc = "promote" => Cardinality(moved) + headroom <= granted

HugeIInv ==
  /\ HugeTypeOK
  /\ ThreshInv
  /\ ActiveInv
  /\ HugeHeadroomInv
=============================================================================
