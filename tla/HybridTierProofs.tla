-------------------------- MODULE HybridTierProofs --------------------------
(***************************************************************************)
(* Proofs about the tiering thread, with pages of 4 KB (HybridTier) and    *)
(* then of 2 MB (HugeTier), for any set of pages, any counter width and    *)
(* any thresholds.                                                         *)
(***************************************************************************)
EXTENDS HugeTier, FiniteSetTheorems, TLAPS

(***************************************************************************)
(* Operators                                                               *)
(***************************************************************************)

\* Halving and increasing keep the counters in their range; an increase
\* without aging moves no counter down, and moves the counter of its page up
\* unless it is saturated.
LEMMA HalveType ==
  ASSUME NEW f \in [Pages -> 0 .. MaxCount]
  PROVE  Halve(f) \in [Pages -> 0 .. MaxCount]
<1>1. \A c \in 0 .. MaxCount : c \div 2 \in 0 .. MaxCount
  BY HybridTierAssumption
<1> QED
  BY <1>1 DEF Halve

LEMMA IncreaseProperties ==
  ASSUME NEW f \in [Pages -> 0 .. MaxCount],
         NEW p \in Pages, NEW n \in 1 .. MaxCount, NEW ages \in BOOLEAN
  PROVE  /\ Increase(f, p, n, ages) \in [Pages -> 0 .. MaxCount]
         /\ ~ages => /\ \A q \in Pages : Increase(f, p, n, ages)[q] >= f[q]
                     /\ Increase(f, p, n, ages)[p] >= 1
                     /\ f[p] < MaxCount => Increase(f, p, n, ages)[p] > f[p]
<1> DEFINE g == [f EXCEPT ![p] = Saturate(@, n)]
<1>1. \A c \in 0 .. MaxCount : /\ Saturate(c, n) \in 1 .. MaxCount
                               /\ Saturate(c, n) >= c
                               /\ c < MaxCount => Saturate(c, n) > c
  BY HybridTierAssumption DEF Saturate, AtMost
<1>2. g \in [Pages -> 0 .. MaxCount]
  BY <1>1
<1>3. Halve(g) \in [Pages -> 0 .. MaxCount]
  BY <1>2, HalveType
<1>4. g[p] = Saturate(f[p], n) /\ \A q \in Pages \ {p} : g[q] = f[q]
  OBVIOUS
<1>5. f[p] \in 0 .. MaxCount /\ \A q \in Pages : f[q] \in 0 .. MaxCount
  OBVIOUS
<1>6. \A q \in Pages : g[q] >= f[q]
  BY <1>1, <1>4, <1>5
<1>7. Increase(f, p, n, ages) = IF ages THEN Halve(g) ELSE g
  BY DEF Increase
<1> HIDE DEF g
<1> QED
  BY <1>1, <1>2, <1>3, <1>4, <1>5, <1>6, <1>7

LEMMA OldFreqType ==
  ASSUME NEW c \in 0 .. MaxCount
  PROVE  /\ OldFreq(c) \in 0 .. MaxCount
         /\ OldFreq(c) <= MaxCount - 1
         /\ OldFreq(c) <= c
         /\ c <= MaxCount - 1 => OldFreq(c) = c
BY HybridTierAssumption DEF OldFreq

LEMMA HeadroomType ==
  ASSUME NEW S \in SUBSET Pages
  PROVE  Headroom(Cardinality(S)) \in Nat
<1>1. IsFiniteSet(S) /\ Cardinality(S) \in Nat /\ Cardinality(Pages) \in Nat
  BY HybridTierAssumption, FS_Subset, FS_CardinalityType
<1> QED
  BY <1>1, HybridTierAssumption DEF Headroom, NoLimit

(***************************************************************************)
(* Type correctness                                                        *)
(***************************************************************************)

LEMMA TypeInit == Init => TypeOK
<1> SUFFICES ASSUME Init PROVE TypeOK
  OBVIOUS
<1>1. queue \in Seq(Entry) /\ Len(queue) <= QueueCap
  BY HybridTierAssumption DEF Init
<1>2. hot \in HotMin .. HotInit
  BY HybridTierAssumption DEF Init
<1> QED
  BY <1>1, <1>2 DEF Init, TypeOK, Stages

\* A promotion batch is a non-empty set of pages and fits in the headroom.
LEMMA PromotionBatchProperties ==
  ASSUME TypeOK, NEW s \in Spaces, NEW M \in PromotionBatch(s)
  PROVE  /\ M \subseteq Pages
         /\ M \subseteq cands
         /\ Cardinality(M) \in Nat
         /\ Cardinality(M) <= headroom
<1>1. M \subseteq (s \cap cands) \ fast /\ cands \subseteq Pages
  BY DEF PromotionBatch, TypeOK
<1>2. IsFiniteSet((s \cap cands) \ fast) /\ IsFiniteSet(M)
  BY <1>1, HybridTierAssumption, FS_Subset
<1>3. Cardinality(M) \in Nat /\ Cardinality((s \cap cands) \ fast) \in Nat
  BY <1>2, FS_CardinalityType
<1>4. Cardinality(M) = AtMost(Cardinality((s \cap cands) \ fast), headroom)
  BY DEF PromotionBatch
<1> QED
  BY <1>1, <1>3, <1>4 DEF AtMost, TypeOK

\* What the queue holds.
LEMMA QueueEntry ==
  ASSUME TypeOK, NEW k \in DOMAIN queue
  PROVE  /\ queue[k] \in Entry
         /\ queue[k].page \in Pages
         /\ queue[k].old \in 0 .. MaxCount
<1>1. queue \in Seq(Entry)
  BY DEF TypeOK
<1>2. queue[k] \in Entry
  BY <1>1
<1> QED
  BY <1>2 DEF Entry

LEMMA TypeStep == TypeOK /\ [Next]_vars => TypeOK'
<1> SUFFICES ASSUME TypeOK, [Next]_vars PROVE TypeOK'
  OBVIOUS
<1> USE HybridTierAssumption
<1>q. Queued \subseteq Pages
  BY QueueEntry DEF Queued
<1>1. ASSUME NEW p \in Pages, ProcessSample(p) PROVE TypeOK'
  <2>1. PICK n \in 1 .. MaxCount, agesL \in BOOLEAN, agesM \in BOOLEAN :
          /\ freq' = Increase(freq, p, n, agesL)
          /\ momentum' = Increase(momentum, p, n, agesM)
          /\ cands' = IF IsCandidate(freq'[p], momentum'[p])
                        THEN cands \cup {p} ELSE cands
          /\ aged' = IF agesL THEN aged \cup Queued ELSE aged
          /\ batchAged' = (batchAged \/ agesL \/ agesM)
    BY <1>1 DEF ProcessSample
  <2>2. freq' \in [Pages -> 0 .. MaxCount] /\ momentum' \in [Pages -> 0 .. MaxCount]
    BY <2>1, IncreaseProperties DEF TypeOK
  <2>3. cands' \in SUBSET Pages /\ aged' \in SUBSET Pages
    BY <1>q, <2>1 DEF TypeOK
  <2>4. batchAged' \in BOOLEAN
    BY <2>1, Zenon DEF TypeOK
  <2> QED
    BY <1>1, <1>q, <2>2, <2>3, <2>4
    DEF TypeOK, ProcessSample, scanVars, promoteHist
<1>2. ASSUME NEW p \in Pages, ScanCold(p) PROVE TypeOK'
  BY <1>2 DEF TypeOK, ScanCold, Visit, batchVars, promoteHist
<1>3. ASSUME NEW p \in Pages, ScanSecondChance(p) PROVE TypeOK'
  <2>1. OldFreq(freq[p]) \in 0 .. MaxCount
    BY OldFreqType DEF TypeOK
  <2>2. freq' \in [Pages -> 0 .. MaxCount]
    BY <1>3, <2>1 DEF ScanSecondChance, TypeOK
  <2>3. [page |-> p, old |-> OldFreq(freq[p])] \in Entry
    BY <2>1 DEF Entry
  <2>4. queue' \in Seq(Entry) /\ Len(queue') <= QueueCap
    BY <1>3, <2>3 DEF ScanSecondChance, TypeOK
  <2> QED
    BY <1>3, <2>2, <2>4
    DEF TypeOK, ScanSecondChance, Visit, batchVars, promoteHist
<1>4. ASSUME NEW p \in Pages, KernelMove(p) PROVE TypeOK'
  BY <1>4 DEF TypeOK, KernelMove, batchVars, scanVars, queueVars, promoteHist
<1>5. ASSUME NEW s \in Spaces, SkipSpace(s) PROVE TypeOK'
  BY <1>5 DEF TypeOK, SkipSpace, Serve, scanVars, queueVars
<1>6. ASSUME NEW s \in Spaces, PromoteAll(s) PROVE TypeOK'
  <2>1. PICK M \in PromotionBatch(s) :
          /\ fast' = fast \cup M
          /\ moved' = moved \cup M
          /\ headroom' = IF HighWmark = 0 THEN headroom
                                          ELSE headroom - Cardinality(M)
    BY <1>6 DEF PromoteAll
  <2>2. M \subseteq Pages /\ Cardinality(M) \in Nat /\ Cardinality(M) <= headroom
    BY PromotionBatchProperties
  <2> QED
    BY <1>6, <2>1, <2>2 DEF TypeOK, PromoteAll, Serve, scanVars, queueVars
<1>7. ASSUME NEW s \in Spaces, PromotePartly(s) PROVE TypeOK'
  <2>1. PICK M \in PromotionBatch(s) : \E P \in SUBSET M :
          fast' = fast \cup P /\ moved' = moved \cup P
    BY <1>7 DEF PromotePartly
  <2>2. PICK P \in SUBSET M : fast' = fast \cup P /\ moved' = moved \cup P
    BY <2>1
  <2>3. P \subseteq Pages
    BY PromotionBatchProperties
  <2> QED
    BY <1>7, <2>2, <2>3 DEF TypeOK, PromotePartly, Serve, scanVars, queueVars
<1>8. CASE ReadBudget
  <2>1. headroom' \in Nat
    BY <1>8, HeadroomType DEF ReadBudget, TypeOK
  <2> QED
    BY <1>8, <2>1 DEF TypeOK, ReadBudget, scanVars, queueVars, Stages
<1>9. CASE NoPressure \/ Pressure
  BY <1>9 DEF TypeOK, NoPressure, Pressure, EndPromotion, scanVars, queueVars,
              promoteHist, Stages
<1>10. CASE CheckSecondChance
  BY <1>10 DEF TypeOK, CheckSecondChance, batchVars, scanVars, promoteHist, Stages
<1>11. CASE SkipSecondChance
  BY <1>11 DEF TypeOK, SkipSecondChance, batchVars, scanVars, queueVars,
               promoteHist, Stages
<1>12. CASE FinishScan
  BY <1>12 DEF TypeOK, FinishScan, batchVars, queueVars, promoteHist, Stages
<1>13. CASE Continue
  BY <1>13 DEF TypeOK, Continue, NextBatch, scanVars, queueVars, Stages
<1>14. CASE LowerHotThresh
  <2>1. hot' \in HotMin .. HotInit
    BY <1>14 DEF LowerHotThresh, TypeOK
  <2> QED
    BY <1>14, <2>1 DEF TypeOK, LowerHotThresh, NextBatch, scanVars, queueVars, Stages
<1>15. CASE Wake
  <2>2. queue' \in Seq(Entry) /\ Len(queue') <= QueueCap /\ hot' \in HotMin .. HotInit
    BY <1>15 DEF Wake
  <2>1. freq' \in [Pages -> 0 .. MaxCount] /\ momentum' \in [Pages -> 0 .. MaxCount]
    BY <1>15, HalveType DEF Wake, TypeOK
  <2> QED
    BY <1>15, <2>1, <2>2 DEF TypeOK, Wake, NextBatch, scanVars, Stages
<1>16. CASE UNCHANGED vars
  BY <1>16 DEF TypeOK, vars, batchVars, scanVars, queueVars, promoteHist
<1> QED
  BY <1>1, <1>2, <1>3, <1>4, <1>5, <1>6, <1>7, <1>8, <1>9, <1>10, <1>11,
     <1>12, <1>13, <1>14, <1>15, <1>16 DEF Next

\* Every reachable state is well typed: in particular no counter leaves its
\* four bits, the hot threshold stays within its bounds, the headroom never
\* wraps below zero and the queue stays within its capacity.
THEOREM TypeCorrect == Spec => []TypeOK
BY TypeInit, TypeStep, PTL DEF Spec

(***************************************************************************)
(* The second chance queue                                                 *)
(***************************************************************************)

\* The queue only changes when the scan appends to it or it is emptied, so the
\* steps that leave queue, freq, touched and aged alone keep the invariant.
LEMMA QueueInvUnchanged ==
  ASSUME QueueInv, queue' = queue, freq' = freq, touched' = touched, aged' = aged
  PROVE  QueueInv'
BY DEF QueueInv

LEMMA QueueInvEmpty ==
  ASSUME queue' = << >>
  PROVE  QueueInv'
BY DEF QueueInv

LEMMA QueueInvInit == Init => QueueInv
BY DEF Init, QueueInv

\* A sample moves the counter of its page strictly above what an entry
\* recorded, which is below the maximum.
LEMMA QueueInvSample ==
  ASSUME TypeOK, QueueInv, NEW p \in Pages, ProcessSample(p)
  PROVE  QueueInv'
<1> USE HybridTierAssumption
<1>1. PICK n \in 1 .. MaxCount, agesL \in BOOLEAN :
        /\ freq' = Increase(freq, p, n, agesL)
        /\ aged' = IF agesL THEN aged \cup Queued ELSE aged
  BY DEF ProcessSample
<1>2. queue' = queue /\ touched' = touched \cup ({p} \cap Queued)
  BY DEF ProcessSample
<1> SUFFICES ASSUME NEW k \in DOMAIN queue
             PROVE  /\ queue[k].old < MaxCount
                    /\ queue[k].page \notin aged' =>
                         /\ queue[k].old <= freq'[queue[k].page]
                         /\ queue[k].page \in touched' =>
                              queue[k].old < freq'[queue[k].page]
  BY <1>2 DEF QueueInv
<1> DEFINE q == queue[k].page
<1>3. q \in Pages /\ q \in Queued /\ queue[k].old \in 0 .. MaxCount
  BY QueueEntry DEF Queued
<1>4. queue[k].old < MaxCount
  BY DEF QueueInv
<1>5. CASE agesL
  BY <1>1, <1>3, <1>4, <1>5
<1>6. CASE ~agesL
  <2>1. aged' = aged
    BY <1>1, <1>6
  <2>2. freq \in [Pages -> 0 .. MaxCount]
    BY DEF TypeOK
  <2>3. /\ freq' \in [Pages -> 0 .. MaxCount]
        /\ \A r \in Pages : freq'[r] >= freq[r]
        /\ freq[p] < MaxCount => freq'[p] > freq[p]
    BY <1>1, <1>6, <2>2, IncreaseProperties
  <2>4. q \notin aged => /\ queue[k].old <= freq[q]
                         /\ q \in touched => queue[k].old < freq[q]
    BY DEF QueueInv
  <2>5. freq[q] \in 0 .. MaxCount /\ freq'[q] \in 0 .. MaxCount /\ freq'[q] >= freq[q]
    BY <1>3, <2>2, <2>3
  <2>6. q \notin aged => queue[k].old <= freq'[q]
    BY <1>3, <2>4, <2>5
  <2>7. q \notin aged /\ q \in touched' => queue[k].old < freq'[q]
    <3>1. CASE q \in touched
      BY <3>1, <1>3, <2>4, <2>5
    <3>2. CASE q = p
      <4>1. CASE freq[p] < MaxCount
        BY <4>1, <3>2, <1>3, <2>3, <2>4, <2>5
      <4>2. CASE freq[p] = MaxCount
        BY <4>2, <3>2, <1>3, <1>4, <2>5
      <4> QED
        BY <4>1, <4>2, <3>2, <2>5
    <3> QED
      BY <3>1, <3>2, <1>2
  <2> QED
    BY <1>4, <2>1, <2>6, <2>7
<1> QED
  BY <1>5, <1>6

\* A second chance records the counter it leaves behind, below the maximum.
\* The decrement keeps the counter at or above every earlier entry.
LEMMA QueueInvSecondChance ==
  ASSUME TypeOK, QueueInv, NEW p \in Pages, ScanSecondChance(p)
  PROVE  QueueInv'
<1> USE HybridTierAssumption
<1> DEFINE e == [page |-> p, old |-> OldFreq(freq[p])]
<1>1. /\ queue' = Append(queue, e)
      /\ freq' = [freq EXCEPT ![p] = OldFreq(@)]
      /\ touched' = touched \ {p}
      /\ aged' = aged
  BY DEF ScanSecondChance, Visit
<1>2. queue \in Seq(Entry) /\ freq \in [Pages -> 0 .. MaxCount]
  BY DEF TypeOK
<1>3. /\ OldFreq(freq[p]) \in 0 .. MaxCount
      /\ OldFreq(freq[p]) <= MaxCount - 1
      /\ freq[p] <= MaxCount - 1 => OldFreq(freq[p]) = freq[p]
      /\ freq[p] \in 0 .. MaxCount
  BY <1>2, OldFreqType
<1>4. freq'[p] = OldFreq(freq[p]) /\ \A r \in Pages \ {p} : freq'[r] = freq[r]
  BY <1>1, <1>2
<1>5. e \in Entry
  BY <1>3 DEF Entry
<1>6. \A k \in DOMAIN queue' : \/ k \in DOMAIN queue /\ queue'[k] = queue[k]
                               \/ queue'[k] = e
  BY <1>1, <1>2, <1>5
<1> SUFFICES ASSUME NEW k \in DOMAIN queue'
             PROVE  /\ queue'[k].old < MaxCount
                    /\ queue'[k].page \notin aged =>
                         /\ queue'[k].old <= freq'[queue'[k].page]
                         /\ queue'[k].page \in touched \ {p} =>
                              queue'[k].old < freq'[queue'[k].page]
  BY <1>1 DEF QueueInv
<1>7. CASE queue'[k] = e
  <2>1. e.page = p /\ e.old = OldFreq(freq[p])
    OBVIOUS
  <2> QED
    BY <1>3, <1>4, <1>7, <2>1
<1>8. CASE k \in DOMAIN queue /\ queue'[k] = queue[k]
  <2>1. queue[k].page \in Pages /\ queue[k].old \in 0 .. MaxCount
    BY <1>8, QueueEntry
  <2>2. /\ queue[k].old < MaxCount
        /\ queue[k].page \notin aged =>
             /\ queue[k].old <= freq[queue[k].page]
             /\ queue[k].page \in touched => queue[k].old < freq[queue[k].page]
    BY <1>8 DEF QueueInv
  <2>3. CASE queue[k].page = p
    <3>1. CASE freq[p] <= MaxCount - 1
      BY <3>1, <2>3, <2>1, <2>2, <1>3, <1>4, <1>8
    <3>2. CASE freq[p] = MaxCount
      <4>1. OldFreq(freq[p]) = MaxCount - 1
        BY <3>2 DEF OldFreq
      <4> QED
        BY <4>1, <2>3, <2>1, <2>2, <1>4, <1>8
    <3> QED
      BY <3>1, <3>2, <1>3
  <2>4. CASE queue[k].page # p
    BY <2>4, <2>1, <2>2, <1>4, <1>8
  <2> QED
    BY <2>3, <2>4
<1> QED
  BY <1>6, <1>7, <1>8

LEMMA QueueInvStep == TypeOK /\ QueueInv /\ [Next]_vars => QueueInv'
<1> SUFFICES ASSUME TypeOK, QueueInv, [Next]_vars PROVE QueueInv'
  OBVIOUS
<1>1. ASSUME NEW p \in Pages, ProcessSample(p) PROVE QueueInv'
  BY <1>1, QueueInvSample
<1>2. ASSUME NEW p \in Pages, ScanCold(p) PROVE QueueInv'
  BY <1>2, QueueInvUnchanged DEF ScanCold, Visit
<1>3. ASSUME NEW p \in Pages, ScanSecondChance(p) PROVE QueueInv'
  BY <1>3, QueueInvSecondChance
<1>4. ASSUME NEW p \in Pages, KernelMove(p) PROVE QueueInv'
  BY <1>4, QueueInvUnchanged DEF KernelMove, queueVars
<1>5. ASSUME NEW s \in Spaces, SkipSpace(s) \/ PromoteAll(s) \/ PromotePartly(s)
      PROVE  QueueInv'
  BY <1>5, QueueInvUnchanged
  DEF SkipSpace, PromoteAll, PromotePartly, Serve, queueVars
<1>6. CASE ReadBudget \/ NoPressure \/ Pressure \/ SkipSecondChance \/ FinishScan
  BY <1>6, QueueInvUnchanged
  DEF ReadBudget, NoPressure, Pressure, EndPromotion, SkipSecondChance,
      FinishScan, queueVars
<1>7. CASE CheckSecondChance \/ Wake
  BY <1>7, QueueInvEmpty DEF CheckSecondChance, Wake
<1>8. CASE Continue \/ LowerHotThresh
  BY <1>8, QueueInvUnchanged DEF Continue, LowerHotThresh, queueVars
<1>9. CASE UNCHANGED vars
  BY <1>9, QueueInvUnchanged DEF vars, queueVars
<1> QED
  BY <1>1, <1>2, <1>3, <1>4, <1>5, <1>6, <1>7, <1>8, <1>9 DEF Next

\* A page whose recorded frequency still stands was not sampled while it was
\* queued, unless its counter was halved meanwhile: the comparison of the
\* second chance check means what it is taken to mean.
THEOREM SecondChanceCorrect == Spec => []SecondChanceSound
<1>1. TypeOK /\ QueueInv => SecondChanceSound
  <2> SUFFICES ASSUME TypeOK, QueueInv,
                      NEW k \in DOMAIN queue,
                      queue[k].old = freq[queue[k].page],
                      queue[k].page \in touched, queue[k].page \notin aged
               PROVE  FALSE
    BY DEF SecondChanceSound, Idle
  <2>1. queue[k].old < freq[queue[k].page]
    BY DEF QueueInv
  <2>2. queue[k].old \in 0 .. MaxCount
    BY QueueEntry
  <2> QED
    BY <2>1, <2>2, HybridTierAssumption
<1> QED
  BY <1>1, TypeInit, TypeStep, QueueInvInit, QueueInvStep, PTL DEF Spec

(***************************************************************************)
(* The cold list                                                           *)
(***************************************************************************)

LEMMA ColdInvInit == Init => ColdInv
BY DEF Init, ColdInv

LEMMA ColdInvUnchanged ==
  ASSUME ColdInv, cold' = cold, visited' = visited,
         freq' = freq, momentum' = momentum, hot' = hot,
         pc # "scan" \/ pc' = "scan"
  PROVE  ColdInv'
BY DEF ColdInv, IsCold

LEMMA ColdInvEmpty ==
  ASSUME cold' = {}, visited' = {}
  PROVE  ColdInv'
BY DEF ColdInv

\* Only the scan itself runs between the classification of a page and the
\* move, and the decrement of a second chance hits a page not seen before.
LEMMA ColdInvStep == TypeOK /\ ColdInv /\ [Next]_vars => ColdInv'
<1> SUFFICES ASSUME TypeOK, ColdInv, [Next]_vars PROVE ColdInv'
  OBVIOUS
<1>1. ASSUME NEW p \in Pages, ProcessSample(p) PROVE ColdInv'
  <2>1. cold = {} /\ visited = {}
    BY <1>1 DEF ColdInv, ProcessSample
  <2> QED
    BY <1>1, <2>1, ColdInvEmpty DEF ProcessSample, scanVars
<1>2. ASSUME NEW p \in Pages, ScanCold(p) PROVE ColdInv'
  BY <1>2 DEF ScanCold, Visit, ColdInv, IsCold
<1>3. ASSUME NEW p \in Pages, ScanSecondChance(p) PROVE ColdInv'
  <2>1. p \notin cold
    BY <1>3 DEF ScanSecondChance, Visit, ColdInv
  <2>2. \A q \in cold : q \in Pages /\ freq'[q] = freq[q]
    BY <1>3, <2>1 DEF ScanSecondChance, TypeOK
  <2> QED
    BY <1>3, <2>2 DEF ScanSecondChance, Visit, ColdInv, IsCold
<1>4. ASSUME NEW p \in Pages, KernelMove(p) PROVE ColdInv'
  BY <1>4, ColdInvUnchanged DEF KernelMove, scanVars
<1>5. ASSUME NEW s \in Spaces, SkipSpace(s) \/ PromoteAll(s) \/ PromotePartly(s)
      PROVE  ColdInv'
  BY <1>5, ColdInvUnchanged
  DEF SkipSpace, PromoteAll, PromotePartly, Serve, scanVars
<1>6. CASE ReadBudget \/ NoPressure \/ Pressure \/ SkipSecondChance
  BY <1>6, ColdInvUnchanged
  DEF ReadBudget, NoPressure, Pressure, EndPromotion, SkipSecondChance, scanVars
<1>7. CASE CheckSecondChance
  BY <1>7, ColdInvUnchanged DEF CheckSecondChance, scanVars
<1>8. CASE FinishScan
  BY <1>8, ColdInvEmpty DEF FinishScan
<1>9. CASE Continue \/ LowerHotThresh \/ Wake
  BY <1>9, ColdInvEmpty DEF Continue, LowerHotThresh, Wake, NextBatch, ColdInv, scanVars
<1>10. CASE UNCHANGED vars
  BY <1>10, ColdInvUnchanged DEF vars, scanVars
<1> QED
  BY <1>1, <1>2, <1>3, <1>4, <1>5, <1>6, <1>7, <1>8, <1>9, <1>10 DEF Next

\* Every page the runtime demotes is cold, or still has the frequency recorded
\* with its second chance, at the moment it is demoted.
THEOREM DemotionCorrect == Spec => DemotionJustified
<1>1. ASSUME ColdInv, FinishScan, NEW p \in fast \ fast' PROVE IsCold(p)
  BY <1>1 DEF ColdInv, FinishScan
<1>2. ASSUME CheckSecondChance, NEW p \in fast \ fast'
      PROVE  \E k \in DOMAIN queue : queue[k].page = p /\ queue[k].old = freq[p]
  BY <1>2 DEF CheckSecondChance, Idle
<1>3. ColdInv /\ [Next]_vars =>
        [/\ FinishScan => \A p \in fast \ fast' : IsCold(p)
         /\ CheckSecondChance => \A p \in fast \ fast' :
              \E k \in DOMAIN queue : queue[k].page = p /\ queue[k].old = freq[p]]_vars
  BY <1>1, <1>2
<1> QED
  BY <1>3, TypeInit, TypeStep, ColdInvInit, ColdInvStep, PTL DEF Spec, DemotionJustified

(***************************************************************************)
(* Promotions and demotions of one batch                                   *)
(***************************************************************************)

LEMMA PromotionInvInit == Init => PromotionInv
BY DEF Init, PromotionInv

LEMMA PromotionInvSample ==
  ASSUME TypeOK, PromotionInv, NEW p \in Pages, ProcessSample(p)
  PROVE  PromotionInv'
<1>1. PICK n \in 1 .. MaxCount, agesL \in BOOLEAN, agesM \in BOOLEAN :
        /\ momentum' = Increase(momentum, p, n, agesM)
        /\ cands' = IF IsCandidate(freq'[p], momentum'[p])
                      THEN cands \cup {p} ELSE cands
        /\ batchAged' = (batchAged \/ agesL \/ agesM)
  BY DEF ProcessSample
<1>2. /\ pc = "sample" /\ pc' = pc
      /\ queue' = queue /\ moved' = moved
      /\ touched' = touched \cup ({p} \cap Queued)
  BY DEF ProcessSample, promoteHist
<1>3. cands' \subseteq cands \cup {p} /\ moved' = {} /\ Queued' = Queued
  BY <1>1, <1>2 DEF PromotionInv, Queued
<1>4. (cands' \cup moved') \cap Queued' \subseteq touched'
  BY <1>2, <1>3 DEF PromotionInv
<1>5. ASSUME ~batchAged', NEW q \in cands' \cup moved' PROVE momentum'[q] >= 1
  <2>1. ~batchAged /\ ~agesM
    BY <1>1, <1>5
  <2>2. momentum \in [Pages -> 0 .. MaxCount] /\ cands \subseteq Pages
    BY DEF TypeOK
  <2>3. /\ momentum' \in [Pages -> 0 .. MaxCount]
        /\ \A r \in Pages : momentum'[r] >= momentum[r]
        /\ momentum'[p] >= 1
    BY <1>1, <2>1, <2>2, IncreaseProperties
  <2>4. CASE q = p
    BY <2>3, <2>4
  <2>5. CASE q \in cands
    <3>1. q \in Pages /\ momentum[q] >= 1 /\ momentum'[q] >= momentum[q]
      BY <2>1, <2>2, <2>3, <2>5 DEF PromotionInv
    <3>2. momentum[q] \in 0 .. MaxCount /\ momentum'[q] \in 0 .. MaxCount
      BY <3>1, <2>2, <2>3
    <3> QED
      BY <3>1, <3>2, HybridTierAssumption
  <2> QED
    BY <1>3, <1>5, <2>4, <2>5
<1> QED
  BY <1>2, <1>3, <1>4, <1>5 DEF PromotionInv

\* A step that promotes, or not, some of the candidates.
LEMMA PromotionInvServe ==
  ASSUME PromotionInv, NEW s \in Spaces, Serve(s),
         moved' \subseteq moved \cup cands
  PROVE  PromotionInv'
<1>1. /\ pc = "promote" /\ pc' = pc /\ cands' = cands
      /\ queue' = queue /\ touched' = touched
      /\ momentum' = momentum /\ batchAged' = batchAged
  BY DEF Serve, queueVars
<1>2. moved' \subseteq cands /\ Queued' = Queued
  BY <1>1 DEF PromotionInv, Queued
<1> QED
  BY <1>1, <1>2 DEF PromotionInv

\* Any step after the promotions, up to the end of the batch.
LEMMA PromotionInvLater ==
  ASSUME PromotionInv, pc' \notin {"sample", "promote"}, cands' = {},
         moved' = moved, momentum' = momentum, batchAged' = batchAged,
         pc' = "check" => /\ pc \in {"promote", "check"}
                          /\ queue' = queue
                          /\ touched' = touched
  PROVE  PromotionInv'
BY DEF PromotionInv, Queued

LEMMA PromotionInvUnchanged ==
  ASSUME PromotionInv, pc' = pc, cands' = cands, moved' = moved, queue' = queue,
         touched' = touched, momentum' = momentum, batchAged' = batchAged
  PROVE  PromotionInv'
BY DEF PromotionInv, Queued

LEMMA PromotionInvStep == TypeOK /\ PromotionInv /\ [Next]_vars => PromotionInv'
<1> SUFFICES ASSUME TypeOK, PromotionInv, [Next]_vars PROVE PromotionInv'
  OBVIOUS
<1>1. ASSUME NEW p \in Pages, ProcessSample(p) PROVE PromotionInv'
  BY <1>1, PromotionInvSample
<1>2. ASSUME NEW p \in Pages, ScanCold(p) \/ ScanSecondChance(p) PROVE PromotionInv'
  BY <1>2, PromotionInvLater
  DEF ScanCold, ScanSecondChance, Visit, PromotionInv, batchVars, promoteHist
<1>3. ASSUME NEW p \in Pages, KernelMove(p) PROVE PromotionInv'
  BY <1>3, PromotionInvUnchanged DEF KernelMove, batchVars, queueVars, promoteHist
<1>4. ASSUME NEW s \in Spaces, SkipSpace(s) PROVE PromotionInv'
  BY <1>4, PromotionInvServe DEF SkipSpace
<1>5. ASSUME NEW s \in Spaces, PromoteAll(s) PROVE PromotionInv'
  <2>1. PICK M \in PromotionBatch(s) : moved' = moved \cup M
    BY <1>5 DEF PromoteAll
  <2> QED
    BY <1>5, <2>1, PromotionBatchProperties, PromotionInvServe DEF PromoteAll
<1>6. ASSUME NEW s \in Spaces, PromotePartly(s) PROVE PromotionInv'
  <2>1. PICK M \in PromotionBatch(s) : \E P \in SUBSET M : moved' = moved \cup P
    BY <1>6 DEF PromotePartly
  <2> QED
    BY <1>6, <2>1, PromotionBatchProperties, PromotionInvServe DEF PromotePartly
<1>7. CASE ReadBudget
  BY <1>7 DEF PromotionInv, ReadBudget, Queued, queueVars
<1>8. CASE NoPressure \/ Pressure
  BY <1>8, PromotionInvLater
  DEF NoPressure, Pressure, EndPromotion, queueVars, promoteHist
<1>9. CASE CheckSecondChance \/ SkipSecondChance \/ FinishScan
  BY <1>9, PromotionInvLater
  DEF CheckSecondChance, SkipSecondChance, FinishScan, PromotionInv, batchVars, promoteHist
<1>10. CASE Continue \/ LowerHotThresh \/ Wake
  BY <1>10 DEF PromotionInv, Continue, LowerHotThresh, Wake, NextBatch
<1>11. CASE UNCHANGED vars
  BY <1>11, PromotionInvUnchanged DEF vars, batchVars, queueVars, promoteHist
<1> QED
  BY <1>1, <1>2, <1>3, <1>4, <1>5, <1>6, <1>7, <1>8, <1>9, <1>10, <1>11 DEF Next

\* A page promoted in a batch is not demoted by the same batch, unless a
\* counter was halved: it was sampled, so it has momentum, and if it is on the
\* second chance queue its counter left the recorded value.
THEOREM NoPingPongCorrect == Spec => NoPingPong
<1>1. ASSUME TypeOK, QueueInv, PromotionInv, CheckSecondChance
      PROVE  moved \cap (fast \ fast') \subseteq aged
  <2> SUFFICES ASSUME NEW k \in DOMAIN queue, queue[k].page \in moved,
                      queue[k].old = freq[queue[k].page], queue[k].page \notin aged
               PROVE  FALSE
    BY <1>1 DEF CheckSecondChance, Idle
  <2>1. queue[k].page \in touched
    BY <1>1 DEF PromotionInv, CheckSecondChance, Queued
  <2>2. queue[k].old < freq[queue[k].page]
    BY <1>1, <2>1 DEF QueueInv
  <2>3. queue[k].old \in 0 .. MaxCount
    BY <1>1, QueueEntry
  <2> QED
    BY <2>2, <2>3, HybridTierAssumption
<1>2. ASSUME TypeOK, ColdInv, PromotionInv, FinishScan, ~batchAged
      PROVE  moved \cap (fast \ fast') = {}
  <2> SUFFICES ASSUME NEW p \in moved, p \in cold PROVE FALSE
    BY <1>2 DEF FinishScan
  <2>1. momentum[p] >= 1 /\ momentum[p] < 1
    BY <1>2 DEF PromotionInv, ColdInv, IsCold
  <2>2. momentum[p] \in 0 .. MaxCount
    BY <1>2 DEF TypeOK
  <2> QED
    BY <2>1, <2>2, HybridTierAssumption
<1>3. TypeOK /\ QueueInv /\ ColdInv /\ PromotionInv /\ [Next]_vars =>
        [/\ CheckSecondChance => moved \cap (fast \ fast') \subseteq aged
         /\ FinishScan /\ ~batchAged => moved \cap (fast \ fast') = {}]_vars
  BY <1>1, <1>2
<1> QED
  BY <1>3, TypeInit, TypeStep, QueueInvInit, QueueInvStep, ColdInvInit,
     ColdInvStep, PromotionInvInit, PromotionInvStep, PTL DEF Spec, NoPingPong

(***************************************************************************)
(* The promotion headroom                                                  *)
(***************************************************************************)

LEMMA HeadroomInvInit == Init => HeadroomInv /\ HeadroomKept
BY FS_EmptySet DEF Init, HeadroomInv, HeadroomKept

\* The sizes of the sets of promoted pages.
LEMMA MovedSize ==
  ASSUME TypeOK
  PROVE  /\ IsFiniteSet(moved)
         /\ Cardinality(moved) \in Nat
         /\ Cardinality(moved) <= NoLimit
         /\ NoLimit \in Nat
BY HybridTierAssumption, FS_Subset, FS_CardinalityType DEF TypeOK, NoLimit

LEMMA UnionSize ==
  ASSUME NEW S, NEW T, IsFiniteSet(S), IsFiniteSet(T)
  PROVE  /\ Cardinality(S) \in Nat
         /\ Cardinality(T) \in Nat
         /\ Cardinality(S \cup T) \in Nat
         /\ Cardinality(S \cup T) <= Cardinality(S) + Cardinality(T)
<1>1. /\ IsFiniteSet(S \cup T)
      /\ Cardinality(S \cup T) =
           Cardinality(S) + Cardinality(T) - Cardinality(S \cap T)
  BY FS_Union
<1>2. IsFiniteSet(S \cap T)
  BY FS_Intersection
<1>3. /\ Cardinality(S) \in Nat /\ Cardinality(T) \in Nat
      /\ Cardinality(S \cap T) \in Nat /\ Cardinality(S \cup T) \in Nat
  BY <1>1, <1>2, FS_CardinalityType
<1> QED
  BY <1>1, <1>3

LEMMA HeadroomUnchanged ==
  ASSUME HeadroomInv, HeadroomKept, moved' = moved, granted' = granted,
         moveFailed' = moveFailed, headroom' = headroom,
         pc # "sample" \/ pc' = "sample", pc = "promote" \/ pc' # "promote"
  PROVE  HeadroomInv' /\ HeadroomKept'
BY DEF HeadroomInv, HeadroomKept, NoLimit

LEMMA HeadroomReadBudget ==
  ASSUME TypeOK, PromotionInv, ReadBudget
  PROVE  HeadroomInv' /\ HeadroomKept'
<1>1. moved' = {} /\ Cardinality(moved') = 0 /\ granted' = headroom'
  BY FS_EmptySet DEF ReadBudget, PromotionInv
<1>2. headroom' = Headroom(Cardinality(fast)) /\ headroom' \in Nat
  BY HeadroomType DEF ReadBudget, TypeOK
<1> QED
  BY <1>1, <1>2 DEF HeadroomInv, HeadroomKept, Headroom, NoLimit

\* A batch that was moved as a whole is charged as a whole.
LEMMA HeadroomPromoteAll ==
  ASSUME TypeOK, HeadroomInv, HeadroomKept, NEW s \in Spaces, PromoteAll(s)
  PROVE  HeadroomInv' /\ HeadroomKept'
<1>1. PICK M \in PromotionBatch(s) :
        /\ moved' = moved \cup M
        /\ headroom' = IF HighWmark = 0 THEN headroom
                                        ELSE headroom - Cardinality(M)
  BY DEF PromoteAll
<1>2. /\ pc = "promote" /\ pc' = pc /\ granted' = granted
      /\ moveFailed' = moveFailed
  BY DEF PromoteAll, Serve
<1>3. M \subseteq Pages /\ Cardinality(M) \in Nat /\ Cardinality(M) <= headroom
  BY PromotionBatchProperties
<1>4. IsFiniteSet(M) /\ IsFiniteSet(moved)
  BY <1>3, HybridTierAssumption, FS_Subset, MovedSize
<1>5. /\ Cardinality(moved) \in Nat /\ Cardinality(moved') \in Nat
      /\ Cardinality(moved') <= Cardinality(moved) + Cardinality(M)
  BY <1>1, <1>4, UnionSize
<1>6. headroom \in Nat /\ granted \in Nat
  BY DEF TypeOK
<1>7. CASE HighWmark = 0
  <2>1. moved' \subseteq Pages
    BY <1>1, <1>3 DEF TypeOK
  <2>2. Cardinality(moved') <= NoLimit
    BY <2>1, HybridTierAssumption, FS_Subset DEF NoLimit
  <2> QED
    BY <1>2, <1>7, <2>2 DEF HeadroomInv, HeadroomKept, NoLimit
<1>8. CASE HighWmark # 0
  <2>1. headroom' = headroom - Cardinality(M)
    BY <1>1, <1>8
  <2>2. ~moveFailed => Cardinality(moved) + headroom <= granted
    BY <1>2, <1>8 DEF HeadroomInv
  <2>3. ~moveFailed => /\ Cardinality(moved') + headroom' <= granted
                       /\ Cardinality(moved') <= granted
    BY <1>3, <1>5, <1>6, <2>1, <2>2
  <2> QED
    BY <1>2, <1>8, <2>3 DEF HeadroomInv, HeadroomKept
<1> QED
  BY <1>7, <1>8

LEMMA HeadroomStep ==
  TypeOK /\ PromotionInv /\ HeadroomInv /\ HeadroomKept /\ [Next]_vars
    => HeadroomInv' /\ HeadroomKept'
<1> SUFFICES ASSUME TypeOK, PromotionInv, HeadroomInv, HeadroomKept, [Next]_vars
             PROVE  HeadroomInv' /\ HeadroomKept'
  OBVIOUS
<1>1. ASSUME NEW p \in Pages,
             \/ ProcessSample(p) \/ ScanCold(p) \/ ScanSecondChance(p) \/ KernelMove(p)
      PROVE  HeadroomInv' /\ HeadroomKept'
  BY <1>1, HeadroomUnchanged
  DEF ProcessSample, ScanCold, ScanSecondChance, Visit, KernelMove, batchVars, promoteHist
<1>2. ASSUME NEW s \in Spaces, SkipSpace(s) PROVE HeadroomInv' /\ HeadroomKept'
  BY <1>2, HeadroomUnchanged DEF SkipSpace, Serve
<1>3. ASSUME NEW s \in Spaces, PromoteAll(s) PROVE HeadroomInv' /\ HeadroomKept'
  BY <1>3, HeadroomPromoteAll
<1>4. ASSUME NEW s \in Spaces, PromotePartly(s) PROVE HeadroomInv' /\ HeadroomKept'
  BY <1>4 DEF HeadroomInv, HeadroomKept, PromotePartly, Serve, NoLimit
<1>5. CASE ReadBudget
  BY <1>5, HeadroomReadBudget
<1>6. CASE NoPressure \/ Pressure \/ CheckSecondChance \/ SkipSecondChance \/ FinishScan
  BY <1>6, HeadroomUnchanged
  DEF NoPressure, Pressure, EndPromotion, CheckSecondChance, SkipSecondChance,
      FinishScan, batchVars, promoteHist
<1>7. CASE Continue \/ LowerHotThresh \/ Wake
  <2>1. pc' = "sample" /\ moved' = {} /\ granted' = 0
    BY <1>7 DEF Continue, LowerHotThresh, Wake, NextBatch
  <2>2. Cardinality(moved') = 0
    BY <2>1, FS_EmptySet
  <2> QED
    BY <2>1, <2>2 DEF HeadroomInv, HeadroomKept
<1>8. CASE UNCHANGED vars
  BY <1>8, HeadroomUnchanged DEF vars, batchVars, promoteHist
<1> QED
  BY <1>1, <1>2, <1>3, <1>4, <1>5, <1>6, <1>7, <1>8 DEF Next

\* Unless one of its promotions returns an error, a batch promotes no more
\* pages than the headroom it read, over all address spaces together.
THEOREM HeadroomCorrect == Spec => []HeadroomKept
BY TypeInit, TypeStep, PromotionInvInit, PromotionInvStep, HeadroomInvInit,
   HeadroomStep, PTL DEF Spec

(***************************************************************************)
(* The tiering thread for 2 MB pages                                       *)
(*                                                                         *)
(* Most of its steps are steps of HybridTier, whose lemmas then apply.     *)
(***************************************************************************)

LEMMA CommonSteps ==
  ASSUME \/ CommonStep
         \/ \E p \in Pages : HugeProcessSample(p)
         \/ HugeContinue
         \/ HugeWake
  PROVE  Next
<1>1. CommonStep => Next
  BY DEF CommonStep, Next
<1>2. (\E p \in Pages : HugeProcessSample(p)) => Next
  BY DEF HugeProcessSample, Next
<1>3. HugeContinue => Next
  BY DEF HugeContinue, HugeNextBatch, Continue, Next
<1>4. HugeWake => Next
  BY DEF HugeWake, HugeNextBatch, ForgetQueue, Wake, Next
<1> QED
  BY <1>1, <1>2, <1>3, <1>4

LEMMA HugeHeadroomType ==
  ASSUME NEW used \in Nat
  PROVE  HugeHeadroom(used) \in Nat
<1>1. NoLimit \in Nat
  BY HybridTierAssumption, FS_CardinalityType DEF NoLimit
<1>2. used \div BasePages \in Nat /\ HugeWmark \in Nat
  BY HybridTierAssumption, HugeAssumption DEF HugeWmark
<1> QED
  BY <1>1, <1>2 DEF HugeHeadroom

(***************************************************************************)
(* The threshold                                                           *)
(***************************************************************************)

LEMMA MultipleMod ==
  ASSUME NEW s \in Nat \ {0}, NEW k \in Nat
  PROVE  (s * k) % s = 0
OBVIOUS

\* Whole steps above the minimum stay whole steps, and are not passed over.
LEMMA GridStep ==
  ASSUME NEW s \in Nat \ {0}, NEW a \in Nat, a % s = 0
  PROVE  /\ (a + s) % s = 0
         /\ a # 0 => a >= s /\ (a - s) % s = 0
<1>1. PICK k \in Nat : a = s * k
  OBVIOUS
<1>2. a + s = s * (k + 1) /\ k + 1 \in Nat
  BY <1>1
<1>3. ASSUME a # 0 PROVE a >= s /\ a - s = s * (k - 1) /\ k - 1 \in Nat
  BY <1>1, <1>3
<1> QED
  BY <1>2, <1>3, MultipleMod

LEMMA ThreshInit == Init => ThreshInv
BY HugeAssumption DEF Init, ThreshInv

LEMMA ThreshType ==
  ASSUME TypeOK
  PROVE  hot \in Nat /\ HotMin \in Nat /\ HotInit \in Nat /\ HotMin <= hot /\ hot <= HotInit
BY HybridTierAssumption DEF TypeOK

LEMMA ThreshLower ==
  ASSUME TypeOK, ThreshInv, HugeLowerHotThresh
  PROVE  hot' \in HotMin .. HotInit /\ ThreshInv'
<1> DEFINE a == hot - HotMin
<1>1. a \in Nat /\ a # 0 /\ a % HotStep = 0
  BY ThreshType DEF HugeLowerHotThresh, ThreshInv
<1>2. HotStep \in Nat \ {0}
  BY HugeAssumption
<1>3. a >= HotStep /\ (a - HotStep) % HotStep = 0
  BY <1>1, <1>2, GridStep
<1>4. hot' = hot - HotStep /\ hot' - HotMin = a - HotStep
  BY <1>2, ThreshType DEF HugeLowerHotThresh
<1>5. hot' \in HotMin .. HotInit
  BY <1>2, <1>3, <1>4, ThreshType
<1>6. ThreshInv'
  BY <1>3, <1>4 DEF ThreshInv
<1> QED
  BY <1>5, <1>6

LEMMA ThreshRaise ==
  ASSUME TypeOK, RaiseHotThresh
  PROVE  hot' \in HotMin .. HotInit /\ ThreshInv'
<1> DEFINE a == HotInit - HotMin
<1>1. HotStep \in Nat \ {0} /\ HotMin < HotInit /\ a % HotStep = 0
  BY HugeAssumption
<1>2. a \in Nat /\ a # 0
  BY <1>1, ThreshType
<1>3. a >= HotStep
  BY <1>1, <1>2, GridStep
<1>4. hot' = HotMin + HotStep
  BY DEF RaiseHotThresh
<1>5. hot' - HotMin = HotStep * 1
  BY <1>1, <1>4, ThreshType
<1>6. hot' \in HotMin .. HotInit
  BY <1>1, <1>3, <1>4, ThreshType
<1>7. ThreshInv'
  BY <1>1, <1>5, MultipleMod DEF ThreshInv
<1> QED
  BY <1>6, <1>7

LEMMA ThreshStep == TypeOK /\ ThreshInv /\ [HugeNext]_hugeVars => ThreshInv'
<1> SUFFICES ASSUME TypeOK, ThreshInv, [HugeNext]_hugeVars PROVE ThreshInv'
  OBVIOUS
<1>0. ASSUME hot' = hot PROVE ThreshInv'
  BY <1>0 DEF ThreshInv
<1>1. CASE CommonStep
  BY <1>0, <1>1
  DEF CommonStep, SkipSpace, PromoteAll, PromotePartly, Serve, NoPressure, Pressure,
      EndPromotion, SkipSecondChance, FinishScan, KernelMove
<1>2. ASSUME NEW p \in Pages,
             HugeProcessSample(p) \/ HugeScanCold(p) \/ HugeScanSecondChance(p)
      PROVE  ThreshInv'
  BY <1>0, <1>2
  DEF HugeProcessSample, ProcessSample, HugeScanCold, HugeScanSecondChance, Visit
<1>3. CASE HugeReadBudget \/ HugeCheckSecondChance \/ HugeContinue
  BY <1>0, <1>3 DEF HugeReadBudget, HugeCheckSecondChance, HugeContinue
<1>4. CASE HugeLowerHotThresh
  BY <1>4, ThreshLower
<1>5. CASE RaiseHotThresh
  BY <1>5, ThreshRaise
<1>6. CASE HugeWake
  BY <1>6, HugeAssumption DEF HugeWake, ThreshInv
<1>7. CASE UNCHANGED hugeVars
  BY <1>0, <1>7 DEF hugeVars, vars
<1> QED
  BY <1>1, <1>2, <1>3, <1>4, <1>5, <1>6, <1>7 DEF HugeNext

(***************************************************************************)
(* Type correctness                                                        *)
(***************************************************************************)

LEMMA HugeTypeInit == HugeInit => HugeTypeOK
<1> SUFFICES ASSUME HugeInit PROVE HugeTypeOK
  OBVIOUS
<1>1. TypeOK
  BY TypeInit DEF HugeInit
<1>2. accesses \in [Pages -> 0 .. IdleMargin] /\ usage \in Nat
  BY HugeAssumption DEF HugeInit, NoAccess
<1> QED
  BY <1>1, <1>2 DEF HugeTypeOK

\* The steps in which the two files differ.
LEMMA HugeBaseTypeStep ==
  ASSUME HugeTypeOK, ThreshInv, [HugeNext]_hugeVars
  PROVE  TypeOK'
<1> USE HybridTierAssumption
<1>t. TypeOK
  BY DEF HugeTypeOK
<1>1. CASE \/ CommonStep
           \/ \E p \in Pages : HugeProcessSample(p)
           \/ HugeContinue
           \/ HugeWake
  BY <1>1, <1>t, CommonSteps, TypeStep
<1>2. ASSUME NEW p \in Pages, HugeScanCold(p) PROVE TypeOK'
  BY <1>2, <1>t DEF TypeOK, HugeScanCold, Visit, batchVars, promoteHist
<1>3. ASSUME NEW p \in Pages, HugeScanSecondChance(p) PROVE TypeOK'
  <2>1. OldFreq(freq[p]) \in 0 .. MaxCount
    BY <1>t, OldFreqType DEF TypeOK
  <2>2. freq' \in [Pages -> 0 .. MaxCount]
    BY <1>3, <1>t, <2>1 DEF HugeScanSecondChance, TypeOK
  <2>3. [page |-> p, old |-> OldFreq(freq[p])] \in Entry
    BY <2>1 DEF Entry
  <2>4. queue' \in Seq(Entry) /\ Len(queue') <= QueueCap
    BY <1>3, <1>t, <2>3 DEF HugeScanSecondChance, GivesChance, TypeOK
  <2> QED
    BY <1>3, <1>t, <2>2, <2>4
    DEF TypeOK, HugeScanSecondChance, Visit, batchVars, promoteHist
<1>4. CASE HugeReadBudget
  <2>1. Cardinality(fast) \in Nat /\ BasePages \in Nat /\ SmallPages \in Nat
    BY <1>t, HugeAssumption, FS_Subset, FS_CardinalityType DEF TypeOK
  <2>2. usage' \in Nat
    BY <1>4, <2>1 DEF HugeReadBudget
  <2>3. headroom' \in Nat /\ granted' \in Nat
    BY <1>4, <2>2, HugeHeadroomType DEF HugeReadBudget
  <2> QED
    BY <1>4, <1>t, <2>3 DEF TypeOK, HugeReadBudget, scanVars, queueVars, Stages
<1>5. CASE HugeCheckSecondChance
  BY <1>5, <1>t
  DEF TypeOK, HugeCheckSecondChance, batchVars, scanVars, promoteHist, Stages
<1>6. CASE HugeLowerHotThresh
  <2>1. hot' \in HotMin .. HotInit
    BY <1>6, <1>t, ThreshLower
  <2> QED
    BY <1>6, <1>t, <2>1
    DEF TypeOK, HugeLowerHotThresh, HugeNextBatch, NextBatch, scanVars, queueVars, Stages
<1>7. CASE RaiseHotThresh
  <2>1. hot' \in HotMin .. HotInit
    BY <1>7, <1>t, ThreshRaise
  <2>2. momentum' \in [Pages -> 0 .. MaxCount]
    BY <1>7, <1>t, HalveType DEF RaiseHotThresh, TypeOK
  <2>3. queue' \in Seq(Entry) /\ Len(queue') <= QueueCap
    BY <1>7 DEF RaiseHotThresh, ForgetQueue
  <2> QED
    BY <1>7, <1>t, <2>1, <2>2, <2>3
    DEF TypeOK, RaiseHotThresh, ForgetQueue, HugeNextBatch, NextBatch, scanVars, Stages
<1>8. CASE UNCHANGED hugeVars
  BY <1>8, <1>t, TypeStep DEF hugeVars
<1> QED
  BY <1>1, <1>2, <1>3, <1>4, <1>5, <1>6, <1>7, <1>8 DEF HugeNext

\* The two history variables.
LEMMA HugeHistoryStep ==
  ASSUME HugeTypeOK, [HugeNext]_hugeVars
  PROVE  accesses' \in [Pages -> 0 .. IdleMargin] /\ usage' \in Nat
<1>1. accesses \in [Pages -> 0 .. IdleMargin] /\ usage \in Nat /\ IdleMargin \in Nat
  BY HugeAssumption DEF HugeTypeOK
<1>2. NoAccess \in [Pages -> 0 .. IdleMargin]
  BY <1>1 DEF NoAccess
<1>3. ASSUME NEW p \in Pages, HugeProcessSample(p)
      PROVE  accesses' \in [Pages -> 0 .. IdleMargin] /\ usage' \in Nat
  <2>1. AtMost(accesses[p] + 1, IdleMargin) \in 0 .. IdleMargin
    BY <1>1 DEF AtMost
  <2> QED
    BY <1>1, <1>3, <2>1 DEF HugeProcessSample
<1>4. ASSUME NEW p \in Pages, HugeScanCold(p) \/ HugeScanSecondChance(p)
      PROVE  accesses' \in [Pages -> 0 .. IdleMargin] /\ usage' \in Nat
  BY <1>1, <1>4 DEF HugeScanCold, HugeScanSecondChance
<1>5. CASE HugeReadBudget
  <2>1. Cardinality(fast) \in Nat /\ BasePages \in Nat /\ SmallPages \in Nat
    BY HybridTierAssumption, HugeAssumption, FS_Subset, FS_CardinalityType
    DEF HugeTypeOK, TypeOK
  <2> QED
    BY <1>1, <1>5, <2>1 DEF HugeReadBudget
<1>6. CASE HugeCheckSecondChance
  BY <1>1, <1>2, <1>6 DEF HugeCheckSecondChance
<1>7. CASE HugeContinue \/ HugeLowerHotThresh \/ RaiseHotThresh \/ HugeWake
  BY <1>1, <1>2, <1>7
  DEF HugeContinue, HugeLowerHotThresh, RaiseHotThresh, HugeWake, ForgetQueue, HugeNextBatch
<1>8. CASE CommonStep \/ UNCHANGED hugeVars
  BY <1>1, <1>8 DEF CommonStep, hugeVars
<1> QED
  BY <1>3, <1>4, <1>5, <1>6, <1>7, <1>8 DEF HugeNext

LEMMA HugeTypeStep ==
  HugeTypeOK /\ ThreshInv /\ [HugeNext]_hugeVars => HugeTypeOK' /\ ThreshInv'
<1>1. HugeTypeOK => TypeOK
  BY DEF HugeTypeOK
<1> QED
  BY <1>1, HugeBaseTypeStep, HugeHistoryStep, ThreshStep DEF HugeTypeOK

\* The counters of 16 bits, the threshold that moves in steps and is only
\* compared with its minimum by equality, the headroom in huge pages and the
\* queue all stay within their bounds.
THEOREM HugeTypeCorrect == HugeSpec => [](HugeTypeOK /\ ThreshInv)
<1>1. HugeInit => HugeTypeOK /\ ThreshInv
  BY HugeTypeInit, ThreshInit DEF HugeInit
<1> QED
  BY <1>1, HugeTypeStep, PTL DEF HugeSpec

(***************************************************************************)
(* The second chance of huge pages                                         *)
(***************************************************************************)

\* What the invariant says of an entry e, with counter c and n accesses.
Counted(e, c, n) == e.old < MaxCount /\ AtMost(e.old + n, MaxCount) <= c

LEMMA ActiveEntry ==
  ASSUME ActiveInv, NEW k \in DOMAIN queue
  PROVE  /\ queue[k].old < MaxCount
         /\ queue[k].page \notin aged =>
              Counted(queue[k], freq[queue[k].page], accesses[queue[k].page])
BY DEF ActiveInv, Counted

LEMMA ActiveFromEntries ==
  ASSUME \A k \in DOMAIN queue' :
           /\ queue'[k].old < MaxCount
           /\ queue'[k].page \notin aged' =>
                Counted(queue'[k], freq'[queue'[k].page], accesses'[queue'[k].page])
  PROVE  ActiveInv'
BY DEF ActiveInv, Counted

LEMMA ActiveUnchanged ==
  ASSUME ActiveInv, queue' = queue, freq' = freq, aged' = aged, accesses' = accesses
  PROVE  ActiveInv'
BY DEF ActiveInv

LEMMA ActiveEmpty ==
  ASSUME queue' = << >>
  PROVE  ActiveInv'
BY DEF ActiveInv

\* A sample counts as an access once, and moves the counter at least as far.
LEMMA ActiveSample ==
  ASSUME HugeTypeOK, ActiveInv, NEW p \in Pages, HugeProcessSample(p)
  PROVE  ActiveInv'
<1> USE HybridTierAssumption, HugeAssumption
<1>t. /\ TypeOK
      /\ freq \in [Pages -> 0 .. MaxCount]
      /\ accesses \in [Pages -> 0 .. IdleMargin]
  BY DEF HugeTypeOK, TypeOK
<1>1. PICK n \in 1 .. MaxCount, agesL \in BOOLEAN :
        /\ freq' = Increase(freq, p, n, agesL)
        /\ aged' = IF agesL THEN aged \cup Queued ELSE aged
  BY DEF HugeProcessSample, ProcessSample
<1>2. queue' = queue
  BY DEF HugeProcessSample, ProcessSample
<1> SUFFICES ASSUME NEW k \in DOMAIN queue
             PROVE  /\ queue[k].old < MaxCount
                    /\ queue[k].page \notin aged' =>
                         Counted(queue[k], freq'[queue[k].page], accesses'[queue[k].page])
  BY <1>2, ActiveFromEntries
<1> DEFINE q == queue[k].page
<1>3. q \in Pages /\ q \in Queued /\ queue[k].old \in 0 .. MaxCount
  BY <1>t, QueueEntry DEF Queued
<1>4. queue[k].old < MaxCount
  BY ActiveEntry
<1>5. CASE agesL
  BY <1>1, <1>3, <1>4, <1>5
<1>6. CASE ~agesL
  <2>1. aged' = aged
    BY <1>1, <1>6
  <2>2. /\ freq' \in [Pages -> 0 .. MaxCount]
        /\ \A r \in Pages : freq'[r] >= freq[r]
        /\ freq[p] < MaxCount => freq'[p] > freq[p]
    BY <1>1, <1>6, <1>t, IncreaseProperties
  <2>3. /\ freq[q] \in 0 .. MaxCount /\ freq'[q] \in 0 .. MaxCount
        /\ freq'[q] >= freq[q] /\ accesses[q] \in 0 .. IdleMargin
    BY <1>t, <1>3, <2>2
  <2>4. /\ q # p => accesses'[q] = accesses[q]
        /\ q = p => accesses'[q] = AtMost(accesses[q] + 1, IdleMargin)
    BY <1>t, <1>3 DEF HugeProcessSample
  <2>5. q \notin aged => AtMost(queue[k].old + accesses[q], MaxCount) <= freq[q]
    BY ActiveEntry DEF Counted
  <2>6. CASE q # p
    <3>1. q \notin aged => AtMost(queue[k].old + accesses'[q], MaxCount) <= freq'[q]
      BY <1>3, <2>3, <2>4, <2>5, <2>6 DEF AtMost
    <3> QED
      BY <1>4, <2>1, <3>1 DEF Counted
  <2>7. CASE q = p
    <3>1. accesses'[q] \in 0 .. IdleMargin /\ accesses'[q] <= accesses[q] + 1
      BY <2>3, <2>4, <2>7 DEF AtMost
    <3>2. freq[q] < MaxCount => freq'[q] > freq[q]
      BY <2>2, <2>7
    <3>3. q \notin aged => AtMost(queue[k].old + accesses'[q], MaxCount) <= freq'[q]
      BY <1>3, <2>3, <2>5, <3>1, <3>2 DEF AtMost
    <3> QED
      BY <1>4, <2>1, <3>3 DEF Counted
  <2> QED
    BY <2>6, <2>7
<1> QED
  BY <1>5, <1>6

\* A new entry starts at no access.  The decrement that comes with it leaves
\* the counter at or above what every entry recorded.
LEMMA ActiveSecondChance ==
  ASSUME HugeTypeOK, ActiveInv, NEW p \in Pages, HugeScanSecondChance(p)
  PROVE  ActiveInv'
<1> USE HybridTierAssumption, HugeAssumption
<1> DEFINE e == [page |-> p, old |-> OldFreq(freq[p])]
<1>t. /\ TypeOK
      /\ queue \in Seq(Entry)
      /\ freq \in [Pages -> 0 .. MaxCount]
      /\ accesses \in [Pages -> 0 .. IdleMargin]
  BY DEF HugeTypeOK, TypeOK
<1>1. /\ queue' = Append(queue, e)
      /\ freq' = [freq EXCEPT ![p] = OldFreq(@)]
      /\ accesses' = [accesses EXCEPT ![p] = 0]
      /\ aged' = aged
  BY DEF HugeScanSecondChance, Visit
<1>2. /\ OldFreq(freq[p]) \in 0 .. MaxCount
      /\ OldFreq(freq[p]) <= MaxCount - 1
      /\ freq[p] <= MaxCount - 1 => OldFreq(freq[p]) = freq[p]
      /\ freq[p] \in 0 .. MaxCount
  BY <1>t, OldFreqType
<1>3. /\ freq'[p] = OldFreq(freq[p]) /\ \A r \in Pages \ {p} : freq'[r] = freq[r]
      /\ accesses'[p] = 0 /\ \A r \in Pages \ {p} : accesses'[r] = accesses[r]
  BY <1>1, <1>t
<1>4. e \in Entry
  BY <1>2 DEF Entry
<1>5. \A k \in DOMAIN queue' : \/ k \in DOMAIN queue /\ queue'[k] = queue[k]
                               \/ queue'[k] = e
  BY <1>1, <1>t, <1>4
<1> SUFFICES ASSUME NEW k \in DOMAIN queue'
             PROVE  /\ queue'[k].old < MaxCount
                    /\ queue'[k].page \notin aged =>
                         Counted(queue'[k], freq'[queue'[k].page], accesses'[queue'[k].page])
  BY <1>1, ActiveFromEntries
<1>6. CASE queue'[k] = e
  <2>1. e.page = p /\ e.old = OldFreq(freq[p])
    OBVIOUS
  <2>2. AtMost(e.old + 0, MaxCount) <= freq'[p] /\ e.old < MaxCount
    BY <1>2, <1>3, <2>1 DEF AtMost
  <2> QED
    BY <1>3, <1>6, <2>1, <2>2 DEF Counted
<1>7. CASE k \in DOMAIN queue /\ queue'[k] = queue[k]
  <2> DEFINE q == queue[k].page
  <2>1. q \in Pages /\ queue[k].old \in 0 .. MaxCount
    BY <1>7, <1>t, QueueEntry
  <2>2. /\ queue[k].old < MaxCount
        /\ q \notin aged => AtMost(queue[k].old + accesses[q], MaxCount) <= freq[q]
    BY <1>7, ActiveEntry DEF Counted
  <2>3. CASE q = p
    <3>1. accesses[q] \in 0 .. IdleMargin
      BY <1>t, <2>1
    <3>2. q \notin aged => queue[k].old <= freq[q]
      BY <1>2, <2>1, <2>2, <2>3, <3>1 DEF AtMost
    <3>3. q \notin aged => AtMost(queue[k].old + 0, MaxCount) <= freq'[q]
      <4>1. CASE freq[p] <= MaxCount - 1
        BY <4>1, <3>2, <2>1, <2>3, <1>2, <1>3 DEF AtMost
      <4>2. CASE freq[p] = MaxCount
        <5>1. OldFreq(freq[p]) = MaxCount - 1
          BY <4>2 DEF OldFreq
        <5> QED
          BY <5>1, <2>1, <2>2, <2>3, <1>3 DEF AtMost
      <4> QED
        BY <4>1, <4>2, <1>2
    <3>4. accesses'[q] = 0
      BY <1>3, <2>3
    <3> QED
      BY <1>7, <2>2, <3>3, <3>4 DEF Counted
  <2>4. CASE q # p
    BY <1>3, <1>7, <2>1, <2>2, <2>4 DEF Counted
  <2> QED
    BY <2>3, <2>4
<1> QED
  BY <1>5, <1>6, <1>7

LEMMA ActiveStep == HugeTypeOK /\ ActiveInv /\ [HugeNext]_hugeVars => ActiveInv'
<1> SUFFICES ASSUME HugeTypeOK, ActiveInv, [HugeNext]_hugeVars PROVE ActiveInv'
  OBVIOUS
<1>1. CASE CommonStep
  BY <1>1, ActiveUnchanged
  DEF CommonStep, SkipSpace, PromoteAll, PromotePartly, Serve, NoPressure, Pressure,
      EndPromotion, SkipSecondChance, FinishScan, KernelMove, queueVars
<1>2. ASSUME NEW p \in Pages, HugeProcessSample(p) PROVE ActiveInv'
  BY <1>2, ActiveSample
<1>3. ASSUME NEW p \in Pages, HugeScanCold(p) PROVE ActiveInv'
  BY <1>3, ActiveUnchanged DEF HugeScanCold, Visit
<1>4. ASSUME NEW p \in Pages, HugeScanSecondChance(p) PROVE ActiveInv'
  BY <1>4, ActiveSecondChance
<1>5. CASE HugeReadBudget \/ HugeContinue \/ HugeLowerHotThresh
  BY <1>5, ActiveUnchanged
  DEF HugeReadBudget, HugeContinue, HugeLowerHotThresh, queueVars
<1>6. CASE HugeCheckSecondChance \/ RaiseHotThresh \/ HugeWake
  BY <1>6, ActiveEmpty DEF HugeCheckSecondChance, RaiseHotThresh, HugeWake, ForgetQueue
<1>7. CASE UNCHANGED hugeVars
  BY <1>7, ActiveUnchanged DEF hugeVars, vars, queueVars
<1> QED
  BY <1>1, <1>2, <1>3, <1>4, <1>5, <1>6, <1>7 DEF HugeNext

\* A page that was sampled in at least IdleMargin batches since it got its
\* second chance is not taken for idle, as long as its counter had the room and
\* was not halved.
THEOREM ActiveCorrect == HugeSpec => []ActiveNotIdle
<1>1. HugeInit => HugeTypeOK /\ ThreshInv /\ ActiveInv
  BY HugeTypeInit, ThreshInit, ActiveEmpty DEF HugeInit, Init, ActiveInv
<1>2. ASSUME HugeTypeOK, ActiveInv PROVE ActiveNotIdle
  <2> SUFFICES ASSUME NEW k \in DOMAIN queue,
                      queue[k].page \notin aged,
                      accesses[queue[k].page] >= IdleMargin,
                      queue[k].old + IdleMargin <= MaxCount
               PROVE  freq[queue[k].page] >= queue[k].old + IdleMargin
    BY DEF ActiveNotIdle
  <2> DEFINE q == queue[k].page
  <2>1. TypeOK /\ q \in Pages /\ queue[k].old \in 0 .. MaxCount
    BY <1>2, QueueEntry DEF HugeTypeOK
  <2>2. freq[q] \in 0 .. MaxCount /\ accesses[q] \in 0 .. IdleMargin
    BY <1>2, <2>1 DEF HugeTypeOK, TypeOK
  <2>3. AtMost(queue[k].old + accesses[q], MaxCount) <= freq[q]
    BY <1>2, ActiveEntry DEF Counted
  <2> QED
    BY <2>1, <2>2, <2>3, HybridTierAssumption, HugeAssumption DEF AtMost
<1> QED
  BY <1>1, <1>2, HugeTypeStep, ActiveStep, PTL DEF HugeSpec

(***************************************************************************)
(* The headroom in huge pages                                              *)
(***************************************************************************)

LEMMA DivBounds ==
  ASSUME NEW a \in Nat, NEW b \in Nat \ {0}
  PROVE  /\ a \div b \in Nat
         /\ b * (a \div b) <= a
         /\ a < b * (a \div b) + b
OBVIOUS

\* Rounding the usage and the watermark down to huge pages of b base pages
\* loses less than one huge page.
LEMMA WithinOnePage ==
  ASSUME NEW b \in Nat \ {0}, NEW u \in Nat, NEW h \in Nat, NEW m \in Nat,
         u \div b + m <= h \div b
  PROVE  u + b * m < h + b
<1> DEFINE x == u \div b
           y == h \div b
<1>1. x \in Nat /\ y \in Nat /\ b * y <= h /\ u < b * x + b
  BY DivBounds
<1>2. x + m <= y
  OBVIOUS
<1> HIDE DEF x, y
<1>3. b * x \in Nat /\ b * m \in Nat /\ b * y \in Nat
  BY <1>1
<1>4. b * x + b * m <= b * y
  <2>1. PICK d \in Nat : y = x + m + d
    BY <1>1, <1>2
  <2>2. b * y = b * x + b * m + b * d /\ b * d \in Nat
    BY <1>1, <2>1
  <2> QED
    BY <1>3, <2>2
<1> QED
  BY <1>1, <1>3, <1>4

LEMMA HugeHeadroomUnchanged ==
  ASSUME HugeHeadroomInv, moved' = moved, granted' = granted, moveFailed' = moveFailed,
         headroom' = headroom, usage' = usage,
         (pc # "sample" /\ pc' # "sample") \/ pc' = pc,
         pc = "promote" \/ pc' # "promote"
  PROVE  HugeHeadroomInv'
BY DEF HugeHeadroomInv, HugeHeadroom, HugeWmark, NoLimit

LEMMA HugeHeadroomReadBudget ==
  ASSUME HugeTypeOK, HugeHeadroomInv, HugeReadBudget
  PROVE  HugeHeadroomInv'
<1>1. moved' = {} /\ Cardinality(moved') = 0
  BY FS_EmptySet DEF HugeReadBudget, HugeHeadroomInv
<1>2. granted' = HugeHeadroom(usage') /\ headroom' = granted' /\ pc' = "promote"
  BY DEF HugeReadBudget
<1>3. usage' \in Nat
  BY HugeHistoryStep DEF HugeNext
<1>4. granted' \in Nat
  BY <1>2, <1>3, HugeHeadroomType
<1> QED
  BY <1>1, <1>2, <1>4 DEF HugeHeadroomInv, HugeHeadroom, HugeWmark, NoLimit

LEMMA HugeHeadroomPromoteAll ==
  ASSUME HugeTypeOK, HugeHeadroomInv, NEW s \in Spaces, PromoteAll(s), usage' = usage
  PROVE  HugeHeadroomInv'
<1>t. TypeOK
  BY DEF HugeTypeOK
<1>1. PICK M \in PromotionBatch(s) :
        /\ moved' = moved \cup M
        /\ headroom' = IF HighWmark = 0 THEN headroom
                                        ELSE headroom - Cardinality(M)
  BY DEF PromoteAll
<1>2. pc = "promote" /\ pc' = pc /\ granted' = granted /\ moveFailed' = moveFailed
  BY DEF PromoteAll, Serve
<1>3. M \subseteq Pages /\ Cardinality(M) \in Nat /\ Cardinality(M) <= headroom
  BY <1>t, PromotionBatchProperties
<1>4. IsFiniteSet(M) /\ IsFiniteSet(moved)
  BY <1>t, <1>3, HybridTierAssumption, FS_Subset, MovedSize
<1>5. /\ Cardinality(moved) \in Nat /\ Cardinality(moved') \in Nat
      /\ Cardinality(moved') <= Cardinality(moved) + Cardinality(M)
  BY <1>1, <1>4, UnionSize
<1>6. headroom \in Nat /\ granted \in Nat
  BY <1>t DEF TypeOK
<1>7. granted' = HugeHeadroom(usage')
  BY <1>2 DEF HugeHeadroomInv, HugeHeadroom, HugeWmark, NoLimit
<1>8. CASE HighWmark = 0
  BY <1>2, <1>7, <1>8 DEF HugeHeadroomInv, HugeHeadroom, HugeWmark, NoLimit
<1>9. CASE HighWmark # 0
  <2>1. headroom' = headroom - Cardinality(M)
    BY <1>1, <1>9
  <2>2. ~moveFailed => Cardinality(moved) + headroom <= granted
    BY <1>2, <1>9 DEF HugeHeadroomInv
  <2>3. ~moveFailed => /\ Cardinality(moved') + headroom' <= granted
                       /\ Cardinality(moved') <= granted
    BY <1>3, <1>5, <1>6, <2>1, <2>2
  <2> QED
    BY <1>2, <1>7, <1>9, <2>3 DEF HugeHeadroomInv, HugeHeadroom, HugeWmark, NoLimit
<1> QED
  BY <1>8, <1>9

LEMMA HugeHeadroomStep ==
  HugeTypeOK /\ HugeHeadroomInv /\ [HugeNext]_hugeVars => HugeHeadroomInv'
<1> SUFFICES ASSUME HugeTypeOK, HugeHeadroomInv, [HugeNext]_hugeVars
             PROVE  HugeHeadroomInv'
  OBVIOUS
<1>1. ASSUME NEW p \in Pages,
             HugeProcessSample(p) \/ HugeScanCold(p) \/ HugeScanSecondChance(p)
      PROVE  HugeHeadroomInv'
  BY <1>1, HugeHeadroomUnchanged
  DEF HugeProcessSample, ProcessSample, HugeScanCold, HugeScanSecondChance, Visit,
      batchVars, promoteHist
<1>2. ASSUME NEW s \in Spaces, SkipSpace(s), usage' = usage PROVE HugeHeadroomInv'
  BY <1>2, HugeHeadroomUnchanged DEF SkipSpace, Serve
<1>3. ASSUME NEW s \in Spaces, PromoteAll(s), usage' = usage PROVE HugeHeadroomInv'
  BY <1>3, HugeHeadroomPromoteAll
<1>4. ASSUME NEW s \in Spaces, PromotePartly(s), usage' = usage PROVE HugeHeadroomInv'
  BY <1>4
  DEF HugeHeadroomInv, PromotePartly, Serve, HugeHeadroom, HugeWmark, NoLimit
<1>5. CASE /\ NoPressure \/ Pressure \/ SkipSecondChance \/ FinishScan
           /\ usage' = usage
  BY <1>5, HugeHeadroomUnchanged
  DEF NoPressure, Pressure, EndPromotion, SkipSecondChance, FinishScan, batchVars,
      promoteHist
<1>6. ASSUME NEW p \in Pages, KernelMove(p), usage' = usage PROVE HugeHeadroomInv'
  BY <1>6, HugeHeadroomUnchanged DEF KernelMove, batchVars, promoteHist
<1>7. CASE CommonStep
  BY <1>2, <1>3, <1>4, <1>5, <1>6, <1>7 DEF CommonStep
<1>8. CASE HugeReadBudget
  BY <1>8, HugeHeadroomReadBudget
<1>9. CASE HugeCheckSecondChance
  BY <1>9, HugeHeadroomUnchanged DEF HugeCheckSecondChance, batchVars, promoteHist
<1>10. CASE HugeContinue \/ HugeLowerHotThresh \/ RaiseHotThresh \/ HugeWake
  <2>1. pc' = "sample" /\ moved' = {} /\ granted' = 0
    BY <1>10
    DEF HugeContinue, HugeLowerHotThresh, RaiseHotThresh, HugeWake, HugeNextBatch, NextBatch
  <2>2. Cardinality(moved') = 0
    BY <2>1, FS_EmptySet
  <2> QED
    BY <2>1, <2>2 DEF HugeHeadroomInv
<1>11. CASE UNCHANGED hugeVars
  BY <1>11, HugeHeadroomUnchanged DEF hugeVars, vars, batchVars, promoteHist
<1> QED
  BY <1>1, <1>7, <1>8, <1>9, <1>10, <1>11 DEF HugeNext

\* The mix of units in the headroom is harmless: unless a promotion fails, what
\* a batch promotes takes the usage it read less than one huge page beyond the
\* watermark, whatever the watermark, the usage and the size of a huge page.
THEOREM PromotionBounded == HugeSpec => []PromotionWithinOnePage
<1>1. HugeInit => HugeTypeOK /\ ThreshInv /\ HugeHeadroomInv
  BY HugeTypeInit, ThreshInit, FS_EmptySet DEF HugeInit, Init, HugeHeadroomInv
<1>2. ASSUME HugeTypeOK, HugeHeadroomInv PROVE PromotionWithinOnePage
  <2> SUFFICES ASSUME ~moveFailed, moved # {}, HighWmark >= BasePages
               PROVE  usage + BasePages * Cardinality(moved) < HighWmark + BasePages
    BY DEF PromotionWithinOnePage
  <2> DEFINE m == Cardinality(moved)
  <2>1. BasePages \in Nat \ {0} /\ HighWmark \in Nat /\ usage \in Nat
    BY <1>2, HybridTierAssumption, HugeAssumption DEF HugeTypeOK
  <2>2. m \in Nat /\ m # 0
    BY <1>2, MovedSize, FS_EmptySet DEF HugeTypeOK
  <2>3. m <= granted /\ granted = HugeHeadroom(usage)
    BY <1>2, <2>1 DEF HugeHeadroomInv
  <2>4. HugeWmark = HighWmark \div BasePages /\ HighWmark # 0
    BY <2>1 DEF HugeWmark
  <2>5. HighWmark \div BasePages \in Nat /\ usage \div BasePages \in Nat
    BY <2>1, DivBounds
  <2>6. usage \div BasePages + m <= HighWmark \div BasePages
    BY <2>2, <2>3, <2>4, <2>5 DEF HugeHeadroom
  <2> QED
    BY <2>1, <2>2, <2>6, WithinOnePage
<1> QED
  BY <1>1, <1>2, HugeTypeStep, HugeHeadroomStep, PTL DEF HugeSpec
=============================================================================
