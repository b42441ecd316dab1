----------------------------- MODULE HybridTier -----------------------------
(***************************************************************************)
(* The tiering thread of tiering_runtime/hybridtier.cpp, one batch of      *)
(* samples at a time: the samples raise the frequency and momentum of the  *)
(* pages they hit, hot pages are promoted to the fast node within the      *)
(* cgroup's headroom, and under memory pressure the pages that had their   *)
(* second chance, and then the cold pages of a scan, are demoted.          *)
(*                                                                         *)
(* The two counting Bloom filters are seen here as one saturating counter  *)
(* per page, and a page that both events sampled in a batch is counted in  *)
(* one go.  Which pages a scan reaches, when a batch ends in monitor mode  *)
(* and when the hot threshold falls is left open: it depends on the        *)
(* address space and on the control state of the thread.  The kernel may   *)
(* move a page between any two steps.                                      *)
(***************************************************************************)
EXTENDS Naturals, Sequences, FiniteSets

CONSTANTS
  Pages,          \* the sampled pages
  Spaces,         \* the address spaces (pids), as a partition of Pages
  MaxCount,       \* largest value of a counter: 15
  HotInit,        \* initial_hot_thresh: 5
  HotMin,         \* the threshold is not lowered below this: 3
  MomentumThresh, \* momentum_thresh: 3 unless configured
  QueueCap,       \* entries the second chance queue takes: 10000
  HighWmark,      \* high watermark of the fast node in pages, 0 without a budget
  RetryDiv        \* a failed promotion is retried with 1/RetryDiv of the pages: 10

ASSUME HybridTierAssumption ==
  /\ IsFiniteSet(Pages)
  /\ UNION Spaces = Pages
  /\ MaxCount \in Nat \ {0}
  /\ HotMin \in Nat
  /\ HotInit \in HotMin .. MaxCount
  /\ MomentumThresh \in Nat
  /\ QueueCap \in Nat
  /\ HighWmark \in Nat
  /\ RetryDiv \in Nat

VARIABLES
  pc,         \* the step of the batch the thread is at
  fast,       \* the pages resident on the fast node; the others are on a slow one
  freq,       \* lfu
  momentum,   \* momentum
  hot,        \* hot_thresh
  queue,      \* second_chance_queue and second_chance_oldfreq
  todo,       \* sampled_address_counts: sampled pages not yet processed
  cands,      \* promote_candidates_by_pid
  unserved,   \* address spaces whose candidates have not been looked at
  headroom,   \* promotion_headroom_pages
  cold,       \* cold_page_list
  visited     \* fast pages the current scan has classified

(***************************************************************************)
(* History of what happened, for the properties only.                      *)
(***************************************************************************)
VARIABLES
  touched,    \* queued pages sampled since the scan last queued them
  aged,       \* queued pages whose frequency was halved while they were queued
  batchAged,  \* a filter was halved while this batch was processed
  moved,      \* pages the runtime promoted in this batch
  granted,    \* headroom read before the promotions of this batch
  moveFailed  \* a promotion of this batch returned an error

batchVars   == <<todo, cands, unserved, headroom>>
scanVars    == <<cold, visited>>
queueVars   == <<queue, touched, aged>>
promoteHist == <<moved, granted, moveFailed>>
vars == <<pc, fast, freq, momentum, hot, batchVars, scanVars, queueVars,
          batchAged, promoteHist>>

Stages == {"sample", "promote", "check", "scan", "decide"}
Entry  == [page : Pages, old : 0 .. MaxCount]

AtMost(a, b) == IF a <= b THEN a ELSE b

Queued == {queue[k].page : k \in DOMAIN queue}

-----------------------------------------------------------------------------
(* frequency_sketch *)

SaturateNever(c, n) == c + n

\* try_increase_counter_at: a counter sticks at MaxCount.
Saturate(c, n) == AtMost(c + n, MaxCount)

\* age
Halve(f) == [p \in Pages |-> f[p] \div 2]

\* increase_frequency; ages says that this call reached the sample size.
Increase(f, p, n, ages) ==
  LET g == [f EXCEPT ![p] = Saturate(@, n)]
  IN  IF ages THEN Halve(g) ELSE g

-----------------------------------------------------------------------------
(* One sampled page of the batch.  It becomes a candidate by the values    *)
(* its own two updates return.                                             *)

IsCandidate(f, m) == f >= hot \/ m >= MomentumThresh

ProcessSample(p) ==
  /\ pc = "sample"
  /\ p \in todo
  /\ todo' = todo \ {p}
  /\ \E n \in 1 .. MaxCount, agesL, agesM \in BOOLEAN :
       /\ freq' = Increase(freq, p, n, agesL)
       /\ momentum' = Increase(momentum, p, n, agesM)
       /\ cands' = IF IsCandidate(freq'[p], momentum'[p])
                     THEN cands \cup {p} ELSE cands
       /\ aged' = IF agesL THEN aged \cup Queued ELSE aged
       /\ batchAged' = (batchAged \/ agesL \/ agesM)
  /\ touched' = touched \cup ({p} \cap Queued)
  /\ UNCHANGED <<pc, fast, hot, queue, unserved, headroom, scanVars, promoteHist>>

\* The budget and the usage are read once, after the whole batch is counted.
NoLimit == Cardinality(Pages)

Headroom(usage) ==
  IF HighWmark = 0 THEN NoLimit
  ELSE IF usage >= HighWmark THEN 0 ELSE HighWmark - usage

ReadBudget ==
  /\ pc = "sample"
  /\ todo = {}
  /\ pc' = "promote"
  /\ headroom' = Headroom(Cardinality(fast))
  /\ granted' = headroom'
  /\ unserved' = {s \in Spaces : s \cap cands # {}}
  /\ UNCHANGED <<fast, freq, momentum, hot, todo, cands, scanVars, queueVars,
                 batchAged, moved, moveFailed>>

-----------------------------------------------------------------------------
(* Promotion, one address space after the other                            *)

\* The candidates of s still on a slow node, cut down to the headroom.
PromotionBatch(s) ==
  LET slow == (s \cap cands) \ fast
  IN  {M \in SUBSET slow : /\ M # {}
                           /\ Cardinality(M) = AtMost(Cardinality(slow), headroom)}

Serve(s) ==
  /\ pc = "promote"
  /\ s \in unserved
  /\ unserved' = unserved \ {s}
  /\ UNCHANGED <<pc, freq, momentum, hot, todo, cands, scanVars, queueVars,
                 batchAged, granted>>

\* No headroom, nothing to move, or the residency query fails.
SkipSpace(s) ==
  /\ Serve(s)
  /\ UNCHANGED <<fast, headroom, moved, moveFailed>>

PromoteAllUncharged(s) ==
  /\ Serve(s)
  /\ \E M \in PromotionBatch(s) :
       /\ fast' = fast \cup M
       /\ moved' = moved \cup M
  /\ UNCHANGED <<headroom, moveFailed>>

\* move_pages returns 0.
PromoteAll(s) ==
  /\ Serve(s)
  /\ \E M \in PromotionBatch(s) :
       /\ fast' = fast \cup M
       /\ moved' = moved \cup M
       /\ headroom' = IF HighWmark = 0 THEN headroom
                                       ELSE headroom - Cardinality(M)
  /\ UNCHANGED moveFailed

\* move_pages fails after moving some of the pages; on ENOMEM a prefix of a
\* large batch is tried again.  Neither is charged to the headroom.
PromotePartly(s) ==
  /\ Serve(s)
  /\ \E M \in PromotionBatch(s) : \E P \in SUBSET M :
       /\ P # M \/ Cardinality(M) > RetryDiv
       /\ fast' = fast \cup P
       /\ moved' = moved \cup P
  /\ moveFailed' = TRUE
  /\ UNCHANGED headroom

\* The fast node has more than the allocation watermark available, or not.
EndPromotion(next) ==
  /\ pc = "promote"
  /\ unserved = {}
  /\ pc' = next
  /\ cands' = {}
  /\ UNCHANGED <<fast, freq, momentum, hot, todo, unserved, headroom, scanVars,
                 queueVars, batchAged, promoteHist>>

NoPressure == EndPromotion("decide")
Pressure   == EndPromotion("check")

-----------------------------------------------------------------------------
(* Demotion                                                                *)

\* Queued pages whose frequency is the one recorded when they were queued.
Idle == {queue[k].page : k \in {j \in DOMAIN queue :
                                  queue[j].old = freq[queue[j].page]}}

\* The waiting time is over: demote the idle pages and forget the others.
\* A scan follows unless the available memory is already back at its target.
CheckSecondChance ==
  /\ pc = "check"
  /\ queue # << >>
  /\ pc' \in {"scan", "decide"}
  /\ \E X \in SUBSET (Idle \cap fast) : fast' = fast \ X
  /\ queue' = << >>
  /\ touched' = {}
  /\ aged' = {}
  /\ UNCHANGED <<freq, momentum, hot, batchVars, scanVars, batchAged, promoteHist>>

\* The queue is empty or the waiting time is not over.
SkipSecondChance ==
  /\ pc = "check"
  /\ pc' \in {"scan", "decide"}
  /\ UNCHANGED <<fast, freq, momentum, hot, batchVars, scanVars, queueVars,
                 batchAged, promoteHist>>

Visit(p) ==
  /\ pc = "scan"
  /\ p \in fast \ visited
  /\ visited' = visited \cup {p}
  /\ UNCHANGED <<pc, fast, momentum, hot, batchVars, aged, batchAged, promoteHist>>

IsCold(p) == freq[p] < hot /\ momentum[p] < 1

\* Low frequency and no momentum: demote.
ScanCold(p) ==
  /\ Visit(p)
  /\ IsCold(p)
  /\ cold' = cold \cup {p}
  /\ UNCHANGED <<freq, queue, touched>>

OldFreqUndecremented(c) == c

\* The frequency recorded with a second chance: a saturated counter is first
\* moved off its maximum, so that another access can be seen.
OldFreq(c) == IF c = MaxCount THEN MaxCount - 1 ELSE c

ScanSecondChanceUnrecorded(p) ==
  /\ Visit(p)
  /\ freq[p] >= hot
  /\ momentum[p] < 1
  /\ Len(queue) < QueueCap
  /\ freq' = [freq EXCEPT ![p] = OldFreq(@)]
  /\ queue' = Append(queue, [page |-> p, old |-> freq[p]])
  /\ touched' = touched \ {p}
  /\ UNCHANGED cold

\* High frequency and no momentum: second chance.
ScanSecondChance(p) ==
  /\ Visit(p)
  /\ freq[p] >= hot
  /\ momentum[p] < 1
  /\ Len(queue) < QueueCap
  /\ freq' = [freq EXCEPT ![p] = OldFreq(@)]
  /\ queue' = Append(queue, [page |-> p, old |-> OldFreq(freq[p])])
  /\ touched' = touched \ {p}
  /\ UNCHANGED cold

FinishScanKeepingList ==
  /\ pc = "scan"
  /\ pc' = "decide"
  /\ \E X \in SUBSET (cold \cap fast) : fast' = fast \ X
  /\ visited' = {}
  /\ UNCHANGED <<cold, freq, momentum, hot, batchVars, queueVars, batchAged,
                 promoteHist>>

\* Any other page is left alone.  The cold pages are moved in one go at the
\* end, and an address space for which this fails keeps some of them.
FinishScan ==
  /\ pc = "scan"
  /\ pc' = "decide"
  /\ \E X \in SUBSET (cold \cap fast) : fast' = fast \ X
  /\ cold' = {}
  /\ visited' = {}
  /\ UNCHANGED <<freq, momentum, hot, batchVars, queueVars, batchAged, promoteHist>>

-----------------------------------------------------------------------------
(* End of a batch                                                          *)

NextBatch ==
  /\ pc = "decide"
  /\ pc' = "sample"
  /\ todo' \in (SUBSET Pages) \ {{}}
  /\ batchAged' = FALSE
  /\ moved' = {}
  /\ granted' = 0
  /\ moveFailed' = FALSE
  /\ headroom' = 0
  /\ UNCHANGED <<fast, cands, unserved, scanVars>>

Continue ==
  /\ NextBatch
  /\ UNCHANGED <<freq, momentum, hot, queueVars>>

\* Promotion plateau with room left on the fast node.
LowerHotThresh ==
  /\ NextBatch
  /\ hot > HotMin
  /\ hot' = hot - 1
  /\ UNCHANGED <<freq, momentum, queueVars>>

\* Monitor mode was entered and left again.
Wake ==
  /\ NextBatch
  /\ freq' = Halve(freq)
  /\ momentum' = Halve(momentum)
  /\ hot' = HotInit
  /\ queue' = << >>
  /\ touched' = {}
  /\ aged' = {}

\* The kernel's own reclaim and balancing, and the application's page faults.
KernelMove(p) ==
  /\ fast' = IF p \in fast THEN fast \ {p} ELSE fast \cup {p}
  /\ UNCHANGED <<pc, freq, momentum, hot, batchVars, scanVars, queueVars,
                 batchAged, promoteHist>>

-----------------------------------------------------------------------------
\* The counter tables are allocated but not cleared, so any content is possible.
Init ==
  /\ pc = "sample"
  /\ fast \in SUBSET Pages
  /\ freq \in [Pages -> 0 .. MaxCount]
  /\ momentum \in [Pages -> 0 .. MaxCount]
  /\ hot = HotInit
  /\ queue = << >>
  /\ todo \in (SUBSET Pages) \ {{}}
  /\ cands = {}
  /\ unserved = {}
  /\ headroom = 0
  /\ cold = {}
  /\ visited = {}
  /\ touched = {}
  /\ aged = {}
  /\ batchAged = FALSE
  /\ moved = {}
  /\ granted = 0
  /\ moveFailed = FALSE

Next ==
  \/ \E p \in Pages : \/ ProcessSample(p)
                      \/ ScanCold(p)
                      \/ ScanSecondChance(p)
                      \/ KernelMove(p)
  \/ \E s \in Spaces : \/ SkipSpace(s)
                       \/ PromoteAll(s)
                       \/ PromotePartly(s)
  \/ ReadBudget
  \/ NoPressure
  \/ Pressure
  \/ CheckSecondChance
  \/ SkipSecondChance
  \/ FinishScan
  \/ Continue
  \/ LowerHotThresh
  \/ Wake

Spec == Init /\ [][Next]_vars

-----------------------------------------------------------------------------
(* Properties                                                              *)

\* The variables hold values of their types; the threshold stays between its
\* bounds and the queue within its capacity.
TypeOK ==
  /\ pc \in Stages
  /\ fast \in SUBSET Pages
  /\ freq \in [Pages -> 0 .. MaxCount]
  /\ momentum \in [Pages -> 0 .. MaxCount]
  /\ hot \in HotMin .. HotInit
  /\ queue \in Seq(Entry)
  /\ Len(queue) <= QueueCap
  /\ todo \in SUBSET Pages
  /\ cands \in SUBSET Pages
  /\ unserved \in SUBSET Spaces
  /\ headroom \in Nat
  /\ granted \in Nat
  /\ cold \in SUBSET Pages
  /\ visited \in SUBSET Pages
  /\ touched \in SUBSET Pages
  /\ aged \in SUBSET Pages
  /\ moved \in SUBSET Pages
  /\ batchAged \in BOOLEAN
  /\ moveFailed \in BOOLEAN

\* A page whose recorded frequency still stands was not sampled since the scan
\* queued it, provided its counter was not halved meanwhile.  This is what the
\* comparison in the second chance check relies on, and why a saturated
\* counter is decremented when its page is queued.
SecondChanceSound == Idle \cap touched \subseteq aged

\* The runtime demotes a page only if at that moment it is cold or idle.
\* FinishScan acts on a list that was filled page by page before, with second
\* chance decrements in between.
DemotionJustified ==
  [][/\ FinishScan => \A p \in fast \ fast' : IsCold(p)
     /\ CheckSecondChance => \A p \in fast \ fast' :
          \E k \in DOMAIN queue : queue[k].page = p /\ queue[k].old = freq[p]]_vars

\* No thrashing: a page promoted in a batch is not demoted by the same batch,
\* unless a counter was halved.
NoPingPong ==
  [][/\ CheckSecondChance => moved \cap (fast \ fast') \subseteq aged
     /\ FinishScan /\ ~batchAged => moved \cap (fast \ fast') = {}]_vars

\* What a batch promotes fits in the headroom it read, as long as no
\* promotion of the batch fails.
HeadroomKept == ~moveFailed => Cardinality(moved) <= granted

(***************************************************************************)
(* The inductive invariant behind these properties.                        *)
(***************************************************************************)

\* An entry of the queue is below the maximum, and no counter of a queued page
\* sinks to it but by halving, nor reaches it again after an access.
QueueInv ==
  \A k \in DOMAIN queue :
    /\ queue[k].old < MaxCount
    /\ queue[k].page \notin aged =>
         /\ queue[k].old <= freq[queue[k].page]
         /\ queue[k].page \in touched => queue[k].old < freq[queue[k].page]

\* Every page on the cold list stays cold until the list is moved.
ColdInv ==
  /\ cold \subseteq visited
  /\ \A p \in cold : IsCold(p)
  /\ pc # "scan" => cold = {} /\ visited = {}

\* A promoted page was a candidate, hence sampled in this batch.
PromotionInv ==
  /\ pc \notin {"sample", "promote"} => cands = {}
  /\ pc = "sample" => moved = {}
  /\ pc = "promote" => moved \subseteq cands
  /\ pc \in {"sample", "promote", "check"} =>
       (cands \cup moved) \cap Queued \subseteq touched
  /\ ~batchAged => \A p \in cands \cup moved : momentum[p] >= 1

\* What is left of the headroom and what was promoted add up.
HeadroomInv ==
  /\ pc # "sample" /\ HighWmark = 0 => granted = NoLimit
  /\ pc = "promote" /\ HighWmark # 0 /\ ~moveFailed =>
       Cardinality(moved) + headroom <= granted

IInv ==
  /\ TypeOK
  /\ QueueInv
  /\ ColdInv
  /\ PromotionInv
  /\ HeadroomInv
  /\ HeadroomKept
=============================================================================
