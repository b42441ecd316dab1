--------------------------- MODULE SamplingControl ---------------------------
(***************************************************************************)
(* The control state of the tiering thread of hybridtier.cpp: when it      *)
(* lowers the hot threshold, when it turns sampling off and goes to        *)
(* monitor mode, what it resets when it wakes up, and at which frequency   *)
(* the events of the fast tier sample.                                     *)
(*                                                                         *)
(* What a batch promoted, what a scan found, whether the hot pages fill    *)
(* the fast tier and how the hit ratio develops are left open.  The huge   *)
(* page build, which differs in the parameters of NextWith, is HugeControl.*)
(***************************************************************************)
EXTENDS Naturals, Sequences, SequencesExt

CONSTANTS
  HotInit,     \* initial_hot_thresh: 5
  HotMin,      \* no plateau lowers the threshold below this: 3
  ResetLimit,  \* scans with cold pages after one without: 10
  Period,      \* batches between two looks for a plateau: 20
  Warmup,      \* batches without a plateau: 500
  PlateauMax,  \* promotions of a period that is a plateau: 25000
  WindowSize   \* hit ratios in the window: 5

ASSUME ControlAssumption ==
  /\ HotMin \in Nat
  /\ HotInit \in Nat /\ HotInit >= HotMin
  /\ ResetLimit \in Nat \ {0}
  /\ Period \in Nat \ {0}
  \* The first period has one batch less: it ends within the warmup.
  /\ Warmup \in Nat /\ Warmup >= Period - 1
  /\ PlateauMax \in Nat
  /\ WindowSize \in Nat

\* perf_sample_freq_list
LowFreq   == 1001
HighFreq  == 100001
FloorFreq == 40000

VARIABLES
  inCgroup,  \* g_cgroup_runtime_context.enabled, settled at the start
  pc,        \* the step the thread is at
  hot,       \* hot_thresh
  sweptOnce, \* full_sweep_not_enough_cold_pages_once
  resets,    \* demotion_reset_count
  batches,   \* num_sample_batches, counted on modulo Period after the warmup
  promoted,  \* num_pages_promoted_history, up to one more than PlateauMax
  localFreq, \* perf_sample_freq_local
  opened,    \* the frequency the local events were opened with
  drop,      \* drop_local_sample_freq
  window,    \* size of fast_mem_hit_ratio_window
  exit       \* the place the monitor mode was entered from

(***************************************************************************)
(* History, for the properties only.                                       *)
(***************************************************************************)
VARIABLES
  recent,   \* promotions of the last Period batches
  scans,    \* the last two scans: was it a full sweep without enough pages
  readings  \* hit ratios read since the monitor mode was entered, to WindowSize + 1

rateVars  == <<localFreq, opened, drop>>
sweepVars == <<sweptOnce, resets, scans>>
vars == <<inCgroup, pc, hot, sweepVars, batches, promoted, rateVars, window, exit,
          recent, readings>>

Exits == {"none", "sweeps", "resets", "minimum", "plateau"}

AtMost(a, b) == IF a <= b THEN a ELSE b

\* normalize_perf_sample_freq: in a cgroup every request is cut down to 1000.
Effective(freq) == IF inCgroup THEN AtMost(freq, 1000) ELSE freq

LastN(s, n) == IF Len(s) <= n THEN s ELSE Tail(s)

-----------------------------------------------------------------------------
\* A batch of samples is counted and its hot pages are promoted.  It sets the
\* flag when most samples of the fast tier told nothing new.
Batch ==
  /\ pc = "batch"
  /\ pc' = "scan"
  /\ \E n \in 0 .. PlateauMax + 1 :
       /\ promoted' = AtMost(promoted + n, PlateauMax + 1)
       /\ recent' = LastN(Append(recent, n), Period)
  /\ drop' \in {drop, TRUE}
  /\ UNCHANGED <<hot, sweepVars, batches, localFreq, opened, window, exit, readings>>

\* low_overhead_monitor closes the events and forgets the hit ratios it has.
EnterMonitorKeepingWindow(from) ==
  /\ pc' = "monitor"
  /\ exit' = from
  /\ readings' = 0
  /\ UNCHANGED window

EnterMonitor(from) ==
  /\ pc' = "monitor"
  /\ exit' = from
  /\ window' = 0
  /\ readings' = 0

GoOn(next) ==
  /\ pc' = next
  /\ UNCHANGED <<window, exit, readings>>

-----------------------------------------------------------------------------
(* Demotion                                                                *)

\* No memory pressure, or it is over before the scan.
NoScan ==
  /\ pc = "scan"
  /\ GoOn("plateau")
  /\ UNCHANGED <<hot, sweepVars, batches, promoted, rateVars, recent>>

Scan(full) ==
  /\ pc = "scan"
  /\ scans' = LastN(Append(scans, full), 2)
  /\ UNCHANGED <<hot, batches, promoted, rateVars, recent>>

SweptKept == sweptOnce

\* A scan that found enough clears the flag again.
SweptAfterProductive == FALSE

SecondFullSweep ==
  /\ Scan(TRUE)
  /\ sweptOnce
  /\ resets' = 0
  /\ EnterMonitor("sweeps")
  /\ UNCHANGED sweptOnce

FirstFullSweep ==
  /\ Scan(TRUE)
  /\ ~sweptOnce
  /\ sweptOnce' = TRUE
  /\ GoOn("plateau")
  /\ UNCHANGED resets

ProductiveScan ==
  /\ Scan(FALSE)
  /\ sweptOnce' = SweptAfterProductive
  /\ resets' = IF sweptOnce THEN resets + 1 ELSE resets
  /\ IF resets' = ResetLimit /\ sweptOnce
       THEN EnterMonitor("resets")
       ELSE GoOn("plateau")

-----------------------------------------------------------------------------
(* Promotion plateau                                                       *)

NextCount == IF batches = Warmup + Period THEN Warmup + 1 ELSE batches + 1

EndOfPeriod == NextCount % Period = Period - 1

Plateau == EndOfPeriod /\ NextCount > Warmup /\ promoted <= PlateauMax

PromotedKept == promoted

PromotedReset == 0

PromotedAfterCount == IF EndOfPeriod THEN 0 ELSE promoted

CountBatch ==
  /\ pc = "plateau"
  /\ batches' = NextCount
  /\ promoted' = PromotedAfterCount
  /\ UNCHANGED <<sweepVars, rateVars, recent>>

NoPlateau ==
  /\ CountBatch
  /\ ~Plateau
  /\ GoOn("batch")
  /\ UNCHANGED hot

\* The hot pages do not fill the fast tier: promote more.
LowerHotThresh ==
  /\ CountBatch
  /\ Plateau
  /\ hot # HotMin
  /\ hot' = hot - 1
  /\ GoOn("batch")

\* They do not, but the threshold is at its minimum.
EndAtMinimum ==
  /\ CountBatch
  /\ Plateau
  /\ hot = HotMin
  /\ EnterMonitor("minimum")
  /\ UNCHANGED hot

\* They fill it.
EndOnPlateau ==
  /\ CountBatch
  /\ Plateau
  /\ EnterMonitor("plateau")
  /\ UNCHANGED hot

-----------------------------------------------------------------------------
(* Monitor mode                                                            *)

OpenedLow == Effective(LowFreq)

ResetsKept == resets

ResetsOnWake == IF exit = "resets" THEN 0 ELSE resets

\* perf_setup opens all events with the frequency the thread started with.
OpenedOnWake == Effective(HighFreq)

\* What follows low_overhead_monitor at each of its calls.
Wake(threshold) ==
  /\ pc' = "batch"
  /\ hot' = threshold
  /\ sweptOnce' = (IF exit \in {"minimum", "plateau"} THEN sweptOnce ELSE FALSE)
  /\ resets' = ResetsOnWake
  /\ opened' = OpenedOnWake
  /\ exit' = "none"
  /\ UNCHANGED <<batches, promoted, localFreq, drop, recent, scans>>

\* In a cgroup there is nothing to watch and sampling starts again at once.
WakeInCgroup(threshold) ==
  /\ inCgroup
  /\ pc = "monitor"
  /\ Wake(threshold)
  /\ UNCHANGED <<window, readings>>

Watch ==
  /\ ~inCgroup
  /\ pc = "monitor"
  /\ readings' = AtMost(readings + 1, WindowSize + 1)

\* One more hit ratio; too few for a slope.
ReadRatio(next) ==
  /\ Watch
  /\ window < WindowSize
  /\ window' = window + 1
  /\ pc' = next
  /\ UNCHANGED <<hot, sweepVars, batches, promoted, rateVars, exit, recent>>

\* The oldest ratio leaves the window, and the slope does not fall.  A falling
\* slope asks for the next higher frequency, which ends the monitor mode.
ReadStableRatio(next) ==
  /\ Watch
  /\ window = WindowSize
  /\ pc' = next
  /\ UNCHANGED <<hot, sweepVars, batches, promoted, rateVars, window, exit, recent>>

WakeOnFallingRatio(threshold) ==
  /\ Watch
  /\ window = WindowSize
  /\ Wake(threshold)
  /\ UNCHANGED window

-----------------------------------------------------------------------------
\* Between two ring buffers: half the frequency for the fast tier.  Several
\* batches may be filled before the thread gets here.
DropLocalFreq(floor) ==
  /\ pc = "batch"
  /\ drop
  /\ localFreq > floor
  /\ localFreq' = localFreq \div 2
  /\ opened' = Effective(localFreq')
  /\ drop' = FALSE
  /\ UNCHANGED <<pc, hot, sweepVars, batches, promoted, window, exit, recent, readings>>

-----------------------------------------------------------------------------
Init ==
  /\ inCgroup \in BOOLEAN
  /\ pc = "batch"
  /\ hot = HotInit
  /\ sweptOnce = FALSE
  /\ resets = 0
  /\ batches = 0
  /\ promoted = 0
  /\ localFreq = HighFreq
  /\ opened = Effective(HighFreq)
  /\ drop = FALSE
  /\ window = 0
  /\ exit = "none"
  /\ recent = << >>
  /\ scans = << >>
  /\ readings = 0

\* threshold: hot_thresh after a monitor mode; next: the step after a hit ratio
\* that tells nothing; floor: the lowest local frequency that is still halved.
NextWith(threshold, next, floor) ==
  /\ \/ Batch
     \/ NoScan
     \/ SecondFullSweep
     \/ FirstFullSweep
     \/ ProductiveScan
     \/ NoPlateau
     \/ LowerHotThresh
     \/ EndAtMinimum
     \/ EndOnPlateau
     \/ WakeInCgroup(threshold)
     \/ ReadRatio(next)
     \/ ReadStableRatio(next)
     \/ WakeOnFallingRatio(threshold)
     \/ DropLocalFreq(floor)
  /\ UNCHANGED inCgroup

Next == NextWith(HotInit, "monitor", FloorFreq)

\* The thread never blocks for good: it polls the rings and sleeps for a bounded
\* time, and the application that is sampled keeps filling batches.
Spec == Init /\ [][Next]_vars /\ WF_vars(Next)

-----------------------------------------------------------------------------
(* Properties                                                              *)

\* The threshold keeps between its bounds, which the test for its minimum by
\* equality relies on.  The reset count meets its limit only on the way to
\* monitor mode, where it is cleared: a larger one would never be equal to the
\* limit again.  The local events sample as often as the thread believes, or,
\* opened anew by a wake-up, as often as at the start: never less.  Only the huge
\* page build has the step "memory".
TypeOK ==
  /\ inCgroup \in BOOLEAN
  /\ pc \in {"batch", "scan", "plateau", "monitor", "memory"}
  /\ hot \in HotMin .. HotInit
  /\ sweptOnce \in BOOLEAN
  /\ resets \in 0 .. ResetLimit
  /\ resets = ResetLimit => exit = "resets"
  /\ batches \in 0 .. Warmup + Period
  /\ promoted \in 0 .. PlateauMax + 1
  /\ localFreq \in 1 .. HighFreq
  /\ opened \in {Effective(localFreq), Effective(HighFreq)}
  /\ drop \in BOOLEAN
  /\ window \in 0 .. WindowSize
  /\ exit \in Exits
  /\ recent \in Seq(0 .. PlateauMax + 1) /\ Len(recent) <= Period
  /\ scans \in Seq(BOOLEAN) /\ Len(scans) <= 2
  /\ readings \in 0 .. WindowSize + 1

\* The demotion ends in monitor mode after two full sweeps in a row without
\* enough cold pages, with no other scan between them.
TwoSweepsInARow == exit = "sweeps" => scans = <<TRUE, TRUE>>

\* A plateau, and with it a lower threshold, is seen only when the last Period
\* batches promoted little.  The batches a demotion sent to monitor mode are
\* not counted, but what they promoted is.
PlateauIsDry ==
  [][(exit = "none" /\ exit' \in {"minimum", "plateau"}) \/ hot' < hot =>
       Len(recent) = Period /\ FoldLeft(+, 0, recent) <= PlateauMax]_vars

\* Sampling is turned off in the end, again and again, when nothing is left to
\* promote: by the plateaus if not by the sweeps.
QuietEndsInMonitor ==
  <>[](\A k \in DOMAIN recent : recent[k] = 0) => []<>(pc = "monitor")
=============================================================================
