# Verification of the hybrid memory tiering runtime

The repository holds a user space runtime that manages the memory of unmodified
applications on machines with a fast and a slow memory node. A preloaded hook
starts a tiering thread in the application; the thread samples the
application's memory accesses with `perf_event_open`, moves hot pages to the
fast node and cold pages to the slow one with `move_pages`, and stops sampling
when there is nothing left to do. Three policies are built from the same parts:
HybridTier (two counting Bloom filters, with a variant for 2 MB pages), ARC and
2Q.

This directory holds TLA+ modules of the runtime, TLC configurations that check
them on small instances, and proofs checked by TLAPS for every value of the
constants. `PROJECT.json` maps every definition to the lines it models.

    tlc -config MCARC.cfg MCARC          # one run
    tlapm ARCProofs.tla                  # the proofs of one module

## 1. Inventory

All paths are under `src/`; `tr/` is short for `src/tiering_runtime/`.

| Component | Code | State | Operations | Status |
|---|---|---|---|---|
| Tiering thread | `tr/hybridtier.cpp` | the two filters, `hot_thresh`, second chance queue, candidates by pid, headroom, cold list | count a batch, promote within the headroom, check second chances, scan and demote | `HybridTier` |
| Frequency sketch | `tr/frequency_sketch_block.hpp` | `table_`, `size_`, `frequency_dist` | `increase_frequency`, `frequency`, `decrement_frequency`, `age`, `get_num_hot_pages` | `FrequencySketch` |
| Sampling control | `tr/hybridtier.cpp`, `tr/runtime_context.hpp` | `full_sweep_not_enough_cold_pages_once`, `demotion_reset_count`, `num_sample_batches`, promotion history, sampling frequencies, hit ratio window | end of a batch, monitor mode, wake-up, drop of the local frequency | `SamplingControl` |
| Cold page scan | `tr/hybridtier.cpp` | `last_scanned_address_by_pid`, place in maps and pagemap, cold page list | scan of processes, VMAs and chunks, move, result | `ColdScan` |
| Leader election | `tr/runtime_context.hpp`, `src/hook/hook.cpp` | `leader`, `leader_lock_fd`, the lock | start, fork, exec, exit, election, failed setup | `LeaderElection` |
| ARC runtime | `tr/arc.cpp` | `T1`, `T2`, `B1`, `B2`, `p`, `locationMap` | `request`, `replace` | `ARC` |
| 2Q runtime | `tr/twoq.cpp` | `Am`, `A1in`, `A1out`, three maps | `accessPage`, `reclaim` | `TwoQ` |
| Perf rings | the three runtimes | mapped rings with `data_head` and `data_tail` | open, close, reopen, read records | `PerfRing` |
| Topology and memcg | `tr/runtime_context.hpp` | tiers, budget, PFN ranges | parse `memory.*`, detect nodes, read usage | the numbers only (`HybridTier`) |
| Huge page runtime | `tr/hybridtier_huge.cpp`, `tr/frequency_sketch_block_huge.hpp` | as HybridTier, the count of free memory readings | as HybridTier | `HugeTier`, `HugeScan`, `HugeSketch`, `HugeControl` |
| Hook | `src/hook/hook.cpp` | none that lasts | interpose `__libc_start_main`, start the thread in the target | the start only (`LeaderElection`) |
| Hash helpers | `tr/detail.hpp` | none | mix a key | a constant |
| Experiment scripts, Memtis launchers, CXL and PEBS probes | `src/*.sh`, `src/*.py`, `src/memtis`, `src/tools` | none of the runtime's | start benchmarks, read logs, probe hardware | not modelled |

How they interact. The hook starts one thread per target process, and the
election leaves one of them per cgroup; that one manages every process of the
cgroup. Its thread owns all state of the policy: there are no locks within a
process. What runs concurrently are the kernel, which moves pages on its own
(reclaim, NUMA balancing, faults) and fills the perf rings, the processes of the
cgroup, which map, unmap, fork, exec and exit, and the tiering threads of other
processes, met only at the lock file. The policy reads kernel state, decides,
and acts later: residency is queried before a promotion, budget and usage once
per batch, the pagemap before a scan's moves.

What is hard, and the properties that follow from it:

* *Second chance.* A hot page without momentum is queued with its frequency,
  and demoted batches later if the frequency is unchanged. Saturation, aging
  and shared counters lie in between (`SecondChanceSound`, in two modules).
* *Acting on old facts.* The cold list is moved after the scan, the headroom is
  spent after it was read, a page may be promoted and demoted in one batch
  (`DemotionJustified`, `HeadroomKept`, `NoPingPong`).
* *Resumed scans.* A scan stops when it found enough and the next one resumes at
  an address that is a byte address plus a number of pages, in an address space
  that has changed since, or that of another process with the same pid. All but the
  last page of a VMA that is resumed in are still read
  (`NothingSkipped`, `SweepsCover`, `ScanEnds`); the last page is not
  (`EntireSpaceSwept`).
* *Counts and flags that outlive a mode.* Several exits lead to monitor mode and
  each resets a different part of the control state
  (`TwoSweepsInARow`, `PlateauIsDry`, `WakesOnFreshReadings`, `QuietEndsInMonitor`).
* *Lists with conditions over their whole history.* ARC calls `back()` and
  `pop_back()` on lists that are not empty only because of how the sizes of all
  lists developed (`BackExists`, `Directory`). ARC and 2Q evict the back of a list and
  count on its order (`RecencyOrder`, `EvictionOrder`).
* *A ring written by the kernel while it is read*, with records that wrap, and a
  batch processed, or all events closed, in the middle of it
  (`ReadsInOrder`, `CountedOnce`, `AllRead`).
* *An increase that ages.* The sketch halves itself between counting a sample
  and entering it in the distribution (`HistogramSound`, `NotCountingZeros`).
* *A lock that follows file descriptors*, through fork, exec and exit
  (`OneElected`, `QuitsForAnother`).
* *Failing calls* (`move_pages`, `pread`, `open`), each of which leaves a
  different half of an operation done.

`PROJECT.json` lists each hazard with its line and the properties that watch it.

## 2. Plan

In order of importance; all but 9 and what 6 leaves to TLC are written.

1. `HybridTier`, the batch of the tiering thread, with `HybridTierProofs`.
2. `FrequencySketch`, `SamplingControl` and `ColdScan`, which refine what
   `HybridTier` leaves open: the counters, the control state and the walk.
3. `TierCache`, the abstract cache; `PageLists`, its lists; `ARC` and `TwoQ`,
   which implement it; `ARCProofs`, and the lemmas on lists in `DataLemmas`.
4. `LeaderElection`, with its proofs in `ThreadProofs`.
5. `TwoQProofs`: the list invariants of 2Q and its refinement of `TierCache`;
   `RecencyOrder` for ARC.
6. Proofs of the scan (`ScanProofs`), of the control state (`ControlProofs`), of the
   sketch (`SketchProofs`) and of the huge page batch (in `HybridTierProofs`), with
   the lemmas about sums of histories and bins that two of them need, in `DataLemmas`
   (section 6).
7. `PerfRing`: the rings shared with the kernel, with records that wrap, lost
   records, and `data_tail` advanced without barriers; its proofs in `ThreadProofs`.
8. The huge page build: `HugeTier` for its batch, and `HugeScan`, `HugeSketch`
   and `HugeControl` for what differs in the scan, the sketch and the control.
9. The order and filtering of tiers at the start of the thread.

The theorems worth proving are the safety properties of the modules above for
any number of pages, processes and counter widths, as the real constants
(15, 10000, 1024, the capacity in pages) are far beyond what TLC can enumerate.

## 3. The modules

Every module keeps the names of the code where it can. Variables under *History*
record what happened, for the properties only; no action reads them.

### HybridTier

One batch of samples goes through the steps `sample`, `promote`, `check`, `scan`
and `decide` of `pc`.

| Action | Code |
|---|---|
| `ProcessSample` | one sampled page: both filters are raised, and the values returned decide whether it is a candidate |
| `ReadBudget` | budget, usage and headroom, read once per batch |
| `SkipSpace`, `PromoteAll`, `PromotePartly` | the candidates of one process: residency query, cut to the headroom, `numa_move_pages`, its failure, and the retry after ENOMEM |
| `NoPressure`, `Pressure` | the available memory against the watermark |
| `CheckSecondChance`, `SkipSecondChance` | the queue after the waiting time |
| `ScanCold`, `ScanSecondChance`, `FinishScan` | the classification of a fast page by `handle_virtual_range`, and the move of the cold list |
| `Continue`, `LowerHotThresh`, `Wake` | the end of a batch, on a plateau, or through monitor mode, where both filters are aged |
| `KernelMove` | the kernel moves a page, between any two steps |

Abstractions. A counter belongs to one page (`FrequencySketch` shares them). Both
events of a page are counted in one go: in the code a page sampled by both is
listed twice as a candidate, and its second entry is charged to the headroom
again, which only promotes less. Which pages a scan reaches is open
(`ColdScan`), and so is when a plateau or monitor mode comes (`SamplingControl`).
The filters start with any content, as `change_capacity` does not clear the
memory it allocates.

### HugeTier

`hybridtier_huge.cpp` is a copy of `hybridtier.cpp` for 2 MB pages that went its own
way since. `HugeTier` EXTENDS `HybridTier` and takes over the actions in which the
two agree (`CommonStep`: the promotions, the triggers and the move of the cold
list; `HugeProcessSample` adds its history to `ProcessSample`). What it defines anew:

| Definition | Difference in the code |
|---|---|
| `HugeHeadroom`, `HugeReadBudget` | watermark and usage are rounded down to huge pages before they are subtracted; base pages that are charged besides (`SmallPages`) count for the usage |
| `Few`, `HugeCheckSecondChance` | a second chance is lost when the frequency rose by less than 100 (`IdleMargin`), not when it is unchanged |
| `HugeScanCold`, `GivesChance` | momentum below 400 is low for the cold case, below 20 for the second chance |
| `HugeLowerHotThresh`, `RaiseHotThresh`, `HugeWake` | the threshold moves from 1000 to 600 in steps of 100; at 600 monitor mode ends one step up with only the momentum aged; the other exits age both filters |

`accesses` counts the batches in which a page was sampled since it was queued, so it
is at most the rise of an exact counter. `decrement_frequency` selects its counter
with the mask 7 where a word has four: the shift is undefined in C++, and the
x86-64 build takes its count modulo 64 and hits the right counter, which is the
outcome modelled.

### The other modules of the huge page build

`HugeScan`, `HugeSketch` and `HugeControl` extend `ColdScan`, `FrequencySketch` and
`SamplingControl` in the same way, and add a variable `huge`, chosen at the start
and never changed, for the build that runs. One run checks both.

| Module | Difference in the code |
|---|---|
| `HugeScan` | chunks of one huge page; the walk of a VMA begins at the huge page its start, or the resume address, lies in; `last_page_reached` multiplies the pages before it adds them |
| `HugeSketch` | counters of 16 bits; a page is counted in `frequency_dist` before the counters are halved and not after |
| `HugeControl` | after each hit ratio of the monitor mode the free memory is looked at, and sampling goes on when more than 20 looks in a row found plenty; a plateau at the lowest threshold raises it by a step instead of resetting it; the local frequency is halved further, down to 12.5 kHz, where the comment says 20 |

### FrequencySketch

`increase_frequency`, `age`, `SecondChance` (with `decrement_frequency` and the
test for the maximum in its caller) and `CheckSecondChance`, on rows of counters
of which a page has one each. `Slot` is the hash. The sixteen counters in a word
are separate here: a carry or a borrow between neighbours would show as a
counter outside of its range, which `TypeOK` excludes. `frequency_dist` is kept from index 1
on (`dist`), and `least` is the least index that was used: 0, which nothing reads,
or one of the wrapped ones, of which -1 is `size_`. With -2 and below a call has
written to `table_size_`, to the pointer `table_` or to memory of others, and the
model stops there (`Intact`). `record_access` and `clear` are not called by the
runtime.
A page has at most one second chance here; `HybridTier` has a queue with several
entries per page.

### SamplingControl

`Batch`, then one of the outcomes of a demotion (`NoScan`, `FirstFullSweep`,
`SecondFullSweep`, `ProductiveScan`), then one of the outcomes of the plateau test
(`NoPlateau`, `LowerHotThresh`, `EndAtMinimum`, `EndOnPlateau`). Monitor mode reads hit ratios
(`ReadRatio`, `ReadStableRatio`) until the slope falls (`WakeOnFallingRatio`), or is
left at once in a cgroup (`WakeInCgroup`). `DropLocalFreq` is the reopening of the
fast tier's events at half the frequency. The number of promotions, the result
of a scan, the fill level of the fast tier and the slope are inputs. The
promotion count is kept up to `PlateauMax` + 1, and the batch count modulo the
period after the warm-up: nothing in the code tells larger values apart.

### ColdScan

`StartScan` is a call of `scan_managed_pids_for_cold_pages`; `OpenMaps`, `NextPid`
and `Move` its loop; `SkipVma`, `EnterVma`, `EndOfMaps` the loop of
`scan_for_cold_pages` over the maps; `ReadChunk`, `LeaveVma`, `ReadFails` that of
`handle_virtual_range` over the pagemap; `PagemapFails` an `open` that fails.
Addresses count bytes, with a smaller page, so that the sum of an address and a
number of pages means what it means in the code. How many pages of a chunk are
cold is an input. The address spaces hold the VMAs of at least 1000 pages that
the scan considers; `Remap` lets the kernel change one at any time to any other
of the same process, the empty one among them, which is also a process that is
gone and whose pid a new one then has. The thread walks the snapshot it read
(`maps`). It reads the file twice, once to count the lines; `EndOfMaps` leaves open
whether the two counts agree. `due`, a history, holds the pages that were
mapped since their process was last scanned from its start: what a sweep owes.
A huge page counts from the first byte of the VMA in it, and not when the VMA ends
in its middle: the code reads it in the first case only.
A pagemap read is complete or fails.

The code does not read everything a sweep owes. A scan that resumes in a VMA away
from the start of a page counts whole pages from there to the end, and misses the
last one; one whose resume address lies in the last page, or at its start, skips the VMA.
`missed`, a history, collects these pages: the last page of each VMA that a
scan comes to with its resume address inside the VMA, unless the address is that of a page
before the last. `NothingSkipped` and `SweepsCover` are about the other pages that are
due, and say so; in a VMA that no scan resumes in they include the last page.
`EntireSpaceSwept` says without exception what a comment of the code does, and is
violated, in the 4 KB build by the unit of the resume address (`hybridtier.cpp:185`). The
huge page build gets the unit right, but its resume address is the huge page to read
next and `hybridtier_huge.cpp:769` takes it for the last one read: with `Spaces` and
`HugeSpaces` exchanged for `NoSpaces` and `HugePages` the run finds a violation there.

### PerfRing

One ring per CPU and event, counted in words of 8 bytes, the alignment of perf
records; `mem` says which word holds a header, the rest of a record, or nothing.

| Action | Code |
|---|---|
| `KernelWrites`, `KernelLoses` | the kernel, as far as the loop relies on it: a record is written if it fits, a lost record is announced before the next one that does; one word stays free |
| `OpenAll`, `OpenFails` | `perf_setup`; an event that cannot be opened ends the application |
| `CountSample`, `FillBatch`, `IgnoreRecord` | one turn of the inner loop: a sample of a page, the one that fills a batch, and any other record or one too close to the end of the ring |
| `EndBatch`, `EnterMonitor` | after the batch, the advance of `data_tail` by a size read again, or `close_perf` and the jump to the start |
| `LeaveRing`, `DropLocalFreq`, `ReopenFails` | the ring is empty: the next one, or first the local events closed and opened with half the frequency |

Abstractions. Reading a record and passing it is one step, as the kernel writes
only where no record is; a batch lies between two steps. There is no barrier in
the inner loop, so the thread may find the head it has or the one there is
(`Visible`); that a header it finds is complete relies on x86. Head and tail are
counted modulo the ring, and differ by less than its size.

The module's specification is `RingSpec`, with `RingInit` and `RingNext`.

### LeaderElection

The processes of one cgroup: `Launch`, `Fork`, `Exec`, `Exit`; and the start of the
thread: `NoCgroup`, `LockUnopened`, `Elect`, `SetupFails`. `flock` belongs to an open
file description, which a fork shares; the file is opened with `O_CLOEXEC`, and
the lock goes with the last descriptor. A thread that quits does so for good:
when the leader exits nothing takes over, and the model has these behaviours.

### ARC and TwoQ

`Request(x)` of `ARC` has one action per case of `request`, with `Replace` as the
operator both the cases and the list of evictions use; `accessPage(x)` of `TwoQ`
has `HitAm`, `HitGhost`, `HitA1in` and `Miss`, with `Reclaim`. Lists are sequences
with the head first (`PageLists`). `locationMap`, `AmMap` and `A1inMap` are the lists
read backwards and not kept apart; `A1outMap` is, as it differs from `A1out`. `recent`, in both,
is a history of the accesses; in `TwoQ` without those to pages of A1in, which 2Q ignores. ARC's
target, a double, is counted in steps of 1/`PUnit`: the quotients of the code
are rounded down to such a step, and `PUnit` = 6 has no rounding for the list sizes
of the run. A page move succeeds or, with `MovesMayFail`, leaves the page; the lists
do not look at the result, so only the properties about the fast node depend on it.

`TierCache` is what both promise: a request is a hit, an admission while there is
room, or an exchange for one page when there is none.

## 4. The runs

| Run | Checks | Instance and why it is enough |
|---|---|---|
| `HybridTier` | types; second chance is sound; demotions are justified; no page is promoted and demoted in a batch; headroom | two processes with a page each, counters 0..3, thresholds 1..2, queue of 2, watermark 1: a counter saturates, is halved, shows momentum and none, the second process finds the headroom spent, a page is queued twice |
| `HugeTier` | types with the bounds of the threshold, an active page is not taken for idle, the watermark is passed by less than one huge page | two huge pages of two base pages in one process, counters 0..3, thresholds 1..2, margin 2, watermark of two huge pages, usage with and without an odd base page: a page may be queued with room for the margin and without, and the rounding lets a batch go over |
| `FrequencySketch` | counters keep their width; estimates are upper bounds; second chance with shared counters; the distribution | both builds; two pages that share one of their two counters, counters 0..3, aging every five samples, increases of up to 3: saturation by neighbours, aging inside a call, indices down to -2 |
| `SamplingControl` | the reasons for monitor mode and for leaving it, bounds of threshold and frequency, liveness | both builds; three thresholds and the frequencies of the code; reset limit 3, period 2, warm-up 3, window 2, free memory limit 2 instead of 10, 20, 500, 5 and 20: each is reached and passed several times |
| `ColdScan` | nothing is skipped and sweeps cover, but for last pages of VMAs that are resumed in; no overshoot, every scan ends | both builds; a process that has VMAs of one and four pages or is gone, its pid given to another, and a second one with one page, chunks of two: whole and cut chunks, resumption in the middle, in the last page and in a VMA that was unmapped meanwhile; for huge pages of four units, VMAs that begin and end within one, move and are unmapped one by one |
| `Thread` | the election: a lock has a holder, one elected thread, a thread quits only for another process | three processes, four descriptions: parent, child and rival, with a description to spare |
| | the rings: batches and their counts, records in order, each counted once, all read | a local and a remote ring of eight words, samples of three, other records of three, lost records of four, batches of two, one drop of the frequency: records wrap at every offset, rings overflow, batches fill in either ring |
| `ARC` | directory: one place per page, sizes; `back()` exists, recency, residency, refinement | seven pages for a capacity of three: 2c pages in the directory and one outside, so all cases occur |
| `TwoQ` | capacity, directory: one place per page, ghosts are listed; order of eviction, residency, refinement | seven pages for a capacity of four: `Kin` = 1 and `Kout` = 2 are not zero, with stale entries in the ghost list |

The two parts of `Thread` share no variable; each of its behaviours is one of the election
or one of the rings (`MCThread`), as their interleavings would show nothing more.

Symmetry is used for pages in `HybridTier`, `HugeTier`, `ARC` and `TwoQ`, whose cfgs check safety only.
Deadlock is checked in all runs; where `PerfRing` and the sketch stop they stutter.

Four more runs each check one statement of a comment that the code does not keep:

| Run | Statement | What happens instead |
|---|---|---|
| `SketchHistogram` | `NotCountingZeros`: the distribution does not count frequency 0 | a call that ages uses index 0, or a wrapped one in front of the array; the huge page build, which counts first, keeps to it (`HistogramSound`) |
| `ARCResidency` | `FastIsCache`: the cache is the fast tier | `replace` demotes the requested page and not the one it evicts; `CachedOnFast` is what holds |
| `HugeTierSaturated` | `FewAccesses`: a page loses its second chance for few accesses | a page recorded within 100 of the maximum cannot show that many, and is demoted however often it was sampled; `ActiveNotIdle` is what holds |
| `ColdScanLastPage` | `EntireSpaceSwept`: a process reported fully swept was looked at as a whole | in the 4 KB build a scan resumes at a byte address plus a number of pages, and the last page of that VMA is not read; `SweepsCover` is what holds |

## 5. Fairness

`SamplingControl` assumes `WF_vars(Next)`: the thread polls the rings and sleeps for
bounded times, takes no lock and waits for nobody, and an application that is
sampled keeps filling batches. Which of the actions happens is left open, so
`QuietEndsInMonitor` does not rely on a scan, on memory pressure, on a wake-up or
on the drop of the frequency. It says that from a point on without promotions,
monitor mode is reached again and again.

`ColdScan` assumes `WF_vars(Walk)`: a scan that runs goes on, as it is a sequence of
loops on one thread. No scan is assumed to start, and no call to fail; a process
whose maps are empty and a failed move are in `Walk` as alternatives that
are never forced. `ScanEnds` would fail if a scan could read chunks of no page.

`PerfRing` assumes `WF_allVars(Thread)`: the loop never waits, as an empty ring is left
after a sleep of 2 ms. Nothing makes it leave monitor mode, and nothing makes the
kernel write; `AllRead` says that the rings are emptied once the kernel has stopped.
The loop stays with a ring until it is empty, so while the kernel writes the others
may wait.

`HugeControl` and `HugeScan` assume the same of both builds.

The other modules state safety only and assume no fairness.

## 6. Proofs

TLAPS checks the following for every set of pages (a finite one for
`HybridTier`, `HugeTier` and `PerfRing`), every capacity, threshold, width, ring size,
address space and number of processes that the named assumptions admit. Each proof follows one
argument: an inductive invariant that holds initially, that each action preserves
(one lemma per action or group of actions), and that implies the property.

| Module | Over | Theorems state |
|---|---|---|
| `HybridTierProofs` | `Spec` of `HybridTier` | `TypeOK`, `SecondChanceSound`, `DemotionJustified`, `NoPingPong`, `HeadroomKept` |
| | `HugeSpec` of `HugeTier` | `HugeTypeOK`, `ActiveNotIdle`, `PromotionWithinOnePage` |
| `ARCProofs` | `Spec` of `ARC` | `TypeOK`, `Directory`, `BackExists`, `RecencyOrder`, `CachedOnFast`, `ImplementsTierCache` |
| `TwoQProofs` | `Spec` of `TwoQ` | `TypeOK`, `Directory`, `EvictionOrder`, `CachedIsFast`, `ImplementsTierCache` |
| `ThreadProofs` | `Spec` of `LeaderElection` | `TypeOK`, `OneElected`, `QuitsForAnother` |
| | `RingSpec` of `PerfRing` | `RingTypeOK`, `ReadsInOrder`, `CountedOnce` |
| `ControlProofs` | `HugeSpec` of `HugeControl` | `HugeTypeOK`, `TwoSweepsInARow`, `WakesOnFreshReadings`, `PlateauIsDry` |
| `SketchProofs` | `HugeSpec` of `HugeSketch` | `TypeOK`, `NeverUndercounts`, `SecondChanceSound`, `HistogramSound` |
| `ScanProofs` | `HugeSpec` of `HugeScan` | `TypeOK`, `NothingSkipped`, `SweepsCover`, `NoOvershoot` |

`HugeSpec` of the last three covers both builds, as `huge` is any Boolean.

`DataLemmas` holds the lemmas about data that several of these need: what `PushFront`,
`PopBack` and `Erase` do to the elements, the length, the absence of duplicates and the
order of any list; the sums that `FoldLeft` and `SumFunctionOnSet` compute, over
sequences and over finite sets; and remainders modulo the size of a ring.

* `HybridTierProofs` (from `HybridTierAssumption`). `SecondChanceSound` is not
  inductive: it says nothing of a page that was not sampled yet. `QueueInv` adds that
  a queued frequency is below the maximum and is a lower bound of the counter
  until it is halved, a strict one once the page was sampled; without the decrement of
  a saturated page the first part fails. `DemotionJustified` follows from
  `ColdInv`: a listed page was visited, so the rest of the scan neither decrements
  nor queues it and it stays cold. `NoPingPong` follows from `PromotionInv`: a promoted
  page was sampled in this batch, hence has momentum and, if it is queued, is
  touched. `HeadroomKept` follows from `HeadroomInv`, the sum of what was moved and
  what is left. The conjunction is `IInv`.
* The huge page batch (also from `HugeAssumption`). The code compares the threshold with its
  minimum by equality; that going down it meets the minimum needs `ThreshInv`, that it
  is a whole number of steps above, and that needs the assumption that the initial
  threshold is. `ActiveNotIdle` speaks only of pages that kept their counter and had room
  for the margin; `ActiveInv` says for every entry of the queue that what was recorded
  plus the accesses, cut off at the maximum, is at most the counter. The headroom is
  subtracted from a watermark and a usage rounded down to huge pages;
  `HugeHeadroomInv` ties it to the usage that was read, and the rounding costs less
  than one huge page. TLC checked the conjunction, `HugeIInv`, on the run's
  instance and on one with longer steps and a longer queue.
* `ARCProofs` (from `ARCAssumption`; the set of pages may be infinite). The invariant is
  the types and `Directory`. The last part of that, that ghosts exist only while the
  cache is full, is what makes the sizes inductive and gives `BackExists`. One lemma per
  case of `request` states its outcome: the invariant again, and the cached pages
  after it. `CachedOnFast` and `ImplementsTierCache`, which maps `cached` to T1 and T2,
  follow from the outcomes. For `RecencyOrder`, `OrderInv` adds that every listed page was
  requested. Whatever the case, a request takes its page off the lists, keeps the order of
  what is left (`Keeps`) and puts the page in front (`Refronted`); an eviction keeps it as
  the last of T1 becomes the first of B1.
* `TwoQProofs` (from `TwoQAssumption`: the capacity is not zero, as it is in a build without
  `FAST_MEMORY_SIZE_GB`, which has no fast tier; `reclaim` finds a page in Am as `Kin` is less
  than the capacity). `Directory` is inductive with the types. Only `CachedIsFast` looks at
  the moves. `EvictionOrder` is not inductive: `OrderInv` adds that every page that is cached
  or a ghost was accessed, and reads the queue list by list, first A1in and then, for a
  page that is not in it, A1out (`AheadIn`). A reclaim keeps what stands ahead of what (`Keeps`):
  the page that leaves A1in goes ahead of all ghosts. The access puts its page in front
  (`Refronted`), and takes it off the queue when it was a ghost, so that its old entry
  does not count.
* `ThreadProofs`, the election (from `ElectionAssumption`). The elected thread is unique as
  it holds the locked description, no starting thread has the file open,
  and no two threads that opened the file themselves share a description.
* `ThreadProofs`, the rings (from `RingAssumption`). `ReadsInOrder` is not inductive: it
  knows only the oldest record of a ring. `RingsLaid` says of every ring that its unread
  records take less than its size, that the head is as many words behind the tail, and
  that the header of each record is where the words of those before it end. A
  record put behind the others (`LaidPut`) overwrites none of their headers, as the
  kernel keeps a word free; one that is passed (`LaidPass`) leaves the next one at the tail.
  `KnowsEnd` says that the head the thread knows is the end of one of the records it has not
  passed, or the tail: a head kept from before stays good while records are added. `AtSample`
  adds that during a batch it is not the tail, so that there is a record to pass after it;
  `ClosedEmpty` that rings which are reopened start empty, and `CountedAtTail` that
  during a batch exactly the record at the tail of the thread's ring was counted and
  not passed, and otherwise none. `CountedOnce`, an action property, follows from these: a
  record is passed only in a ring whose list gets shorter, which a kernel step or a step
  to another ring never does, and a sample that is ignored wraps and takes the tail to a
  smaller offset, as a ring is longer than a sample. TLC checked the invariant,
  `RingInv`, on the run's instance.
* `ControlProofs` (from `ControlAssumption` and `HugeControlAssumption`). `FreqInv` lists
  the frequencies that halving can reach; `SweepInv` ties the flag of a full sweep to
  the last scan of the history, which is what `TwoSweepsInARow` lacks; `WindowInv` and `PlentyInv` say
  that the window and the count of free memory readings are no longer than the monitor
  mode they belong to, and `ExitInv` keeps the reason recorded as long as the events are
  closed. `WakesOnFreshReadings` is an action property that follows from them.
  `PlateauIsDry` needs a second invariant, `DryInv`: as long as the recorded promotions are
  few enough, they are at least the sum of the last batches of the history, as many of
  them as were counted since the last reset. A batch after which a demotion went to
  monitor mode is forgotten by the count and kept by the promotions, so the count may
  only fall short. The count falls back from `Warmup` + `Period` to `Warmup` + 1, which
  keeps it modulo the period. The theorem needs the assumption that no plateau is looked for
  in the first period, which is one batch shorter: `Warmup` >= `Period` - 1, with 500 and 20 in `hybridtier.cpp:1431`, 100 and 50 in `hybridtier_huge.cpp:1469`. TLC checked
  `DryInv` for a period of three and the shortest warm-up that this allows.
* `SketchProofs` (from `SketchAssumption`). `NeverUndercounts` compares estimates, which are
  minima over rows; the inductive form says of every single counter that it is at least
  the count of each page that has a share in it. The proof of `SecondChanceSound` follows
  the recorded estimate through saturation, the decrement and the aging inside an increase,
  where all counters of all rows are halved together. The assumption that an increase is
  at most `sample_size` says that a batch does not fill two aging periods, which holds as
  the period is 160 times the pages of the fast tier and a batch has 100000 samples; with a larger
  increase `size_` would still be too large after it was halved. `HistogramSound` is about
  the sums of the bins from each threshold on: counting a page at `f` and not at
  `f - inc` adds one to the sums between the two and leaves the others, whether the
  lower bin exists or not, and halving makes the sum from `t` the one from
  2 `t`, as the number of bins is odd. No single bin has such a bound.
* `ScanProofs` (from `ScanAssumption` and `HugeScanAssumption`). The VMAs of a process are
  ordered and do not overlap, as the kernel lists them. In the 4 KB build they are page-aligned; the
  huge page build has VMAs that begin and end inside a huge page. The invariant, `ScanInv`, has
  `CountInv` for what is found in a process, in a VMA and in a chunk, below what is
  wanted as long as the walk goes on; `DueInv`, that the pages that are due are in the maps
  as they were read; `MissedInv`, that the walk is at the start of a page or the last page
  of the VMA is missed; `BehindInv`, that those behind the walk were looked at, but for the missed;
  `RestartInv`, that after full sweeps the processes done with start over; and
  `GridInv`, that the huge page build stays on huge page boundaries, without which a resumed chunk
  could be a different huge page. The resume address of the 4 KB build is a byte address plus a number of
  pages: it falls short of the page it stands for and never beyond, which is the reason
  that of a VMA that is resumed in only the last page is missed. TLC checked `ScanInv` on the
  instance of the run.

Only model-checked are the liveness properties (`QuietEndsInMonitor`, `ScanEnds`, `AllRead`),
which need fairness and `ENABLED`. Every other property of the passing runs is a theorem.

`FoldLeft` and `FoldFunctionOnSet` are defined by a recursive function on sets that is
chosen. That the function exists, that the order in which it takes the elements does
not matter, and what it adds up to is shown by induction over lengths,
sizes and positions, in the form of the least number for which a claim fails (`LeastNat`, from
`WFMin`): the induction theorems of the library take an operator and cannot be
instantiated. `DataLemmas` has these lemmas for sequences (`FoldPartial`, `PartialShift`)
and for functions on finite sets (`SumOnAgree`, `SumOnWithout`, `SumOnZero`);
`ControlProofs` (`WindowAtMost`), `SketchProofs` (`HotFacts`) and `ThreadProofs` (`AtFacts`,
`SumCount`) build on them.

## 7. Not modelled

The parsing and detection of the runtime topology: node lists, tiers in the order
of their distance, PFN ranges and memcg files are read from the kernel once, before
the thread starts its loop; `HybridTier` takes budget and usage as the numbers they
are. The loops of `arc.cpp` and `twoq.cpp` over the rings, which are that of
`PerfRing` without monitor mode. Calls that write in front of `frequency_dist` in
the models other than `FrequencySketch`. The shift by more than 63 bits in
`decrement_frequency` of the huge page sketch beyond its outcome on x86-64.

Not planned: hash
functions and the layout of words and cache lines, which are calculations without
state; statistics and their output; the interposition by the dynamic linker;
scripts, launchers and probes, which hold no state of the runtime; the cost
and benefit of the policy, about which the code promises nothing.
