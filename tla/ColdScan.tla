------------------------------ MODULE ColdScan ------------------------------
(***************************************************************************)
(* The scan for cold pages of hybridtier.cpp.  It walks the address spaces *)
(* of the managed processes, chunk by chunk, until it has found the pages  *)
(* that are to be demoted, and a later scan picks up where it left off.    *)
(*                                                                         *)
(* Addresses count bytes, with a smaller page.  The VMAs of a process are  *)
(* those the scan considers, of 1000 pages and more.  The kernel maps and  *)
(* unmaps them at any time, and gives the pid of a process that is gone to *)
(* a new one.  Which pages are cold is left open.                          *)
(***************************************************************************)
EXTENDS Naturals, Sequences

CONSTANTS
  Pids,       \* the managed processes
  Spaces,     \* the address spaces each may have: VMAs in ascending order
  PageSize,   \* 4096
  Chunk,      \* pages read at once: 1024
  MaxRequest  \* bound on num_pages_to_demote_requested

\* The VMAs of a process do not overlap and are listed in ascending order.
Ordered(s) ==
  /\ s \in Seq([start : Nat, end : Nat])
  /\ \A i \in DOMAIN s : s[i].start <= s[i].end
  /\ \A i, j \in DOMAIN s : i < j => s[i].end <= s[j].start

\* They begin and end at a page.
Aligned(s) ==
  \A i \in DOMAIN s : s[i].start % PageSize = 0 /\ s[i].end % PageSize = 0

ASSUME ScanAssumption ==
  /\ Pids # {}
  /\ PageSize \in Nat \ {0}
  /\ Chunk \in 1 .. PageSize - 1
  /\ MaxRequest \in Nat \ {0}
  /\ \A p \in Pids : \A s \in Spaces[p] : Ordered(s) /\ Aligned(s)

VARIABLES
  pc,          \* the loop the thread is in
  left,        \* managed processes not yet scanned
  request,     \* num_pages_to_demote_requested
  demoted,     \* result.pages_demoted
  everywhere,  \* full_sweep_everywhere
  full,        \* full_sweep_not_enough_cold_pages of the result
  space,       \* the address space of each process now
  maps,        \* what the thread read of it
  last,        \* last_scanned_address_by_pid
  pid,         \* the process being scanned
  pidFull,     \* pid_full_sweep_not_enough_cold_pages
  line,        \* index of the VMA, maps_cur_line
  curr,        \* curr_address in it
  batch,       \* pagemap_read_batch_size_num_pages
  found,       \* num_cold_pages_found in the process, without this VMA
  here,        \* num_cold_pages_found in this VMA
  listed       \* size of cold_page_list

(***************************************************************************)
(* History, for the properties only.                                       *)
(***************************************************************************)
VARIABLES
  managed,  \* the processes of this scan
  round,    \* pages of a process looked at since it was scanned from its start
  due,      \* pages that were mapped all that time
  missed,   \* last pages of VMAs a scan resumed in, in this round: see Missed
  unread,   \* processes a part of which could not be read in this round
  readFails \* a pagemap could not be read in this scan

resultVars == <<request, demoted, everywhere, full, managed>>
rangeVars  == <<curr, batch, here>>
walkVars   == <<maps, line, rangeVars, found, listed>>
roundVars  == <<round, due, missed, unread, readFails>>
vars == <<pc, left, resultVars, space, last, pid, pidFull, walkVars, roundVars>>

AtMost(a, b) == IF a <= b THEN a ELSE b
AtLeast(a, b) == IF a >= b THEN a ELSE b

PagesIn(v) == v.start \div PageSize .. (v.end \div PageSize) - 1

PagesOf(s) == UNION {PagesIn(s[i]) : i \in DOMAIN s}

Vma == maps[line]

\* The locals of handle_virtual_range, and of scan_for_cold_pages.
NoRange == curr' = 0 /\ batch' = 0 /\ here' = 0

NoWalk == maps' = << >> /\ line' = 1 /\ found' = 0 /\ listed' = 0 /\ NoRange

\* What is asked of this process.
Wanted == request - demoted

-----------------------------------------------------------------------------
(* scan_managed_pids_for_cold_pages                                        *)

StartScan ==
  /\ pc = "idle"
  /\ pc' = "pid"
  /\ left' \in (SUBSET Pids) \ {{}}
  /\ managed' = left'
  /\ request' \in 1 .. MaxRequest
  /\ demoted' = 0
  /\ everywhere' = TRUE
  /\ full' = FALSE
  /\ readFails' = FALSE
  /\ UNCHANGED <<space, last, pid, pidFull, walkVars, round, due, missed, unread>>

\* The maps of the next process are read.  Those of a process that is gone are
\* empty.
OpenMaps(p) ==
  /\ pc = "pid"
  /\ pc' = "vma"
  /\ p \in left
  /\ left' = left \ {p}
  /\ pid' = p
  /\ pidFull' = FALSE
  /\ maps' = space[p]
  /\ UNCHANGED <<resultVars, space, last, line, rangeVars, found, listed, roundVars>>

-----------------------------------------------------------------------------
(* scan_for_cold_pages                                                     *)

AlreadyScannedToEnd(v) == last[pid] >= v.end

AlreadyScannedFromStart(v) == last[pid] >= v.start

\* The VMA is behind the address to resume at, but for its last page.
AlreadyScanned(v) == last[pid] > v.start /\ last[pid] >= v.end - PageSize

ScanStart(v) == AtLeast(last[pid], v.start)

LastPage(v) == (v.end - 1) \div PageSize

\* The last page of a VMA is not read by a scan that resumes in the VMA away
\* from the start of a page: whole pages are counted from there to the end.  Nor
\* by one that would resume in that very page: it skips the VMA.
Missed(v) ==
  IF /\ v.start < last[pid] /\ last[pid] < v.end
     /\ last[pid] % PageSize # 0 \/ last[pid] >= v.end - PageSize
    THEN {LastPage(v)} \cap PagesIn(v)
    ELSE {}

AtVma ==
  /\ pc = "vma"
  /\ line <= Len(maps)
  /\ missed' = [missed EXCEPT ![pid] = @ \cup Missed(Vma)]
  /\ UNCHANGED <<left, resultVars, space, last, pid, pidFull, maps, round, due, unread, readFails>>

SkipVma ==
  /\ AtVma
  /\ AlreadyScanned(Vma)
  /\ line' = line + 1
  /\ UNCHANGED <<pc, rangeVars, found, listed>>

\* from is the address of the first page read.
EnterVma(from, chunk) ==
  /\ AtVma
  /\ ~AlreadyScanned(Vma)
  /\ pc' = "range"
  /\ curr' = from
  /\ batch' = AtMost(chunk, (Vma.end - ScanStart(Vma)) \div PageSize)
  /\ UNCHANGED <<line, here, found, listed>>

\* The lines were counted before the walk, and the small VMAs among them come
\* and go as well.
EndOfMaps(same) ==
  /\ pc = "vma"
  /\ line > Len(maps)
  /\ pc' = "move"
  /\ pidFull' = same
  /\ UNCHANGED <<left, resultVars, space, last, pid, walkVars, roundVars>>

-----------------------------------------------------------------------------
(* handle_virtual_range                                                    *)

ChunkPages ==
  IF curr + batch * PageSize > Vma.end THEN (Vma.end - curr) \div PageSize
                                        ELSE batch

ReachedNextPage == curr + (ChunkPages + 1) * PageSize

\* last_page_reached: the number of pages is added to an address.
Reached == curr + ChunkPages

RangeRequestWhole == Wanted

\* num_pages_to_demote as the caller passes it for this VMA.
RangeRequest == Wanted - found

\* reached is last_page_reached.
ReadChunk(cold, reached) ==
  LET first == curr \div PageSize
      pages == first .. first + ChunkPages - 1
      enough == here + cold >= RangeRequest
  IN  /\ pc = "range"
      /\ curr < Vma.end
      /\ cold <= ChunkPages
      /\ listed' = listed + cold
      /\ round' = [round EXCEPT ![pid] = @ \cup pages]
      /\ IF enough
           THEN /\ last' = [last EXCEPT ![pid] = AtLeast(@, reached)]
                /\ found' = found + here + cold
                /\ pc' = "move"
                /\ NoRange
           ELSE /\ here' = here + cold
                /\ curr' = curr + batch * PageSize
                /\ UNCHANGED <<last, found, pc, batch>>
      /\ UNCHANGED <<left, resultVars, space, pid, pidFull, maps, line, due, missed, unread, readFails>>

\* The whole range is read and there were not enough.
LeaveVma ==
  /\ pc = "range"
  /\ curr >= Vma.end
  /\ found' = found + here
  /\ pc' = "vma"
  /\ line' = line + 1
  /\ NoRange
  /\ UNCHANGED <<left, resultVars, space, last, pid, pidFull, maps, listed, roundVars>>

\* An error of pread is returned as the number 1 and taken for one cold page;
\* the pages listed before stay listed.
ReadFails ==
  /\ pc = "range"
  /\ curr < Vma.end
  /\ found' = found + 1
  /\ pc' = IF found' >= Wanted THEN "move" ELSE "vma"
  /\ line' = line + 1
  /\ unread' = unread \cup {pid}
  /\ readFails' = TRUE
  /\ NoRange
  /\ UNCHANGED <<left, resultVars, space, last, pid, pidFull, maps, listed, round, due, missed>>

-----------------------------------------------------------------------------
(* The end of a process and of the scan                                    *)

\* After a full sweep the next scan starts at the first address again.
LastIfFull(p) == 0

NextPidLate ==
  /\ NoWalk
  /\ pidFull' = FALSE
  /\ IF demoted' > request \/ left = {}
       THEN pc' = "idle" /\ full' = (demoted' < request /\ everywhere')
       ELSE pc' = "pid" /\ UNCHANGED full

\* More processes, or the result.
NextPid ==
  /\ NoWalk
  /\ pidFull' = FALSE
  /\ IF demoted' >= request \/ left = {}
       THEN pc' = "idle" /\ full' = (demoted' < request /\ everywhere')
       ELSE pc' = "pid" /\ UNCHANGED full

\* The pagemap cannot be opened: what was listed is dropped.
PagemapFails ==
  /\ pc = "vma"
  /\ line <= Len(maps)
  /\ ~AlreadyScanned(Vma)
  /\ everywhere' = FALSE
  /\ demoted' = demoted
  /\ NextPid
  /\ UNCHANGED <<left, request, managed, space, last, pid, roundVars>>

\* The listed pages are moved; unless all of them are, none are counted.
Move(moved) ==
  /\ pc = "move"
  /\ demoted' = IF moved THEN demoted + listed ELSE demoted
  /\ everywhere' = (everywhere /\ pidFull)
  /\ IF pidFull
       THEN /\ last' = [last EXCEPT ![pid] = LastIfFull(pid)]
            /\ round' = [round EXCEPT ![pid] = {}]
            /\ due' = [due EXCEPT ![pid] = PagesOf(space[pid])]
            /\ missed' = [missed EXCEPT ![pid] = {}]
            /\ unread' = unread \ {pid}
       ELSE UNCHANGED <<last, round, due, missed, unread>>
  /\ NextPid
  /\ UNCHANGED <<left, request, managed, space, pid, readFails>>

-----------------------------------------------------------------------------
\* The kernel maps, unmaps, grows or shrinks VMAs, ends the process, or gives
\* its pid to another one: nothing of this reaches the resume address.
Remap(p, s) ==
  /\ space' = [space EXCEPT ![p] = s]
  /\ due' = [due EXCEPT ![p] = @ \cap PagesOf(s)]
  /\ UNCHANGED <<pc, left, resultVars, last, pid, pidFull, walkVars, round, missed, unread, readFails>>

-----------------------------------------------------------------------------
InitWith(spaces) ==
  /\ pc = "idle"
  /\ left = {}
  /\ managed = {}
  /\ request = 1
  /\ demoted = 0
  /\ everywhere = TRUE
  /\ full = FALSE
  /\ space \in [Pids -> UNION {spaces[p] : p \in Pids}]
  /\ \A p \in Pids : space[p] \in spaces[p]
  /\ maps = << >>
  /\ last = [p \in Pids |-> 0]
  /\ pid = CHOOSE p \in Pids : TRUE
  /\ pidFull = FALSE
  /\ line = 1
  /\ curr = 0
  /\ batch = 0
  /\ found = 0
  /\ here = 0
  /\ listed = 0
  /\ round = [p \in Pids |-> {}]
  /\ due = [p \in Pids |-> PagesOf(space[p])]
  /\ missed = [p \in Pids |-> {}]
  /\ unread = {}
  /\ readFails = FALSE

Init == InitWith(Spaces)

\* The steps that do not depend on the size of a page.
WalkAnywhere ==
  \/ \E p \in Pids : OpenMaps(p)
  \/ SkipVma
  \/ \E same \in BOOLEAN : EndOfMaps(same)
  \/ LeaveVma
  \/ \E moved \in BOOLEAN : Move(moved)

Walk ==
  \/ WalkAnywhere
  \/ EnterVma(ScanStart(Vma), Chunk)
  \/ \E cold \in 0 .. Chunk : ReadChunk(cold, Reached)

NextWith(walk, spaces) ==
  \/ StartScan
  \/ walk
  \/ ReadFails
  \/ PagemapFails
  \/ \E p \in Pids : \E s \in spaces[p] : Remap(p, s)

Next == NextWith(Walk, Spaces)

\* A scan that was started runs on.  Nothing makes the thread start one, and no
\* failure of the kernel is relied upon.
Spec == Init /\ [][Next]_vars /\ WF_vars(Walk)

-----------------------------------------------------------------------------
(* Properties                                                              *)

\* The counts are natural numbers: what is left to find and what the caller
\* passes on are differences of unsigned numbers and never wrap around.
TypeOK ==
  /\ pc \in {"idle", "pid", "vma", "range", "move"}
  /\ left \subseteq managed /\ managed \subseteq Pids
  /\ request \in 1 .. MaxRequest
  /\ demoted \in Nat
  /\ pc # "idle" => demoted < request
  /\ pc \in {"vma", "range"} => found < Wanted
  /\ everywhere \in BOOLEAN /\ full \in BOOLEAN /\ pidFull \in BOOLEAN
  /\ last \in [Pids -> Nat]
  /\ pid \in Pids
  /\ space \in [Pids -> Seq([start : Nat, end : Nat])] /\ maps \in Seq([start : Nat, end : Nat])
  /\ line \in Nat /\ curr \in Nat /\ batch \in 0 .. Chunk
  /\ found \in Nat /\ here \in Nat /\ listed \in Nat
  /\ round \in [Pids -> SUBSET Nat] /\ due \in [Pids -> SUBSET Nat]
  /\ missed \in [Pids -> SUBSET Nat]
  /\ unread \subseteq Pids
  /\ readFails \in BOOLEAN

\* A scan passes over no page but the last one of a VMA it resumes in away from
\* the start of a page, or in that page: up to the address it will resume at,
\* every other page that was mapped since the process was last scanned from its
\* start was looked at, unless a read failed.  The pages that were mapped later,
\* or had been mapped when the address belonged to another process, have to wait.
NothingSkipped ==
  \A p \in Pids \ unread : \A page \in due[p] \ missed[p] :
    page < last[p] \div PageSize => page \in round[p]

\* When a process is reported fully swept, the scans since its last full sweep
\* have together looked at every page that was mapped all the time, except for
\* the last pages of VMAs they resumed in.  A scan that reports a full sweep
\* leaves all its processes to be scanned from their start, so that a second one
\* in a row resumes nowhere and is a whole one.
SweepsCover ==
  /\ pc = "move" /\ pidFull /\ pid \notin unread => due[pid] \ missed[pid] \subseteq round[pid]
  /\ pc = "idle" /\ full => \A p \in managed : last[p] = 0

\* "Sweeped through the entire address space": a process is reported fully
\* swept when, in the scans since its last full sweep, every page that was
\* mapped all the time was looked at.
EntireSpaceSwept ==
  pc = "move" /\ pidFull /\ pid \notin unread => due[pid] \subseteq round[pid]

\* Over all VMAs and processes a scan demotes less than one chunk more than was
\* requested.  A failed read loses count.
NoOvershoot == ~readFails => demoted < request + Chunk

\* A scan comes to an end.  It would not, if it ever resumed in the last page
\* of a VMA and read chunks of no page.
ScanEnds == pc # "idle" ~> pc = "idle"

(***************************************************************************)
(* The inductive invariant behind these properties.                        *)
(***************************************************************************)

InProcess == pc \in {"vma", "range", "move"}

\* What is found in a process never adds up to what is wanted of it before the
\* walk ends there, and then by less than a chunk.
CountInv ==
  /\ line >= 1
  /\ pc # "range" => here = 0
  /\ pc = "range" => line \in DOMAIN maps /\ found + here < Wanted
  /\ pc \in {"idle", "pid"} => listed = 0 /\ found = 0 /\ line = 1
  /\ ~readFails /\ InProcess =>
       listed = found + here /\ listed < Wanted + Chunk
  /\ pc \in {"vma", "range"} => ~pidFull

\* The walk follows the maps as they were read, and no page is due that is not
\* in them.
DueInv ==
  /\ \A p \in Pids : due[p] \subseteq PagesOf(space[p])
  /\ InProcess => Ordered(maps) /\ due[pid] \subseteq PagesOf(maps)

\* Within a VMA the walk is at the start of a page, or its last page is missed.
MissedInv ==
  pc = "range" /\ curr % PageSize # 0 =>
    {LastPage(Vma)} \cap PagesIn(Vma) \subseteq missed[pid]

\* The pages that are due were looked at in the VMAs behind the walk, and up to
\* curr in the one it is in, but for those that are missed.
BehindInv ==
  pc \in {"vma", "range"} /\ pid \notin unread =>
    \A page \in due[pid] \ missed[pid] :
      /\ \A i \in DOMAIN maps : i < line /\ page \in PagesIn(maps[i]) => page \in round[pid]
      /\ pc = "range" /\ page \in PagesIn(Vma) /\ page < curr \div PageSize
           => page \in round[pid]

\* As long as everything was swept, the processes done with start over.
RestartInv ==
  /\ pc # "idle" => ~full
  /\ pc # "idle" /\ everywhere =>
       \A p \in managed \ left : last[p] = 0 \/ (InProcess /\ p = pid)
=============================================================================
