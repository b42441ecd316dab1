------------------------------ MODULE PerfRing ------------------------------
(***************************************************************************)
(* The rings through which the kernel hands samples to the tiering thread. *)
(* There is one per CPU and event; the kernel writes records at data_head, *)
(* the thread reads them at data_tail, counts the samples, and processes a *)
(* batch of them in the middle of a ring.                                  *)
(*                                                                         *)
(* A ring is counted in words of 8 bytes, the alignment of its records.  A *)
(* record may wrap around the end of the ring, but its header never does.  *)
(***************************************************************************)
EXTENDS Naturals, Sequences, FiniteSets, SequencesExt, FiniteSetsExt

CONSTANTS
  NumCpus,   \* monitored CPUs
  Pages,     \* the pages samples are taken of
  Size,      \* data_size in words
  OtherWords, \* words of a record that is no sample of a page
  Events,    \* what the kernel writes for the events of either type
  BatchSize, \* SAMPLE_BATCH_SIZE
  InitFreq,  \* perf_sample_freq_list[4]: 100001
  FloorFreq  \* no drop of the local frequency from here on: 40000

Types == {"local", "remote"}

Rings == (1 .. NumCpus) \X Types

Offsets == 0 .. Size - 1

\* A sample of a page; PERF_RECORD_LOST; and the others, which are samples whose
\* address is 0, and the forks and exits the events ask for with the flag task.
Records == Pages \cup {"lost", "other"}

\* sizeof(struct perf_sample), what the thread takes a record to have.
SampleWords == 3

LostWords == 4

\* No record is shorter than a sample, and each fits into an empty ring behind
\* a lost record.  An address space has finitely many pages.
ASSUME RingAssumption ==
  /\ NumCpus \in Nat \ {0}
  /\ OtherWords \in Nat /\ OtherWords >= SampleWords
  /\ Size \in Nat /\ Size > LostWords + OtherWords
  /\ Events \in [Types -> SUBSET (Pages \cup {"other"})]
  /\ BatchSize \in Nat \ {0}
  /\ InitFreq \in Nat
  /\ FloorFreq \in Nat
  /\ IsFiniteSet(Pages)
  /\ Pages \cap {"lost", "other", "body", "free"} = {}

\* perf_event_header.size
Words(rec) == CASE rec = "lost" -> LostWords
                [] rec = "other" -> OtherWords
                [] OTHER -> SampleWords

VARIABLES
  head,      \* data_head of each ring modulo Size, as a ring is never full
  tail,      \* data_tail
  mem,       \* the words of each ring; those behind the tail are the kernel's
  lost,      \* records were lost since the kernel last wrote one
  pc,        \* the step the thread is at
  turn,      \* the ring it reads
  seen,      \* the head it knows of that ring
  counts,    \* sampled_address_counts
  collected, \* num_samples_collected_in_batch
  numInBatch, \* num_local_mem_samples_in_batch, num_remote_mem_samples_in_batch
  localFreq, \* perf_sample_freq_local
  drop       \* drop_local_sample_freq

(***************************************************************************)
(* History, for the properties only.                                       *)
(***************************************************************************)
VARIABLES
  unread,    \* the records the kernel wrote and the thread has not passed
  counted    \* the record at the tail of the ring was counted

ringVars  == <<head, tail, mem, lost, unread, counted>>
batchVars == <<counts, collected, numInBatch>>
dropVars  == <<localFreq, drop>>
allVars == <<ringVars, pc, turn, seen, batchVars, dropVars>>

\* The steps at which the events are open.
Sampling == pc \in {"test", "batch"}

-----------------------------------------------------------------------------
(* The kernel                                                              *)

\* The words of a record at an offset.
In(w, at, rec) == (w - at) % Size < Words(rec)

Written(m, at, rec) ==
  [w \in Offsets |-> IF w = at THEN rec ELSE IF In(w, at, rec) THEN "body" ELSE m[w]]

Freed(m, at, rec) == [w \in Offsets |-> IF In(w, at, rec) THEN "free" ELSE m[w]]

\* One word stays free, so that a full ring is not taken for an empty one.
Space(r) == (tail[r] - head[r] - 1) % Size

\* What a record brings with it once others were lost.
Output(r, rec) == IF lost[r] THEN <<"lost", rec>> ELSE <<rec>>

Needs(r, rec) == IF lost[r] THEN LostWords + Words(rec) ELSE Words(rec)

KernelWrites(r, rec) ==
  /\ Sampling
  /\ Needs(r, rec) <= Space(r)
  /\ mem' = [mem EXCEPT ![r] =
       IF lost[r]
         THEN Written(Written(@, head[r], "lost"), (head[r] + LostWords) % Size, rec)
         ELSE Written(@, head[r], rec)]
  /\ head' = [head EXCEPT ![r] = (@ + Needs(r, rec)) % Size]
  /\ unread' = [unread EXCEPT ![r] = @ \o Output(r, rec)]
  /\ lost' = [lost EXCEPT ![r] = FALSE]
  /\ UNCHANGED <<tail, counted, pc, turn, seen, batchVars, dropVars>>

KernelLoses(r, rec) ==
  /\ Sampling
  /\ Needs(r, rec) > Space(r)
  /\ ~lost[r]
  /\ lost' = [lost EXCEPT ![r] = TRUE]
  /\ UNCHANGED <<head, tail, mem, unread, counted, pc, turn, seen, batchVars, dropVars>>

Kernel == \E r \in Rings :
            \E rec \in Events[r[2]] : KernelWrites(r, rec) \/ KernelLoses(r, rec)

-----------------------------------------------------------------------------
(* Opening and closing                                                     *)

NoWords == [w \in Offsets |-> "free"]

NoCounts == [j \in Types |-> [p \in Pages |-> 0]]

NoneInBatch == [j \in Types |-> 0]

FirstRing == <<1, "local">>

\* What was not read is gone, and the kernel starts at the beginning.
Close(rings) ==
  /\ head' = [r \in Rings |-> IF r \in rings THEN 0 ELSE head[r]]
  /\ tail' = [r \in Rings |-> IF r \in rings THEN 0 ELSE tail[r]]
  /\ mem' = [r \in Rings |-> IF r \in rings THEN NoWords ELSE mem[r]]
  /\ lost' = [r \in Rings |-> lost[r] /\ r \notin rings]
  /\ unread' = [r \in Rings |-> IF r \in rings THEN << >> ELSE unread[r]]
  /\ counted' = [r \in Rings |-> counted[r] /\ r \notin rings]

LeaveOpen == UNCHANGED ringVars

CloseForMonitor == Close(Rings)

\* perf_setup, at the start and after monitor mode.
OpenAll ==
  /\ pc = "closed"
  /\ pc' = "test"
  /\ turn' = FirstRing
  /\ seen' = 0
  /\ UNCHANGED <<ringVars, batchVars, dropVars>>

\* An event that cannot be opened, or a ring that cannot be mapped, ends the
\* process with the samples of all rings.
OpenFails ==
  /\ pc' = "exited"
  /\ Close(Rings)
  /\ UNCHANGED <<turn, seen, batchVars, dropVars>>

-----------------------------------------------------------------------------
(* The thread                                                              *)

Header(r) == mem[r][tail[r]]

\* The head the thread finds when it looks again: there is no barrier in the
\* loop, so the compiler may keep the one it has.
Visible == {seen, head[turn]}

HasRecord(h) ==
  /\ pc = "test"
  /\ h \in Visible
  /\ seen' = h
  /\ h # tail[turn]

\* As much as a sample has does not fit in before the end of the ring.
Wraps(r) == tail[r] + SampleWords > Size

IsSample(r) == ~Wraps(r) /\ Header(r) \in Pages

StepOfSample(r) == SampleWords

StepOfRecord(r) == Words(Header(r))

\* data_tail is advanced by the size in the header, which is read again.  Only
\* now may the kernel write over the record.
Advance ==
  /\ mem' = [mem EXCEPT ![turn] = Freed(@, tail[turn], Header(turn))]
  /\ tail' = [tail EXCEPT ![turn] = (@ + StepOfRecord(turn)) % Size]
  /\ unread' = [unread EXCEPT ![turn] = Tail(@)]
  /\ counted' = [counted EXCEPT ![turn] = FALSE]
  /\ UNCHANGED <<head, lost, turn>>

Fills == collected + 1 >= BatchSize

\* The kernel writes in between only where no record is, so the steps to the
\* next record are one.
CountSample(h) ==
  /\ HasRecord(h)
  /\ IsSample(turn)
  /\ ~Fills
  /\ counts' = [counts EXCEPT ![turn[2]][Header(turn)] = @ + 1]
  /\ numInBatch' = [numInBatch EXCEPT ![turn[2]] = @ + 1]
  /\ collected' = collected + 1
  /\ Advance
  /\ UNCHANGED <<pc, dropVars>>

NumKept == numInBatch

NumAfterBatch == NoneInBatch

\* The batch is processed, which takes long.  When most samples of the fast tier
\* in it told nothing new, the local frequency is to be dropped.
FillBatch(h) ==
  /\ HasRecord(h)
  /\ IsSample(turn)
  /\ Fills
  /\ counts' = NoCounts
  /\ numInBatch' = NumAfterBatch
  /\ collected' = 0
  /\ \/ UNCHANGED drop
     \/ /\ numInBatch["local"] > 0 \/ turn[2] = "local"
        /\ drop' = TRUE
  /\ pc' = "batch"
  /\ counted' = [counted EXCEPT ![turn] = TRUE]
  /\ UNCHANGED <<head, tail, mem, lost, unread, turn, localFreq>>

\* The promotions, demotions and throttling of the batch are done.
EndBatch ==
  /\ pc = "batch"
  /\ pc' = "test"
  /\ Advance
  /\ UNCHANGED <<seen, batchVars, dropVars>>

\* Or the batch ends in monitor mode: all events are closed in the middle of a
\* ring, with the sample that filled the batch still at its tail.
EnterMonitor ==
  /\ pc = "batch"
  /\ pc' = "closed"
  /\ CloseForMonitor
  /\ UNCHANGED <<turn, seen, batchVars, dropVars>>

\* A record that wraps, has no address or is no sample.
IgnoreRecord(h) ==
  /\ HasRecord(h)
  /\ ~IsSample(turn)
  /\ Advance
  /\ UNCHANGED <<pc, batchVars, dropVars>>

NextLocalRing(r) == <<IF r[1] = NumCpus THEN 1 ELSE r[1] + 1, "local">>

NextRing(r) ==
  IF r[2] = "local" THEN <<r[1], "remote">>
  ELSE <<IF r[1] = NumCpus THEN 1 ELSE r[1] + 1, "local">>

MustDrop == drop /\ localFreq > FloorFreq

\* Nothing is left to read, as far as the thread knows.
RingDone(h) ==
  /\ pc = "test"
  /\ h \in Visible
  /\ h = tail[turn]

\* The thread sleeps and goes to the next ring.
LeaveRing(h) ==
  /\ RingDone(h)
  /\ ~MustDrop
  /\ turn' = NextRing(turn)
  /\ seen' = head[turn']
  /\ UNCHANGED <<pc, ringVars, batchVars, dropVars>>

\* Before that it reopens the local events with half the frequency.
DropLocalFreq(h) ==
  /\ RingDone(h)
  /\ MustDrop
  /\ localFreq' = localFreq \div 2
  /\ drop' = FALSE
  /\ Close({r \in Rings : r[2] = "local"})
  /\ turn' = NextRing(turn)
  /\ seen' = head'[turn']
  /\ UNCHANGED <<pc, batchVars>>

\* perf_setup and change_perf_freq
ReopenFails ==
  /\ pc = "closed" \/ \E h \in Visible : RingDone(h) /\ MustDrop
  /\ OpenFails

Thread ==
  \/ \E h \in Offsets :
       \/ CountSample(h)
       \/ FillBatch(h)
       \/ IgnoreRecord(h)
       \/ LeaveRing(h)
       \/ DropLocalFreq(h)
  \/ EndBatch
  \/ EnterMonitor
  \/ ReopenFails

Terminated == pc = "exited" /\ UNCHANGED allVars

-----------------------------------------------------------------------------
RingInit ==
  /\ head = [r \in Rings |-> 0]
  /\ tail = [r \in Rings |-> 0]
  /\ mem = [r \in Rings |-> NoWords]
  /\ lost = [r \in Rings |-> FALSE]
  /\ unread = [r \in Rings |-> << >>]
  /\ counted = [r \in Rings |-> FALSE]
  /\ pc = "closed"
  /\ turn = FirstRing
  /\ seen = 0
  /\ counts = NoCounts
  /\ collected = 0
  /\ numInBatch = NoneInBatch
  /\ localFreq = InitFreq
  /\ drop = FALSE

RingNext == Kernel \/ OpenAll \/ Thread \/ Terminated

\* The thread is never blocked, but nothing makes it leave monitor mode.
RingSpec == RingInit /\ [][RingNext]_allVars /\ WF_allVars(Thread)

-----------------------------------------------------------------------------
(* Properties                                                              *)

WordsOf(recs) == FoldLeft(+, 0, [k \in DOMAIN recs |-> Words(recs[k])])

\* The types.  A batch never holds as many samples as fill it, and its counts,
\* by address, by event and in all, agree through batches that end in the middle
\* of a ring and through monitor mode.
RingTypeOK ==
  /\ head \in [Rings -> Offsets]
  /\ tail \in [Rings -> Offsets]
  /\ mem \in [Rings -> [Offsets -> Records \cup {"body", "free"}]]
  /\ lost \in [Rings -> BOOLEAN]
  /\ unread \in [Rings -> Seq(Records)]
  /\ counted \in [Rings -> BOOLEAN]
  /\ pc \in {"closed", "test", "batch", "exited"}
  /\ turn \in Rings
  /\ seen \in Offsets
  /\ counts \in [Types -> [Pages -> Nat]]
  /\ collected \in 0 .. BatchSize - 1
  /\ \A j \in Types : numInBatch[j] = SumFunction(counts[j])
  /\ collected = numInBatch["local"] + numInBatch["remote"]
  /\ localFreq \in Nat
  /\ drop \in BOOLEAN

\* The tail is always at the header of the oldest record that was not read, and
\* that record is still there, however long a batch takes: the thread never
\* takes the middle of a record for a header.  The head it knows, which may be
\* an old one, is the end of one of the records it has yet to read.
ReadsInOrder ==
  /\ \A r \in Rings :
       /\ WordsOf(unread[r]) = (head[r] - tail[r]) % Size
       /\ unread[r] # << >> => Header(r) = Head(unread[r])
  /\ Sampling => \E n \in 0 .. Len(unread[turn]) :
                   WordsOf(SubSeq(unread[turn], 1, n)) = (seen - tail[turn]) % Size

\* A step that counts the record at the tail of r, one that goes on behind it.
Counts(r) ==
  /\ r = turn
  /\ batchVars' # batchVars \/ (pc # "batch" /\ pc' = "batch")

Passes(r) ==
  /\ unread[r] # << >>
  /\ unread'[r] = Tail(unread[r])
  /\ pc' = "test" /\ localFreq' = localFreq

\* Every sample of a page that the thread passes is counted, exactly once, unless
\* it wraps around the end of its ring; after that the thread is back at the
\* beginning, as the comment on skipped samples expects.  A sample that filled
\* a batch is not met again after monitor mode.
CountedOnce ==
  [][\A r \in Rings :
       /\ Counts(r) => ~counted[r]
       /\ Passes(r) /\ Head(unread[r]) \in Pages =>
            \/ counted[r] \/ Counts(r)
            \/ tail[r] + Words(Head(unread[r])) > Size /\ tail'[r] < tail[r]]_allVars

\* Once the kernel stops writing, every ring is read to its end.
AllRead == <>[][Thread]_allVars => <>[](\A r \in Rings : unread[r] = << >>)
=============================================================================
