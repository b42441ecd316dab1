---------------------------- MODULE ThreadProofs ----------------------------
(***************************************************************************)
(* What the tiering thread rests on: that it is the only one of its cgroup *)
(* (LeaderElection), and that it reads the rings of the kernel in order    *)
(* (PerfRing).                                                             *)
(*                                                                         *)
(* The election: an elected process has the very description that holds    *)
(* the lock, and of the processes that share a description only one was    *)
(* not forked with it.                                                     *)
(*                                                                         *)
(* The rings: the unread records of a ring lie in its words one behind the *)
(* other, from the tail to the head, and what the thread knows of the head *)
(* is the end of one of them.  The words of n records are a partial sum,   *)
(* and the lemmas on positions say what a record put behind the last one,  *)
(* or the first one passed, does to them modulo the size of the ring.      *)
(***************************************************************************)
EXTENDS LeaderElection, PerfRing, DataLemmas

-----------------------------------------------------------------------------
(***************************************************************************)
(* The election                                                            *)
(***************************************************************************)

\* An elected process holds the lock.
ElectedLocks == \A p \in Procs : state[p] = "leader" /\ fd[p] # None => fd[p] = lock

\* Whoever shares a description with another process was forked with it.
OneOpener ==
  \A p, q \in Procs :
    fd[p] = fd[q] /\ fd[p] # None /\ state[p] # "plain" /\ state[q] # "plain" => p = q

\* A thread that has not decided has not opened the file.
StartsClosed == \A p \in Procs : state[p] = "starting" => fd[p] = None

IInv == TypeOK /\ ElectedLocks /\ OneOpener /\ StartsClosed

LEMMA InitInvariant == Init => IInv
  BY DEF Init, IInv, TypeOK, States, ElectedLocks, OneOpener, StartsClosed, Alive

\* When a process closes its descriptor the lock stays, or nobody else has it.
LEMMA CloseKeepsLock ==
  ASSUME NEW p \in Procs, IInv
  PROVE  /\ LockAfterClose(p) \in Descriptions \cup {None}
         /\ LockAfterClose(p) # None => \E q \in Procs \ {p} : fd[q] = LockAfterClose(p)
         /\ \A q \in Procs \ {p} : state[q] = "leader" /\ fd[q] # None =>
              fd[q] = LockAfterClose(p)
  BY DEF IInv, TypeOK, ElectedLocks, LockAfterClose

LEMMA NextInvariant == IInv /\ [Next]_vars => IInv'
<1> SUFFICES ASSUME IInv, [Next]_vars PROVE IInv'
  OBVIOUS
<1> USE ElectionAssumption
<1>1. ASSUME NEW p \in Procs, Launch(p) PROVE IInv'
  BY <1>1 DEF Launch, IInv, TypeOK, States, ElectedLocks, OneOpener, StartsClosed, Alive
<1>2. ASSUME NEW p \in Procs, NEW q \in Procs, Fork(p, q) PROVE IInv'
  BY <1>2 DEF Fork, IInv, TypeOK, States, ElectedLocks, OneOpener, StartsClosed, Alive
<1>3. ASSUME NEW p \in Procs, NEW target \in BOOLEAN, Exec(p, target) PROVE IInv'
  <2>1. fd' = [fd EXCEPT ![p] = None] /\ lock' = LockAfterClose(p)
    BY <1>3 DEF Exec, FdAfterExec, IInv, TypeOK
  <2>2. /\ state' \in [Procs -> States] /\ state'[p] \in {"starting", "plain"}
        /\ \A q \in Procs \ {p} : state'[q] = state[q]
    BY <1>3 DEF Exec, IInv, TypeOK, States
  <2> QED
    BY <2>1, <2>2, CloseKeepsLock
       DEF IInv, TypeOK, States, ElectedLocks, OneOpener, StartsClosed, Alive
<1>4. ASSUME NEW p \in Procs, Exit(p) PROVE IInv'
  <2>1. fd' = [fd EXCEPT ![p] = None] /\ lock' = LockAfterClose(p)
    BY <1>4 DEF Exit
  <2>2. /\ state' \in [Procs -> States] /\ state'[p] = "free"
        /\ \A q \in Procs \ {p} : state'[q] = state[q]
    BY <1>4 DEF Exit, IInv, TypeOK, States
  <2> QED
    BY <2>1, <2>2, CloseKeepsLock
       DEF IInv, TypeOK, States, ElectedLocks, OneOpener, StartsClosed, Alive
<1>5. ASSUME NEW p \in Procs, NoCgroup(p) PROVE IInv'
  BY <1>5 DEF NoCgroup, IInv, TypeOK, States, ElectedLocks, OneOpener, StartsClosed, Alive
<1>6. ASSUME NEW p \in Procs, LockUnopened(p) PROVE IInv'
  BY <1>6 DEF LockUnopened, IInv, TypeOK, States, ElectedLocks, OneOpener, StartsClosed, Alive
<1>7. ASSUME NEW p \in Procs, Elect(p) PROVE IInv'
  <2> PICK d \in Unused :
         /\ fd' = [fd EXCEPT ![p] = d]
         /\ IF lock = None
              THEN lock' = d /\ state' = [state EXCEPT ![p] = "leader"]
              ELSE state' = [state EXCEPT ![p] = "quit"] /\ UNCHANGED lock
    BY <1>7 DEF Elect
  <2>1. d \in Descriptions /\ d # None /\ (\A q \in Procs : fd[q] # d)
    BY DEF Unused
  <2>2. state[p] = "starting"
    BY <1>7 DEF Elect
  <2>3. CASE lock = None
    BY <2>1, <2>2, <2>3
       DEF IInv, TypeOK, States, ElectedLocks, OneOpener, StartsClosed, Alive
  <2>4. CASE lock # None
    BY <2>1, <2>2, <2>4
       DEF IInv, TypeOK, States, ElectedLocks, OneOpener, StartsClosed, Alive
  <2> QED
    BY <2>3, <2>4
<1>8. ASSUME NEW p \in Procs, SetupFails(p) PROVE IInv'
  BY <1>8 DEF SetupFails, IInv, TypeOK, States, ElectedLocks, OneOpener, StartsClosed, Alive
<1>9. CASE UNCHANGED vars
  BY <1>9 DEF vars, IInv, TypeOK, States, ElectedLocks, OneOpener, StartsClosed, Alive
<1> QED
  BY <1>1, <1>2, <1>3, <1>4, <1>5, <1>6, <1>7, <1>8, <1>9 DEF Next

LEMMA InvariantElectsOne == IInv => OneElected
  BY DEF IInv, ElectedLocks, OneOpener, OneElected, Elected

LEMMA Invariance == Spec => []IInv
<1>1. Init => IInv
  BY InitInvariant
<1>2. IInv /\ [Next]_vars => IInv'
  BY NextInvariant
<1> QED
  BY <1>1, <1>2, PTL DEF Spec

\* In every reachable state the types are right and a lock that is set is held
\* through the descriptor of some process: the locking leaves no stale lock.
THEOREM LockHeld == Spec => []TypeOK
<1>1. IInv => TypeOK
  BY DEF IInv
<1> QED
  BY <1>1, Invariance, PTL

\* At most one thread at a time is elected in a cgroup by the lock, for any
\* processes that fork, exec and exit in any order.
THEOREM OneElectedCorrect == Spec => []OneElected
  BY Invariance, InvariantElectsOne, PTL

\* No step lets a thread quit unless another process has the lock.
THEOREM QuitsForAnotherCorrect == Spec => QuitsForAnother
<1>1. IInv /\ [Next]_vars =>
        [\A p \in Procs : state[p] = "starting" /\ state'[p] = "quit" =>
           \E q \in Procs \ {p} : fd[q] = lock]_vars
  <2> SUFFICES ASSUME IInv, Next, NEW p \in Procs,
                      state[p] = "starting", state'[p] = "quit"
               PROVE  \E q \in Procs \ {p} : fd[q] = lock
    BY DEF vars
  <2>1. PICK r \in Procs : \/ Launch(r)
                           \/ \E q \in Procs : Fork(r, q)
                           \/ \E target \in BOOLEAN : Exec(r, target)
                           \/ Exit(r)
                           \/ NoCgroup(r)
                           \/ LockUnopened(r)
                           \/ Elect(r)
                           \/ SetupFails(r)
    BY DEF Next
  <2>2. state \in [Procs -> States]
    BY DEF IInv, TypeOK
  <2>3. Elect(r)
    BY <2>1, <2>2 DEF Launch, Fork, Exec, Exit, NoCgroup, LockUnopened, SetupFails
  <2>4. r = p /\ lock # None
    BY <2>2, <2>3 DEF Elect
  <2>5. PICK q \in Procs : fd[q] = lock
    BY <2>4 DEF IInv, TypeOK
  <2>6. fd[p] = None
    BY DEF IInv, StartsClosed
  <2> QED
    BY <2>4, <2>5, <2>6
<1> QED
  BY <1>1, Invariance, PTL DEF Spec, QuitsForAnother

-----------------------------------------------------------------------------
(***************************************************************************)
(* The words of unread records                                             *)
(***************************************************************************)

\* Where in the unread words the n-th record ends.
At(s, n) == WordsOf(SubSeq(s, 1, n))

LEMMA SizeNat == Size \in Nat \ {0} /\ Size > LostWords + SampleWords
BY RingAssumption DEF LostWords, SampleWords

LEMMA WordsFacts ==
  ASSUME NEW rec \in Records
  PROVE  /\ Words(rec) \in Nat /\ Words(rec) >= SampleWords
         /\ rec \in Pages => Words(rec) = SampleWords
BY RingAssumption DEF Words, Records, SampleWords, LostWords

Weights(s) == [k \in DOMAIN s |-> Words(s[k])]

LEMMA WeightsFacts ==
  ASSUME NEW s \in Seq(Records)
  PROVE  /\ Weights(s) \in Seq(Nat)
         /\ Len(Weights(s)) = Len(s)
         /\ \A k \in 1 .. Len(s) : Weights(s)[k] = Words(s[k])
<1>1. Len(s) \in Nat /\ DOMAIN s = 1 .. Len(s) /\ \A k \in 1 .. Len(s) : s[k] \in Records
  OBVIOUS
<1>2. \A k \in 1 .. Len(s) : Words(s[k]) \in Nat
  BY <1>1, WordsFacts
<1>3. Weights(s) = [k \in 1 .. Len(s) |-> Words(s[k])]
  BY <1>1 DEF Weights
<1> QED
  BY <1>1, <1>2, <1>3

\* The words of the first n records of s, added up from the front.
LEMMA WordsPartial ==
  ASSUME NEW s \in Seq(Records)
  PROVE  \E f : PartialSums(f, Weights(s)) /\ WordsOf(s) = f[Len(s)]
<1>1. PICK f : PartialSums(f, Weights(s)) /\ FoldLeft(+, 0, Weights(s)) = f[Len(Weights(s))]
  BY WeightsFacts, FoldPartial
<1>2. WordsOf(s) = FoldLeft(+, 0, Weights(s))
  BY DEF WordsOf, Weights
<1>3. Len(Weights(s)) = Len(s)
  BY WeightsFacts
<1>4. WordsOf(s) = f[Len(s)]
  BY <1>1, <1>2, <1>3, Zenon
<1> QED
  BY <1>1, <1>4

LEMMA AtPartial ==
  ASSUME NEW s \in Seq(Records), NEW f, PartialSums(f, Weights(s)), NEW n \in 0 .. Len(s)
  PROVE  At(s, n) = f[n]
<1> DEFINE t == SubSeq(s, 1, n)
<1>1. /\ t \in Seq(Records) /\ Len(t) = n /\ n \in Nat /\ n <= Len(s)
      /\ \A k \in 1 .. n : t[k] = s[k]
  OBVIOUS
<1> HIDE DEF t
<1>2. PICK h : PartialSums(h, Weights(t)) /\ WordsOf(t) = h[n]
  BY <1>1, WordsPartial
<1>3. Weights(s) \in Seq(Nat) /\ Weights(t) \in Seq(Nat)
  BY <1>1, WeightsFacts
<1>4. Shifted(Weights(s), Weights(t), 0, n)
  <2>1. Len(Weights(s)) = Len(s) /\ Len(Weights(t)) = n /\ Len(s) \in Nat
    BY <1>1, WeightsFacts
  <2>2. \A k \in 1 .. n : Weights(t)[k] = Weights(s)[k]
    <3> TAKE k \in 1 .. n
    <3>1. k \in 1 .. Len(s) /\ k \in 1 .. Len(t)
      BY <1>1
    <3> QED
      BY <1>1, <3>1, WeightsFacts
  <2> QED
    BY <1>1, <2>1, <2>2 DEF Shifted
<1>5. f[n + 0] = h[n] + f[0]
  BY <1>1, <1>2, <1>3, <1>4, PartialShift
<1>6. f[0] = 0 /\ h[n] \in Nat /\ n + 0 = n
  <2>1. Len(Weights(t)) = n /\ n \in 0 .. n
    BY <1>1, WeightsFacts
  <2> QED
    BY <1>1, <1>2, <2>1 DEF PartialSums
<1> QED
  BY <1>2, <1>5, <1>6 DEF At, t

LEMMA AtFacts ==
  ASSUME NEW s \in Seq(Records)
  PROVE  /\ \A n \in 0 .. Len(s) : At(s, n) \in Nat
         /\ At(s, 0) = 0
         /\ \A n \in 1 .. Len(s) : At(s, n) = At(s, n - 1) + Words(s[n])
         /\ WordsOf(s) = At(s, Len(s))
<1>1. PICK f : PartialSums(f, Weights(s)) /\ WordsOf(s) = f[Len(s)]
  BY WordsPartial
<1>2. \A n \in 0 .. Len(s) : At(s, n) = f[n]
  BY <1>1, AtPartial
<1>3. /\ Len(Weights(s)) = Len(s) /\ Len(s) \in Nat
      /\ \A k \in 1 .. Len(s) : Weights(s)[k] = Words(s[k])
  BY WeightsFacts
<1>4. /\ \A n \in 0 .. Len(s) : f[n] \in Nat
      /\ f[0] = 0
      /\ \A n \in 1 .. Len(s) : f[n] = f[n - 1] + Words(s[n])
  BY <1>1, <1>3 DEF PartialSums
<1>5. /\ 0 \in 0 .. Len(s) /\ Len(s) \in 0 .. Len(s)
      /\ \A n \in 1 .. Len(s) : n \in 0 .. Len(s) /\ n - 1 \in 0 .. Len(s)
  BY <1>3
<1> QED
  BY <1>1, <1>2, <1>4, <1>5

\* Up to each record there are no more words than in all.
LEMMA AtMost ==
  ASSUME NEW s \in Seq(Records), NEW n \in 0 .. Len(s)
  PROVE  At(s, n) <= WordsOf(s)
<1> DEFINE l == Len(s)
           Bad == {k \in 0 .. l : ~(At(s, l - k) <= At(s, l))}
<1>1. l \in Nat
  OBVIOUS
<1>2. /\ \A k \in 0 .. l : At(s, k) \in Nat
      /\ \A k \in 1 .. l : At(s, k) = At(s, k - 1) + Words(s[k]) /\ Words(s[k]) \in Nat
      /\ WordsOf(s) = At(s, l)
  <2>1. \A k \in 1 .. l : s[k] \in Records
    OBVIOUS
  <2> QED
    BY <2>1, AtFacts, WordsFacts
<1> HIDE DEF l
<1>3. Bad = {}
  <2> SUFFICES ASSUME Bad # {} PROVE FALSE
    OBVIOUS
  <2>1. Bad \in SUBSET Nat
    BY <1>1
  <2>2. PICK k \in Bad : \A y \in Bad : k <= y
    BY <2>1, LeastNat
  <2>3. k \in 0 .. l /\ ~(At(s, l - k) <= At(s, l))
    OBVIOUS
  <2>4. k # 0
    <3>1. l \in 0 .. l /\ l - 0 = l
      BY <1>1
    <3> QED
      BY <1>2, <2>3, <3>1
  <2> DEFINE j == l - (k - 1)
  <2>5. /\ k - 1 \in 0 .. l /\ ~(k <= k - 1) /\ j \in 1 .. l
        /\ j - 1 = l - k /\ l - k \in 0 .. l /\ j \in 0 .. l /\ l \in 0 .. l
    BY <1>1, <2>3, <2>4
  <2>6. At(s, j) <= At(s, l)
    BY <2>2, <2>5
  <2> HIDE DEF j
  <2>7. At(s, j) = At(s, l - k) + Words(s[j]) /\ Words(s[j]) \in Nat
    BY <1>2, <2>5
  <2>8. At(s, j) \in Nat /\ At(s, l - k) \in Nat /\ At(s, l) \in Nat
    BY <1>2, <2>5
  <2> QED
    BY <2>3, <2>6, <2>7, <2>8
<1>4. l - n \in 0 .. l /\ l - (l - n) = n
  BY <1>1 DEF l
<1>5. At(s, l - (l - n)) <= At(s, l)
  BY <1>3, <1>4
<1> QED
  BY <1>2, <1>4, <1>5

\* A record more at the end.
LEMMA AtAppend ==
  ASSUME NEW s \in Seq(Records), NEW rec \in Records
  PROVE  /\ \A n \in 0 .. Len(s) : At(Append(s, rec), n) = At(s, n)
         /\ WordsOf(Append(s, rec)) = WordsOf(s) + Words(rec)
<1> DEFINE t == Append(s, rec)
<1>1. /\ t \in Seq(Records) /\ Len(t) = Len(s) + 1 /\ Len(s) \in Nat
      /\ t[Len(s) + 1] = rec
  OBVIOUS
<1>2. \A n \in 0 .. Len(s) : SubSeq(t, 1, n) = SubSeq(s, 1, n)
  OBVIOUS
<1>3. \A n \in 0 .. Len(s) : At(t, n) = At(s, n)
  BY <1>2 DEF At
<1> HIDE DEF t
<1> DEFINE l == Len(s) + 1
<1>4. l \in 1 .. Len(t) /\ l - 1 = Len(s) /\ Len(s) \in 0 .. Len(s) /\ l = Len(t)
  BY <1>1
<1>5. At(t, l) = At(t, l - 1) + Words(t[l]) /\ WordsOf(t) = At(t, l)
  BY <1>1, <1>4, AtFacts
<1>6. WordsOf(s) = At(s, Len(s)) /\ At(t, Len(s)) = At(s, Len(s))
  BY <1>3, <1>4, AtFacts
<1>7. WordsOf(t) = WordsOf(s) + Words(rec)
  BY <1>1, <1>4, <1>5, <1>6
<1> QED
  BY <1>3, <1>7 DEF t

\* The first record is passed.
LEMMA AtTail ==
  ASSUME NEW s \in Seq(Records), s # << >>
  PROVE  /\ \A n \in 0 .. Len(s) - 1 : At(s, n + 1) = At(Tail(s), n) + Words(Head(s))
         /\ WordsOf(s) = WordsOf(Tail(s)) + Words(Head(s))
<1> DEFINE t == Tail(s)
<1>1. /\ t \in Seq(Records) /\ Len(t) = Len(s) - 1 /\ Len(s) \in Nat \ {0}
      /\ \A k \in 1 .. Len(t) : t[k] = s[k + 1]
      /\ Head(s) = s[1]
  OBVIOUS
<1> HIDE DEF t
<1>2. PICK f : PartialSums(f, Weights(s)) /\ WordsOf(s) = f[Len(s)]
  BY WordsPartial
<1>3. PICK h : PartialSums(h, Weights(t)) /\ WordsOf(t) = h[Len(t)]
  BY <1>1, WordsPartial
<1>4. /\ Weights(s) \in Seq(Nat) /\ Weights(t) \in Seq(Nat)
      /\ Len(Weights(s)) = Len(s) /\ Len(Weights(t)) = Len(t)
      /\ \A k \in 1 .. Len(s) : Weights(s)[k] = Words(s[k])
      /\ \A k \in 1 .. Len(t) : Weights(t)[k] = Words(t[k])
  BY <1>1, WeightsFacts
<1>5. f[1] = Words(Head(s))
  <2>1. 1 \in 1 .. Len(s) /\ 1 - 1 = 0
    BY <1>1
  <2>2. f[1] = f[1 - 1] + Weights(s)[1] /\ f[0] = 0
    BY <1>2, <1>4, <2>1 DEF PartialSums
  <2>3. Words(s[1]) \in Nat
    BY <2>1, WordsFacts
  <2> QED
    BY <1>1, <1>4, <2>1, <2>2, <2>3
<1>6. ASSUME NEW n \in 0 .. Len(s) - 1
      PROVE  f[n + 1] = h[n] + Words(Head(s))
  <2>1. /\ n \in Nat /\ n <= Len(t) /\ 1 + n <= Len(s) /\ 1 \in Nat
        /\ \A k \in 1 .. n : k \in 1 .. Len(t) /\ k + 1 \in 1 .. Len(s)
    BY <1>1
  <2>2. Shifted(Weights(s), Weights(t), 1, n)
    <3>1. \A k \in 1 .. n : Weights(t)[k] = Weights(s)[k + 1]
      BY <1>1, <1>4, <2>1
    <3> QED
      BY <1>4, <2>1, <3>1 DEF Shifted
  <2>3. f[n + 1] = h[n] + f[1]
    BY <1>2, <1>3, <1>4, <2>1, <2>2, PartialShift
  <2> QED
    BY <1>5, <2>3
<1>7. ASSUME NEW n \in 0 .. Len(s) - 1
      PROVE  At(s, n + 1) = At(t, n) + Words(Head(s))
  <2>1. n + 1 \in 0 .. Len(s) /\ n \in 0 .. Len(t)
    BY <1>1
  <2>2. At(s, n + 1) = f[n + 1] /\ At(t, n) = h[n]
    BY <1>1, <1>2, <1>3, <2>1, AtPartial
  <2> QED
    BY <1>6, <2>2
<1>8. WordsOf(s) = WordsOf(t) + Words(Head(s))
  <2>1. Len(t) \in 0 .. Len(s) - 1 /\ Len(t) + 1 = Len(s)
    BY <1>1
  <2>2. f[Len(t) + 1] = h[Len(t)] + Words(Head(s))
    BY <1>6, <2>1
  <2> QED
    BY <1>2, <1>3, <2>1, <2>2
<1> QED
  BY <1>7, <1>8 DEF t

LEMMA NoRecords == WordsOf(<< >>) = 0
<1>1. << >> \in Seq(Records) /\ Len(<< >>) = 0
  OBVIOUS
<1> QED
  BY <1>1, AtFacts

-----------------------------------------------------------------------------
(***************************************************************************)
(* Records in a ring                                                       *)
(***************************************************************************)

\* The word that is a words behind the one at t.
Behind(t, a) == (t + a) % Size

LEMMA BehindIs ==
  ASSUME NEW t \in Offsets, NEW a \in Offsets
  PROVE  /\ Behind(t, a) = IF t + a < Size THEN t + a ELSE (t + a) - Size
         /\ Behind(t, a) \in Offsets
<1> PICK b \in Int : b = t + a
  BY SizeNat DEF Offsets
<1>1. Size \in Nat \ {0} /\ b >= 0 /\ -Size <= b /\ b < 2 * Size
  BY SizeNat DEF Offsets
<1>2. b % Size = IF b < 0 THEN b + Size ELSE IF b < Size THEN b ELSE b - Size
  BY <1>1, ModNear
<1>3. b % Size = (IF b < Size THEN b ELSE b - Size) /\ b % Size \in Offsets
  BY <1>1, <1>2 DEF Offsets
<1>4. Behind(t, a) = b % Size
  BY DEF Behind
<1> QED
  BY <1>3, <1>4

LEMMA BehindTwice ==
  ASSUME NEW t \in Offsets, NEW a \in Offsets, NEW b \in Offsets, a + b < Size
  PROVE  /\ a + b \in Offsets
         /\ Behind(Behind(t, a), b) = Behind(t, a + b)
<1>1. Size \in Nat \ {0} /\ a + b \in Offsets
  BY SizeNat DEF Offsets
<1>2. Behind(t, a) \in Offsets /\ Behind(t, a) = IF t + a < Size THEN t + a ELSE (t + a) - Size
  BY BehindIs
<1>3. Behind(Behind(t, a), b)
        = IF Behind(t, a) + b < Size THEN Behind(t, a) + b ELSE (Behind(t, a) + b) - Size
  BY <1>2, BehindIs
<1>4. Behind(t, a + b) = IF t + (a + b) < Size THEN t + (a + b) ELSE (t + (a + b)) - Size
  BY <1>1, BehindIs
<1> QED
  BY <1>1, <1>2, <1>3, <1>4 DEF Offsets

\* How far one word is behind another.
LEMMA BehindApart ==
  ASSUME NEW t \in Offsets, NEW a \in Offsets, NEW b \in Offsets
  PROVE  /\ (Behind(t, a) - Behind(t, b)) % Size = IF a < b THEN a - b + Size ELSE a - b
         /\ Behind(t, a) = Behind(t, b) => a = b
<1> DEFINE x == Behind(t, a)
           y == Behind(t, b)
<1>1. Size \in Nat \ {0} /\ a \in Int /\ b \in Int /\ t \in Int /\ x \in Int /\ y \in Int
  BY SizeNat, BehindIs DEF Offsets
<1>2. /\ x = IF t + a < Size THEN t + a ELSE (t + a) - Size
      /\ y = IF t + b < Size THEN t + b ELSE (t + b) - Size
      /\ 0 <= t /\ t < Size /\ 0 <= a /\ a < Size /\ 0 <= b /\ b < Size
  BY BehindIs, SizeNat DEF Offsets
<1> HIDE DEF x, y
<1>3. /\ -Size <= x - y /\ x - y < 2 * Size /\ x - y \in Int /\ x - y < Size
      /\ (IF x - y < 0 THEN x - y + Size ELSE x - y) = IF a < b THEN a - b + Size ELSE a - b
      /\ x = y => a = b
  BY <1>1, <1>2
<1>4. (x - y) % Size = IF x - y < 0 THEN x - y + Size
                       ELSE IF x - y < Size THEN x - y ELSE x - y - Size
  BY <1>1, <1>3, ModNear
<1> QED
  BY <1>3, <1>4 DEF x, y

\* The unread records s lie in the words m one behind the other, from the tail t
\* up to the head h.
Laid(h, t, m, s) ==
  /\ WordsOf(s) < Size
  /\ h = Behind(t, WordsOf(s))
  /\ \A n \in 1 .. Len(s) : m[Behind(t, At(s, n - 1))] = s[n]

\* What the positions of unread records are.
LEMMA LaidOffsets ==
  ASSUME NEW s \in Seq(Records), WordsOf(s) < Size
  PROVE  /\ WordsOf(s) \in Offsets
         /\ \A n \in 0 .. Len(s) : At(s, n) \in Offsets
<1>1. \A n \in 0 .. Len(s) : At(s, n) \in Nat /\ At(s, n) <= WordsOf(s)
  BY AtFacts, AtMost
<1>2. WordsOf(s) = At(s, Len(s)) /\ Len(s) \in 0 .. Len(s)
  BY AtFacts
<1> QED
  BY <1>1, <1>2, SizeNat DEF Offsets

\* The words that are free.
LEMMA SpaceIs ==
  ASSUME NEW t \in Offsets, NEW w \in Offsets
  PROVE  (t - Behind(t, w) - 1) % Size = Size - 1 - w
<1> DEFINE x == Behind(t, w)
<1>1. Size \in Nat \ {0} /\ t \in Int /\ w \in Int /\ x \in Int
  BY SizeNat, BehindIs DEF Offsets
<1>2. /\ x = IF t + w < Size THEN t + w ELSE (t + w) - Size
      /\ 0 <= t /\ t < Size /\ 0 <= w /\ w < Size
  BY BehindIs, SizeNat DEF Offsets
<1> HIDE DEF x
<1> DEFINE a == t - x - 1
<1>3. a \in Int /\ -Size <= a /\ a < 2 * Size /\ a < Size
  BY <1>1, <1>2
<1>4. (IF a < 0 THEN a + Size ELSE a) = Size - 1 - w
  BY <1>1, <1>2
<1> HIDE DEF a
<1>5. a % Size = IF a < 0 THEN a + Size ELSE IF a < Size THEN a ELSE a - Size
  BY <1>1, <1>3, ModNear
<1>6. a % Size = Size - 1 - w
  BY <1>3, <1>4, <1>5
<1> QED
  BY <1>6 DEF a, x

\* A record for which there is space goes behind the others.
LEMMA LaidPut ==
  ASSUME NEW t \in Offsets, NEW h \in Offsets, NEW m, NEW s \in Seq(Records),
         NEW rec \in Records, Laid(h, t, m, s), WordsOf(s) + Words(rec) < Size
  PROVE  Laid((h + Words(rec)) % Size, t, Written(m, h, rec), Append(s, rec))
<1> DEFINE u == Append(s, rec)
           l == Len(s)
           w == WordsOf(s)
           z == Words(rec)
<1>1. /\ u \in Seq(Records) /\ Len(u) = l + 1 /\ l \in Nat
      /\ u[l + 1] = rec /\ \A n \in 1 .. l : u[n] = s[n] /\ s[n] \in Records
  OBVIOUS
<1>2. w < Size /\ h = Behind(t, w) /\ \A n \in 1 .. l : m[Behind(t, At(s, n - 1))] = s[n]
  BY DEF Laid
<1>3. w \in Offsets /\ \A n \in 0 .. l : At(s, n) \in Offsets
  BY <1>2, LaidOffsets
<1>4. z \in Offsets /\ z >= SampleWords
  BY WordsFacts, <1>3, SizeNat DEF Offsets
<1>5. WordsOf(u) = w + z /\ (\A n \in 0 .. l : At(u, n) = At(s, n)) /\ At(s, l) = w
  BY AtAppend, AtFacts
<1> HIDE DEF u, l, w, z
<1>6. (h + z) % Size = Behind(t, w + z)
  <2>1. Behind(Behind(t, w), z) = Behind(t, w + z)
    BY <1>3, <1>4, BehindTwice DEF w, z
  <2> QED
    BY <1>2, <2>1 DEF Behind
<1>7. ASSUME NEW n \in 1 .. l + 1
      PROVE  Written(m, h, rec)[Behind(t, At(u, n - 1))] = u[n]
  <2> DEFINE a == At(s, n - 1)
             x == Behind(t, a)
  <2>1. n - 1 \in 0 .. l /\ a \in Offsets /\ At(u, n - 1) = a /\ x \in Offsets
    <3>1. n - 1 \in 0 .. l
      BY <1>1
    <3>2. a \in Offsets
      BY <1>3, <3>1
    <3> QED
      BY <1>5, <3>1, <3>2, BehindIs
  <2>2. CASE n = l + 1
    <3>1. n - 1 = l
      BY <1>1, <2>2
    <3>2. x = h
      BY <1>2, <1>5, <3>1
    <3> HIDE DEF x
    <3>3. Written(m, h, rec)[x] = rec
      BY <2>1, <3>2 DEF Written
    <3> QED
      BY <1>1, <2>1, <2>2, <3>3 DEF x
  <2>3. CASE n # l + 1
    <3>1. n \in 1 .. l /\ n \in 0 .. l
      BY <1>1, <2>3
    <3>2. At(s, n) = a + Words(s[n]) /\ At(s, n) <= w
      BY <3>1, AtFacts, AtMost DEF l, w
    <3>3. Words(s[n]) \in Nat /\ Words(s[n]) >= SampleWords
      BY <1>1, <3>1, WordsFacts
    <3>4. a < w /\ w + z < Size + a /\ a \in Nat
      <4>1. w + z < Size
        BY DEF w, z
      <4>2. w \in Nat /\ z \in Nat /\ a \in Nat /\ Size \in Nat
        BY <1>3, <1>4, <2>1, SizeNat DEF Offsets
      <4> DEFINE y == Words(s[n])
      <4>3. y \in Nat /\ y >= 3 /\ a + y <= w
        BY <3>2, <3>3 DEF SampleWords
      <4> HIDE DEF y, a
      <4> QED
        BY <4>1, <4>2, <4>3
    <3>5. (x - h) % Size = a - w + Size
      BY <1>2, <1>3, <2>1, <3>4, BehindApart
    <3>6. ~((x - h) % Size < z)
      BY <1>3, <1>4, <2>1, <3>4, <3>5, SizeNat DEF Offsets
    <3>7. x # h
      <4>1. a # w
        BY <1>3, <3>4 DEF Offsets
      <4> QED
        BY <1>2, <1>3, <2>1, <4>1, BehindApart
    <3> HIDE DEF x
    <3>8. Written(m, h, rec)[x] = m[x]
      BY <2>1, <3>6, <3>7 DEF Written, In, z
    <3> QED
      BY <1>1, <1>2, <2>1, <3>1, <3>8 DEF x
  <2> QED
    BY <2>2, <2>3
<1>8. WordsOf(u) < Size
  BY <1>5 DEF w, z
<1> QED
  BY <1>1, <1>5, <1>6, <1>7, <1>8 DEF Laid, u, z

\* The record at the tail is the oldest one, and what is left when it is passed lies
\* behind it.
LEMMA LaidPass ==
  ASSUME NEW t \in Offsets, NEW h \in Offsets, NEW m, NEW s \in Seq(Records),
         Laid(h, t, m, s), s # << >>
  PROVE  /\ m[t] = Head(s)
         /\ Laid(h, (t + Words(Head(s))) % Size, Freed(m, t, Head(s)), Tail(s))
<1> DEFINE u == Tail(s)
           l == Len(u)
           rec == Head(s)
           z == Words(rec)
           v == Behind(t, z)
<1>1. /\ u \in Seq(Records) /\ Len(s) = l + 1 /\ l \in Nat
      /\ rec = s[1] /\ rec \in Records /\ \A n \in 1 .. l : u[n] = s[n + 1]
  OBVIOUS
<1>2. WordsOf(s) < Size /\ h = Behind(t, WordsOf(s))
      /\ \A n \in 1 .. l + 1 : m[Behind(t, At(s, n - 1))] = s[n]
  BY <1>1 DEF Laid
<1>3. /\ WordsOf(s) = WordsOf(u) + z
      /\ \A n \in 0 .. l : At(s, n + 1) = At(u, n) + z
  <2>1. Len(s) - 1 = l
    BY <1>1
  <2> QED
    BY <2>1, AtTail
<1>4. z \in Nat /\ z >= SampleWords
  BY <1>1, WordsFacts
<1> HIDE DEF u, l, rec
<1>5. WordsOf(u) \in Nat /\ \A n \in 0 .. l : At(u, n) \in Nat /\ At(u, n) <= WordsOf(u)
  <2>1. l \in 0 .. l /\ WordsOf(u) = At(u, l)
    BY <1>1, AtFacts DEF l
  <2> QED
    BY <1>1, <2>1, AtFacts, AtMost DEF l
<1> HIDE DEF z
<1>6. z \in Offsets /\ WordsOf(u) + z < Size /\ WordsOf(u) \in Offsets
  BY <1>2, <1>3, <1>4, <1>5, SizeNat DEF Offsets
<1>7. \A n \in 0 .. l : At(u, n) \in Offsets /\ z + At(u, n) < Size
  BY <1>5, <1>6, SizeNat DEF Offsets
<1>8. m[t] = rec
  <2>1. 1 \in 1 .. l + 1 /\ 1 - 1 = 0
    BY <1>1
  <2>2. m[Behind(t, 0)] = rec
    BY <1>1, <1>2, <2>1, AtFacts
  <2>3. Behind(t, 0) = t
    <3>1. 0 \in Offsets /\ t + 0 = t /\ t < Size
      BY SizeNat DEF Offsets
    <3> QED
      BY <3>1, BehindIs
  <2> QED
    BY <2>2, <2>3
<1>9. v \in Offsets
  BY <1>6, BehindIs
<1>10. h = Behind(v, WordsOf(u))
  <2>1. z + WordsOf(u) = WordsOf(s) /\ z + WordsOf(u) < Size
    BY <1>2, <1>3, <1>5, <1>4
  <2> QED
    BY <1>2, <1>6, <2>1, BehindTwice
<1>11. ASSUME NEW n \in 1 .. l
       PROVE  Freed(m, t, rec)[Behind(v, At(u, n - 1))] = u[n]
  <2> DEFINE a == At(u, n - 1)
             x == Behind(t, z + a)
  <2>1. n - 1 \in 0 .. l /\ (n - 1) + 1 = n /\ n + 1 \in 1 .. l + 1 /\ (n + 1) - 1 = n
    BY <1>1
  <2>2. a \in Offsets /\ z + a < Size
    BY <1>7, <2>1
  <2>3. z + a \in Offsets /\ Behind(v, a) = x /\ x \in Offsets
    BY <1>6, <2>2, BehindTwice, BehindIs
  <2>4. At(s, n) = z + a
    <3>1. At(s, (n - 1) + 1) = a + z
      BY <1>3, <2>1
    <3> QED
      BY <1>4, <2>1, <2>2, <3>1 DEF Offsets
  <2> HIDE DEF a
  <2>5. m[x] = u[n]
    <3>1. m[Behind(t, At(s, (n + 1) - 1))] = s[n + 1]
      BY <1>2, <2>1
    <3> QED
      BY <1>1, <2>1, <2>4, <3>1
  <2>6. (x - t) % Size = z + a
    <3>1. 0 \in Offsets /\ t + 0 = t /\ t < Size
      BY SizeNat DEF Offsets
    <3>2. Behind(t, 0) = t
      BY <3>1, BehindIs
    <3> DEFINE b == z + a
    <3>3. b \in Offsets /\ ~(b < 0) /\ b - 0 = b
      BY <2>3 DEF Offsets
    <3> HIDE DEF b
    <3>4. (Behind(t, b) - Behind(t, 0)) % Size = b
      BY <3>1, <3>3, BehindApart
    <3> QED
      BY <3>2, <3>4 DEF b
  <2>7. ~((x - t) % Size < z)
    BY <1>4, <2>2, <2>6 DEF Offsets
  <2> HIDE DEF x
  <2>8. Freed(m, t, rec)[x] = m[x]
    BY <2>3, <2>7 DEF Freed, In, z
  <2> QED
    BY <2>3, <2>5, <2>8 DEF a
<1>12. WordsOf(u) < Size
  BY <1>4, <1>5, <1>6, SizeNat
<1>13. Laid(h, v, Freed(m, t, rec), u)
  BY <1>10, <1>11, <1>12 DEF Laid, l
<1> QED
  BY <1>8, <1>13 DEF v, Behind, u, rec, z

-----------------------------------------------------------------------------
(***************************************************************************)
(* The inductive invariant of the rings                                    *)
(***************************************************************************)

\* The records of every ring lie in it as they were written.
RingsLaid == \A r \in Rings : Laid(head[r], tail[r], mem[r], unread[r])

\* The head the thread knows is behind one of the records it has not passed, or at
\* the tail.
KnowsEnd ==
  Sampling => \E n \in 0 .. Len(unread[turn]) :
                seen = Behind(tail[turn], At(unread[turn], n))

\* The sample that filled a batch is at the tail until the batch is done.
AtSample == pc = "batch" => seen # tail[turn]

\* When the events are closed the kernel starts at the beginning.
ClosedEmpty == pc = "closed" => \A r \in Rings : tail[r] = 0 /\ unread[r] = << >>

\* Nothing but that sample was counted and not passed.
CountedAtTail == \A r \in Rings : counted[r] <=> r = turn /\ pc = "batch"

RingTypes ==
  /\ head \in [Rings -> Offsets]
  /\ tail \in [Rings -> Offsets]
  /\ mem \in [Rings -> [Offsets -> Records \cup {"body", "free"}]]
  /\ lost \in [Rings -> BOOLEAN]
  /\ unread \in [Rings -> Seq(Records)]
  /\ counted \in [Rings -> BOOLEAN]

StepTypes ==
  /\ pc \in {"closed", "test", "batch", "exited"}
  /\ turn \in Rings
  /\ seen \in Offsets

BatchTypes ==
  /\ counts \in [Types -> [Pages -> Nat]]
  /\ numInBatch \in [Types -> Nat]
  /\ \A j \in Types : numInBatch[j] = SumFunction(counts[j])
  /\ collected \in 0 .. BatchSize - 1
  /\ collected = numInBatch["local"] + numInBatch["remote"]

DropTypes == localFreq \in Nat /\ drop \in BOOLEAN

RingInv ==
  /\ RingTypes /\ StepTypes /\ BatchTypes /\ DropTypes
  /\ RingsLaid /\ KnowsEnd /\ AtSample /\ ClosedEmpty /\ CountedAtTail

LEMMA RingInvTypes == RingInv => RingTypeOK
BY DEF RingInv, RingTypes, StepTypes, BatchTypes, DropTypes, RingTypeOK

\* A ring with nothing in it.
LEMMA LaidEmpty ==
  ASSUME NEW m
  PROVE  /\ 0 \in Offsets
         /\ << >> \in Seq(Records)
         /\ Laid(0, 0, m, << >>)
<1>1. 0 \in Offsets /\ 0 + 0 = 0 /\ 0 < Size
  BY SizeNat DEF Offsets
<1>2. Behind(0, 0) = 0
  BY <1>1, BehindIs
<1>3. << >> \in Seq(Records) /\ Len(<< >>) = 0 /\ 1 .. 0 = {}
  OBVIOUS
<1> QED
  BY <1>1, <1>2, <1>3, NoRecords DEF Laid

LEMMA NoWordsType == NoWords \in [Offsets -> Records \cup {"body", "free"}]
BY DEF NoWords

LEMMA FirstRingType == FirstRing \in Rings
BY RingAssumption DEF FirstRing, Rings, Types

\* Counting one sample of a page.
LEMMA SumCount ==
  ASSUME NEW c \in [Pages -> Nat], NEW p \in Pages
  PROVE  SumFunction([c EXCEPT ![p] = @ + 1]) = SumFunction(c) + 1
<1> DEFINE e == [c EXCEPT ![p] = @ + 1]
<1>1. IsFiniteSet(Pages) /\ IsFiniteSet(Pages \ {p})
  BY RingAssumption, FS_RemoveElement
<1>2. e \in [Pages -> Nat] /\ e[p] = c[p] + 1 /\ c[p] \in Nat
  OBVIOUS
<1>3. IntValued(c, Pages) /\ IntValued(e, Pages) /\ IntValued(c, Pages \ {p})
  BY <1>2 DEF IntValued
<1>4. Agree(c, e, Pages \ {p})
  BY DEF Agree
<1>5. /\ SumFunction(c) = SumFunctionOnSet(c, Pages)
      /\ SumFunction(e) = SumFunctionOnSet(e, Pages)
  <2>1. DOMAIN c = Pages /\ DOMAIN e = Pages
    OBVIOUS
  <2> HIDE DEF e
  <2> QED
    BY <2>1, Zenon DEF SumFunction
<1> HIDE DEF e
<1>6. /\ SumFunctionOnSet(c, Pages) = c[p] + SumFunctionOnSet(c, Pages \ {p})
      /\ SumFunctionOnSet(e, Pages) = e[p] + SumFunctionOnSet(e, Pages \ {p})
  BY <1>1, <1>3, SumOnWithout
<1>7. /\ SumFunctionOnSet(c, Pages \ {p}) = SumFunctionOnSet(e, Pages \ {p})
      /\ SumFunctionOnSet(c, Pages \ {p}) \in Int
  BY <1>1, <1>3, <1>4, SumOnAgree, SumOnType
<1>8. SumFunctionOnSet(e, Pages) = SumFunctionOnSet(c, Pages) + 1
  BY <1>2, <1>6, <1>7
<1> QED
  BY <1>5, <1>8 DEF e

LEMMA SumNone == SumFunction([p \in Pages |-> 0]) = 0
<1> DEFINE c == [p \in Pages |-> 0]
<1>1. DOMAIN c = Pages /\ \A p \in Pages : c[p] = 0
  OBVIOUS
<1> HIDE DEF c
<1>2. SumFunctionOnSet(c, Pages) = 0
  BY <1>1, SumOnZero, RingAssumption
<1>3. SumFunction(c) = SumFunctionOnSet(c, Pages)
  BY <1>1, Zenon DEF SumFunction
<1> QED
  BY <1>2, <1>3 DEF c

LEMMA NoCountsTypes ==
  /\ NoCounts \in [Types -> [Pages -> Nat]]
  /\ NoneInBatch \in [Types -> Nat]
  /\ \A j \in Types : NoneInBatch[j] = 0 /\ SumFunction(NoCounts[j]) = 0
  /\ 0 \in 0 .. BatchSize - 1
  /\ 0 = NoneInBatch["local"] + NoneInBatch["remote"]
<1>1. /\ NoCounts \in [Types -> [Pages -> Nat]]
      /\ NoneInBatch \in [Types -> Nat]
      /\ \A j \in Types : NoneInBatch[j] = 0
      /\ "local" \in Types /\ "remote" \in Types
  BY DEF NoCounts, NoneInBatch, Types
<1>2. \A j \in Types : SumFunction(NoCounts[j]) = 0
  <2> TAKE j \in Types
  <2>1. NoCounts[j] = [p \in Pages |-> 0]
    BY DEF NoCounts
  <2> QED
    BY <2>1, SumNone
<1>3. 0 \in 0 .. BatchSize - 1
  BY RingAssumption
<1> QED
  BY <1>1, <1>2, <1>3

LEMMA RingsInit == RingInit => RingInv
<1> SUFFICES ASSUME RingInit PROVE RingInv
  OBVIOUS
<1>1. RingTypes
  BY LaidEmpty, NoWordsType DEF RingInit, RingTypes
<1>2. StepTypes
  BY LaidEmpty, FirstRingType DEF RingInit, StepTypes
<1>3. BatchTypes
  BY NoCountsTypes DEF RingInit, BatchTypes
<1>4. DropTypes
  BY RingAssumption DEF RingInit, DropTypes
<1>5. RingsLaid
  BY LaidEmpty DEF RingInit, RingsLaid
<1>6. KnowsEnd /\ AtSample /\ ClosedEmpty /\ CountedAtTail
  BY DEF RingInit, KnowsEnd, AtSample, ClosedEmpty, CountedAtTail, Sampling
<1> QED
  BY <1>1, <1>2, <1>3, <1>4, <1>5, <1>6 DEF RingInv

-----------------------------------------------------------------------------
(***************************************************************************)
(* The kernel                                                              *)
(***************************************************************************)

LEMMA EventRecord ==
  ASSUME NEW r \in Rings, NEW rec \in Events[r[2]]
  PROVE  rec \in Records /\ "lost" \in Records
<1>1. r[2] \in Types
  BY DEF Rings
<1> QED
  BY <1>1, RingAssumption DEF Records

LEMMA WrittenType ==
  ASSUME NEW m \in [Offsets -> Records \cup {"body", "free"}], NEW at, NEW rec \in Records
  PROVE  /\ Written(m, at, rec) \in [Offsets -> Records \cup {"body", "free"}]
         /\ Freed(m, at, rec) \in [Offsets -> Records \cup {"body", "free"}]
BY DEF Written, Freed

\* What the kernel writes at once, with what it says of lost records before it.
PutAll(r, rec) ==
  IF lost[r]
    THEN Written(Written(mem[r], head[r], "lost"), (head[r] + LostWords) % Size, rec)
    ELSE Written(mem[r], head[r], rec)

LEMMA LaidOutput ==
  ASSUME RingTypes, RingsLaid, NEW r \in Rings, NEW rec \in Events[r[2]],
         Needs(r, rec) <= Space(r)
  PROVE  LET h == (head[r] + Needs(r, rec)) % Size
             s == unread[r] \o Output(r, rec)
         IN  /\ h \in Offsets
             /\ PutAll(r, rec) \in [Offsets -> Records \cup {"body", "free"}]
             /\ s \in Seq(Records)
             /\ Laid(h, tail[r], PutAll(r, rec), s)
             /\ Len(s) > Len(unread[r])
             /\ \A n \in 0 .. Len(unread[r]) : At(s, n) = At(unread[r], n)
<1> DEFINE h == head[r]
           t == tail[r]
           m == mem[r]
           u == unread[r]
           w == WordsOf(u)
           z == Words(rec)
<1>1. /\ h \in Offsets /\ t \in Offsets /\ u \in Seq(Records)
      /\ m \in [Offsets -> Records \cup {"body", "free"}]
      /\ rec \in Records /\ "lost" \in Records
  BY EventRecord DEF RingTypes
<1>2. Laid(h, t, m, u)
  BY DEF RingsLaid
<1>3. w \in Offsets /\ h = Behind(t, w) /\ Space(r) = Size - 1 - w
  <2>1. w \in Offsets /\ h = Behind(t, w)
    BY <1>1, <1>2, LaidOffsets DEF Laid
  <2>2. (t - Behind(t, w) - 1) % Size = Size - 1 - w
    BY <1>1, <2>1, SpaceIs
  <2> QED
    BY <2>1, <2>2 DEF Space
<1>4. z \in Nat
  BY <1>1, WordsFacts
<1>5. Words("lost") = LostWords /\ LostWords \in Nat
  BY DEF Words, LostWords
<1>6. CASE ~lost[r]
  <2>1. /\ Needs(r, rec) = z /\ Output(r, rec) = <<rec>>
        /\ PutAll(r, rec) = Written(m, h, rec)
    BY <1>6 DEF Needs, Output, PutAll
  <2> HIDE DEF h, t, m, u, w, z
  <2>2. u \o <<rec>> = Append(u, rec) /\ Append(u, rec) \in Seq(Records)
        /\ Len(Append(u, rec)) = Len(u) + 1 /\ Len(u) \in Nat
    BY <1>1
  <2>3. w + z < Size /\ w \in Nat
    BY <1>3, <1>4, <2>1, SizeNat DEF Offsets
  <2>4. Laid((h + z) % Size, t, Written(m, h, rec), Append(u, rec))
    BY <1>1, <1>2, <2>3, LaidPut DEF w, z
  <2>5. (h + z) % Size \in Offsets
    <3>1. z \in Offsets
      BY <1>4, <2>3, SizeNat DEF Offsets
    <3> QED
      BY <1>1, <3>1, BehindIs DEF Behind
  <2>6. \A n \in 0 .. Len(u) : At(Append(u, rec), n) = At(u, n)
    BY <1>1, AtAppend
  <2>7. Written(m, h, rec) \in [Offsets -> Records \cup {"body", "free"}]
    BY <1>1, WrittenType
  <2>8. Len(Append(u, rec)) > Len(u)
    BY <2>2
  <2> QED
    BY <2>1, <2>2, <2>4, <2>5, <2>6, <2>7, <2>8 DEF h, t, m, u
<1>7. CASE lost[r]
  <2> DEFINE g == (h + LostWords) % Size
             l == Written(m, h, "lost")
             v == Append(u, "lost")
  <2>1. /\ Needs(r, rec) = LostWords + z /\ Output(r, rec) = <<"lost", rec>>
        /\ PutAll(r, rec) = Written(l, g, rec)
    BY <1>7 DEF Needs, Output, PutAll
  <2> HIDE DEF h, t, m, u, w, z, l
  <2>2. /\ v \in Seq(Records) /\ Len(v) = Len(u) + 1 /\ Len(u) \in Nat
        /\ u \o <<"lost", rec>> = Append(v, rec) /\ Append(v, rec) \in Seq(Records)
        /\ Len(Append(v, rec)) = Len(u) + 2
    BY <1>1
  <2>3. /\ w + LostWords < Size /\ (w + LostWords) + z < Size /\ w \in Nat
        /\ LostWords \in Offsets /\ z \in Offsets /\ LostWords + z < Size
        /\ LostWords + z \in Offsets
    BY <1>3, <1>4, <1>5, <2>1, SizeNat DEF Offsets
  <2>4. Laid(g, t, l, v)
    BY <1>1, <1>2, <1>5, <2>3, LaidPut DEF w, l
  <2>5. WordsOf(v) = w + LostWords
    BY <1>1, <1>5, AtAppend DEF w
  <2>6. g = Behind(h, LostWords) /\ g \in Offsets
    BY <1>1, <2>3, BehindIs DEF Behind
  <2>7. (g + z) % Size = (h + (LostWords + z)) % Size /\ (g + z) % Size \in Offsets
    <3>1. Behind(Behind(h, LostWords), z) = Behind(h, LostWords + z)
      BY <1>1, <2>3, BehindTwice
    <3>2. Behind(h, LostWords + z) \in Offsets
      BY <1>1, <2>3, BehindIs
    <3> HIDE DEF g
    <3>3. Behind(g, z) = Behind(h, LostWords + z)
      BY <2>6, <3>1
    <3> QED
      BY <3>2, <3>3 DEF Behind
  <2> HIDE DEF g, v
  <2>8. Laid((g + z) % Size, t, Written(l, g, rec), Append(v, rec))
    BY <1>1, <2>2, <2>3, <2>4, <2>5, <2>6, LaidPut DEF z
  <2>9. \A n \in 0 .. Len(u) : At(Append(v, rec), n) = At(u, n)
    <3> TAKE n \in 0 .. Len(u)
    <3>1. At(v, n) = At(u, n)
      BY <1>1, AtAppend DEF v
    <3>2. n \in 0 .. Len(v)
      BY <2>2
    <3>3. At(Append(v, rec), n) = At(v, n)
      BY <1>1, <2>2, <3>2, AtAppend
    <3> QED
      BY <3>1, <3>3
  <2>10. Written(l, g, rec) \in [Offsets -> Records \cup {"body", "free"}]
    BY <1>1, WrittenType DEF l
  <2>11. Len(Append(v, rec)) > Len(u)
    BY <2>2
  <2> QED
    BY <2>1, <2>2, <2>7, <2>8, <2>9, <2>10, <2>11 DEF h, t, m, u
<1> QED
  BY <1>6, <1>7

LEMMA KernelWritesInv ==
  ASSUME RingInv, NEW r \in Rings, NEW rec \in Events[r[2]], KernelWrites(r, rec)
  PROVE  RingInv'
<1> DEFINE h == (head[r] + Needs(r, rec)) % Size
           m == PutAll(r, rec)
           s == unread[r] \o Output(r, rec)
<1>1. /\ RingTypes /\ StepTypes /\ BatchTypes /\ DropTypes /\ RingsLaid
      /\ KnowsEnd /\ AtSample /\ ClosedEmpty /\ CountedAtTail
  BY DEF RingInv
<1>2. /\ Sampling
      /\ UNCHANGED <<tail, counted, pc, turn, seen, batchVars, dropVars>>
      /\ lost' = [lost EXCEPT ![r] = FALSE]
      /\ Needs(r, rec) <= Space(r)
  BY DEF KernelWrites
<1>3. /\ head' = [head EXCEPT ![r] = h]
      /\ mem' = [mem EXCEPT ![r] = m]
      /\ unread' = [unread EXCEPT ![r] = s]
  BY DEF KernelWrites, PutAll
<1>4. /\ h \in Offsets
      /\ m \in [Offsets -> Records \cup {"body", "free"}]
      /\ s \in Seq(Records)
      /\ Laid(h, tail[r], m, s)
      /\ Len(s) > Len(unread[r])
      /\ \A n \in 0 .. Len(unread[r]) : At(s, n) = At(unread[r], n)
  BY <1>1, <1>2, LaidOutput
<1> HIDE DEF h, m, s
<1>5. RingTypes'
  BY <1>1, <1>2, <1>3, <1>4 DEF RingTypes
<1>6. StepTypes' /\ DropTypes'
  BY <1>1, <1>2 DEF StepTypes, DropTypes, dropVars
<1>7. BatchTypes'
  BY <1>1, <1>2 DEF BatchTypes, batchVars
<1>8. RingsLaid'
  <2> SUFFICES ASSUME NEW q \in Rings
               PROVE  Laid(head[q], tail[q], mem[q], unread[q])'
    BY DEF RingsLaid
  <2>1. CASE q = r
    BY <2>1, <1>1, <1>2, <1>3, <1>4 DEF RingTypes, Laid
  <2>2. CASE q # r
    <3>1. /\ head'[q] = head[q] /\ tail'[q] = tail[q] /\ mem'[q] = mem[q]
          /\ unread'[q] = unread[q]
      BY <2>2, <1>1, <1>2, <1>3 DEF RingTypes
    <3> QED
      BY <1>1, <3>1 DEF RingsLaid, Laid
  <2> QED
    BY <2>1, <2>2
<1>9. KnowsEnd'
  <2>1. PICK n \in 0 .. Len(unread[turn]) : seen = Behind(tail[turn], At(unread[turn], n))
    BY <1>1, <1>2 DEF KnowsEnd
  <2>2. turn \in Rings /\ unread[turn] \in Seq(Records) /\ unread'[turn] \in Seq(Records)
    BY <1>1, <1>5, <1>2 DEF StepTypes, RingTypes
  <2>3. n \in 0 .. Len(unread'[turn]) /\ At(unread'[turn], n) = At(unread[turn], n)
    <3>1. CASE turn = r
      <4>1. unread'[turn] = s
        BY <3>1, <1>1, <1>3 DEF RingTypes
      <4>2. Len(unread[turn]) \in Nat /\ Len(s) \in Nat
        BY <2>2, <1>4
      <4> QED
        BY <3>1, <4>1, <4>2, <1>4
    <3>2. CASE turn # r
      <4>1. unread'[turn] = unread[turn]
        BY <3>2, <2>2, <1>1, <1>3 DEF RingTypes
      <4> QED
        BY <4>1
    <3> QED
      BY <3>1, <3>2
  <2>4. seen' = seen /\ turn' = turn /\ tail' = tail
    BY <1>2
  <2> QED
    BY <2>1, <2>3, <2>4 DEF KnowsEnd
<1>10. AtSample' /\ CountedAtTail'
  BY <1>1, <1>2 DEF AtSample, CountedAtTail
<1>11. ClosedEmpty'
  BY <1>2 DEF ClosedEmpty, Sampling
<1> QED
  BY <1>5, <1>6, <1>7, <1>8, <1>9, <1>10, <1>11 DEF RingInv

LEMMA KernelLosesInv ==
  ASSUME RingInv, NEW r \in Rings, NEW rec \in Events[r[2]], KernelLoses(r, rec)
  PROVE  RingInv'
<1>1. /\ RingTypes /\ StepTypes /\ BatchTypes /\ DropTypes /\ RingsLaid
      /\ KnowsEnd /\ AtSample /\ ClosedEmpty /\ CountedAtTail
  BY DEF RingInv
<1>2. /\ UNCHANGED <<head, tail, mem, unread, counted, pc, turn, seen, batchVars, dropVars>>
      /\ lost' = [lost EXCEPT ![r] = TRUE]
  BY DEF KernelLoses
<1>3. RingTypes' /\ StepTypes' /\ DropTypes'
  BY <1>1, <1>2 DEF RingTypes, StepTypes, DropTypes, dropVars
<1>4. BatchTypes'
  BY <1>1, <1>2 DEF BatchTypes, batchVars
<1>5. RingsLaid' /\ KnowsEnd'
  BY <1>1, <1>2 DEF RingsLaid, Laid, KnowsEnd, Sampling
<1>6. AtSample' /\ ClosedEmpty' /\ CountedAtTail'
  BY <1>1, <1>2 DEF AtSample, ClosedEmpty, CountedAtTail
<1> QED
  BY <1>3, <1>4, <1>5, <1>6 DEF RingInv

-----------------------------------------------------------------------------
(***************************************************************************)
(* Opening and closing                                                     *)
(***************************************************************************)

\* The rings that are closed start again, the others stay as they are.
LEMMA CloseRings ==
  ASSUME RingTypes, RingsLaid, NEW rings \in SUBSET Rings, Close(rings)
  PROVE  /\ RingTypes' /\ RingsLaid'
         /\ \A r \in rings : tail'[r] = 0 /\ unread'[r] = << >> /\ ~counted'[r]
         /\ \A r \in Rings : counted'[r] => counted[r]
<1>1. RingTypes'
  BY LaidEmpty, NoWordsType DEF RingTypes, Close
<1>2. RingsLaid'
  <2> SUFFICES ASSUME NEW r \in Rings
               PROVE  Laid(head[r], tail[r], mem[r], unread[r])'
    BY DEF RingsLaid
  <2>1. CASE r \in rings
    <3>1. head'[r] = 0 /\ tail'[r] = 0 /\ unread'[r] = << >>
      BY <2>1 DEF Close
    <3> DEFINE m == mem'[r]
    <3>2. Laid(0, 0, m, << >>)
      BY LaidEmpty
    <3> QED
      BY <3>1, <3>2 DEF Laid
  <2>2. CASE r \notin rings
    <3>1. /\ head'[r] = head[r] /\ tail'[r] = tail[r] /\ mem'[r] = mem[r]
          /\ unread'[r] = unread[r]
      BY <2>2 DEF Close
    <3> QED
      BY <3>1 DEF RingsLaid, Laid
  <2> QED
    BY <2>1, <2>2
<1>3. /\ \A r \in rings : tail'[r] = 0 /\ unread'[r] = << >> /\ ~counted'[r]
      /\ \A r \in Rings : counted'[r] => counted[r]
  BY DEF Close
<1> QED
  BY <1>1, <1>2, <1>3

\* All events are closed, in monitor mode or at the end of the process.
LEMMA CloseAllInv ==
  ASSUME RingInv, Close(Rings), pc' \in {"closed", "exited"},
         UNCHANGED <<turn, seen, batchVars, dropVars>>
  PROVE  RingInv'
<1>1. RingTypes /\ StepTypes /\ BatchTypes /\ DropTypes /\ RingsLaid
  BY DEF RingInv
<1>2. /\ RingTypes' /\ RingsLaid'
      /\ \A r \in Rings : tail'[r] = 0 /\ unread'[r] = << >> /\ ~counted'[r]
  BY <1>1, CloseRings
<1>3. StepTypes' /\ DropTypes'
  BY <1>1 DEF StepTypes, DropTypes, dropVars
<1>4. BatchTypes'
  BY <1>1 DEF BatchTypes, batchVars
<1>5. KnowsEnd' /\ AtSample' /\ ClosedEmpty' /\ CountedAtTail'
  BY <1>2 DEF KnowsEnd, AtSample, ClosedEmpty, CountedAtTail, Sampling
<1> QED
  BY <1>2, <1>3, <1>4, <1>5 DEF RingInv

\* The end of what is unread in a ring.
LEMMA HeadKnown ==
  ASSUME NEW t, NEW h, NEW m, NEW s \in Seq(Records), Laid(h, t, m, s)
  PROVE  Len(s) \in 0 .. Len(s) /\ h = Behind(t, At(s, Len(s)))
BY AtFacts DEF Laid

LEMMA OpenAllInv ==
  ASSUME RingInv, OpenAll
  PROVE  RingInv'
<1>1. /\ RingTypes /\ StepTypes /\ BatchTypes /\ DropTypes /\ RingsLaid
      /\ ClosedEmpty /\ CountedAtTail
  BY DEF RingInv
<1>2. /\ pc = "closed" /\ pc' = "test" /\ turn' = FirstRing /\ seen' = 0
      /\ UNCHANGED <<ringVars, batchVars, dropVars>>
  BY DEF OpenAll
<1>3. UNCHANGED <<head, tail, mem, lost, unread, counted>>
  BY <1>2 DEF ringVars
<1>4. RingTypes' /\ StepTypes' /\ DropTypes'
  BY <1>1, <1>2, <1>3, LaidEmpty, FirstRingType DEF RingTypes, StepTypes, DropTypes, dropVars
<1>5. BatchTypes'
  BY <1>1, <1>2 DEF BatchTypes, batchVars
<1>6. RingsLaid'
  BY <1>1, <1>3 DEF RingsLaid, Laid
<1>7. KnowsEnd'
  <2>1. tail[FirstRing] = 0 /\ unread[FirstRing] = << >>
    BY <1>1, <1>2, FirstRingType DEF ClosedEmpty
  <2>2. 0 = Behind(0, At(<< >>, 0)) /\ 0 \in 0 .. Len(<< >>)
    <3>1. Len(<< >>) = 0 /\ << >> \in Seq(Records)
      OBVIOUS
    <3>2. 0 \in Offsets /\ 0 + 0 = 0 /\ 0 < Size
      BY SizeNat DEF Offsets
    <3>3. Behind(0, 0) = 0
      BY <3>2, BehindIs
    <3>4. At(<< >>, 0) = 0
      BY <3>1, AtFacts
    <3> QED
      BY <3>1, <3>3, <3>4
  <2> QED
    BY <1>2, <1>3, <2>1, <2>2 DEF KnowsEnd
<1>8. AtSample' /\ ClosedEmpty' /\ CountedAtTail'
  BY <1>1, <1>2, <1>3 DEF AtSample, ClosedEmpty, CountedAtTail
<1> QED
  BY <1>4, <1>5, <1>6, <1>7, <1>8 DEF RingInv

-----------------------------------------------------------------------------
(***************************************************************************)
(* The thread                                                              *)
(***************************************************************************)

\* A place in a ring that the thread can know of and is not its tail is behind a
\* record to read.
LEMMA RecordBehind ==
  ASSUME RingTypes, RingsLaid, turn \in Rings, NEW n \in 0 .. Len(unread[turn]),
         Behind(tail[turn], At(unread[turn], n)) # tail[turn]
  PROVE  n \in 1 .. Len(unread[turn]) /\ unread[turn] # << >>
<1>1. unread[turn] \in Seq(Records) /\ tail[turn] \in Offsets
  BY DEF RingTypes
<1>2. At(unread[turn], 0) = 0
  BY <1>1, AtFacts
<1>3. Behind(tail[turn], 0) = tail[turn]
  <2> PICK t \in Offsets : t = tail[turn]
    BY <1>1
  <2>1. 0 \in Offsets /\ t + 0 = t /\ t < Size
    BY SizeNat DEF Offsets
  <2>2. Behind(t, 0) = t
    BY <2>1, BehindIs
  <2> QED
    BY <2>2
<1>4. n # 0
  BY <1>2, <1>3
<1>5. Len(unread[turn]) \in Nat /\ (unread[turn] = << >> => Len(unread[turn]) = 0)
  BY <1>1
<1> QED
  BY <1>4, <1>5

LEMMA HeadInRing ==
  ASSUME RingTypes, RingsLaid, turn \in Rings
  PROVE  \E n \in 0 .. Len(unread[turn]) :
           head[turn] = Behind(tail[turn], At(unread[turn], n))
<1>1. unread[turn] \in Seq(Records) /\ Laid(head[turn], tail[turn], mem[turn], unread[turn])
  BY DEF RingTypes, RingsLaid
<1> QED
  BY <1>1, HeadKnown

\* With what the thread finds visible it is at a record and not beyond the last.
LEMMA RecordKnown ==
  ASSUME RingInv, NEW h, HasRecord(h)
  PROVE  /\ h \in Offsets /\ unread[turn] # << >>
         /\ \E n \in 1 .. Len(unread[turn]) : h = Behind(tail[turn], At(unread[turn], n))
<1>1. RingTypes /\ RingsLaid /\ turn \in Rings /\ seen \in Offsets /\ KnowsEnd
  BY DEF RingInv, StepTypes
<1>2. h \in {seen, head[turn]} /\ pc = "test" /\ h # tail[turn]
  BY DEF HasRecord, Visible
<1>3. h \in Offsets
  BY <1>1, <1>2 DEF RingTypes
<1>4. PICK n \in 0 .. Len(unread[turn]) : h = Behind(tail[turn], At(unread[turn], n))
  BY <1>1, <1>2, HeadInRing DEF KnowsEnd, Sampling
<1>5. n \in 1 .. Len(unread[turn]) /\ unread[turn] # << >>
  BY <1>1, <1>2, <1>4, RecordBehind
<1> QED
  BY <1>3, <1>4, <1>5

LEMMA BatchKnown ==
  ASSUME RingInv, pc = "batch"
  PROVE  /\ unread[turn] # << >>
         /\ \E n \in 1 .. Len(unread[turn]) : seen = Behind(tail[turn], At(unread[turn], n))
<1>1. RingTypes /\ RingsLaid /\ turn \in Rings /\ KnowsEnd /\ seen # tail[turn]
  BY DEF RingInv, StepTypes, AtSample
<1>2. PICK n \in 0 .. Len(unread[turn]) : seen = Behind(tail[turn], At(unread[turn], n))
  BY <1>1 DEF KnowsEnd, Sampling
<1>3. n \in 1 .. Len(unread[turn]) /\ unread[turn] # << >>
  BY <1>1, <1>2, RecordBehind
<1> QED
  BY <1>2, <1>3

\* The thread passes the oldest record, and what it knows of the head still is
\* behind a record, or at the new tail.
LEMMA AdvanceRings ==
  ASSUME RingTypes, RingsLaid, turn \in Rings, CountedAtTail, unread[turn] # << >>, Advance
  PROVE  /\ RingTypes' /\ RingsLaid'
         /\ Header(turn) = Head(unread[turn])
         /\ turn' = turn
         /\ \A r \in Rings : ~counted'[r]
         /\ \A n \in 1 .. Len(unread[turn]) :
              /\ n - 1 \in 0 .. Len(unread'[turn])
              /\ Behind(tail'[turn], At(unread'[turn], n - 1))
                   = Behind(tail[turn], At(unread[turn], n))
<1> DEFINE h == head[turn]
           t == tail[turn]
           m == mem[turn]
           s == unread[turn]
           z == Words(Head(s))
           v == Behind(t, z)
<1>1. /\ h \in Offsets /\ t \in Offsets /\ s \in Seq(Records) /\ s # << >>
      /\ m \in [Offsets -> Records \cup {"body", "free"}]
      /\ Laid(h, t, m, s)
  BY DEF RingTypes, RingsLaid
<1> HIDE DEF h, t, m, s
<1>2. /\ Head(s) \in Records /\ Tail(s) \in Seq(Records) /\ Len(Tail(s)) = Len(s) - 1
      /\ Len(s) \in Nat
  BY <1>1
<1>3. m[t] = Head(s) /\ Laid(h, v, Freed(m, t, Head(s)), Tail(s))
  BY <1>1, LaidPass DEF Behind
<1>4. Header(turn) = Head(s)
  BY <1>3 DEF Header, m, t
<1>5. /\ WordsOf(s) < Size /\ WordsOf(s) = WordsOf(Tail(s)) + z
      /\ \A n \in 0 .. Len(s) - 1 : At(s, n + 1) = At(Tail(s), n) + z
  BY <1>1, AtTail DEF Laid
<1>6. z \in Offsets /\ WordsOf(Tail(s)) < Size
  <2>1. z \in Nat
    BY <1>2, WordsFacts
  <2>2. WordsOf(Tail(s)) \in Nat
    <3>1. Len(Tail(s)) \in 0 .. Len(Tail(s))
      BY <1>2
    <3> QED
      BY <1>2, <3>1, AtFacts
  <2> HIDE DEF z
  <2> QED
    BY <1>5, <2>1, <2>2, SizeNat DEF Offsets
<1>7. v \in Offsets
  BY <1>1, <1>6, BehindIs
<1>8. /\ mem' = [mem EXCEPT ![turn] = Freed(m, t, Head(s))]
      /\ tail' = [tail EXCEPT ![turn] = v]
      /\ unread' = [unread EXCEPT ![turn] = Tail(s)]
      /\ counted' = [counted EXCEPT ![turn] = FALSE]
      /\ UNCHANGED <<head, lost, turn>>
  BY <1>4 DEF Advance, StepOfRecord, Behind, m, t, s
<1>9. Freed(m, t, Head(s)) \in [Offsets -> Records \cup {"body", "free"}]
  BY <1>1, <1>2, WrittenType
<1> HIDE DEF v, z
<1>10. RingTypes'
  BY <1>2, <1>7, <1>8, <1>9 DEF RingTypes
<1>11. RingsLaid'
  <2> SUFFICES ASSUME NEW q \in Rings
               PROVE  Laid(head[q], tail[q], mem[q], unread[q])'
    BY DEF RingsLaid
  <2>1. CASE q = turn
    BY <2>1, <1>3, <1>8 DEF RingTypes, Laid, h
  <2>2. CASE q # turn
    <3>1. /\ head'[q] = head[q] /\ tail'[q] = tail[q] /\ mem'[q] = mem[q]
          /\ unread'[q] = unread[q]
      BY <2>2, <1>8 DEF RingTypes
    <3> QED
      BY <3>1 DEF RingsLaid, Laid
  <2> QED
    BY <2>1, <2>2
<1>12. \A r \in Rings : ~counted'[r]
  BY <1>8 DEF CountedAtTail, RingTypes
<1>13. tail'[turn] = v /\ unread'[turn] = Tail(s)
  BY <1>8 DEF RingTypes
<1>14. ASSUME NEW n \in 1 .. Len(s)
       PROVE  /\ n - 1 \in 0 .. Len(Tail(s))
              /\ Behind(v, At(Tail(s), n - 1)) = Behind(t, At(s, n))
  <2> PICK k \in 0 .. Len(s) - 1 : k = n - 1 /\ k + 1 = n
    <3>1. n - 1 \in 0 .. Len(s) - 1 /\ (n - 1) + 1 = n
      BY <1>2
    <3> QED
      BY <3>1
  <2>1. At(s, k + 1) = At(Tail(s), k) + z /\ k \in 0 .. Len(Tail(s))
    BY <1>2, <1>5
  <2>2. At(Tail(s), k) \in Offsets
    BY <1>2, <1>6, <2>1, LaidOffsets
  <2>3. At(Tail(s), k) <= WordsOf(Tail(s)) /\ WordsOf(Tail(s)) \in Offsets
    BY <1>2, <1>6, <2>1, AtMost, LaidOffsets
  <2> PICK a \in Offsets : a = At(Tail(s), k)
    BY <2>2
  <2>4. z + a < Size /\ z + a = a + z
    BY <1>5, <1>6, <2>3, SizeNat DEF Offsets
  <2>5. Behind(Behind(t, z), a) = Behind(t, z + a)
    BY <1>1, <1>6, <2>4, BehindTwice
  <2>6. Behind(v, a) = Behind(t, At(s, n))
    BY <2>1, <2>4, <2>5 DEF v
  <2> QED
    BY <2>1, <2>6
<1> QED
  BY <1>4, <1>8, <1>10, <1>11, <1>12, <1>13, <1>14 DEF s, t

\* The sample that is counted is one more of its page, of its event, and in all.
LEMMA CountSampleInv ==
  ASSUME RingInv, NEW h, CountSample(h)
  PROVE  RingInv'
<1> DEFINE p == Header(turn)
           j == turn[2]
<1>1. /\ RingTypes /\ StepTypes /\ BatchTypes /\ DropTypes /\ RingsLaid /\ CountedAtTail
  BY DEF RingInv
<1>2. /\ HasRecord(h) /\ IsSample(turn) /\ ~Fills
      /\ counts' = [counts EXCEPT ![j][p] = @ + 1]
      /\ numInBatch' = [numInBatch EXCEPT ![j] = @ + 1]
      /\ collected' = collected + 1
      /\ Advance
      /\ UNCHANGED <<pc, dropVars>>
  BY DEF CountSample
<1>3. /\ h \in Offsets /\ unread[turn] # << >>
      /\ \E n \in 1 .. Len(unread[turn]) : h = Behind(tail[turn], At(unread[turn], n))
  BY <1>2, RecordKnown
<1>4. pc = "test" /\ seen' = h /\ turn \in Rings
  BY <1>1, <1>2 DEF HasRecord, StepTypes
<1>5. /\ RingTypes' /\ RingsLaid' /\ turn' = turn
      /\ \A r \in Rings : ~counted'[r]
      /\ \A n \in 1 .. Len(unread[turn]) :
           /\ n - 1 \in 0 .. Len(unread'[turn])
           /\ Behind(tail'[turn], At(unread'[turn], n - 1))
                = Behind(tail[turn], At(unread[turn], n))
  BY <1>1, <1>2, <1>3, <1>4, AdvanceRings
<1>6. j \in Types /\ p \in Pages /\ Types = {"local", "remote"}
  BY <1>2, <1>4 DEF Rings, IsSample, Types
<1>7. StepTypes' /\ DropTypes'
  BY <1>1, <1>2, <1>3, <1>4, <1>5 DEF StepTypes, DropTypes, dropVars
<1>8. BatchTypes'
  <2> HIDE DEF p, j
  <2> DEFINE c == counts[j]
  <2>1. c \in [Pages -> Nat] /\ counts' = [counts EXCEPT ![j] = [c EXCEPT ![p] = @ + 1]]
    BY <1>1, <1>2, <1>6 DEF BatchTypes
  <2>2. SumFunction([c EXCEPT ![p] = @ + 1]) = SumFunction(c) + 1
    BY <1>6, <2>1, SumCount
  <2> PICK e \in [Pages -> Nat] : e = [c EXCEPT ![p] = @ + 1]
    <3> HIDE DEF c
    <3>1. c[p] + 1 \in Nat
      BY <1>6, <2>1
    <3>2. [c EXCEPT ![p] = @ + 1] \in [Pages -> Nat]
      BY <2>1, <3>1
    <3> QED
      BY <3>2
  <2>3. /\ counts' = [counts EXCEPT ![j] = e] /\ SumFunction(e) = SumFunction(c) + 1
        /\ counts' \in [Types -> [Pages -> Nat]]
    BY <1>1, <2>1, <2>2 DEF BatchTypes
  <2>4. numInBatch' \in [Types -> Nat]
    <3>1. numInBatch \in [Types -> Nat] /\ numInBatch[j] + 1 \in Nat
      BY <1>1, <1>6 DEF BatchTypes
    <3> QED
      BY <1>2, <3>1
  <2>5. \A i \in Types : numInBatch'[i] = SumFunction(counts'[i])
    <3> TAKE i \in Types
    <3>1. CASE i = j
      <4>1. numInBatch'[i] = numInBatch[j] + 1 /\ counts'[i] = e
        BY <1>1, <1>2, <2>3, <3>1 DEF BatchTypes
      <4>2. numInBatch[j] = SumFunction(c)
        BY <1>1, <1>6 DEF BatchTypes
      <4> QED
        BY <2>3, <4>1, <4>2
    <3>2. CASE i # j
      <4>1. numInBatch'[i] = numInBatch[i] /\ counts'[i] = counts[i]
        BY <1>1, <1>2, <2>3, <3>2 DEF BatchTypes
      <4> QED
        BY <1>1, <4>1 DEF BatchTypes
    <3> QED
      BY <3>1, <3>2
  <2>6. collected' \in 0 .. BatchSize - 1
    BY <1>1, <1>2, RingAssumption DEF BatchTypes, Fills
  <2>7. collected' = numInBatch'["local"] + numInBatch'["remote"]
    <3>1. /\ collected = numInBatch["local"] + numInBatch["remote"]
          /\ numInBatch \in [Types -> Nat]
          /\ numInBatch["local"] \in Nat /\ numInBatch["remote"] \in Nat
      BY <1>1, <1>6 DEF BatchTypes
    <3> HIDE DEF c
    <3>2. CASE j = "local"
      <4>1. /\ numInBatch'["local"] = numInBatch["local"] + 1
            /\ numInBatch'["remote"] = numInBatch["remote"]
        BY <1>2, <1>6, <3>1, <3>2
      <4> QED
        BY <1>2, <3>1, <4>1
    <3>3. CASE j = "remote"
      <4>1. /\ numInBatch'["remote"] = numInBatch["remote"] + 1
            /\ numInBatch'["local"] = numInBatch["local"]
        BY <1>2, <1>6, <3>1, <3>3
      <4> QED
        BY <1>2, <3>1, <4>1
    <3> QED
      BY <1>6, <3>2, <3>3
  <2> QED
    BY <2>3, <2>4, <2>5, <2>6, <2>7 DEF BatchTypes
<1>9. KnowsEnd'
  BY <1>3, <1>4, <1>5 DEF KnowsEnd
<1>10. AtSample' /\ ClosedEmpty' /\ CountedAtTail'
  BY <1>2, <1>4, <1>5 DEF AtSample, ClosedEmpty, CountedAtTail
<1> QED
  BY <1>5, <1>7, <1>8, <1>9, <1>10 DEF RingInv

\* The batch is full: the sample that filled it stays at the tail.
LEMMA FillBatchInv ==
  ASSUME RingInv, NEW h, FillBatch(h)
  PROVE  RingInv'
<1>1. /\ RingTypes /\ StepTypes /\ BatchTypes /\ DropTypes /\ RingsLaid /\ CountedAtTail
  BY DEF RingInv
<1>2. /\ HasRecord(h)
      /\ counts' = NoCounts /\ numInBatch' = NoneInBatch /\ collected' = 0
      /\ drop' = drop \/ drop' = TRUE
      /\ pc' = "batch"
      /\ counted' = [counted EXCEPT ![turn] = TRUE]
      /\ UNCHANGED <<head, tail, mem, lost, unread, turn, localFreq>>
  BY DEF FillBatch, NumAfterBatch
<1>3. /\ h \in Offsets
      /\ \E n \in 1 .. Len(unread[turn]) : h = Behind(tail[turn], At(unread[turn], n))
  BY <1>2, RecordKnown
<1>4. pc = "test" /\ seen' = h /\ h # tail[turn] /\ turn \in Rings
  BY <1>1, <1>2 DEF HasRecord, StepTypes
<1>5. RingTypes' /\ StepTypes'
  BY <1>1, <1>2, <1>3, <1>4 DEF RingTypes, StepTypes
<1>6. DropTypes'
  <2>1. localFreq' \in Nat
    BY <1>1, <1>2 DEF DropTypes
  <2>2. drop' \in BOOLEAN
    <3>1. CASE drop' = drop
      BY <1>1, <3>1, Zenon DEF DropTypes
    <3>2. CASE drop' = TRUE
      BY <3>2
    <3> QED
      BY <1>2, <3>1, <3>2
  <2> QED
    BY <2>1, <2>2, Zenon DEF DropTypes
<1>7. BatchTypes'
  BY <1>2, NoCountsTypes DEF BatchTypes
<1>8. RingsLaid'
  BY <1>1, <1>2 DEF RingsLaid, Laid
<1>9. KnowsEnd'
  <2>1. \A n \in 1 .. Len(unread[turn]) : n \in 0 .. Len(unread[turn])
    BY <1>1, <1>4 DEF RingTypes
  <2> QED
    BY <1>2, <1>3, <1>4, <2>1 DEF KnowsEnd
<1>10. AtSample' /\ ClosedEmpty' /\ CountedAtTail'
  BY <1>1, <1>2, <1>4 DEF AtSample, ClosedEmpty, CountedAtTail, RingTypes
<1> QED
  BY <1>5, <1>6, <1>7, <1>8, <1>9, <1>10 DEF RingInv

\* A record that is no sample is passed.
LEMMA IgnoreRecordInv ==
  ASSUME RingInv, NEW h, IgnoreRecord(h)
  PROVE  RingInv'
<1>1. /\ RingTypes /\ StepTypes /\ BatchTypes /\ DropTypes /\ RingsLaid /\ CountedAtTail
  BY DEF RingInv
<1>2. HasRecord(h) /\ Advance /\ UNCHANGED <<pc, batchVars, dropVars>>
  BY DEF IgnoreRecord
<1>3. /\ h \in Offsets /\ unread[turn] # << >>
      /\ \E n \in 1 .. Len(unread[turn]) : h = Behind(tail[turn], At(unread[turn], n))
  BY <1>2, RecordKnown
<1>4. pc = "test" /\ seen' = h /\ turn \in Rings
  BY <1>1, <1>2 DEF HasRecord, StepTypes
<1>5. /\ RingTypes' /\ RingsLaid' /\ turn' = turn
      /\ \A r \in Rings : ~counted'[r]
      /\ \A n \in 1 .. Len(unread[turn]) :
           /\ n - 1 \in 0 .. Len(unread'[turn])
           /\ Behind(tail'[turn], At(unread'[turn], n - 1))
                = Behind(tail[turn], At(unread[turn], n))
  BY <1>1, <1>2, <1>3, <1>4, AdvanceRings
<1>6. StepTypes' /\ DropTypes'
  BY <1>1, <1>2, <1>3, <1>4, <1>5 DEF StepTypes, DropTypes, dropVars
<1>7. BatchTypes'
  BY <1>1, <1>2 DEF BatchTypes, batchVars
<1>8. KnowsEnd'
  BY <1>3, <1>4, <1>5 DEF KnowsEnd
<1>9. AtSample' /\ ClosedEmpty' /\ CountedAtTail'
  BY <1>2, <1>4, <1>5 DEF AtSample, ClosedEmpty, CountedAtTail
<1> QED
  BY <1>5, <1>6, <1>7, <1>8, <1>9 DEF RingInv

\* The batch is done, and the sample that filled it is passed.
LEMMA EndBatchInv ==
  ASSUME RingInv, EndBatch
  PROVE  RingInv'
<1>1. /\ RingTypes /\ StepTypes /\ BatchTypes /\ DropTypes /\ RingsLaid /\ CountedAtTail
  BY DEF RingInv
<1>2. pc = "batch" /\ pc' = "test" /\ Advance /\ UNCHANGED <<seen, batchVars, dropVars>>
  BY DEF EndBatch
<1>3. /\ unread[turn] # << >>
      /\ \E n \in 1 .. Len(unread[turn]) : seen = Behind(tail[turn], At(unread[turn], n))
  BY <1>2, BatchKnown
<1>4. turn \in Rings
  BY <1>1 DEF StepTypes
<1>5. /\ RingTypes' /\ RingsLaid' /\ turn' = turn
      /\ \A r \in Rings : ~counted'[r]
      /\ \A n \in 1 .. Len(unread[turn]) :
           /\ n - 1 \in 0 .. Len(unread'[turn])
           /\ Behind(tail'[turn], At(unread'[turn], n - 1))
                = Behind(tail[turn], At(unread[turn], n))
  BY <1>1, <1>2, <1>3, <1>4, AdvanceRings
<1>6. StepTypes' /\ DropTypes'
  BY <1>1, <1>2, <1>5 DEF StepTypes, DropTypes, dropVars
<1>7. BatchTypes'
  BY <1>1, <1>2 DEF BatchTypes, batchVars
<1>8. KnowsEnd'
  BY <1>2, <1>3, <1>5 DEF KnowsEnd
<1>9. AtSample' /\ ClosedEmpty' /\ CountedAtTail'
  BY <1>2, <1>5 DEF AtSample, ClosedEmpty, CountedAtTail
<1> QED
  BY <1>5, <1>6, <1>7, <1>8, <1>9 DEF RingInv

LEMMA EnterMonitorInv ==
  ASSUME RingInv, EnterMonitor
  PROVE  RingInv'
BY CloseAllInv DEF EnterMonitor, CloseForMonitor

LEMMA ReopenFailsInv ==
  ASSUME RingInv, ReopenFails
  PROVE  RingInv'
BY CloseAllInv DEF ReopenFails, OpenFails

LEMMA NextRingType ==
  ASSUME NEW r \in Rings
  PROVE  NextRing(r) \in Rings
<1>1. r[1] \in 1 .. NumCpus /\ r[2] \in Types
  BY DEF Rings
<1> PICK c \in 1 .. NumCpus : c = IF r[1] = NumCpus THEN 1 ELSE r[1] + 1
  BY <1>1, RingAssumption
<1>2. NextRing(r) = <<r[1], "remote">> \/ NextRing(r) = <<c, "local">>
  BY DEF NextRing
<1> QED
  BY <1>1, <1>2 DEF Rings, Types

\* At the next ring the thread looks at the head first.
LEMMA LeaveRingInv ==
  ASSUME RingInv, NEW h, LeaveRing(h)
  PROVE  RingInv'
<1>1. /\ RingTypes /\ StepTypes /\ BatchTypes /\ DropTypes /\ RingsLaid /\ CountedAtTail
  BY DEF RingInv
<1>2. /\ pc = "test"
      /\ turn' = NextRing(turn) /\ seen' = head[turn']
      /\ UNCHANGED <<pc, head, tail, mem, lost, unread, counted, batchVars, dropVars>>
  BY DEF LeaveRing, RingDone, ringVars
<1>3. turn' \in Rings
  BY <1>1, <1>2, NextRingType DEF StepTypes
<1>4. RingTypes' /\ StepTypes' /\ DropTypes'
  BY <1>1, <1>2, <1>3 DEF RingTypes, StepTypes, DropTypes, dropVars
<1>5. BatchTypes'
  BY <1>1, <1>2 DEF BatchTypes, batchVars
<1>6. RingsLaid'
  BY <1>1, <1>2 DEF RingsLaid, Laid
<1>7. KnowsEnd'
  <2>1. /\ unread[turn'] \in Seq(Records)
        /\ Laid(head[turn'], tail[turn'], mem[turn'], unread[turn'])
    BY <1>1, <1>3 DEF RingTypes, RingsLaid
  <2>2. Len(unread[turn']) \in 0 .. Len(unread[turn'])
        /\ head[turn'] = Behind(tail[turn'], At(unread[turn'], Len(unread[turn'])))
    BY <2>1, HeadKnown
  <2> QED
    BY <1>2, <2>2 DEF KnowsEnd
<1>8. AtSample' /\ ClosedEmpty' /\ CountedAtTail'
  BY <1>1, <1>2 DEF AtSample, ClosedEmpty, CountedAtTail
<1> QED
  BY <1>4, <1>5, <1>6, <1>7, <1>8 DEF RingInv

\* The local rings start again, the remote ones stay as they are.
LEMMA DropLocalFreqInv ==
  ASSUME RingInv, NEW h, DropLocalFreq(h)
  PROVE  RingInv'
<1> DEFINE rings == {r \in Rings : r[2] = "local"}
<1>1. /\ RingTypes /\ StepTypes /\ BatchTypes /\ DropTypes /\ RingsLaid /\ CountedAtTail
  BY DEF RingInv
<1>2. /\ pc = "test"
      /\ localFreq' = localFreq \div 2 /\ drop' = FALSE
      /\ Close(rings)
      /\ turn' = NextRing(turn) /\ seen' = head'[turn']
      /\ UNCHANGED <<pc, batchVars>>
  BY DEF DropLocalFreq, RingDone
<1>3. turn' \in Rings
  BY <1>1, <1>2, NextRingType DEF StepTypes
<1>4. /\ RingTypes' /\ RingsLaid'
      /\ \A r \in Rings : counted'[r] => counted[r]
  BY <1>1, <1>2, CloseRings
<1>5. StepTypes'
  BY <1>1, <1>2, <1>3, <1>4 DEF StepTypes, RingTypes
<1>6. DropTypes'
  <2>1. localFreq \div 2 \in Nat
    BY <1>1 DEF DropTypes
  <2> QED
    BY <1>2, <2>1 DEF DropTypes
<1>7. BatchTypes'
  BY <1>1, <1>2 DEF BatchTypes, batchVars
<1>8. KnowsEnd'
  <2> DEFINE t == tail'[turn']
             g == head'[turn']
             m == mem'[turn']
             s == unread'[turn']
  <2>1. s \in Seq(Records) /\ Laid(g, t, m, s)
    BY <1>3, <1>4 DEF RingTypes, RingsLaid, Laid
  <2>2. Len(s) \in 0 .. Len(s) /\ g = Behind(t, At(s, Len(s)))
    BY <2>1, HeadKnown
  <2> QED
    BY <1>2, <2>2 DEF KnowsEnd
<1>9. AtSample' /\ ClosedEmpty' /\ CountedAtTail'
  BY <1>1, <1>2, <1>4 DEF AtSample, ClosedEmpty, CountedAtTail
<1> QED
  BY <1>4, <1>5, <1>6, <1>7, <1>8, <1>9 DEF RingInv

\* Nothing changes.
LEMMA RingStutter ==
  ASSUME RingInv, UNCHANGED allVars
  PROVE  RingInv'
<1>1. /\ RingTypes /\ StepTypes /\ BatchTypes /\ DropTypes /\ RingsLaid
      /\ KnowsEnd /\ AtSample /\ ClosedEmpty /\ CountedAtTail
  BY DEF RingInv
<1>2. /\ UNCHANGED <<head, tail, mem, lost, unread, counted, pc, turn, seen>>
      /\ UNCHANGED <<batchVars, dropVars>>
  BY DEF allVars, ringVars
<1>3. RingTypes' /\ StepTypes' /\ DropTypes'
  BY <1>1, <1>2 DEF RingTypes, StepTypes, DropTypes, dropVars
<1>4. BatchTypes'
  BY <1>1, <1>2 DEF BatchTypes, batchVars
<1>5. RingsLaid' /\ KnowsEnd' /\ AtSample' /\ ClosedEmpty' /\ CountedAtTail'
  BY <1>1, <1>2 DEF RingsLaid, Laid, KnowsEnd, Sampling, AtSample, ClosedEmpty, CountedAtTail
<1> QED
  BY <1>3, <1>4, <1>5 DEF RingInv

LEMMA RingStep == RingInv /\ [RingNext]_allVars => RingInv'
<1> SUFFICES ASSUME RingInv, [RingNext]_allVars PROVE RingInv'
  OBVIOUS
<1>1. CASE Kernel
  BY <1>1, KernelWritesInv, KernelLosesInv DEF Kernel
<1>2. CASE OpenAll
  BY <1>2, OpenAllInv
<1>3. CASE \E h \in Offsets : CountSample(h)
  BY <1>3, CountSampleInv
<1>4. CASE \E h \in Offsets : FillBatch(h)
  BY <1>4, FillBatchInv
<1>5. CASE \E h \in Offsets : IgnoreRecord(h)
  BY <1>5, IgnoreRecordInv
<1>6. CASE \E h \in Offsets : LeaveRing(h)
  BY <1>6, LeaveRingInv
<1>7. CASE \E h \in Offsets : DropLocalFreq(h)
  BY <1>7, DropLocalFreqInv
<1>8. CASE EndBatch
  BY <1>8, EndBatchInv
<1>9. CASE EnterMonitor
  BY <1>9, EnterMonitorInv
<1>10. CASE ReopenFails
  BY <1>10, ReopenFailsInv
<1>11. CASE UNCHANGED allVars
  BY <1>11, RingStutter
<1> QED
  BY <1>1, <1>2, <1>3, <1>4, <1>5, <1>6, <1>7, <1>8, <1>9, <1>10, <1>11
  DEF RingNext, Thread, Terminated

LEMMA RingInvariance == RingSpec => []RingInv
<1>1. RingInit => RingInv
  BY RingsInit
<1>2. RingInv /\ [RingNext]_allVars => RingInv'
  BY RingStep
<1> QED
  BY <1>1, <1>2, PTL DEF RingSpec

-----------------------------------------------------------------------------
(***************************************************************************)
(* What the rings promise                                                  *)
(***************************************************************************)

\* How far behind the tail a place among the unread records is.
LEMMA DistanceIs ==
  ASSUME NEW t \in Offsets, NEW a \in Offsets
  PROVE  (Behind(t, a) - t) % Size = a
<1>1. 0 \in Offsets /\ t + 0 = t /\ t < Size /\ ~(a < 0) /\ a - 0 = a
  BY SizeNat DEF Offsets
<1>2. Behind(t, 0) = t
  BY <1>1, BehindIs
<1>3. (Behind(t, a) - Behind(t, 0)) % Size = a
  BY <1>1, BehindApart
<1> QED
  BY <1>2, <1>3

LEMMA RingInvInOrder == RingInv => ReadsInOrder
<1> SUFFICES ASSUME RingInv PROVE ReadsInOrder
  OBVIOUS
<1>1. RingTypes /\ RingsLaid /\ KnowsEnd /\ turn \in Rings
  BY DEF RingInv, StepTypes
<1>2. ASSUME NEW r \in Rings
      PROVE  /\ WordsOf(unread[r]) = (head[r] - tail[r]) % Size
             /\ unread[r] # << >> => Header(r) = Head(unread[r])
  <2> DEFINE h == head[r]
             t == tail[r]
             m == mem[r]
             s == unread[r]
  <2>1. h \in Offsets /\ t \in Offsets /\ s \in Seq(Records) /\ Laid(h, t, m, s)
    BY <1>1 DEF RingTypes, RingsLaid
  <2>2. Header(r) = m[t]
    BY DEF Header
  <2> HIDE DEF h, t, m, s
  <2>3. WordsOf(s) \in Offsets /\ h = Behind(t, WordsOf(s))
    BY <2>1, LaidOffsets DEF Laid
  <2>4. (Behind(t, WordsOf(s)) - t) % Size = WordsOf(s)
    BY <2>1, <2>3, DistanceIs
  <2>5. s # << >> => m[t] = Head(s)
    BY <2>1, LaidPass
  <2> QED
    BY <2>2, <2>3, <2>4, <2>5 DEF h, t, s
<1>3. ASSUME Sampling
      PROVE  \E n \in 0 .. Len(unread[turn]) :
               WordsOf(SubSeq(unread[turn], 1, n)) = (seen - tail[turn]) % Size
  <2> DEFINE t == tail[turn]
             s == unread[turn]
  <2>1. t \in Offsets /\ s \in Seq(Records) /\ WordsOf(s) < Size
    BY <1>1 DEF RingTypes, RingsLaid, Laid
  <2>2. PICK n \in 0 .. Len(s) : seen = Behind(t, At(s, n))
    BY <1>1, <1>3 DEF KnowsEnd
  <2> HIDE DEF t, s
  <2>3. At(s, n) \in Offsets
    BY <2>1, LaidOffsets
  <2>4. (Behind(t, At(s, n)) - t) % Size = At(s, n)
    BY <2>1, <2>3, DistanceIs
  <2> QED
    BY <2>2, <2>4 DEF At, t, s
<1> QED
  BY <1>2, <1>3 DEF ReadsInOrder

\* The types of the rings, and that a batch holds fewer samples than fill it and
\* its counts agree, through batches that end in the middle of a ring and
\* through monitor mode: process_perf_buffer and the resets around it.
THEOREM RingTypeCorrect == RingSpec => []RingTypeOK
<1>1. RingInv => RingTypeOK
  BY RingInvTypes
<1> QED
  BY <1>1, RingInvariance, PTL

\* The tail is always at the header of the oldest record that was not read, which is
\* still there, and the head the thread knows, however old, is the end of one of
\* the records it has yet to read: data_tail is advanced by the size in each
\* header, and the kernel is told only then.
THEOREM ReadsInOrderCorrect == RingSpec => []ReadsInOrder
<1>1. RingInv => ReadsInOrder
  BY RingInvInOrder
<1> QED
  BY <1>1, RingInvariance, PTL

\* What a step may do with the samples of a ring.
OnceIn(r) ==
  /\ Counts(r) => ~counted[r]
  /\ Passes(r) /\ Head(unread[r]) \in Pages =>
       \/ counted[r] \/ Counts(r)
       \/ tail[r] + Words(Head(unread[r])) > Size /\ tail'[r] < tail[r]

\* A ring that is left as it is, or gets longer, has no record passed.
LEMMA NotPassed ==
  ASSUME NEW s \in Seq(Records), NEW u \in Seq(Records), s # << >>, Len(u) >= Len(s)
  PROVE  u # Tail(s)
<1>1. Len(Tail(s)) = Len(s) - 1 /\ Len(s) \in Nat
  OBVIOUS
<1> QED
  BY <1>1

\* A sample that is passed but not counted wraps.
LEMMA WrapGoesBack ==
  ASSUME NEW t \in Offsets, NEW rec \in Pages, t + SampleWords > Size
  PROVE  t + Words(rec) > Size /\ (t + Words(rec)) % Size < t
<1>1. Words(rec) = SampleWords
  BY WordsFacts DEF Records
<1>2. /\ Size \in Nat \ {0} /\ t \in Nat /\ t < Size /\ SampleWords = 3 /\ Size > 3
  BY SizeNat DEF Offsets, SampleWords, LostWords
<1>3. SampleWords \in Offsets
  BY <1>2 DEF Offsets
<1>4. Behind(t, SampleWords) = IF t + SampleWords < Size THEN t + SampleWords
                               ELSE (t + SampleWords) - Size
  BY <1>3, BehindIs
<1>5. (t + SampleWords) % Size < t
  BY <1>2, <1>4 DEF Behind
<1> QED
  BY <1>1, <1>5

\* Where nothing of the batch changes and no batch begins, nothing is counted.
LEMMA NotCounts ==
  ASSUME UNCHANGED batchVars, pc = "batch" \/ pc' # "batch", NEW r
  PROVE  ~Counts(r)
BY DEF Counts

LEMMA OnceKernel ==
  ASSUME RingInv, Kernel, NEW r \in Rings
  PROVE  OnceIn(r)
<1>1. RingTypes /\ RingsLaid
  BY DEF RingInv
<1>2. UNCHANGED <<batchVars, pc>>
  BY DEF Kernel, KernelWrites, KernelLoses
<1>3. ~Counts(r)
  BY <1>2, NotCounts
<1>4. ~Passes(r)
  <2> SUFFICES ASSUME unread[r] # << >> PROVE unread'[r] # Tail(unread[r])
    BY DEF Passes
  <2> PICK q \in Rings : \E rec \in Events[q[2]] : KernelWrites(q, rec) \/ KernelLoses(q, rec)
    BY DEF Kernel
  <2> PICK rec \in Events[q[2]] : KernelWrites(q, rec) \/ KernelLoses(q, rec)
    OBVIOUS
  <2>1. CASE unread'[r] = unread[r]
    BY <1>1, <2>1, NotPassed DEF RingTypes
  <2>2. CASE unread'[r] # unread[r]
    <3>1. KernelWrites(q, rec)
      BY <2>2 DEF KernelLoses
    <3> DEFINE s == unread[q] \o Output(q, rec)
    <3>2. s \in Seq(Records) /\ Len(s) > Len(unread[q])
      BY <1>1, <3>1, LaidOutput DEF KernelWrites
    <3>3. unread' = [unread EXCEPT ![q] = s]
      BY <3>1 DEF KernelWrites
    <3> HIDE DEF s
    <3>4. q = r /\ unread'[r] = s
      BY <1>1, <2>2, <3>3 DEF RingTypes
    <3>5. unread[r] \in Seq(Records) /\ Len(unread[r]) \in Nat /\ Len(s) \in Nat
      BY <1>1, <3>2 DEF RingTypes
    <3>6. Len(s) >= Len(unread[r])
      BY <3>2, <3>4, <3>5
    <3> QED
      BY <3>2, <3>4, <3>5, <3>6, NotPassed
  <2> QED
    BY <2>1, <2>2
<1> QED
  BY <1>3, <1>4 DEF OnceIn

\* The ring the thread reads is the only one in which a record is passed.
LEMMA OnlyTurnPasses ==
  ASSUME RingTypes, Advance, NEW r \in Rings, r # turn
  PROVE  ~Passes(r)
<1> PICK s \in Seq(Records) : unread[r] = s /\ unread'[r] = s
  BY DEF Advance, RingTypes
<1>1. Len(s) >= Len(s)
  OBVIOUS
<1> QED
  BY <1>1, NotPassed DEF Passes

LEMMA OnceCountSample ==
  ASSUME RingInv, NEW h, CountSample(h), NEW r \in Rings
  PROVE  OnceIn(r)
<1>1. RingTypes /\ CountedAtTail /\ collected \in Nat
  BY RingAssumption DEF RingInv, BatchTypes
<1>2. pc = "test" /\ Advance /\ collected' = collected + 1
  BY DEF CountSample, HasRecord
<1>3. ~counted[r]
  BY <1>1, <1>2 DEF CountedAtTail
<1>4. CASE r = turn
  <2>1. collected' # collected
    BY <1>1, <1>2
  <2>2. Counts(r)
    BY <1>4, <2>1 DEF Counts, batchVars
  <2> QED
    BY <1>3, <2>2 DEF OnceIn
<1>5. CASE r # turn
  BY <1>1, <1>2, <1>3, <1>5, OnlyTurnPasses DEF OnceIn
<1> QED
  BY <1>4, <1>5

LEMMA OnceFillBatch ==
  ASSUME RingInv, NEW h, FillBatch(h), NEW r \in Rings
  PROVE  OnceIn(r)
<1>1. CountedAtTail
  BY DEF RingInv
<1>2. pc = "test" /\ pc' = "batch"
  BY DEF FillBatch, HasRecord
<1>3. ~counted[r]
  BY <1>1, <1>2 DEF CountedAtTail
<1>4. ~Passes(r)
  BY <1>2 DEF Passes
<1> QED
  BY <1>3, <1>4 DEF OnceIn

LEMMA OnceIgnoreRecord ==
  ASSUME RingInv, NEW h, IgnoreRecord(h), NEW r \in Rings
  PROVE  OnceIn(r)
<1>1. RingTypes /\ RingsLaid /\ CountedAtTail /\ turn \in Rings
  BY DEF RingInv, StepTypes
<1>2. /\ HasRecord(h) /\ pc = "test" /\ Advance /\ UNCHANGED <<pc, batchVars>>
      /\ ~IsSample(turn)
  BY DEF IgnoreRecord, HasRecord
<1>3. ~Counts(r)
  BY <1>2, NotCounts
<1>4. CASE r = turn
  <2> DEFINE rec == Head(unread[r])
             t == tail[r]
  <2>1. unread[turn] # << >>
    BY <1>2, RecordKnown
  <2>2. Header(turn) = rec /\ t \in Offsets
    BY <1>1, <1>2, <1>4, <2>1, AdvanceRings DEF RingTypes
  <2>3. SUFFICES ASSUME rec \in Pages
                 PROVE  t + Words(rec) > Size /\ tail'[r] < t
    BY <1>3 DEF OnceIn
  <2>4. t + SampleWords > Size
    BY <1>2, <1>4, <2>2, <2>3 DEF IsSample, Wraps
  <2>5. tail'[r] = (t + Words(rec)) % Size
    BY <1>1, <1>2, <1>4, <2>2 DEF Advance, StepOfRecord, RingTypes
  <2> QED
    BY <2>2, <2>3, <2>4, <2>5, WrapGoesBack
<1>5. CASE r # turn
  BY <1>1, <1>2, <1>3, <1>5, OnlyTurnPasses DEF OnceIn
<1> QED
  BY <1>4, <1>5

LEMMA OnceEndBatch ==
  ASSUME RingInv, EndBatch, NEW r \in Rings
  PROVE  OnceIn(r)
<1>1. RingTypes /\ CountedAtTail
  BY DEF RingInv
<1>2. pc = "batch" /\ Advance /\ UNCHANGED batchVars
  BY DEF EndBatch
<1>3. ~Counts(r)
  BY <1>2, NotCounts
<1>4. CASE r = turn
  BY <1>1, <1>2, <1>3, <1>4 DEF CountedAtTail, OnceIn
<1>5. CASE r # turn
  BY <1>1, <1>2, <1>3, <1>5, OnlyTurnPasses DEF OnceIn
<1> QED
  BY <1>4, <1>5

\* With half the frequency the rings of the local events start again.
LEMMA OnceDropLocalFreq ==
  ASSUME RingInv, NEW h, DropLocalFreq(h), NEW r \in Rings
  PROVE  OnceIn(r)
<1>1. localFreq \in Nat
  BY DEF RingInv, DropTypes
<1>2. /\ pc = "test" /\ UNCHANGED <<pc, batchVars>>
      /\ localFreq' = localFreq \div 2 /\ localFreq > FloorFreq
  BY DEF DropLocalFreq, RingDone, MustDrop
<1>3. ~Counts(r)
  BY <1>2, NotCounts
<1>4. localFreq \div 2 # localFreq
  BY <1>1, <1>2, RingAssumption
<1>5. ~Passes(r)
  BY <1>2, <1>4 DEF Passes
<1> QED
  BY <1>3, <1>5 DEF OnceIn

\* The steps that leave the rings as they are, or close all of them.
LEMMA OnceOthers ==
  ASSUME RingInv, NEW r \in Rings,
         \/ OpenAll \/ (\E h \in Offsets : LeaveRing(h)) \/ EnterMonitor \/ ReopenFails
         \/ Terminated
  PROVE  OnceIn(r)
<1>1. RingTypes
  BY DEF RingInv
<1>2. UNCHANGED batchVars /\ (pc = "batch" \/ pc' # "batch")
  BY DEF OpenAll, LeaveRing, RingDone, EnterMonitor, ReopenFails, OpenFails, Terminated,
         allVars
<1>3. ~Counts(r)
  BY <1>2, NotCounts
<1>4. UNCHANGED unread \/ pc' # "test"
  BY DEF OpenAll, LeaveRing, EnterMonitor, ReopenFails, OpenFails, Terminated, allVars,
         ringVars
<1>5. ~Passes(r)
  BY <1>1, <1>4, NotPassed DEF Passes, RingTypes
<1> QED
  BY <1>3, <1>5 DEF OnceIn

\* Every sample of a page that the thread passes is counted, exactly once, unless
\* it wraps around the end of its ring, and then the thread is back at the
\* beginning; a sample that filled a batch is not met again after monitor mode.
THEOREM CountedOnceCorrect == RingSpec => CountedOnce
<1>1. RingInv /\ [RingNext]_allVars => [\A r \in Rings : OnceIn(r)]_allVars
  <2> SUFFICES ASSUME RingInv, RingNext PROVE \A r \in Rings : OnceIn(r)
    OBVIOUS
  <2> TAKE r \in Rings
  <2>1. CASE Kernel
    BY <2>1, OnceKernel
  <2>2. CASE \E h \in Offsets : CountSample(h)
    BY <2>2, OnceCountSample
  <2>3. CASE \E h \in Offsets : FillBatch(h)
    BY <2>3, OnceFillBatch
  <2>4. CASE \E h \in Offsets : IgnoreRecord(h)
    BY <2>4, OnceIgnoreRecord
  <2>5. CASE \E h \in Offsets : DropLocalFreq(h)
    BY <2>5, OnceDropLocalFreq
  <2>6. CASE EndBatch
    BY <2>6, OnceEndBatch
  <2>7. CASE \/ OpenAll \/ (\E h \in Offsets : LeaveRing(h)) \/ EnterMonitor \/ ReopenFails
             \/ Terminated
    BY <2>7, OnceOthers
  <2> QED
    BY <2>1, <2>2, <2>3, <2>4, <2>5, <2>6, <2>7 DEF RingNext, Thread
<1>2. RingSpec => [][\A r \in Rings : OnceIn(r)]_allVars
  BY <1>1, RingInvariance, PTL DEF RingSpec
<1> QED
  BY <1>2 DEF CountedOnce, OnceIn
=============================================================================
