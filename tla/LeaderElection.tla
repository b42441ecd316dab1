--------------------------- MODULE LeaderElection ---------------------------
(***************************************************************************)
(* Which process of a cgroup runs the tiering thread.  The hook starts one *)
(* in every target process; init_cgroup_runtime_context then tries a lock  *)
(* on a file named after the cgroup, and the thread of a process that does *)
(* not get it returns at once and for good.                                *)
(*                                                                         *)
(* flock belongs to an open file description, which a forked child shares. *)
(* It goes when the last process closes it.                                *)
(***************************************************************************)
EXTENDS Naturals, FiniteSets

CONSTANTS
  Procs,        \* the processes of one cgroup
  Descriptions, \* open file descriptions of the lock file
  None

ASSUME ElectionAssumption ==
  /\ None \notin Descriptions

VARIABLES
  state,  \* what the process is and where its tiering thread got to
  fd,     \* leader_lock_fd: the description the process has open
  lock    \* the description the lock file is locked by

vars == <<state, fd, lock>>

\* free: no such process; plain: not the target executable, no thread;
\* starting: a thread that has not decided; leader: it manages the cgroup;
\* alone: it manages its process only; quit: it has returned.
States == {"free", "plain", "starting", "leader", "alone", "quit"}

Alive == {p \in Procs : state[p] # "free"}

Unused == {d \in Descriptions : \A p \in Procs : fd[p] # d}

LockNeverReleased(p) == lock

\* The lock after p has closed its descriptor.
LockAfterClose(p) ==
  IF \E q \in Procs \ {p} : fd[q] = lock THEN lock ELSE None

FdKeptOnExec(p) == fd[p]

FdAfterExec(p) == None

-----------------------------------------------------------------------------
(* Processes                                                               *)

Launch(p) ==
  /\ state[p] = "free"
  /\ state' = [state EXCEPT ![p] = "starting"]
  /\ UNCHANGED <<fd, lock>>

\* The child has the descriptors of its parent, and none of its threads.
Fork(p, q) ==
  /\ p \in Alive
  /\ state[q] = "free"
  /\ state' = [state EXCEPT ![q] = "plain"]
  /\ fd' = [fd EXCEPT ![q] = fd[p]]
  /\ UNCHANGED lock

\* The lock file was opened with O_CLOEXEC.
Exec(p, target) ==
  /\ p \in Alive
  /\ state' = [state EXCEPT ![p] = IF target THEN "starting" ELSE "plain"]
  /\ fd' = [fd EXCEPT ![p] = FdAfterExec(p)]
  /\ lock' = IF fd'[p] = None THEN LockAfterClose(p) ELSE lock

Exit(p) ==
  /\ p \in Alive
  /\ state' = [state EXCEPT ![p] = "free"]
  /\ fd' = [fd EXCEPT ![p] = None]
  /\ lock' = LockAfterClose(p)

-----------------------------------------------------------------------------
(* init_cgroup_runtime_context and the start of perf_func                  *)

\* The process is in the root cgroup or cannot open the directory of its own.
NoCgroup(p) ==
  /\ state[p] = "starting"
  /\ state' = [state EXCEPT ![p] = "alone"]
  /\ UNCHANGED <<fd, lock>>

\* The lock file cannot be opened: leader keeps its default, true.
LockUnopened(p) ==
  /\ state[p] = "starting"
  /\ state' = [state EXCEPT ![p] = "leader"]
  /\ UNCHANGED <<fd, lock>>

ElectUnchecked(p) ==
  /\ state[p] = "starting"
  /\ \E d \in Unused :
       /\ fd' = [fd EXCEPT ![p] = d]
       /\ state' = [state EXCEPT ![p] = "leader"]
       /\ lock' = IF lock = None THEN d ELSE lock

\* The lock file is opened and locked, or held by another description.  A
\* thread that quits leaves it open.
Elect(p) ==
  /\ state[p] = "starting"
  /\ \E d \in Unused :
       /\ fd' = [fd EXCEPT ![p] = d]
       /\ IF lock = None
            THEN /\ lock' = d
                 /\ state' = [state EXCEPT ![p] = "leader"]
            ELSE /\ state' = [state EXCEPT ![p] = "quit"]
                 /\ UNCHANGED lock

\* No tiers, no slow node or no CPU to sample: the thread returns, and the
\* process keeps the lock it may have.
SetupFails(p) ==
  /\ state[p] \in {"leader", "alone"}
  /\ state' = [state EXCEPT ![p] = "quit"]
  /\ UNCHANGED <<fd, lock>>

-----------------------------------------------------------------------------
Init ==
  /\ state = [p \in Procs |-> "free"]
  /\ fd = [p \in Procs |-> None]
  /\ lock = None

Next ==
  \E p \in Procs :
    \/ Launch(p)
    \/ \E q \in Procs : Fork(p, q)
    \/ \E target \in BOOLEAN : Exec(p, target)
    \/ Exit(p)
    \/ NoCgroup(p)
    \/ LockUnopened(p)
    \/ Elect(p)
    \/ SetupFails(p)

Spec == Init /\ [][Next]_vars

-----------------------------------------------------------------------------
(* Properties                                                              *)

\* A process that is gone has nothing open, and a lock has a process that holds
\* its description: no lock survives the last of them.
TypeOK ==
  /\ state \in [Procs -> States]
  /\ fd \in [Procs -> Descriptions \cup {None}]
  /\ lock \in Descriptions \cup {None}
  /\ \A p \in Procs \ Alive : fd[p] = None
  /\ lock # None => \E p \in Procs : fd[p] = lock

\* The threads that manage the cgroup, with the lock file open.
Elected == {p \in Procs : state[p] = "leader" /\ fd[p] # None}

\* At most one thread is elected, whatever processes fork, exec and exit.
OneElected == \A p, q \in Elected : p = q

\* A thread quits for a lock that another process holds, never for one its own
\* process inherited.
QuitsForAnother ==
  [][\A p \in Procs :
       state[p] = "starting" /\ state'[p] = "quit" =>
         \E q \in Procs \ {p} : fd[q] = lock]_vars
=============================================================================
