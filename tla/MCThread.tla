------------------------------ MODULE MCThread ------------------------------
(***************************************************************************)
(* The two components that a tiering thread meets before its first batch:  *)
(* the election, and the rings it then reads.  They share no variable, so  *)
(* a behaviour here is one of the election or one of the rings, instead of *)
(* all their interleavings.                                                *)
(***************************************************************************)
EXTENDS LeaderElection, PerfRing

CONSTANTS p1, p2, p3, d1, d2, d3, d4, page

VARIABLE elects  \* which of the two it is

MCEvents == [local |-> {page}, remote |-> {page, "other"}]

ThreadVars == <<elects, vars, allVars>>

ThreadInit ==
  /\ elects \in BOOLEAN
  /\ Init
  /\ RingInit

ThreadNext ==
  /\ UNCHANGED elects
  /\ \/ elects /\ Next /\ UNCHANGED allVars
     \/ ~elects /\ RingNext /\ UNCHANGED vars

ThreadSpec ==
  /\ ThreadInit
  /\ [][ThreadNext]_ThreadVars
  /\ WF_ThreadVars(~elects /\ Thread /\ UNCHANGED <<elects, vars>>)
=============================================================================
