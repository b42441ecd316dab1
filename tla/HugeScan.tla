------------------------------ MODULE HugeScan ------------------------------
(***************************************************************************)
(* The scan for cold pages of both builds.  hybridtier_huge.cpp looks at   *)
(* one huge page at a time and starts with the one the VMA begins in.  Its *)
(* VMAs, of ten huge pages and more, begin and end in the middle of them.  *)
(***************************************************************************)
EXTENDS ColdScan

CONSTANT HugeSpaces  \* the address spaces of the processes of the huge build

ASSUME HugeScanAssumption ==
  \A p \in Pids : \A s \in HugeSpaces[p] : Ordered(s)

VARIABLE huge  \* which build runs

hugeVars == <<vars, huge>>

\* The address with its last 21 bits cut off.
HugeStart(v) == (ScanStart(v) \div PageSize) * PageSize

\* Here the number of pages is multiplied before it is added.
HugeReached == curr + ChunkPages * PageSize

HugeWalk ==
  \/ WalkAnywhere
  \/ EnterVma(HugeStart(Vma), 1)
  \/ \E cold \in 0 .. 1 : ReadChunk(cold, HugeReached)

SpacesOfBuild == IF huge THEN HugeSpaces ELSE Spaces

HugeInit ==
  /\ huge \in BOOLEAN
  /\ InitWith(SpacesOfBuild)

WalkOfBuild == IF huge THEN HugeWalk ELSE Walk

HugeNext ==
  /\ NextWith(WalkOfBuild, SpacesOfBuild)
  /\ UNCHANGED huge

HugeSpec == HugeInit /\ [][HugeNext]_hugeVars /\ WF_hugeVars(WalkOfBuild /\ UNCHANGED huge)

-----------------------------------------------------------------------------
(***************************************************************************)
(* The inductive invariant behind the properties of ColdScan.              *)
(***************************************************************************)

\* Either the scan resumes and reads at the start of a huge page, or the VMAs
\* begin and end at a page.
GridInv ==
  /\ huge \in BOOLEAN
  /\ \A p \in Pids : space[p] \in SpacesOfBuild[p]
  /\ huge => curr % PageSize = 0 /\ \A p \in Pids : last[p] % PageSize = 0
  /\ ~huge /\ InProcess => Aligned(maps)

ScanInv ==
  /\ TypeOK
  /\ CountInv
  /\ DueInv
  /\ GridInv
  /\ MissedInv
  /\ BehindInv
  /\ RestartInv
  /\ NothingSkipped
  /\ SweepsCover
  /\ NoOvershoot
=============================================================================
