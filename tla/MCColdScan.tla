----------------------------- MODULE MCColdScan -----------------------------
EXTENDS HugeScan, TLC
CONSTANTS p, q

\* Pages start and end, in a VMA.
Pages(from, to) == [start |-> from * PageSize, end |-> (to + 1) * PageSize]

Gone == << >>

\* A small VMA, and one the scan resumes in, of a process that goes and whose pid
\* is given to another; and a second process.
TwoSpaces ==
     p :> {<<Pages(1, 1), Pages(4, 7)>>, Gone}
  @@ q :> {<<Pages(1, 1)>>}

\* Two VMAs that meet in the middle of a huge page; the second ends at the end
\* of one, or in another.
HugePages ==
     p :> {<<[start |-> 4, end |-> 10], [start |-> 10, end |-> 20]>>,
           <<[start |-> 10, end |-> 22]>>}
  @@ q :> {<<[start |-> 6, end |-> 10]>>}

\* The processes of a build that does not run.
NoSpaces == p :> {Gone} @@ q :> {Gone}
=============================================================================
