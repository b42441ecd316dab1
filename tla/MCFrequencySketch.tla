-------------------------- MODULE MCFrequencySketch --------------------------
EXTENDS HugeSketch, TLC
CONSTANTS x, y, r1, r2, a, b
\* The two pages share their counter in one row only.
OneShared == x :> (r1 :> a @@ r2 :> a) @@ y :> (r1 :> a @@ r2 :> b)
=============================================================================
