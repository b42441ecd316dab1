---------------------------- MODULE MCHybridTier ----------------------------
EXTENDS HybridTier, TLC
CONSTANTS p1, p2
TwoSpaces == {{p1}, {p2}}
PageSymmetry == Permutations(Pages)
=============================================================================
