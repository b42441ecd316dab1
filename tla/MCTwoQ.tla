------------------------------- MODULE MCTwoQ -------------------------------
EXTENDS TwoQ, TLC
CONSTANTS a1, a2, a3, a4, a5, a6, a7
PageSymmetry == Permutations(Pages)
=============================================================================
