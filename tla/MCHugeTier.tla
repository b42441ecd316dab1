----------------------------- MODULE MCHugeTier -----------------------------
EXTENDS HugeTier, TLC
CONSTANTS x, y
OneSpace == {{x, y}}
PageSymmetry == Permutations(Pages)
=============================================================================
