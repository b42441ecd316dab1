CONSTANTS
  a1 = a1
  a2 = a2
  a3 = a3
  a4 = a4
  a5 = a5
  a6 = a6
  a7 = a7
  Pages = {a1, a2, a3, a4, a5, a6, a7}
  c = 3
  PUnit = 6
  MovesMayFail = FALSE
SYMMETRY PageSymmetry
SPECIFICATION Spec
INVARIANT
  FastIsCache
