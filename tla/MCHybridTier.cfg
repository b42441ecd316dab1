CONSTANTS
  p1 = p1
  p2 = p2
  Pages = {p1, p2}
  Spaces <- TwoSpaces
  MaxCount = 3
  HotInit = 2
  HotMin = 1
  MomentumThresh = 2
  QueueCap = 2
  HighWmark = 1
  RetryDiv = 1
SYMMETRY PageSymmetry
SPECIFICATION Spec
INVARIANTS
  TypeOK
  SecondChanceSound
  HeadroomKept
PROPERTIES
  DemotionJustified
  NoPingPong
