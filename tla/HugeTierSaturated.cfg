CONSTANTS
  x = x
  y = y
  Pages = {x, y}
  Spaces <- OneSpace
  MaxCount = 3
  HotInit = 2
  HotMin = 1
  HotStep = 1
  MomentumThresh = 2
  ColdMomentum = 2
  ChanceMomentum = 1
  IdleMargin = 2
  QueueCap = 1
  HighWmark = 4
  BasePages = 2
  SmallPages = 1
  RetryDiv = 1
SYMMETRY PageSymmetry
SPECIFICATION HugeSpec
INVARIANT
  FewAccesses
