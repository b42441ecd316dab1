CONSTANTS
  p = p
  q = q
  Pids = {p, q}
  Spaces <- TwoSpaces
  HugeSpaces <- HugePages
  PageSize = 4
  Chunk = 2
  MaxRequest = 2
SPECIFICATION HugeSpec
INVARIANTS
  TypeOK
  NothingSkipped
  SweepsCover
  NoOvershoot
PROPERTIES
  ScanEnds
