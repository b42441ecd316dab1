CONSTANTS
  p = p
  q = q
  Pids = {p, q}
  Spaces <- TwoSpaces
  HugeSpaces <- NoSpaces
  PageSize = 4
  Chunk = 2
  MaxRequest = 2
SPECIFICATION HugeSpec
INVARIANTS
  EntireSpaceSwept
