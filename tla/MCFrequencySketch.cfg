CONSTANTS
  x = x
  y = y
  r1 = r1
  r2 = r2
  a = a
  b = b
  Pages = {x, y}
  Rows = {r1, r2}
  Slots = {a, b}
  Slot <- OneShared
  MaxCount = 3
  MaxIncrease = 3
  sample_size = 5
SPECIFICATION HugeSpec
INVARIANTS
  TypeOK
  NeverUndercounts
  SecondChanceSound
  HistogramSound
