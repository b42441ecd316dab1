CONSTANTS
  p1 = p1
  p2 = p2
  p3 = p3
  d1 = d1
  d2 = d2
  d3 = d3
  d4 = d4
  page = page
  None = None
  Procs = {p1, p2, p3}
  Descriptions = {d1, d2, d3, d4}
  NumCpus = 1
  Pages = {page}
  Size = 8
  OtherWords = 3
  Events <- MCEvents
  BatchSize = 2
  InitFreq = 6
  FloorFreq = 4
SPECIFICATION ThreadSpec
INVARIANTS
  TypeOK
  OneElected
  RingTypeOK
  ReadsInOrder
PROPERTIES
  QuitsForAnother
  CountedOnce
  AllRead
