CONSTANTS
  HotInit = 5
  HotMin = 3
  ResetLimit = 3
  Period = 2
  Warmup = 3
  PlateauMax = 1
  WindowSize = 2
  FreeLimit = 2
SPECIFICATION HugeSpec
INVARIANTS
  HugeTypeOK
  TwoSweepsInARow
PROPERTIES
  PlateauIsDry
  WakesOnFreshReadings
  QuietEndsInMonitor
