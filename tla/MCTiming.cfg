CONSTANTS
  PragmaRegionCount = 2
  ZRAY_CounterDimension = 1
  SAMPLING_PERIOD = 1
  PRAGMA_REGION_LIMIT = 2
  Scales <- MCScales
  MaxDepth = 2
  MaxInvocations = 2
  MaxCounter = 2
  MaxTime = 4
  MaxFrames = 4
SPECIFICATION ThreadSpec
INVARIANT
  ElapsedIsTimeInside
CHECK_DEADLOCK FALSE
