CONSTANTS
  PragmaRegionCount = 3
  ZRAY_CounterDimension = 2
  SAMPLING_PERIOD = 2
  PRAGMA_REGION_LIMIT = 3
  Scales = {1}
  MaxDepth = 2
  MaxInvocations = 3
  MaxCounter = 1
  MaxTime = 0
  MaxFrames = 5
SPECIFICATION ThreadSpec
INVARIANTS
  DepthsMatchFrames
  ExitsHandCountingBack
PROPERTY
  ImplementsAttribution
CHECK_DEADLOCK FALSE
