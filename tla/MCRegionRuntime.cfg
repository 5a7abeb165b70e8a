CONSTANTS
  PragmaRegionCount = 3
  ZRAY_CounterDimension = 2
  SAMPLING_PERIOD = 2
  PRAGMA_REGION_LIMIT = 3
  Scales <- MCScales
  MaxDepth = 2
  MaxInvocations = 2
  MaxCounter = 1
  MaxTime = 1
SPECIFICATION Spec
INVARIANTS
  TypeOK
  SaveTopCountsOpenRegions
  CountingStopsWithLastRegion
  CountsStayInTheArray
