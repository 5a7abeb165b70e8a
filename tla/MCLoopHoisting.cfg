CONSTANTS
  LoopCount = 3
  BTCs = {0, 2}
  IndexBits = 3
  CounterBits = 8
  ApplyLoopHoisting = TRUE
SPECIFICATION Spec
INVARIANTS
  TypeOK
  CountersExact
  SetsHaveHeaders
  LoopBlocksClaimed
  BlocksCounted
PROPERTY
  CountersKept
