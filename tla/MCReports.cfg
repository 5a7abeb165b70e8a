CONSTANTS
  foo = foo
  bar = bar
  omp = omp
  Functions = {foo, bar, omp}
  Outlined = {omp}
  ROI_Count = 2
  Home <- MCHome
  Outside = outside
  NoRegion = none
  ApplyFunctionCloning = TRUE
  MaxEvents = 2
  MaxCalls = 3
  GroupOf <- MCGroupOf
  ActiveGroups = {0}
  MaxIncrements = 1
SPECIFICATION ReportsSpec
INVARIANTS
  TypeOK
  SlotsApart
  ClonesClosed
  OutsideCallsKept
  ClonesBalanced
  ReportsMatchRuns
