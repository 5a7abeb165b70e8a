CONSTANTS
  GroupIDs = {1, 2}
  Size = 4
  Sources <- Programs
  MaxSteps = 13
SPECIFICATION Spec
INVARIANTS
  TypeOK
  BlocksInRegion
  RegionsBalanced
  SetsPartitionRegions
  CountersMeanTheirSets
