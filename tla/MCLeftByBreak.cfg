CONSTANTS
  GroupIDs = {1, 2}
  Size = 4
  Sources <- LeftByBreak
  MaxSteps = 13
SPECIFICATION Spec
INVARIANT
  CountersMeanTheirSets
