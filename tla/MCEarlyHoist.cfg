CONSTANTS
  GroupIDs = {1, 2}
  Size = 4
  Sources <- Programs
  MaxSteps = 13
SPECIFICATION Spec
INVARIANT
  CountersRunCounting
