CONSTANTS
  GroupIDs = {1, 2}
  Size = 4
  Sources <- InnerInBranch
  MaxSteps = 13
SPECIFICATION Spec
INVARIANT
  RowsCountTheirOwnSets
