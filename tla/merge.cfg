SPECIFICATION FairSpec
CONSTANTS
  MaxHits = 3
  MaxRec = 4
  Sets <- MCSets
  SortedSets = FALSE
INVARIANTS TypeOK MergeCorrect WithinAllocation ResultIsOperand
PROPERTY Returns
CHECK_DEADLOCK FALSE
