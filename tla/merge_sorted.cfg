SPECIFICATION Spec
CONSTANTS
  MaxHits = 2
  MaxRec = 3
  Sets <- MCSets
  SortedSets = TRUE
INVARIANT MergeCorrect
CHECK_DEADLOCK FALSE
