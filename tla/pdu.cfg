SPECIFICATION FairSpec
CONSTANTS
  Message <- MCMessage
  MaxSent = 2
  Faults = {"late", "late_indef", "close", "inside", "reset", "signal", "memory"}
INVARIANTS Framed SizesAgree
PROPERTY ServerExits
CHECK_DEADLOCK FALSE
