SPECIFICATION Spec
CONSTANTS
  Message <- MCMessage
  MaxSent = 2
  Faults = {"close", "inside"}
INVARIANT NullOnError
CHECK_DEADLOCK FALSE
