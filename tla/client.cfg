SPECIFICATION FairSpec
CONSTANTS
  h1 = h1
  h2 = h2
  Host = {h1, h2}
  Fd <- MCFd
  MaxAssocs = 2
  Faults = {"down", "late", "reject", "control"}
INVARIANTS TypeOK OpenIsMine OwnAnswer
PROPERTY CommandsEnd
CHECK_DEADLOCK FALSE
