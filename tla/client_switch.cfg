SPECIFICATION Spec
CONSTANTS
  h1 = h1
  h2 = h2
  Host = {h1, h2}
  Fd <- MCFd
  MaxAssocs = 2
  Faults = {"stale_id"}
PROPERTY SwitchesToActive
CHECK_DEADLOCK FALSE
