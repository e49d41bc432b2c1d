SPECIFICATION Spec
CONSTANTS
  c1 = c1  c2 = c2  c3 = c3  c4 = c4
  k1 = k1  k2 = k2  a = a  b = b
  Doc = {c1, c2}
  Term = {k1, k2, a, b}
  Words <- MCWords
  Parts <- MCParts
  Bad = {}
  Recno = {1, 2, 3, 4}
  NULL = NULL
  NFiles = 1
  MaxRecs = 3
  MaxFaults = 0
  Primaries = {"none"}
  Operator = {}
INVARIANT ComponentsGone
CHECK_DEADLOCK FALSE
