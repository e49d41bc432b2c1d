SPECIFICATION Spec
CONSTANTS
  c1 = c1  c2 = c2  c3 = c3  c4 = c4
  k1 = k1  k2 = k2  a = a  b = b
  Doc = {c1, c2, c3, c4}
  Term = {k1, k2, a, b}
  Words <- MCWords
  Parts <- MCParts
  Bad = {c4}
  Recno = {1, 2, 3, 4}
  NULL = NULL
  NFiles = 1
  MaxRecs = 2
  MaxFaults = 1
  Primaries = {"none", "ignore", "replace"}
  Operator = {"interrupt", "interrupt_batch", "past_end", "no_history"}
INVARIANTS TypeOK PostingsTrue TermidsUnique IndexExact TotalsAgree DeletedUnlisted KeysUnique
CHECK_DEADLOCK FALSE
