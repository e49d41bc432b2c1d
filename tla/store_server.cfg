SPECIFICATION Spec
CONSTANTS
  Name = {"A", "B", "b"}
  Key <- MCKey
  EmptyName = ""
  Obj = {1, 2, 3, 4}
  NULL = NULL
  e1 = e1
  e2 = e2
  weighted_entry = {e1, e2}
  Body <- MCBody
  Calls = {"replace", "restore", "nosave", "merge", "unwritable"}
INVARIANTS TypeOK NoDangling NoSharing NameIsHome HitsAgree NoOrphanFile
PROPERTY ImplementsNamedSets
