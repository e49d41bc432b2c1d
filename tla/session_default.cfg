SPECIFICATION Spec
CONSTANTS
  Name = {"default", "A"}
  Key <- MCKey
  EmptyName = ""
  o1 = o1
  o2 = o2
  o3 = o3
  o4 = o4
  Obj = {o1, o2, o3, o4}
  weighted_entry = {1, 2}
  NULL = NULL
  Body <- MCDisjoint
  namedResultSet = FALSE
  nosave = FALSE
  Medium = 2
  MaxHits = 2
  Client = {"keep", "other", "medium", "not", "sort_over"}
SYMMETRY Addresses
VIEW SessionView
INVARIANTS NoDangling FilesRemoved
