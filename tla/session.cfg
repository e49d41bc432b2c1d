SPECIFICATION Spec
CONSTANTS
  Name = {"A", "B"}
  Key <- MCKey
  EmptyName = ""
  o1 = o1
  o2 = o2
  o3 = o3
  o4 = o4
  Obj = {o1, o2, o3, o4}
  weighted_entry = {1, 2}
  NULL = NULL
  Body <- MCBody
  namedResultSet = TRUE
  nosave = TRUE
  Medium = 2
  MaxHits = 2
  Client = {}
SYMMETRY Addresses
VIEW SessionView
INVARIANTS TypeOK NoDangling ListedAreStored
PROPERTIES FetchInRange CountIsHits OthersKeepRecords DeleteSucceeds
