\* One save pick of two types, which the title may insert in either order.
SPECIFICATION Spec
CONSTANTS
  Threads = {t1}
  Looping = {t1}
  Pickable = {p1}
  Fields = {}
  Types = {1, 2}
  Paths = {}
  Files = {}
  MaxEdits = 2
  MaxOps = 1
  MaxSets = 0
CHECK_DEADLOCK FALSE
INVARIANTS
  TypesAsInserted
