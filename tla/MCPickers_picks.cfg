\* Two threads, one with a message loop; two types, two operations, two handlers.
SPECIFICATION FewSpec
CONSTANTS
  Threads = {t1, t2}
  Looping = {t1}
  Pickable = {p1}
  Fields = {"suggested_file_name"}
  Types = {1, 2}
  Paths = {f1}
  Files = {f1}
  MaxEdits = 3
  MaxOps = 2
  MaxSets = 2
CHECK_DEADLOCK FALSE
INVARIANTS
  HeardOnce
  ShownAsAsked
PROPERTIES
  EveryHandlerHears
