\* A provider whose Begin passes on the refusal of a dead work port.
CONSTANTS
  Calls = {a1}
  Blocks = {b1}
  Games = {g1}
  NoCall = NoCall
  NoBlock = NoBlock
  Providers = {"polling"}
  Sizes = {1}
  MaxPolls = 0
  MayCancel = FALSE
  MayDie = TRUE
SPECIFICATION Spec
INVARIANT NoneDelivered
CHECK_DEADLOCK FALSE
