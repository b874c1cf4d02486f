\* A call of run_sync without a callback, whose owner polls and drops the block.
CONSTANTS
  Calls = {a1}
  Blocks = {b1}
  Games = {g1}
  NoCall = NoCall
  NoBlock = NoBlock
  Providers = {"run_sync"}
  Sizes = {0}
  MaxPolls = 0
  MayCancel = FALSE
  MayDie = FALSE
SPECIFICATION Spec
PROPERTY BlockAlive
CHECK_DEADLOCK FALSE
