\* A call of run_sync is canceled while its worker runs.
CONSTANTS
  Calls = {a1}
  Blocks = {b1}
  Games = {g1}
  NoCall = NoCall
  NoBlock = NoBlock
  Providers = {"run_sync"}
  Sizes = {0}
  MaxPolls = 0
  MayCancel = TRUE
  MayDie = FALSE
SPECIFICATION Spec
INVARIANT WorkerOwnsContext
CHECK_DEADLOCK FALSE
