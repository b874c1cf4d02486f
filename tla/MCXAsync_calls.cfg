\* Two calls on one block, two game threads, cancels and a dying queue.
CONSTANTS
  Calls = {a1, a2}
  Blocks = {b1}
  Games = {g1, g2}
  NoCall = NoCall
  NoBlock = NoBlock
  Providers = {"run_sync", "polling"}
  Sizes = {1}
  MaxPolls = 0
  MayCancel = TRUE
  MayDie = TRUE
SPECIFICATION Spec
SYMMETRY Symmetry
INVARIANTS
  CleanupAfterWork
  CleanedOnce
  NotStranded
  WaiterHasWaker
PROPERTIES
  BlockKept
  CompletesOnce
CHECK_DEADLOCK FALSE
