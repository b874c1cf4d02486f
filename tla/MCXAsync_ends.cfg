\* One call, two game threads, one of which may wait while the other collects.
CONSTANTS
  Calls = {a1}
  Blocks = {b1}
  Games = {g1, g2}
  NoCall = NoCall
  NoBlock = NoBlock
  Providers = {"run_sync", "run", "polling"}
  Sizes = {0, 1}
  MaxPolls = 2
  MayCancel = TRUE
  MayDie = TRUE
SPECIFICATION FairSpec
PROPERTIES
  EveryCallEnds
  EveryCallHeard
  WaitersReturn
CHECK_DEADLOCK FALSE
