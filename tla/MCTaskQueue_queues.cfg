\* Two queues, from none or sharing their ports; a game thread, a closer, a waiter.
CONSTANTS
  Threads = {t1}
  Closers = {k1}
  Waiters = {w1}
  Tasks = {x1, x2}
  Modes = {"Manual"}
  ManualReset = {}
  MaxQueues = 2
  MaxHandles = 4
  MaxPortHandles = 2
  MaxTokens = 1
  MaxSignals = 1
  MaxCalls = 5
SPECIFICATION EitherSpec
INVARIANTS
  QuietAfterUnregister
  TerminatedAfterDrain
SYMMETRY Symmetry
CHECK_DEADLOCK FALSE
