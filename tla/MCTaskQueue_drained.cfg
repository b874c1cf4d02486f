\* Two terminations of one queue, one of them on a thread of its own.
CONSTANTS
  Threads = {t1}
  Closers = {k1}
  Waiters = {}
  Tasks = {x1}
  Modes = {"Manual"}
  ManualReset = {}
  MaxQueues = 2
  MaxHandles = 2
  MaxPortHandles = 2
  MaxTokens = 0
  MaxSignals = 0
  MaxCalls = 3
SPECIFICATION SharedSpec
INVARIANT CalledBackAfterAll
CHECK_DEADLOCK FALSE
