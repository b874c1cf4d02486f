\* A waiter on a handle that stays signalled; every callback is run by the pool.
CONSTANTS
  Threads = {t1}
  Closers = {}
  Waiters = {w1}
  Tasks = {x1, x2}
  Modes = {"ThreadPool"}
  ManualReset = {w1}
  MaxQueues = 1
  MaxHandles = 1
  MaxPortHandles = 0
  MaxTokens = 0
  MaxSignals = 1
  MaxCalls = 5
SPECIFICATION FairSpec
PROPERTY UnregisterReturns
CHECK_DEADLOCK FALSE
