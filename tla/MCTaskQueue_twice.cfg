\* One of two queues that share their ports is terminated twice.
CONSTANTS
  Threads = {t1}
  Closers = {}
  Waiters = {}
  Tasks = {x1}
  Modes = {"Manual"}
  ManualReset = {}
  MaxQueues = 2
  MaxHandles = 2
  MaxPortHandles = 2
  MaxTokens = 0
  MaxSignals = 0
  MaxCalls = 2
SPECIFICATION SharedSpec
PROPERTY OthersKeepPortAlive
CHECK_DEADLOCK FALSE
