\* The process queue is replaced while its handle is cached.
CONSTANTS
  Threads = {t1}
  Closers = {}
  Waiters = {}
  Tasks = {x1}
  Modes = {"Manual"}
  ManualReset = {}
  MaxQueues = 2
  MaxHandles = 3
  MaxPortHandles = 0
  MaxTokens = 0
  MaxSignals = 0
  MaxCalls = 6
SPECIFICATION Spec
PROPERTY MovedToProcessQueue
CHECK_DEADLOCK FALSE
