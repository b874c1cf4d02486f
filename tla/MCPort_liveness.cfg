\* Every dispatch mode, one queue that may be terminated, two callbacks.
CONSTANTS
  Contexts = {c1}
  Tasks = {t1, t2}
  Workers = {w1, w2}
  Pumps = {p1}
  Closers = {k1}
  NoContext = NoContext
  Modes = {"Manual", "ThreadPool", "SerializedThreadPool", "Immediate"}
  PumpModes = {"Manual"}
  Waits = {TRUE}
  MaxDelay = 1
  MaxTime = 1
  TerminateOnce = TRUE
SPECIFICATION FairSpec
INVARIANTS
  OneAtATime
PROPERTIES
  Delivered
  TerminateReturns
  WorkersExit
  ImplementsFairDelivery
CHECK_DEADLOCK FALSE
