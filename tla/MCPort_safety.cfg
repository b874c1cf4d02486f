\* The modes with a queue several threads take from: two queues, two callbacks.
CONSTANTS
  Contexts = {c1, c2}
  Tasks = {t1, t2}
  Workers = {w1, w2}
  Pumps = {p1}
  Closers = {k1, k2}
  NoContext = NoContext
  Modes = {"Manual", "ThreadPool"}
  PumpModes = {"Manual"}
  Waits = {TRUE}
  MaxDelay = 1
  MaxTime = 1
  TerminateOnce = TRUE
SPECIFICATION Spec
SYMMETRY Symmetry
INVARIANTS
  TypeOK
  ExactlyOnce
  CancelScope
  CountedInFlight
  TerminateWaits
  NoLostWakeup
PROPERTIES
  InOrder
  ImplementsDelivery
CHECK_DEADLOCK FALSE
