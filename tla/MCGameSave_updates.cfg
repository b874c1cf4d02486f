\* One container, two blobs, two threads, one update, one interruption.
CONSTANTS
  Threads = {t1, t2}
  Containers = {c1}
  Blobs = {b1, b2}
  Sizes = {1, 2}
  META_FILE = META_FILE
  NoDir = NoDir
  PLACEHOLDER_QUOTA_BYTES = 3
  MaxHandles = 1
  MaxUpdates = 1
  MaxRequests = 2
  MaxBreaks = 1
SPECIFICATION Spec
SYMMETRY Symmetry
INVARIANTS
  SubmittedLands
  PendingIsAsked
  OneTornPerBreak
CHECK_DEADLOCK FALSE
