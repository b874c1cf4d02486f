\* The names a read keeps, and what frees them.
CONSTANTS
  Threads = {t1}
  Containers = {c1}
  Blobs = {b1}
  Sizes = {2}
  META_FILE = META_FILE
  NoDir = NoDir
  PLACEHOLDER_QUOTA_BYTES = 3
  MaxHandles = 1
  MaxUpdates = 1
  MaxRequests = 1
  MaxBreaks = 0
SPECIFICATION Spec
INVARIANT NamesAlive
CHECK_DEADLOCK FALSE
