CONSTANTS
  Keys <- Large
  Hash <- HashOf
  Size <- SizeOf
  NBuckets = 2
  WordBits = 5
  NCached = 6
  HdrPages = 3
  Cap = 1
  MapCap = 1
  MaxBuckets = 6
  MaxMore = 0
SPECIFICATION Spec
INVARIANT KeysReachable
CHECK_DEADLOCK FALSE
