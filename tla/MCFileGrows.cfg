CONSTANTS
  Keys <- Mixed
  Hash <- HashOf
  Size <- SizeOf
  NBuckets = 8
  WordBits = 6
  NCached = 7
  HdrPages = 1
  Cap = 2
  MapCap = 4
  MaxBuckets = 11
  MaxMore = 0
  Long = {}
  Rearranging = {TRUE}
  Syncs = FALSE
  MaxSessions = 1
SPECIFICATION RSpec
INVARIANT NeverGrows
CHECK_DEADLOCK FALSE
