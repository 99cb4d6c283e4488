CONSTANTS
  Keys <- Mixed
  Hash <- HashOf
  Size <- SizeOf
  NBuckets = 8
  WordBits = 6
  NCached = 7
  HdrPages = 1
  Cap = 2
  MapCap = 4
  MaxBuckets = 11
  MaxMore = 1
  Long <- LongOne
  Rearranging = {TRUE, FALSE}
  Syncs = TRUE
  MaxSessions = 2
SPECIFICATION RSpec
INVARIANT ClosedReadable
INVARIANT OpenRestores
INVARIANT SearchEnds
CHECK_DEADLOCK FALSE
