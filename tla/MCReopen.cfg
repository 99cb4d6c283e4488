CONSTANTS
  Keys <- Gaps
  Hash <- HashOf
  Size <- SizeOf
  NBuckets = 4
  WordBits = 6
  NCached = 7
  HdrPages = 1
  Cap = 3
  MapCap = 4
  MaxBuckets = 9
  MaxMore = 1
  Long <- LongGap
  Rearranging = {FALSE}
  Syncs = TRUE
  MaxSessions = 2
SPECIFICATION RSpec
INVARIANT NoPageShared
INVARIANT OpenRestores
CHECK_DEADLOCK FALSE
