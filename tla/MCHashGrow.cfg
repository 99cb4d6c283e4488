CONSTANTS
  Keys <- Crowded
  Hash <- HashOf
  Size <- SizeOf
  NBuckets = 2
  WordBits = 5
  NCached = 6
  HdrPages = 3
  Cap = 1
  MapCap = 1
  MaxBuckets = 8
  MaxMore = 1
SPECIFICATION LiveSpec
INVARIANT TypeOK
INVARIANT KeysReachable
INVARIANT KeysOnce
INVARIANT NoPageLost
PROPERTY PutReturns
CHECK_DEADLOCK FALSE
