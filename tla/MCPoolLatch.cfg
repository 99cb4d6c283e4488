CONSTANTS
  Threads = {t1, t2, t3}
  NoThread = NoThread
  Bkts = {b1, b2}
  NoBkt = NoBkt
  LastPage = 1
  Values = {Clean}
  Clean = Clean
  MaxCache = 0
  WriteFrac = 5
  MaxHeld = 2
  MaxNest = 1
  Ordered = TRUE
  LockPages = {}
  DupPages = {}
  Moves = "any"
  Closes = FALSE
  Spurious = TRUE
  WriteFaults = FALSE
  ForeignOrder = FALSE
SPECIFICATION LatchSpec
INVARIANT Exclusive
INVARIANT NoAbort
INVARIANT NoLostWakeup
PROPERTY NoBarging
PROPERTY GetReturns
