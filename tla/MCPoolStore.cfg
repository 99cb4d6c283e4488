CONSTANTS
  Threads = {t1, t2}
  NoThread = NoThread
  Bkts = {b1, b2, b3}
  NoBkt = NoBkt
  LastPage = 2
  Values = {Clean, v}
  Clean = Clean
  MaxCache = 1
  WriteFrac = 5
  MaxHeld = 1
  MaxNest = 1
  Ordered = FALSE
  LockPages = {0}
  DupPages = {2}
  Moves = "alone"
  Closes = TRUE
  Spurious = TRUE
  WriteFaults = FALSE
  ForeignOrder = FALSE
SPECIFICATION Spec
SYMMETRY Symmetry
INVARIANT TypeOK
INVARIANT LruIsPool
INVARIANT CacheBound
INVARIANT CleanCopyIsDisk
INVARIANT NothingBeyondEnd
PROPERTY CloseFlushes
PROPERTY ImplementsStore
