CONSTANTS
  Threads = {t1, t2}
  NoThread = NoThread
  Bkts = {b1, b2, b3}
  NoBkt = NoBkt
  LastPage = 2
  Values = {Clean, v}
  Clean = Clean
  MaxCache = 1
  WriteFrac = 1
  MaxHeld = 1
  MaxNest = 1
  Ordered = FALSE
  LockPages = {}
  DupPages = {}
  Moves = "none"
  Closes = FALSE
  Spurious = FALSE
  WriteFaults = TRUE
  ForeignOrder = FALSE
SPECIFICATION Spec
SYMMETRY Symmetry
PROPERTY ImplementsStore
