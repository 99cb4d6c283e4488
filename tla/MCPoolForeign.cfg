CONSTANTS
  Threads = {t1}
  NoThread = NoThread
  Bkts = {b1, b2, b3}
  NoBkt = NoBkt
  LastPage = 2
  Values = {Clean, v}
  Clean = Clean
  MaxCache = 1
  WriteFrac = 5
  MaxHeld = 1
  MaxNest = 1
  Ordered = FALSE
  LockPages = {}
  DupPages = {}
  Moves = "none"
  Closes = FALSE
  Spurious = FALSE
  WriteFaults = FALSE
  ForeignOrder = TRUE
SPECIFICATION Spec
SYMMETRY Symmetry
INVARIANT MachineOrder
