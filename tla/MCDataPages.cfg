CONSTANTS
  k1 = k1
  k2 = k2
  k3 = k3
  Keys = {k1, k2, k3}
  BSize = 10
  PageHdr = 2
  DataHdr = 2
  Align = 2
  LenBase = 16
  Lens = {0, 1, 5, 12, 13, 17, 33}
  MaxChanges = 2
  ShrinkHuge = FALSE
  Junk = Junk
  NoData = NoData
SPECIFICATION Spec
SYMMETRY Symm
INVARIANT DataReadBack
INVARIANT RoomForHeader
INVARIANT WalkMeetsHeaders
