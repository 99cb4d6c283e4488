CONSTANTS
  v1 = v1
  v2 = v2
  v3 = v3
  k1 = k1
  k2 = k2
  k3 = k3
  Keys = {k1, k2, k3}
  AppKeys = {k1, k2}
  AppEnsembles <- MCEnsembles
  Values = {v1, v2, v3}
  Size <- MCSize
  Blank = v2
  ConfigNums <- MCConfigNums
  Infos <- MCInfos
  MaxInfo = 4
  MaxSessions = 2
  FreshUpdates = FALSE
  NoString = NoString
  PageRoom = 3
  LenRoom = 1
  ConfigsPerPage = 2
  Junk = Junk
  SourceSets <- MCSourceSets
  NoSource = NoSource
  KeyLen = 1
  Memories = {5, 6, 12, 99}
SPECIFICATION MSpec
INVARIANT ConfigsAreFound
CHECK_DEADLOCK FALSE
