CONSTANTS
  r1 = r1
  r2 = r2
  w1 = w1
  w2 = w2
  Writers = {w1}
  Readers = {r1}
  Keys = {1, 5, 9, 13, 17, 2}
  Hash <- MCHash
  Values = {1, 2}
  Cap = 1
  NBuckets = 2
  MaxBuckets = 5
  MaxOvfl = 8
  MaxPuts = 5
  MaxGets = 1
  NoThread = NoThread
  NoVal = NoVal
  NoPage = NoPage
SPECIFICATION GrownSpec
INVARIANT AllFound
INVARIANT GetIsRight
INVARIANT PagesGivenBack
PROPERTY CallsReturn
CHECK_DEADLOCK FALSE
