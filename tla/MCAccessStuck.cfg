CONSTANTS
  r1 = r1
  r2 = r2
  w1 = w1
  w2 = w2
  Writers = {w1}
  Readers = {r1}
  Keys = {0, 4, 8, 12}
  Hash <- MCHash
  Values = {1}
  Cap = 1
  NBuckets = 2
  MaxBuckets = 4
  MaxOvfl = 6
  MaxPuts = 4
  MaxGets = 1
  NoThread = NoThread
  NoVal = NoVal
  NoPage = NoPage
SPECIFICATION Spec
INVARIANT AllGivenBack
CHECK_DEADLOCK FALSE
