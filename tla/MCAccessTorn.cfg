CONSTANTS
  r1 = r1
  r2 = r2
  w1 = w1
  w2 = w2
  Writers = {w1}
  Readers = {r1}
  Keys = {0, 2, 4}
  Hash <- MCHash
  Values = {1, 2}
  Cap = 1
  NBuckets = 2
  MaxBuckets = 4
  MaxOvfl = 3
  MaxPuts = 4
  MaxGets = 2
  NoThread = NoThread
  NoVal = NoVal
  NoPage = NoPage
SPECIFICATION Spec
INVARIANT GetIsCertain
CHECK_DEADLOCK FALSE
