CONSTANTS
  Threads = {t1, t2}
  MaxBucket = 2
  Chains <- SomeChains
  DataOf <- TwoDataPages
SPECIFICATION FairSpec
INVARIANT SweepIsComplete
INVARIANT PinsAreTheCursors
PROPERTY CallsReturn
