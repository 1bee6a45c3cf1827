SPECIFICATION FairSpec
CONSTANTS
  Requests = {r1, r2}
  Keys = {k1}
  Limit = 1
  MaxBuckets = 1
  RefillAfter = 2
  StaleAfter = 4
  SweepEvery = 10
PROPERTY
  EveryRequestAnswered
