SPECIFICATION MCSpec
CONSTANTS
  Requests = {r1, r2}
  Keys = {k1, k2}
  Limit = 2
  MaxBuckets = 1
  RefillAfter = 2
  StaleAfter = 4
  SweepEvery = 10
  Paths = {p1, p2}
  Tokens = {t1, t2, t3}
  Calls = {c1, c2}
  MaxClicks = 3
  Tracks = 2
  Levels = 2
  MaxTimers = 2
  MaxEntries = 2
  PlayerActs = 8
  Servers = {v1, v2}
  Services = {wifi, lan}
  ServerActs = 4
  Nil = Nil
SYMMETRY AppsSymmetry
INVARIANTS
  
  RatingIsSound
  
PROPERTIES
  BudgetIsKept
  OverflowIsFresh
  
  
  
  
