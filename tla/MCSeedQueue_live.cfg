SPECIFICATION FairSpec
CONSTANTS
  MapSize = 2
  MaxSeeds = 3
  InitSeeds = 2
  MaxCost = 1
  Stable = TRUE
  MayFail = TRUE
  MaxWrites = 0
  SkipThreshold = 2
  Wrap = 64
INVARIANT BestRated
INVARIANT FavoredCounts
INVARIANT NotFuzzedCount
PROPERTY FavoredFuzzed
CHECK_DEADLOCK FALSE
