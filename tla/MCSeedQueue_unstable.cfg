SPECIFICATION Spec
CONSTANTS
  MapSize = 3
  MaxSeeds = 2
  InitSeeds = 1
  MaxCost = 1
  Stable = FALSE
  MayFail = FALSE
  MaxWrites = 0
  SkipThreshold = 10
  Wrap = 64
INVARIANT FavoredCounts
CHECK_DEADLOCK FALSE
