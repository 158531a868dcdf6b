SPECIFICATION Spec
CONSTANTS
  MapSize = 2
  MaxSeeds = 2
  InitSeeds = 1
  MaxCost = 1
  Stable = FALSE
  MayFail = TRUE
  MaxWrites = 1
  SkipThreshold = 1
  Wrap = 8
INVARIANT TypeOK
INVARIANT RefCounts
INVARIANT MiniKept
INVARIANT FavoredCover
CHECK_DEADLOCK FALSE
