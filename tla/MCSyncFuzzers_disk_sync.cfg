SPECIFICATION SyncSpec
CONSTANTS
  InitSeeds = 2
  MaxSeeds = 3
  Touched <- SecondSeed
  MaxKills = 2
  MaxSyncKills = 1
INVARIANT SyncTypeOK
INVARIANT NothingLost
INVARIANT DetRemembered
INVARIANT DiskMirrorsMemory
INVARIANT SyncedMeansTried
CHECK_DEADLOCK FALSE
