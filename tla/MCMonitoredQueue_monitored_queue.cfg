SPECIFICATION Spec
SYMMETRY EdgeSymmetry
CONSTRAINT Explored
CONSTANTS
  Edges = {e1, e2}
  Classes = 1
  Distances <- FewDistances
  Handicaps <- SecondCycle
  CalChances = 2
  MadeUp <- Stranger
  KeepCrashes = 2
  KeepHangs = 2
  InitSeeds = 1
  MaxSeeds = 3
  MaxQueueLen = 1
  MaxRequests = 2
  MaxLives = 2
INVARIANT TypeOK
INVARIANT Witnessed
INVARIANT DistancesBounded
INVARIANT SurvivesRequests
PROPERTY ReadsHarmless
PROPERTY WritesLand
CHECK_DEADLOCK FALSE
