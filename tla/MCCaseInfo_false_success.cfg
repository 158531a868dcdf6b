SPECIFICATION Spec
CONSTANTS
  c1 = c1
  Clients = {c1}
  Handlers <- WriteCurOnly
  OpTries = 1
  ResultTries = 2
  MaxCrashes = 0
  MaxStarts = 0
INVARIANT SuccessMeansExecuted
