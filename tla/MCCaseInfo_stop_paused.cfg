SPECIFICATION FairSpec
CONSTANTS
  c1 = c1
  Clients = {c1}
  Handlers <- PauseOnly
  OpTries = 1
  ResultTries = 2
  MaxCrashes = 0
  MaxStarts = 0
PROPERTY StopTerminates
