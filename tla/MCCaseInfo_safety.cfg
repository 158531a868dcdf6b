SPECIFICATION Spec
CONSTANTS
  c1 = c1
  c2 = c2
  Clients = {c1, c2}
  Handlers <- OneOfEachKind
  OpTries = 0
  ResultTries = 1
  MaxCrashes = 1
  MaxStarts = 1
SYMMETRY ClientSymmetry
INVARIANT TypeOK
INVARIANT NoEarlyAnswer
INVARIANT PauseQuiesces
INVARIANT OneServicePerRaise
INVARIANT PausedStaysPaused
INVARIANT AreaExclusion
PROPERTY AreaSpec
CHECK_DEADLOCK FALSE
