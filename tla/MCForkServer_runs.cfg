SPECIFICATION FairSpec
CONSTANTS
  Modes <- AllModes
  MaxRuns = 3
INVARIANT TypeOK
INVARIANT OneChild
INVARIANT TraceQuiet
INVARIANT VerdictOfThisRun
PROPERTY RunReturns
CHECK_DEADLOCK FALSE
