SPECIFICATION Spec
CONSTANTS
  Inputs <- SmallInputs
  ArithMax = 35
  Interesting8 <- Config8
  Interesting16 <- Config16
  EffChunk = 1
  EffMinLen = 3
  EffMaxPerc = 90
INVARIANT TypeOK
INVARIANT NothingSkipped
INVARIANT NoDupes
CHECK_DEADLOCK FALSE
