SPECIFICATION Spec
CONSTANTS
  t1 = t1
  t2 = t2
  f1 = f1
  f2 = f2
  Threads = {t1, t2}
  Ids = {f1, f2}
  MaxObjects = 3
INVARIANT TypeOK
INVARIANT NullNeverUsed
INVARIANT ConnectedReachable
PROPERTY RegisteredForGood
CHECK_DEADLOCK FALSE
