SPECIFICATION FairSpec
CONSTANTS
  w1 = w1
  s1 = s1
  c1 = c1
  Nobody = Nobody
  Workers = {w1}
  Streams = {s1}
  Contents = {c1}
  MaxCalls = 3
  Faults = TRUE
  StorableID = TRUE
INVARIANT ToldTheVerdict
PROPERTY DecidedOnce
PROPERTY WorkerReturns
PROPERTY LockFreed
CHECK_DEADLOCK FALSE
