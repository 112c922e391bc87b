SPECIFICATION Spec
CONSTANTS
  w1 = w1
  w2 = w2
  c1 = c1
  Nobody = Nobody
  Workers = {w1, w2}
  Streams = {}
  Contents = {c1}
  MaxCalls = 2
  Faults = FALSE
  StorableID = TRUE
PROPERTY DecidedOnce
CHECK_DEADLOCK FALSE
