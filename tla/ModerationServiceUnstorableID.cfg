SPECIFICATION Spec
CONSTANTS
  w1 = w1
  c1 = c1
  Nobody = Nobody
  Workers = {w1}
  Streams = {}
  Contents = {c1}
  MaxCalls = 1
  Faults = FALSE
  StorableID = FALSE
PROPERTY VerdictStored
CHECK_DEADLOCK FALSE
