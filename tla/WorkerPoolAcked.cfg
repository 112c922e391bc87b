SPECIFICATION Spec
CONSTANTS
  w1 = w1
  j1 = j1
  None = None
  Workers = {w1}
  Jobs = {j1}
  Capacity = 1
  MaxDeliver = 3
  MaxAckPending = 1
  MaxRuns = 1
  Faults = FALSE
INVARIANT AckedIsModerated
CHECK_DEADLOCK FALSE
