SPECIFICATION FairSpec
CONSTANTS
  w1 = w1
  w2 = w2
  j1 = j1
  j2 = j2
  None = None
  Workers = {w1, w2}
  Jobs = {j1, j2}
  Capacity = 1
  MaxDeliver = 2
  MaxAckPending = 1
  MaxRuns = 2
  Faults = TRUE
INVARIANT TypeOK
INVARIANT NothingDropped
INVARIANT DeliveryBudget
INVARIANT WorkersStay
PROPERTY ShutdownCompletes
PROPERTY JobAttempted
CHECK_DEADLOCK FALSE
