SPECIFICATION Spec
CONSTANTS
  p1 = p1
  p2 = p2
  Nobody = Nobody
  Orphan = Orphan
  Callers = {p1, p2}
  Keys = {1, 2}
  MaxRetries = 1
  Contents = {1, 2, 3, 4}
  PageSize = 2
  MaxLimit = 3
  DefaultLimit = 1
  w1 = w1
  w2 = w2
  s1 = s1
  Workers = {w1, w2}
  Streams = {s1}
  Retries = 1
  MaxRequests = 2
  MinRequests = 3
  RatioNum = 3
  RatioDen = 5
  MaxWindow = 6
INVARIANT LockTypeOK
INVARIANT OneHolder
INVARIANT StreamTypeOK
INVARIANT DriftBounded
INVARIANT ClientTypeOK
INVARIANT CountsAddUp
INVARIANT HalfOpenCanSettle
PROPERTY FetchedOnce
PROPERTY CallReturns
 
PROPERTY HalfOpenSettles
CHECK_DEADLOCK FALSE
