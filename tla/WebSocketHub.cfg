SPECIFICATION FairSpec
CONSTANTS
  k1 = k1
  k2 = k2
  u1 = u1
  u2 = u2
  Nobody = Nobody
  Clients = {k1, k2}
  Users = {u1, u2}
  SendBuffer = 1
  BroadcastBuffer = 1
  MaxMessages = 2
INVARIANT TypeOK
INVARIANT ClosedOnce
INVARIANT NoGap
PROPERTY ConnectionEnds
PROPERTY HubServes
CHECK_DEADLOCK FALSE
