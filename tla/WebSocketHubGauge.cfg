SPECIFICATION Spec
CONSTANTS
  k1 = k1
  u1 = u1
  Nobody = Nobody
  Clients = {k1}
  Users = {u1}
  SendBuffer = 1
  BroadcastBuffer = 1
  MaxMessages = 0
INVARIANT ActiveConnections
CHECK_DEADLOCK FALSE
