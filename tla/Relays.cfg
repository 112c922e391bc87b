SPECIFICATION Spec
CONSTANTS
  MaxRuns = 2
  Notifications = {1, 2}
  MaxFaults = 2
  Exhausted = {1, 2}
  AdvisoryStream = TRUE
  MaxMonitorFaults = 2
INVARIANT RelaysTypeOK
INVARIANT InOrder
PROPERTY NotificationRelay
PROPERTY DeadLetterRelay
PROPERTY Forwarded
CHECK_DEADLOCK FALSE
