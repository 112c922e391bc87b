SPECIFICATION Spec
CONSTANTS
  MaxRuns = 1
  Notifications = {1}
  MaxFaults = 0
  Exhausted = {1}
  AdvisoryStream = FALSE
  MaxMonitorFaults = 0
PROPERTY DeadLetterCopied
CHECK_DEADLOCK FALSE
