SPECIFICATION FairSpec
CONSTANTS
  Process = {p1, p2}
  Timeout = 1
  LockSeconds = 2
  Cadence = 4
  MaxAttempts = 2
  BaseDelay = 1
  DelayCap = 4
  AuditAll = TRUE
  MaxRun = 2
  MaxClock = 3
  Incidents = {"fault"}
  MaxIncident = 1
PROPERTIES
  RunningEnds
