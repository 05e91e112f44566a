SPECIFICATION Spec
CONSTANTS
  Process = {p1, p2}
  Timeout = 1
  LockSeconds = 2
  Cadence = 2
  MaxAttempts = 2
  BaseDelay = 1
  DelayCap = 4
  AuditAll = TRUE
  MaxRun = 3
  MaxClock = 2
  Incidents = {"request", "fault"}
  MaxIncident = 1
SYMMETRY ProcessSymmetry
INVARIANTS
  TypeOK
  OverlapOnlyAfterExpiry
  AttemptsWithinBudget
  HealthyRunsNotAbandoned
PROPERTIES
  ImplementsExecutions
