SPECIFICATION FairSpec
CONSTANTS
  Sweeper = {s1}
  Admin = {a1}
  Image = {i1}
  Artifact = {a}
  FirstImage = "none"
  Timeout = 0
  MaxAttempts = 2
  Backoff <- MCBackoff
  MaxLag = 1
  Incidents = {"storage", "database", "audit", "crash"}
  MaxIncident = 1
  MaxEdit = 1
INVARIANTS
  TypeOK
  SuccessMeansRemoved
  LiveObjectsStayStored
  FinalizedMeansRemoved
PROPERTIES
  DeletionCompletes
  ImplementsRetention
