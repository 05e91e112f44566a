SPECIFICATION FairSpec
CONSTANTS
  Worker = {w1, w2}
  NumOps = 2
  MaxAttempts = 2
  MaxRuns = 3
  MaxFault = 1
CONSTRAINTS
  NoClash
  DisputesEnd
CHECK_DEADLOCK FALSE
INVARIANTS
  TypeOK
  StatusTellsTheStore
PROPERTIES
  EveryOperationSettles
  ImplementsClaims
