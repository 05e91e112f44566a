SPECIFICATION FairSpec
CONSTANTS
  Worker = {w1, w2}
  NumMessages = 3
  NumRetired = 1
  MaxAttempts = 2
  Batch = 2
  Faults = {"provider", "mark", "crash", "lapse"}
  MaxFault = 2
INVARIANTS
  TypeOK
  ClaimIsExclusive
  SendsAreAccounted
PROPERTIES
  EveryMessageSettles
  ImplementsDelivery
