SPECIFICATION Spec
CONSTANTS
  Worker = {w1}
  NumMessages = 3
  NumRetired = 1
  MaxAttempts = 2
  Batch = 2
  Faults = {"provider"}
  MaxFault = 2
INVARIANT
  FiveAttemptBoundary
