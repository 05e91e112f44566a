SPECIFICATION FairSpec
CONSTANTS
  Caller = {c1, c2}
  NumAttempts = 2
  MaxFault = 2
CHECK_DEADLOCK FALSE
INVARIANTS
  TypeOK
  OneOpenReplacement
  CancelledLeavesOnlyUnseen
PROPERTIES
  ImplementsCheckouts
  EveryOrderCloses
  EveryCreationEnds
