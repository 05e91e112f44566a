SPECIFICATION Spec
CONSTANTS
  Caller = {c1}
  NumAttempts = 1
  MaxFault = 0
CHECK_DEADLOCK FALSE
INVARIANT AbandonedAttemptsExpire
