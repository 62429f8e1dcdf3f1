SPECIFICATION Spec
CONSTANTS
  MaxAttempts = 3
  BaseDelay = 1
  Deadline = 3
  UnsafeMax = 5
  MaxTime = 8
  RetryAfters <- MCRetryAfters
INVARIANTS
  TypeOK
  UnsafeLeavesOnce
  UnknownOutcomeIsReported
PROPERTIES
  NoSafeWriteAfterGivingUp
  LoopEnds
CHECK_DEADLOCK FALSE
