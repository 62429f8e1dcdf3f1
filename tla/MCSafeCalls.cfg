SPECIFICATION Spec
CONSTANTS
  MaxChunks = 3
  Room = 1
  Idle = 2
  Total = 4
  Deadline = 3
  MaxTime = 8
  None = None
INVARIANTS
  TypeOK
  TruncationIsReported
  CleanEndIsWhole
  UpstreamIsReleased
PROPERTY CallEnds
CHECK_DEADLOCK FALSE
