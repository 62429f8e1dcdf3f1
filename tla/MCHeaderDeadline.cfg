SPECIFICATION Spec
CONSTANTS
  MaxChunks = 3
  Room = 1
  Idle = 2
  Total = 4
  Deadline = 3
  MaxTime = 8
  None = None
INVARIANT HeaderDeadlineSparesStreams
CHECK_DEADLOCK FALSE
