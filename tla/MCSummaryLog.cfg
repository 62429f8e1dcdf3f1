SPECIFICATION Spec
CONSTANTS
  r1 = r1
  r2 = r2
  Requests = {r1, r2}
  MaxSize = 1
  MaxRotated = 2
  Found <- MCFound
  FoundLines = 3
  MaxLines = 6
  MaxFaults = 2
  None = None
INVARIANTS
  TypeOK
  AnsweredLinesSurvive
PROPERTIES
  ImplementsLineLog
  ShutdownEnds
CHECK_DEADLOCK FALSE
