SPECIFICATION Spec
CONSTANTS
  o1 = o1
  bare = bare
  batch = batch
  Calls = {c1, c2}
  Ops = {o1, bare, batch}
  Asked <- MCAsked
  SafeToolsCsv = {}
  UnsafeToolsCsv = {}
  Requests <- OneOperation
  Sizes = {1}
  Streams = {FALSE, TRUE}
  Limit = 1
  MaxAttempts = 2
  MaxEntries = 1
  MaxTotalBytes = 1
  MaxEntryBytes = 1
  Window = 0
  MaxClock = 1
  None = None
INVARIANT FailureAfterSendingIsUnknown
CHECK_DEADLOCK FALSE
