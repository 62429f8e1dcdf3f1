SPECIFICATION Spec
CONSTANTS
  o1 = o1
  bare = bare
  batch = batch
  Calls = {c1, c2, c3}
  Ops = {o1, bare, batch}
  Asked <- MCAsked
  SafeToolsCsv = {}
  UnsafeToolsCsv = {}
  Requests <- ThreeBodies
  Sizes = {1}
  Streams = {FALSE}
  Limit = 1
  MaxAttempts = 1
  MaxEntries = 1
  MaxTotalBytes = 3
  MaxEntryBytes = 3
  Window = 0
  MaxClock = 0
  None = None
INVARIANTS
  TypeOK
  OneGenerationAtATime
  NobodyWaitsForNothing
  SlotsBelongToWork
  ParamsAreAnswered
  OwnerIsToldUnknown
  DetachedResultIsKept
PROPERTIES
  KeyedRetryReplays
VIEW View
SYMMETRY Symmetry
CHECK_DEADLOCK FALSE
