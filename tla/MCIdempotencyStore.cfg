SPECIFICATION Spec
CONSTANTS
  Fps = {f1, f2, f3}
  Gens = {g1}
  Jobs = {j1, j2}
  Sizes = {1, 2, 4}
  MaxEntries = 2
  MaxTotalBytes = 3
  MaxEntryBytes = 3
  Window = 1
  MaxClock = 2
  None = None
INVARIANTS
  TypeOK
  Bounded
  PendingIsFound
PROPERTIES
  EvictsLeastRecentlyUsed
  ImplementsReplayMemory
SYMMETRY Symmetry
