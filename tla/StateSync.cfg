SPECIFICATION SyncSpec
CONSTANTS
  EntityIds = {e1, e2}
  InitialData <- Empty
  OpLists <- Sets
  MaxHistory = 3
  MaxVersion = 7
  MaxTime = 1
  MaxSaved = 0
  BatchSize = 3
  Strategies = {"last_write_wins", "first_write_wins", "merge"}
  MaxPending = 6
INVARIANTS
  PendingChain
  LastWritesKept
