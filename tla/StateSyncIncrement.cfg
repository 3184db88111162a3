SPECIFICATION SyncSpec
CONSTANTS
  EntityIds = {e1}
  InitialData <- Ten
  OpLists <- PlusFive
  MaxHistory = 2
  MaxVersion = 5
  MaxTime = 0
  MaxSaved = 0
  BatchSize = 100
  Strategies = {"last_write_wins"}
  MaxPending = 6
INVARIANT UpdatesAppliedOnce
