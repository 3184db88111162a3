SPECIFICATION PersistSpec
CHECK_DEADLOCK FALSE
CONSTANTS
  EntityIds = {e1}
  InitialData <- Zero
  OpLists <- Counting
  MaxHistory = 1
  MaxVersion = 4
  MaxTime = 0
  MaxSaved = 1
  MaxSnapshots = 2
  Base = 2
  MaxClock = 3
  MaxFileEntries = 1
  MaxFiles = 4
INVARIANTS
  CheckpointCovered
  CleanRestartKeepsEntities
  VersionBeyondSnapshot
