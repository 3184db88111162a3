SPECIFICATION Spec
CONSTANTS
  EntityIds = {e1, e2}
  InitialData <- MCInitialData
  OpLists <- MCOpLists
  MaxHistory = 2
  MaxVersion = 4
  MaxTime = 1
  MaxSaved = 2
INVARIANTS
  TypeOK
  HistoryChain
  EntityVersionBounded
  SnapshotIsCurrent
