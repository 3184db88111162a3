SPECIFICATION FilesSpec
CONSTANTS
  MaxSnapshots = 2
  Base = 10
  Bursts = {5}
  MaxVersion = 15
  MaxClock = 4
INVARIANTS
  NewestKept
PROPERTY
  RestartLoadsNewest
