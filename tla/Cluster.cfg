SPECIFICATION ClusterSpec
CHECK_DEADLOCK FALSE
CONSTANTS
  Nodes = {1, 2, 3}
  Local = 2
  Timeout = 1
  StartTimes = {1, 2}
  LocalStart = 2
INVARIANTS
  LeaderPresent
PROPERTIES
  NoHastyOffline
  LeaderKept
  DeadLeaderReplaced
