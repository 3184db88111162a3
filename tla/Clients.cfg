SPECIFICATION ClientsSpec
CHECK_DEADLOCK FALSE
CONSTANTS
  Sessions = {c1, c2, c3}
  MaxConnections = 2
INVARIANTS
  ClientsTypeOK
  OpenWithinCapacity
  CountsAgree
  DisconnectReported
PROPERTIES
  UnwantedLeave
  StopCompletes
