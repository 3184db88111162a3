SPECIFICATION MMSpec
CHECK_DEADLOCK FALSE
CONSTANTS
  p1 = p1
  ServerIds = {s1, s2}
  Modes = {m1}
  Capacities = {2}
  MaxServers = 1
  Players = {p1, p2}
  Rating <- MCRating
  MinPlayers = 2
  MaxPlayers = 2
  MaxWait = 2
  MaxRequests = 2
INVARIANTS
  CapacityRespected
PROPERTIES
  NoRevival
  ServersAsSpecified
  NobodyWaitsForever
  MatchesSettle
