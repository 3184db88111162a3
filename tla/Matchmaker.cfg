SPECIFICATION MMSpec
CHECK_DEADLOCK FALSE
CONSTANTS
  p1 = p1
  ServerIds = {s1, s2}
  Modes = {m1, m2}
  Capacities = {2}
  MaxServers = 2
  Players = {p1, p2, p3, p4}
  Rating <- MCRating
  MinPlayers = 2
  MaxPlayers = 2
  MaxWait = 1
  MaxRequests = 4
SYMMETRY Interchangeable
INVARIANTS
  MatchedOnce
  NoRequestLost
PROPERTIES
  NothingReturns
