SPECIFICATION ApiSpec
CONSTANTS
  Keys = {k1}
  Window = 2
  MaxRequests = 1
  Calls = {c1, c2}
  Names = {"admin"}
  Roles = {"admin", "player"}
  Rules <- MCRules
  Values = {0, 1}
  MaxHistory = 2
INVARIANTS
  AtMostTwice
  RetryAfterKept
  NamesTakenOnce
  HistoryAlternates
PROPERTIES
  AlertsFollow
