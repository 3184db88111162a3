SPECIFICATION BrokerSpec
CHECK_DEADLOCK FALSE
CONSTANTS
  MaxSubscriptions = 3
  MaxMessages = 3
  Filtering = {2}
  Filtered = {2}
  Capacity = 2
  Values = {1, 2, 3}
  Undefined = 0
INVARIANTS
  DeliveredToAll
  FirstInOrder
PROPERTIES
  SilentAfterUnsubscribe
  BufferIsQueue
