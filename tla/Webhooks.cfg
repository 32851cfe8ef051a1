SPECIFICATION FairSpec
CONSTANTS
  None = None
  Gone = Gone
  Hooks = {h1}
  Ids = {d1, d2}
  Workers = {w1, w2}
  ContentTypes = {"json"}
  EventSets = {{"push"}}
  MaxAttempts = 3
  Lease = 2
  RetryBase = 1
  RetryCap = 2
  AttemptLimit = 1
  MaxCrashes = 1
  DieInLast = FALSE
  RedeliverSpent = FALSE
PROPERTIES
  SuccessIsFinal
  DeliveriesSettle
CHECK_DEADLOCK FALSE
