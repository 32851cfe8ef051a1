CONSTANTS
  NumJobs = 3
  Key <- JoinKey
  Needs <- JoinNeeds
  maxConcurrentJobs = 1
  MaxDeliveries = 2
  MaxFaults = 1
  MayLose = FALSE
  MayCancel = "created"
  MayDelete = TRUE
SPECIFICATION Spec
CHECK_DEADLOCK FALSE
INVARIANTS NeedsRespected ConcurrencyBounded PinnedWhileRunning RunVerdictHolds
PROPERTY KeepsContract
