CONSTANTS
  NumJobs = 1
  Key <- OneKey
  Needs <- OneNeeds
  maxConcurrentJobs = 1
  MaxDeliveries = 2
  MaxFaults = 1
  MayLose = FALSE
  MayCancel = "never"
  MayDelete = FALSE
SPECIFICATION FairSpec
CHECK_DEADLOCK FALSE
PROPERTY RunCompletes
