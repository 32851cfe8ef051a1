CONSTANTS
  NumJobs = 5
  Key <- MatrixKey
  Needs <- MatrixNeeds
  maxConcurrentJobs = 2
  MaxDeliveries = 3
  MaxFaults = 0
  MayLose = TRUE
  MayCancel = "never"
  MayDelete = FALSE
SPECIFICATION FairSpec
CHECK_DEADLOCK FALSE
INVARIANT ChecksAgree
PROPERTY RunCompletes
