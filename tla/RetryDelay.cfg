SPECIFICATION Spec
CONSTANTS
  Task <- ChainTask
  ApprovalId = {1, 2, 3, 4}
  AutoProceed = FALSE
  Deps <- ChainDeps
  Gate <- ChainGate
  OutsideWrites = {}
  NonEvidentiary = {}
  MaxRetries <- ChainRetries
  Delayed = {1}
  Mandatory = {1}
  MaxParallel = 2
  Hazards = {}
  MaxStarts = 1
  MaxAttempts = 2
PROPERTIES
  RetryDelayKept
CHECK_DEADLOCK FALSE
