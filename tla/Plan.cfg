SPECIFICATION FairSpec
CONSTANTS
  Task <- PlanTask
  ApprovalId = {1, 2}
  AutoProceed = TRUE
  Deps <- PlanDeps
  Gate <- PlanGate
  OutsideWrites = {4}
  NonEvidentiary = {}
  MaxRetries <- PlanRetries
  Delayed = {1}
  Mandatory = {1}
  MaxParallel = 2
  Hazards = {"pause", "stop", "launch"}
  MaxStarts = 1
  MaxAttempts = 2
INVARIANTS
  NeverCrashes
PROPERTIES
  RunEnds
CHECK_DEADLOCK FALSE
