SPECIFICATION Spec
CONSTANTS
  Task <- GatesTask
  ApprovalId = {1, 2, 3, 4, 5}
  AutoProceed = FALSE
  Deps <- GatesDeps
  Gate <- GatesGate
  OutsideWrites = {}
  NonEvidentiary = {2}
  MaxRetries <- GatesRetries
  Delayed = {}
  Mandatory = {}
  MaxParallel = 2
  Hazards = {"late"}
  MaxStarts = 2
  MaxAttempts = 1
INVARIANTS
  ApprovedFirst
  WaitingIsDecidable
CHECK_DEADLOCK FALSE
