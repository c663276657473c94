SPECIFICATION Spec
CONSTANTS
  Task <- GatesTask
  ApprovalId = {1, 2, 3, 4}
  AutoProceed = FALSE
  Deps <- GatesDeps
  Gate <- GatesGate
  OutsideWrites = {}
  NonEvidentiary = {}
  MaxRetries <- GatesRetries
  Delayed = {}
  Mandatory = {1}
  MaxParallel = 2
  Hazards = {}
  MaxStarts = 1
  MaxAttempts = 2
PROPERTIES
  RejectionHolds
CHECK_DEADLOCK FALSE
