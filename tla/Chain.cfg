SPECIFICATION Spec
CONSTANTS
  Task <- ChainTask
  ApprovalId = {1, 2, 3}
  AutoProceed = FALSE
  Deps <- ChainDeps
  Gate <- ChainGate
  OutsideWrites = {}
  NonEvidentiary = {}
  MaxRetries <- ChainRetries
  Delayed = {}
  Mandatory = {1}
  MaxParallel = 2
  Hazards = {"late", "kill", "stop", "next", "launch"}
  MaxStarts = 2
  MaxAttempts = 2
INVARIANTS
  TypeOK
  RetryBudget
  ProcessAccounted
  DependenciesFirst
  CompleteIsTrue
  StoppedIsQuiet
PROPERTIES
  ImplementsLifecycle
CHECK_DEADLOCK FALSE
