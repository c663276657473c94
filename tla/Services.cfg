\* Every component around the orchestrator on its own instance, one per behaviour.
SPECIFICATION ServicesSpec
CONSTANTS
  Proc = {1, 2, 3}
  Plan <- MCPlan
  NoPlan = none
  Task <- MCTask
  NoTask = none
  SchemaCheck <- MCSchemaCheck
  ValidPlans <- MCValidPlans
  DoctorFails <- MCDoctorFails
  FirstReady <- MCFirstReady
  TasksOf <- MCTasksOf
  Concurrent = FALSE
  MaxEdits = 2
  PlanHash = {p1, p2}
  Nil = nil
  Contract = {c1}
  Lists <- MCLists
  Operation = {"run", "push"}
  MaxCommands = 4
  MaxEvents = 4
  MaxKills = 2
  Place = {"state.json", "execution_state.json", ".execution/task_graph.yaml", ".repro/task_graph.yaml"}
  MaxWrites = 2
  MaxJobs = 2
  Command = {"c1", "c2"}
  Experiment = {10, 11}
  Pid = {1, 2}
  Caller = {a, b}
  Engine = {1, 2}
  SoakCaller = {a, b}
  MaxSignals = 2
  CvoNode = {0, 300}
  Runner = {1, 2}
  ReviewTask = {t1, t2}
  ReviewConfig <- MCReviewConfig
  MaxWork = 2
  MaxStops = 3
  File = {1, 2, 3, 4}
  Special = {1}
  Cache = {2}
  Keep = 1
  MaxDay = 2
  MaxBatch = 6
  Fetcher = {a, b}
  MaxVersion = 2
  RetryMax = 1
  MaxTests = 3
  Name <- MCName
  LinkTo <- MCLinkTo
  AnyPath <- MCAnyPath
  RootList <- MCRootList
  LastDay = 2
  MaxLinks = 2
  MaxChecks = 1
  Worker = {1, 2}
  LastSecond = 3
  MaxRows = 10
  MaxClaims = 2
  Value <- MCValue
  Place4 = 10
  MaxSaves = 4
  Start = {a, b}
  Loop = {a, b}
  Heading <- MCHeading
  DocOpening <- MCDocOpening
  DocTask <- MCDocTask
  MaxTasks = 3
  FormOpening <- MCFormOpening
  FormTask <- MCFormTask
  MaxForms = 2
  Classes = 3
  Foreign = {9}
  MaxLabels = 3
SYMMETRY MCSymmetry
INVARIANTS
  PlanChecksAgree
  PlanReachesTable
  RecomputedMetrics
  ClaimFromRecordedPlan
  NeverLockedOut
  TornOnlyByKill
  AuthorizationHolds
  JournalIsPrefix
  RestoredMatchesManifest
  LedgerCurrent
  TrackerComplete
  OneDaemonPerKind
  OneSoakDaemon
  GpuExclusive
  RunningHasRunner
  ReviewSettles
  HandoffIsFinal
  StuckOnlyInCount
  CapacityIsBoundary
  HitIsCurrent
  VerdictRestsOnTests
  AllowedWritesLand
  IntegrityVerdict
  EvidenceListed
  VerdictsFollow
  ResumesFromWhole
  BoundaryGivenUp
  LevelsAnswer
PROPERTIES
  NoSilentSwitch
CHECK_DEADLOCK FALSE
