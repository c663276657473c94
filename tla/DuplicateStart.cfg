\* Three commands may run at once: a stale lock is cleared by one while another holds it.
SPECIFICATION StartupSpec
CONSTANTS
  Proc = {1, 2, 3}
  Plan <- MCPlan
  NoPlan = none
  Task <- MCTask
  NoTask = none
  SchemaCheck <- MCSchemaCheck
  ValidPlans <- MCValidPlans
  DoctorFails <- MCDoctorFails
  FirstReady <- MCFirstReady
  TasksOf <- MCTasksOf
  Concurrent = TRUE
  MaxEdits = 0
INVARIANTS
  OneClaimer
CHECK_DEADLOCK FALSE
