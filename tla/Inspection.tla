----------------------------- MODULE Inspection -----------------------------
(***************************************************************************)
(* The two inspectors of a project: `integrity-check` (backup.py) and the  *)
(* doctor (startup/doctor.py).  They read, over a while, what others are   *)
(* writing: the row of a task whose process a controller runs and          *)
(* collects, the ledger state.json, the state file.  One task stands for   *)
(* all of them; the integrity check looks at each on its own.              *)
(*                                                                         *)
(* A child that ended stays a zombie, and answers a signal, until its      *)
(* controller polls it; one that a later controller adopted does not.      *)
(* What else can be wrong with a machine is one ailment per behaviour.     *)
(* The plan hash is left out of the check: nobody writes the two metadata  *)
(* rows it reads.  A truncated log is a warning and changes no verdict.    *)
(***************************************************************************)
EXTENDS Naturals, FiniteSets

CONSTANT MaxChecks     \* bound on the integrity checks

ASSUME InspectionAssumption == MaxChecks \in Nat

VARIABLES
  inRow,        \* the row: its state, whether it has a pid, finished_at, any tests
  process,      \* the process of the task
  controllers,  \* "up" or "down", and whether one was ever killed
  ledgerFile,   \* state.json: "absent", "whole", "torn" while it is written
  stateFile,    \* execution_state.json, likewise
  ailment,      \* what the doctor will find besides
  inspector,    \* the integrity check: its next step, the row it saw, its issues
  checksDone,   \* how many there were
  meanwhile,    \* history: something moved since the check began
  doctorSays    \* the doctor's last overall verdict

inspectionVars == <<inRow, process, controllers, ledgerFile, stateFile, ailment, inspector,
                    checksDone, meanwhile, doctorSays>>

Ailment == {"healthy", "plugin", "config", "no repo", "no commit", "no plan", "plan gone", "graph",
            "unreadable graph", "disk full", "disk low", "read-only", "no gpu", "wrong cuda",
            "no driver", "no torch", "secret", "leftovers", "small checkpoint"}

NoCheck == [at |-> "idle", saw |-> FALSE, issues |-> {}]

InspectionInit ==
  /\ \E tests \in BOOLEAN : inRow = [state |-> "READY", pid |-> FALSE, finished |-> FALSE, tests |-> tests]
  /\ process = "none" /\ controllers = [up |-> TRUE, killed |-> FALSE]
  /\ ledgerFile = "absent" /\ stateFile = "absent" /\ ailment \in Ailment
  /\ inspector = NoCheck /\ checksDone = 0 /\ meanwhile = FALSE /\ doctorSays = "none"

Moves(v) == meanwhile' = TRUE /\ UNCHANGED <<ailment, inspector, checksDone, doctorSays, v>>

-----------------------------------------------------------------------------
(* What is going on in the project *)

\* Claimed and started: the row is RUNNING before it has a pid.
Claim ==
  /\ controllers.up /\ inRow.state = "READY"
  /\ inRow' = [inRow EXCEPT !.state = "RUNNING"]
  /\ Moves(<<process, controllers, ledgerFile, stateFile>>)
StartProcess ==
  /\ controllers.up /\ inRow.state = "RUNNING" /\ ~inRow.pid
  /\ inRow' = [inRow EXCEPT !.pid = TRUE] /\ process' = "child"
  /\ Moves(<<controllers, ledgerFile, stateFile>>)

ProcessEnds ==
  /\ process \in {"child", "adopted"}
  /\ process' = IF process = "child" THEN "zombie" ELSE "gone"
  /\ Moves(<<inRow, controllers, ledgerFile, stateFile>>)

\* The controller polls, which reaps a zombie, and only then moves the row; verification
\* and retries are left out.
Reap ==
  /\ controllers.up /\ process = "zombie" /\ process' = "gone"
  /\ Moves(<<inRow, controllers, ledgerFile, stateFile>>)
Collect ==
  /\ controllers.up /\ inRow.state = "RUNNING" /\ process = "gone"
  /\ \E verdict \in {"PASSED", "FAILED"} :
       inRow' = [inRow EXCEPT !.state = verdict, !.pid = FALSE, !.finished = TRUE]
  /\ Moves(<<process, controllers, ledgerFile, stateFile>>)

\* Its children go on without it; the zombies are reaped by init.
ControllerKilled ==
  /\ controllers.up /\ controllers' = [up |-> FALSE, killed |-> TRUE]
  /\ process' = CASE process = "child" -> "adopted" [] process = "zombie" -> "gone" [] OTHER -> process
  /\ Moves(<<inRow, ledgerFile, stateFile>>)
ControllerRestarted ==
  /\ ~controllers.up /\ controllers' = [controllers EXCEPT !.up = TRUE]
  /\ Moves(<<inRow, process, ledgerFile, stateFile>>)

\* Both files are emptied and then filled.
SaveFiles ==
  \/ ledgerFile' = (IF ledgerFile = "torn" THEN "whole" ELSE "torn")
       /\ Moves(<<inRow, process, controllers, stateFile>>)
  \/ stateFile' = (IF stateFile = "torn" THEN "whole" ELSE "torn")
       /\ Moves(<<inRow, process, controllers, ledgerFile>>)

-----------------------------------------------------------------------------
(* integrity-check *)

Inspect(next, saw, found) ==
  /\ inspector' = [at |-> next, saw |-> saw, issues |-> inspector.issues \cup found]
  /\ UNCHANGED <<inRow, process, controllers, ledgerFile, stateFile, ailment, doctorSays>>

BeginCheck ==
  /\ inspector.at \in {"idle", "done"} /\ checksDone < MaxChecks
  /\ inspector' = [NoCheck EXCEPT !.at = "ledger"]
  /\ checksDone' = checksDone + 1 /\ meanwhile' = FALSE
  /\ UNCHANGED <<inRow, process, controllers, ledgerFile, stateFile, ailment, doctorSays>>

CheckLedger ==
  /\ inspector.at = "ledger"
  /\ Inspect("rows", FALSE, IF ledgerFile = "torn" THEN {"ledger"} ELSE {})
  /\ UNCHANGED <<checksDone, meanwhile>>

\* The rows that are RUNNING and have a pid ...
ReadRunning ==
  /\ inspector.at = "rows"
  /\ Inspect("probe", inRow.state = "RUNNING" /\ inRow.pid, {})
  /\ UNCHANGED <<checksDone, meanwhile>>

\* Mutant of ProbePid: only a process that can still be scheduled is there.
ProbePidAlive ==
  /\ inspector.at = "probe"
  /\ Inspect("rest", FALSE,
       IF inspector.saw /\ process \notin {"child", "adopted"} THEN {"orphan"} ELSE {})
  /\ UNCHANGED <<checksDone, meanwhile>>

\* ... and then whether those processes are there.
ProbePid ==
  /\ inspector.at = "probe"
  /\ Inspect("rest", FALSE, IF inspector.saw /\ process \in {"gone", "none"} THEN {"orphan"} ELSE {})
  /\ UNCHANGED <<checksDone, meanwhile>>

\* PASSED without finished_at; no acceptance tests, whatever the task is for.
CheckRest ==
  /\ inspector.at = "rest"
  /\ Inspect("done", FALSE,
       (IF inRow.state = "PASSED" /\ ~inRow.finished THEN {"unfinished"} ELSE {})
         \cup (IF inRow.tests THEN {} ELSE {"no tests"}))
  /\ UNCHANGED <<checksDone, meanwhile>>

-----------------------------------------------------------------------------
(* The doctor: the status of each of its checks, PASS if none is named *)

PluginCheck == IF ailment = "plugin" THEN "FAIL" ELSE "PASS"
ConfigCheck == IF ailment = "config" THEN "FAIL" ELSE "PASS"
GitCheck == CASE ailment = "no repo" -> "WARNING" [] ailment = "no commit" -> "FAIL" [] OTHER -> "PASS"
PlanCheck == CASE ailment = "no plan" -> "WARNING" [] ailment = "plan gone" -> "FAIL" [] OTHER -> "PASS"
\* A plan that cannot be read is worth no more than a warning here.
GraphCheck ==
  CASE ailment = "graph" -> "FAIL" [] ailment \in {"unreadable graph", "plan gone"} -> "WARNING"
    [] OTHER -> "PASS"
DiskCheck == CASE ailment = "disk full" -> "FAIL" [] ailment = "disk low" -> "WARNING" [] OTHER -> "PASS"
RwCheck == IF ailment = "read-only" THEN "FAIL" ELSE "PASS"
GpuCheck == IF ailment \in {"no gpu", "no torch"} THEN "WARNING" ELSE "PASS"
CudaCheck ==
  CASE ailment = "wrong cuda" -> "FAIL" [] ailment = "no torch" -> "WARNING" [] OTHER -> "PASS"
DriverCheck == IF ailment = "no driver" THEN "WARNING" ELSE "PASS"
TorchCheck == IF ailment = "no torch" THEN "WARNING" ELSE "PASS"
SecurityCheck == IF ailment = "secret" THEN "WARNING" ELSE "PASS"
LeftoverCheck == IF ailment = "leftovers" THEN "WARNING" ELSE "PASS"
StateFileCheck == IF stateFile = "torn" THEN "WARNING" ELSE "PASS"
CheckpointCheck == IF ailment = "small checkpoint" THEN "WARNING" ELSE "PASS"

Checks == {PluginCheck, ConfigCheck, GitCheck, PlanCheck, GraphCheck, DiskCheck, RwCheck, GpuCheck,
           CudaCheck, DriverCheck, TorchCheck, SecurityCheck, LeftoverCheck, StateFileCheck,
           CheckpointCheck}

RunDoctor ==
  /\ inspector.at = "idle" /\ doctorSays = "none"
  /\ doctorSays' = CASE "FAIL" \in Checks -> "FAIL" [] "WARNING" \in Checks -> "WARNING" [] OTHER -> "PASS"
  /\ UNCHANGED <<inRow, process, controllers, ledgerFile, stateFile, ailment, inspector, checksDone,
                 meanwhile>>

InspectionNext ==
  \/ ailment = "healthy" /\
       \/ Claim \/ StartProcess \/ ProcessEnds \/ Reap \/ Collect
       \/ ControllerKilled \/ ControllerRestarted
       \/ BeginCheck \/ CheckLedger \/ ReadRunning \/ ProbePid \/ CheckRest
  \/ SaveFiles \/ RunDoctor

InspectionSpec == InspectionInit /\ [][InspectionNext]_inspectionVars

-----------------------------------------------------------------------------
(* Properties *)

\* The integrity check cries orphan only if a controller was killed, something moved while
\* it looked, or the controller has reaped the process and is about to collect the task;
\* never because a process has just ended.  And when nothing moved, what it did not report
\* is not there: no dead process on file, no torn ledger, no PASSED task that never
\* finished.
IntegrityVerdict ==
  inspector.at = "done" =>
    /\ "orphan" \in inspector.issues =>
         controllers.killed \/ meanwhile \/ (process = "gone" /\ inRow.state = "RUNNING")
    /\ "ledger" \in inspector.issues => meanwhile \/ ledgerFile = "torn"
    /\ "unfinished" \notin inspector.issues
    /\ ~meanwhile =>
         /\ inRow.state = "RUNNING" /\ inRow.pid /\ process = "gone" => "orphan" \in inspector.issues
         /\ ledgerFile = "torn" => "ledger" \in inspector.issues
=============================================================================
