----------------------- MODULE OrchestratorProperties -----------------------
(***************************************************************************)
(* What the controller and its store guarantee under crashes, restarts and *)
(* a command line that writes at any time, and, at the end, what the       *)
(* repository says of them and they do not do.                             *)
(***************************************************************************)
EXTENDS Orchestrator

\* The states of a row that has been released to run by somebody.
Released == {"APPROVED", "RUNNING", "VERIFYING", "PASSED", "FAILED", "RETRY_WAIT"}

\* A task the policy wants approved has an approval on record from the moment it
\* is released and as long as it is: no crash, retry, late decision or stale copy
\* of its row starts it without one (controller._schedule, claim_task).
ApprovedFirst ==
  \A t \in Task : Decide(t) = "REQUIRE_APPROVAL" /\ task[t].state \in Released =>
     \E a \in ApprovalId : approval[a].task = t /\ approval[a].state = "APPROVED"

\* max_retries bounds the runs of a task, over every restart of the controller,
\* unless a decision restarted it: one out of turn, or the approval of a waiver,
\* which runs the task once more (controller._fail, claim_task).
RetryBudget ==
  \A t \in Task : t \in overridden \cup NonEvidentiary \/ task[t].attempts <= MaxRetries[t] + 1

\* A living process belongs to the last attempt of a row that is not finished: a
\* task never runs twice at once and never outlives its verdict, wherever the
\* controller was killed (task_executor.launch, recovery.recover, watchdog.inspect).
ProcessAccounted ==
  \A j \in live :
     \/ j[1] \in overridden
     \/ j[2] = task[j[1]].attempts /\ task[j[1]].state \in {"RUNNING", "VERIFYING"}

\* A task leaves PENDING only behind dependencies that have passed, and they stay
\* passed (scheduler.refresh against every other writer of the rows).
DependenciesFirst ==
  \A t \in Task : task[t].state # "PENDING" =>
     \A d \in Deps[t] : task[d].state = "PASSED" \/ d \in overridden

\* A run that reported COMPLETE left nothing undone and nothing running, and nothing
\* undoes it later (controller._terminal_result).
CompleteIsTrue ==
  exit = "COMPLETE" =>
     /\ \A t \in Task \ overridden :
          task[t].state \in (IF t \in Mandatory THEN {"PASSED"} ELSE {"PASSED", "REJECTED"})
     /\ \A j \in live : j[1] \in overridden

\* After a run reported STOPPED no task process is alive (controller.run,
\* watchdog.terminate_running), including those of earlier runs.
StoppedIsQuiet ==
  exit = "STOPPED" => \A j \in live : j[1] \in overridden

\* A row that waits for a decision can be decided: an approval of it is pending,
\* whatever restarts, expiries and out-of-turn decisions came before, so nobody
\* waits for an answer that cannot be given (create_approval, decide_approval,
\* ApprovalGate.request, controller._run_verifications).
WaitingIsDecidable ==
  \A t \in Task : task[t].state = "WAITING_APPROVAL" => PendingFor(t) # {}

\* The controller implements the abstract life of tasks.
LC == INSTANCE TaskLifecycle WITH
        state    <- [t \in Task |-> task[t].state],
        attempts <- [t \in Task |-> task[t].attempts]

ImplementsLifecycle == LC!Spec

\* Without kills, restarts and out-of-turn commands no exception escapes the run.
NeverCrashes == exit # "CRASHED"

\* Every controller run ends: no row, process or approval keeps it in its loop
\* (controller._collect_processes with watchdog.inspect, _terminal_result).
RunEnds == (pc # "down") ~> (pc = "down")

-----------------------------------------------------------------------------
(* Statements of the repository the program does not keep *)

\* scripts/core/state_store.py:100, TASK_TRANSITIONS gives REJECTED no successor, and
\* scripts/orchestrator/approval_gate.py:92 says it is terminal: a rejected task
\* stays rejected.
RejectionHolds ==
  [][\A t \in Task : task[t].state = "REJECTED" => task'[t].state = "REJECTED"]_vars

\* docs/orchestrator/RUN_LOOP.md:99, dead RUNNING rows move to VERIFYING and have
\* their acceptance tests executed again: recovery itself does not fail.
RecoveryCompletes ==
  [][pc = "recover" => exit' # "CRASHED"]_vars

\* tests/test_non_evidentiary_waiver.py:105, the controller moves a non-evidentiary
\* task to WAITING_APPROVAL; it goes on after doing so.
WaiverKeepsRunning ==
  [][pc = "waiver" => exit' # "CRASHED"]_vars

\* docs/orchestrator/RUN_LOOP.md:18, the controller never exits while there is a
\* READY, APPROVED, RUNNING, VERIFYING or RETRY_WAIT task in the store.
NeverExitsWithWork ==
  [][pc # "down" /\ exit' \in {"BLOCKED", "COMPLETE"} =>
       InState(StayAlive \cup {"RETRY_WAIT"}) = {}]_vars

\* docs/orchestrator/RUN_LOOP.md:33, a RETRY_WAIT row is promoted when its retry_at
\* has passed.
RetryDelayKept ==
  [][\A t \in Task : task[t].state = "RETRY_WAIT" /\ task'[t].state = "READY" =>
       t \notin delaying]_vars
=============================================================================
