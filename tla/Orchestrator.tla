---------------------------- MODULE Orchestrator ----------------------------
(***************************************************************************)
(* One orchestrator controller over the state store: recovery, the tick    *)
(* loop (approvals, control word, process collection, verification,        *)
(* scheduling, exit), the task processes it starts, the command line that  *)
(* writes the same store behind its back, and kills and restarts.          *)
(*                                                                         *)
(* A controller step ends at most one store transaction.  Whatever the     *)
(* code reads in one place and uses in another (the rows a loop iterates   *)
(* over, the status _fail re-reads, the approvals about to expire) is kept *)
(* in a local variable in between, so that other actors' steps fall        *)
(* between the two.                                                        *)
(***************************************************************************)
EXTENDS StateStore, PolicyEngine

CONSTANTS
  Deps,             \* Deps[t]: dependencies of t
  Gate,             \* Gate[t]: gate of t
  OutsideWrites,    \* tasks whose writes or command leave the safe-auto roots
  NonEvidentiary,   \* tasks whose result needs a human waiver
  MaxRetries,       \* MaxRetries[t]: retry_policy.max_retries
  Delayed,          \* tasks with a positive retry delay
  Mandatory,        \* mandatory_task_ids of the plan
  MaxParallel,      \* budgets.max_parallel_tasks
  Hazards,          \* the environment's repertoire in a run, see below
  MaxStarts,        \* bound: controller starts
  MaxAttempts       \* bound: out-of-turn decisions stop at this many attempts

Hazard == {"late", "kill", "stop", "pause", "next", "launch"}

ASSUME DepsAssumption == Deps \in [Task -> SUBSET Task]
ASSUME PlanAssumption ==
  /\ OutsideWrites \subseteq Task /\ NonEvidentiary \subseteq Task
  /\ Delayed \subseteq Task /\ Mandatory \subseteq Task
  /\ MaxRetries \in [Task -> Nat]
  /\ MaxParallel \in Nat \ {0}
ASSUME BoundsAssumption == Hazards \subseteq Hazard /\ MaxStarts \in Nat /\ MaxAttempts \in Nat

VARIABLES
  pc,           \* where the controller is; "down" when no controller process runs
  todo,         \* the row copies the current loop still has to visit
  cur,          \* the row copy the current iteration is working on
  ret,          \* the loop _fail returns to
  expiring,     \* the approvals cleanup_expired found due and has not decided yet
  waiting,      \* _waiting_since: unset, set, or set approval_wait_seconds ago
  exit,         \* how the last controller run ended
  starts,       \* controller starts so far
  live,         \* task processes alive: <<t, k>> was started on attempt k of t
  child,        \* the live processes this controller started itself
  exited,       \* <<t, k, code>>: a child that ended and was not polled yet
  overtime,     \* tasks running for longer than timeout_min
  delaying      \* history: tasks whose retry delay has not elapsed

local == <<todo, cur, ret, expiring, waiting>>
procs == <<live, child, exited>>
run == <<exit, starts>>
vars == <<storeVars, pc, local, run, procs, overtime, delaying>>

RowCopy == [id : Task, state : TaskState, pid : Nat, apr : ApprovalId \cup {0}]
NoRow == [id |-> 0, state |-> "PENDING", pid |-> 0, apr |-> 0]

Pc == {"down", "recover", "tick", "expire", "collect", "verify", "promote", "unblock",
       "schedule", "terminal", "pending", "fail", "failTx", "retry", "waiver",
       "autoApprove", "autoCheck", "claim", "launch", "record"}
ExitCode == {0, 1}

TypeOK ==
  /\ StoreTypeOK
  /\ pc \in Pc
  /\ todo \subseteq RowCopy
  /\ cur \in RowCopy \cup {NoRow}
  /\ ret \in {"none", "collect", "verify", "schedule"}
  /\ expiring \subseteq ApprovalId
  /\ waiting \in {"no", "counting", "over"}
  /\ exit \in ExitState
  /\ starts \in Nat
  /\ live \subseteq Task \X Nat /\ child \subseteq live
  /\ exited \subseteq Task \X Nat \X ExitCode
  /\ overtime \subseteq Task /\ delaying \subseteq Task

Init ==
  /\ StoreInit
  /\ pc = "down" /\ exit = "NONE" /\ starts = 0
  /\ todo = {} /\ cur = NoRow /\ ret = "none" /\ expiring = {} /\ waiting = "no"
  /\ live = {} /\ child = {} /\ exited = {}
  /\ overtime = {} /\ delaying = {}

-----------------------------------------------------------------------------
(* Control flow *)

Copy(t) == [id |-> t, state |-> task[t].state, pid |-> task[t].pid, apr |-> 0]

\* list_tasks: a copy of the rows, taken in one read.
List(S) == {Copy(t) : t \in InState(S)}

\* Loops visit the copies in rowid order.
First(r) == r \in todo /\ \A q \in todo : r.id <= q.id

Decide(t) == Evaluate(Gate[t], t \in OutsideWrites)

\* The controller process ends, with a result or without one.  Its children lose
\* their parent and nobody will learn their exit codes.
Down(status) ==
  /\ pc' = "down" /\ exit' = status
  /\ todo' = {} /\ cur' = NoRow /\ ret' = "none" /\ expiring' = {} /\ waiting' = "no"
  /\ child' = {} /\ exited' = {}
  /\ UNCHANGED <<starts, overtime>>

\* An exception nobody catches: the transaction is rolled back, the run is over.
Raise == Down("CRASHED") /\ UNCHANGED <<storeVars, live, delaying>>

\* Continue the loop of the current iteration, or enter another place.
NextRow(label, r) ==
  /\ pc' = label /\ todo' = todo \ {r} /\ UNCHANGED <<cur, ret, expiring, waiting>>
Enter(label, copies) ==
  /\ pc' = label /\ todo' = copies /\ cur' = NoRow /\ UNCHANGED <<ret, expiring, waiting>>
WorkOn(label, r, loop) ==
  /\ pc' = label /\ cur' = r /\ todo' = {q \in todo : q.id # r.id} /\ ret' = loop
  /\ UNCHANGED <<expiring, waiting>>
Step(label) == pc' = label /\ UNCHANGED local
Return ==
  /\ pc' = ret /\ ret' = "none" /\ cur' = NoRow /\ UNCHANGED <<todo, expiring, waiting>>

Quiet == UNCHANGED <<run, procs, overtime, delaying>>

-----------------------------------------------------------------------------
(* Start and recovery *)

\* Controller.__init__ and the head of run: the plan's tasks are in the store already;
\* --resume sets the control word to RUNNING, a plain run keeps it.
Start ==
  /\ pc = "down" /\ starts < MaxStarts
  /\ \/ UNCHANGED control
     \/ control' = "RUNNING"
  /\ starts' = starts + 1 /\ exit' = "NONE"
  /\ Enter("recover", List({"RUNNING"}))
  /\ UNCHANGED <<task, approval, overridden, procs, overtime, delaying>>

\* A RUNNING row whose process is alive keeps running.
RecoverAlive(r) ==
  /\ pc = "recover" /\ First(r)
  /\ <<r.id, r.pid>> \in live
  /\ NextRow("recover", r) /\ Quiet /\ UNCHANGED storeVars

\* Otherwise the row moves to VERIFYING.
RecoverDead(r) ==
  /\ pc = "recover" /\ First(r)
  /\ <<r.id, r.pid>> \notin live
  /\ \/ /\ TransitionTask(r.id, "VERIFYING", {"RUNNING"}, 0)
        /\ NextRow("recover", r) /\ Quiet
     \/ ~CanTransition(r.id, "VERIFYING", {"RUNNING"}) /\ Raise

\* The rows recover then wants to send back from VERIFYING.  Its UPDATE names a
\* column, status, that the tasks table does not have.
OrphanVerifying == {t \in InState({"VERIFYING"}) : task[t].pid = 0}

\* Mutant of RecoverRaises: the UPDATE as it was meant.
RecoverRequeues ==
  /\ pc = "recover" /\ todo = {}
  /\ OrphanVerifying # {}
  /\ task' = [t \in Task |->
                IF t \in OrphanVerifying THEN [task[t] EXCEPT !.state = "READY"] ELSE task[t]]
  /\ UNCHANGED <<approval, control, overridden>>
  /\ Step("recover") /\ Quiet

RecoverRaises ==
  /\ pc = "recover" /\ todo = {}
  /\ OrphanVerifying # {}
  /\ Raise

\* detect_cycles: Kahn's algorithm leaves some tasks out iff a set of tasks each
\* wait inside the set.
Cyclic == \E S \in SUBSET Task : S # {} /\ \A t \in S : Deps[t] \cap S # {}

RecoverDone ==
  /\ pc = "recover" /\ todo = {}
  /\ OrphanVerifying = {}
  /\ IF Cyclic THEN Down("BLOCKED") /\ UNCHANGED <<live, delaying>>
               ELSE Enter("tick", {}) /\ Quiet
  /\ UNCHANGED storeVars

-----------------------------------------------------------------------------
(* Tick: approvals, control word, processes *)

\* cleanup_expired reads the pending approvals ...
Tick ==
  /\ pc = "tick"
  /\ expiring' = {a \in ApprovalId : approval[a].state = "PENDING" /\ approval[a].due}
  /\ pc' = "expire"
  /\ UNCHANGED <<storeVars, todo, cur, ret, waiting>> /\ Quiet

\* ... and rejects those past their time one transaction after the other, whatever
\* has happened to them in between.
Expire(a) ==
  /\ pc = "expire" /\ a \in expiring
  /\ DecideApproval(a, "REJECTED")
  /\ expiring' = expiring \ {a}
  /\ UNCHANGED <<pc, todo, cur, ret, waiting>> /\ Quiet

\* Processes that die by signal; a child's parent will see a non-zero code.
Terminated(jobs) ==
  /\ live' = live \ jobs /\ child' = child \ jobs
  /\ exited' = exited \cup {<<j[1], j[2], 1>> : j \in child \cap jobs}

WorkersOf(tasks) == live \cap {<<t, task[t].pid>> : t \in tasks}

\* Mutant of HonourControl: only the processes of this run are terminated.
HonourControlOwn ==
  /\ pc = "expire" /\ expiring = {} /\ control # "RUNNING"
  /\ Down(control)
  /\ live' = IF control = "STOPPED" THEN live \ child ELSE live
  /\ UNCHANGED <<storeVars, delaying>>

\* control_state: PAUSED leaves the processes alone, STOPPED terminates every
\* process a RUNNING row names.
HonourControl ==
  /\ pc = "expire" /\ expiring = {} /\ control # "RUNNING"
  /\ Down(control)
  /\ live' = IF control = "STOPPED" THEN live \ WorkersOf(InState({"RUNNING"})) ELSE live
  /\ UNCHANGED <<storeVars, delaying>>

StartCollecting ==
  /\ pc = "expire" /\ expiring = {} /\ control = "RUNNING"
  /\ Enter("collect", List({"RUNNING"})) /\ Quiet /\ UNCHANGED storeVars

\* ProcessManager.poll: only the parent learns a code; an adopted process that is
\* gone yields None, like one that is still alive.
Polled(r, code) == <<r.id, r.pid, code>> \in exited
NothingPolled(r) == \A code \in ExitCode : ~Polled(r, code)

\* A row without a pid is skipped, and so is one with nothing to report.
CollectIdle(r) ==
  /\ pc = "collect" /\ First(r)
  /\ r.pid = 0 \/ (NothingPolled(r) /\ r.id \notin overtime)
  /\ NextRow("collect", r) /\ Quiet /\ UNCHANGED storeVars

\* Mutant of CollectTimeout: the handle of the terminated process is kept.
CollectTimeoutKeepsHandle(r) ==
  /\ pc = "collect" /\ First(r)
  /\ r.pid # 0 /\ r.id \in overtime
  /\ live' = live \ {<<r.id, r.pid>>}
  /\ WorkOn("fail", r, "collect")
  /\ UNCHANGED <<storeVars, run, child, exited, overtime, delaying>>

\* Watchdog.inspect terminates an overdue process; its exit code no longer matters.
CollectTimeout(r) ==
  /\ pc = "collect" /\ First(r)
  /\ r.pid # 0 /\ r.id \in overtime
  /\ live' = live \ {<<r.id, r.pid>>} /\ child' = child \ {<<r.id, r.pid>>}
  /\ exited' = {e \in exited : e[1] # r.id \/ e[2] # r.pid}
  /\ WorkOn("fail", r, "collect")
  /\ UNCHANGED <<storeVars, run, overtime, delaying>>

CollectSuccess(r) ==
  /\ pc = "collect" /\ First(r)
  /\ r.pid # 0 /\ r.id \notin overtime /\ Polled(r, 0)
  /\ \/ /\ TransitionTask(r.id, "VERIFYING", {"RUNNING"}, 0)
        /\ exited' = exited \ {<<r.id, r.pid, 0>>}
        /\ NextRow("collect", r)
        /\ UNCHANGED <<run, live, child, overtime, delaying>>
     \/ ~CanTransition(r.id, "VERIFYING", {"RUNNING"}) /\ Raise

CollectFailure(r) ==
  /\ pc = "collect" /\ First(r)
  /\ r.pid # 0 /\ r.id \notin overtime /\ Polled(r, 1)
  /\ exited' = exited \ {<<r.id, r.pid, 1>>}
  /\ WorkOn("fail", r, "collect")
  /\ UNCHANGED <<storeVars, run, live, child, overtime, delaying>>

CollectDone ==
  /\ pc = "collect" /\ todo = {}
  /\ Enter("verify", List({"VERIFYING"})) /\ Quiet /\ UNCHANGED storeVars

-----------------------------------------------------------------------------
(* _fail: read the row, fail it, schedule a retry; three transactions *)

FailSkip ==
  /\ pc = "fail"
  /\ task[cur.id].state \notin {"RUNNING", "VERIFYING"}
  /\ Return /\ Quiet /\ UNCHANGED storeVars

FailRead ==
  /\ pc = "fail"
  /\ task[cur.id].state \in {"RUNNING", "VERIFYING"}
  /\ pc' = "failTx" /\ cur' = [cur EXCEPT !.state = task[cur.id].state]
  /\ UNCHANGED <<storeVars, todo, ret, expiring, waiting>> /\ Quiet

\* Mutant of FailWrite: the row is expected to be RUNNING still.
FailWriteRunning ==
  /\ pc = "failTx"
  /\ \/ /\ TransitionTask(cur.id, "FAILED", {"RUNNING"}, 0)
        /\ Step("retry") /\ Quiet
     \/ ~CanTransition(cur.id, "FAILED", {"RUNNING"}) /\ Raise

FailWrite ==
  /\ pc = "failTx"
  /\ \/ /\ TransitionTask(cur.id, "FAILED", {cur.state}, 0)
        /\ Step("retry") /\ Quiet
     \/ ~CanTransition(cur.id, "FAILED", {cur.state}) /\ Raise

\* Mutant of RetrySchedule: one run too many.
RetryScheduleOnceMore ==
  /\ pc = "retry" /\ task[cur.id].attempts <= MaxRetries[cur.id] + 1
  /\ TransitionTask(cur.id, "RETRY_WAIT", {"FAILED"}, task[cur.id].pid)
  /\ Return /\ Quiet

\* max_retries = n allows n + 1 runs.  retry_at is passed to the store, which has
\* no column assignment for it.
RetrySchedule ==
  /\ pc = "retry" /\ task[cur.id].attempts <= MaxRetries[cur.id]
  /\ \/ /\ TransitionTask(cur.id, "RETRY_WAIT", {"FAILED"}, task[cur.id].pid)
        /\ delaying' = delaying \cup (Delayed \cap {cur.id})
        /\ Return /\ UNCHANGED <<run, procs, overtime>>
     \/ ~CanTransition(cur.id, "RETRY_WAIT", {"FAILED"}) /\ Raise

RetryExhausted ==
  /\ pc = "retry" /\ task[cur.id].attempts > MaxRetries[cur.id]
  /\ Return /\ Quiet /\ UNCHANGED storeVars

-----------------------------------------------------------------------------
(* Verification *)

\* Acceptance tests pass or fail; the verifier's own exceptions count as failure.
VerifyPass(r) ==
  /\ pc = "verify" /\ First(r) /\ r.id \notin NonEvidentiary
  /\ \/ /\ TransitionTask(r.id, "PASSED", {"VERIFYING"}, task[r.id].pid)
        /\ NextRow("verify", r) /\ Quiet
     \/ ~CanTransition(r.id, "PASSED", {"VERIFYING"}) /\ Raise

VerifyFail(r) ==
  /\ pc = "verify" /\ First(r) /\ r.id \notin NonEvidentiary
  /\ WorkOn("fail", r, "verify") /\ Quiet /\ UNCHANGED storeVars

\* ApprovalGate.request: an approval already pending for the task is reused,
\* otherwise one is created.  apr is the identifier it returns.
Request(t, apr) ==
  \/ /\ apr \in PendingFor(t) /\ \A b \in PendingFor(t) : apr <= b
     /\ UNCHANGED storeVars
  \/ /\ PendingFor(t) = {} /\ Fresh(apr) /\ CreateApproval(apr, t)

\* Mutant of VerifyNonEvidentiary: no request for a row that is VERIFYING.
VerifyNonEvidentiaryUnasked(r, apr) ==
  /\ pc = "verify" /\ First(r) /\ r.id \in NonEvidentiary /\ apr \in ApprovalId
  /\ WorkOn("waiver", r, "verify") /\ Quiet /\ UNCHANGED storeVars

\* A task without evidence needs a waiver: the request goes first ...
VerifyNonEvidentiary(r, apr) ==
  /\ pc = "verify" /\ First(r) /\ r.id \in NonEvidentiary
  /\ Request(r.id, apr)
  /\ WorkOn("waiver", r, "verify") /\ Quiet

\* ... and the transition after it, expecting the row still to be VERIFYING.
WaiverTransition ==
  /\ pc = "waiver"
  /\ \/ /\ TransitionTask(cur.id, "WAITING_APPROVAL", {"VERIFYING"}, task[cur.id].pid)
        /\ Return /\ Quiet
     \/ ~CanTransition(cur.id, "WAITING_APPROVAL", {"VERIFYING"}) /\ Raise

-----------------------------------------------------------------------------
(* Scheduler.refresh *)

VerifyDone ==
  /\ pc = "verify" /\ todo = {}
  /\ Enter("promote", List({"RETRY_WAIT"})) /\ Quiet /\ UNCHANGED storeVars

\* retry_at is NULL in every row, so every row is due.
Promote(r) ==
  /\ pc = "promote" /\ First(r)
  /\ \/ /\ TransitionTask(r.id, "READY", {"RETRY_WAIT"}, task[r.id].pid)
        /\ delaying' = delaying \ {r.id}
        /\ NextRow("promote", r) /\ UNCHANGED <<run, procs, overtime>>
     \/ ~CanTransition(r.id, "READY", {"RETRY_WAIT"}) /\ Raise

\* Mutant of DepsPassed: a dependency that failed is over, too.
DepsOver(t) == \A d \in Deps[t] : task[d].state \in {"PASSED", "FAILED"}

DepsPassed(t) == \A d \in Deps[t] : task[d].state = "PASSED"

PromoteDone ==
  /\ pc = "promote" /\ todo = {}
  /\ Enter("unblock", {r \in List({"PENDING"}) : DepsPassed(r.id)})
  /\ Quiet /\ UNCHANGED storeVars

Unblock(r) ==
  /\ pc = "unblock" /\ First(r)
  /\ \/ /\ TransitionTask(r.id, "READY", {"PENDING"}, task[r.id].pid)
        /\ NextRow("unblock", r) /\ Quiet
     \/ ~CanTransition(r.id, "READY", {"PENDING"}) /\ Raise

-----------------------------------------------------------------------------
(* Scheduling: select_ready, policy, approval, claim, launch *)

Capacity ==
  LET active == Cardinality(InState({"RUNNING", "VERIFYING"}))
  IN  IF active < MaxParallel THEN MaxParallel - active ELSE 0

FirstN(rows, n) == {r \in rows : Cardinality({q \in rows : q.id < r.id}) < n}

\* Approved rows first, then read-only ones, up to the capacity; else one READY row.
Selected ==
  LET ready    == List({"READY", "APPROVED"})
      approved == {r \in ready : r.state = "APPROVED"}
      readonly == {r \in ready : Gate[r.id] = "read_only"}
  IN  CASE approved # {}  -> FirstN(approved, Capacity)
        [] readonly # {}  -> FirstN(readonly, Capacity)
        [] OTHER          -> FirstN(ready, 1)

\* At full capacity nothing is scheduled, and the rows just counted keep the loop alive.
NoCapacity ==
  /\ pc = "unblock" /\ todo = {} /\ Capacity = 0
  /\ waiting' = "no" /\ pc' = "tick"
  /\ UNCHANGED <<storeVars, todo, cur, ret, expiring>> /\ Quiet

UnblockDone ==
  /\ pc = "unblock" /\ todo = {} /\ Capacity > 0
  /\ Enter("schedule", Selected) /\ Quiet /\ UNCHANGED storeVars

\* The policy is asked for the copy; an APPROVED copy is executed whatever it says.
Executes(r) == r.state = "APPROVED" \/ Decide(r.id) = "AUTO_EXECUTE"
AutoApproved(t) == Gate[t] \in LowRiskGates /\ t \notin NonEvidentiary

ScheduleExecute(r) ==
  /\ pc = "schedule" /\ First(r) /\ Executes(r)
  /\ WorkOn("claim", r, "schedule") /\ Quiet /\ UNCHANGED storeVars

ScheduleReject(r) ==
  /\ pc = "schedule" /\ First(r) /\ ~Executes(r) /\ Decide(r.id) = "REJECT"
  /\ \/ /\ TransitionTask(r.id, "REJECTED", {"READY", "APPROVED"}, task[r.id].pid)
        /\ NextRow("schedule", r) /\ Quiet
     \/ ~CanTransition(r.id, "REJECTED", {"READY", "APPROVED"}) /\ Raise

\* A human must decide: ask, and go on with the next row.
ScheduleRequest(r, apr) ==
  /\ pc = "schedule" /\ First(r) /\ ~Executes(r) /\ Decide(r.id) = "REQUIRE_APPROVAL"
  /\ ~AutoApproved(r.id)
  /\ Request(r.id, apr)
  /\ NextRow("schedule", r) /\ Quiet

\* Mutant of ScheduleAutoRequest: a low-risk task is run without asking.
ScheduleAutoClaim(r, apr) ==
  /\ pc = "schedule" /\ First(r) /\ ~Executes(r) /\ Decide(r.id) = "REQUIRE_APPROVAL"
  /\ AutoApproved(r.id) /\ apr \in ApprovalId
  /\ WorkOn("claim", r, "schedule") /\ Quiet /\ UNCHANGED storeVars

\* auto_approve_low_risk asks the same way, and then approves what it asked for.
ScheduleAutoRequest(r, apr) ==
  /\ pc = "schedule" /\ First(r) /\ ~Executes(r) /\ Decide(r.id) = "REQUIRE_APPROVAL"
  /\ AutoApproved(r.id)
  /\ Request(r.id, apr)
  /\ WorkOn("autoApprove", [r EXCEPT !.apr = apr], "schedule") /\ Quiet

AutoApprove ==
  /\ pc = "autoApprove"
  /\ DecideApproval(cur.apr, "APPROVED")
  /\ Step("autoCheck") /\ Quiet

\* The refreshed row must be APPROVED, or the loop meets a decision it cannot handle.
AutoCheck ==
  /\ pc = "autoCheck"
  /\ IF task[cur.id].state = "APPROVED"
     THEN Step("claim") /\ Quiet /\ UNCHANGED storeVars
     ELSE Raise

Claim ==
  /\ pc = "claim" /\ ClaimTask(cur.id)
  /\ overtime' = overtime \ {cur.id}
  /\ Step("launch") /\ UNCHANGED <<run, procs, delaying>>

ClaimLost ==
  /\ pc = "claim" /\ ~Claimable(cur.id)
  /\ Return /\ Quiet /\ UNCHANGED storeVars

Job(t) == <<t, task[t].attempts>>

\* Popen, which may fail; the pid is not in the store yet.
Launch ==
  /\ pc = "launch"
  /\ live' = live \cup {Job(cur.id)} /\ child' = child \cup {Job(cur.id)}
  /\ Step("record")
  /\ UNCHANGED <<storeVars, run, exited, overtime, delaying>>

LaunchFails ==
  /\ pc = "launch" /\ "launch" \in Hazards
  /\ Step("fail") /\ Quiet /\ UNCHANGED storeVars

RecordProcess ==
  /\ pc = "record"
  /\ SetProcess(cur.id, task[cur.id].attempts)
  /\ Return /\ Quiet

\* set_process fails: the process just started is terminated.
RecordFails ==
  /\ pc = "record" /\ "launch" \in Hazards
  /\ Terminated({Job(cur.id)})
  /\ Step("fail") /\ UNCHANGED <<storeVars, run, overtime, delaying>>

-----------------------------------------------------------------------------
(* Terminal result *)

ScheduleDone ==
  /\ pc = "schedule" /\ todo = {}
  /\ Step("terminal") /\ Quiet /\ UNCHANGED storeVars

\* Mutant of StayAlive: the run waits for every row that may still become READY.
StayAliveOrPending == {"RUNNING", "VERIFYING", "READY", "APPROVED", "PENDING"}

StayAlive == {"RUNNING", "VERIFYING", "READY", "APPROVED"}

\* Mutant of Complete: only the mandatory tasks are looked at.
CompleteMandatory == \A t \in Mandatory : task[t].state = "PASSED"

\* With no row to execute, wait for or retry, the run is COMPLETE or BLOCKED.
Complete ==
  /\ \A t \in Task : task[t].state \in {"PASSED", "REJECTED"}
  /\ \A t \in Mandatory : task[t].state = "PASSED"

TerminalStay ==
  /\ pc = "terminal"
  /\ \/ InState(StayAlive) # {}
     \/ InState({"WAITING_APPROVAL"}) = {} /\ InState({"RETRY_WAIT"}) # {}
  /\ waiting' = "no" /\ pc' = "tick"
  /\ UNCHANGED <<storeVars, todo, cur, ret, expiring>> /\ Quiet

TerminalWait ==
  /\ pc = "terminal"
  /\ InState(StayAlive) = {} /\ InState({"WAITING_APPROVAL"}) # {}
  /\ Step("pending") /\ Quiet /\ UNCHANGED storeVars

TerminalExit ==
  /\ pc = "terminal"
  /\ InState(StayAlive \cup {"WAITING_APPROVAL", "RETRY_WAIT"}) = {}
  /\ Down(IF Complete THEN "COMPLETE" ELSE "BLOCKED")
  /\ UNCHANGED <<storeVars, live, delaying>>

\* The pending approvals are read after the rows.
PendingApprovals == {a \in ApprovalId : approval[a].state = "PENDING"}

PendingNone ==
  /\ pc = "pending" /\ PendingApprovals = {}
  /\ Down("BLOCKED") /\ UNCHANGED <<storeVars, live, delaying>>

PendingExit ==
  /\ pc = "pending" /\ PendingApprovals # {} /\ waiting = "over"
  /\ Down("WAITING_APPROVAL") /\ UNCHANGED <<storeVars, live, delaying>>

PendingStay ==
  /\ pc = "pending" /\ PendingApprovals # {} /\ waiting # "over"
  /\ waiting' = "counting" /\ pc' = "tick"
  /\ UNCHANGED <<storeVars, todo, cur, ret, expiring>> /\ Quiet

-----------------------------------------------------------------------------
(* The command line *)

Elsewhere == UNCHANGED <<pc, local, run, overtime>>

\* approve and reject.  They look an approval up and decide it later, and approve
\* takes any identifier, so a decision may land long after it was due.
InTurn(a) ==
  /\ approval[a].state = "PENDING"
  /\ task[approval[a].task].state = "WAITING_APPROVAL"

OperatorDecides(a, decision) ==
  /\ approval[a].state # "NONE"
  /\ InTurn(a) \/ ("late" \in Hazards /\ task[approval[a].task].attempts < MaxAttempts)
  /\ DecideApproval(a, decision)
  /\ Elsewhere /\ UNCHANGED <<procs, delaying>>

\* pause, continue, and the first half of stop.
OperatorPauses ==
  /\ "pause" \in Hazards
  /\ \/ control = "RUNNING" /\ SetControl("PAUSED")
     \/ control = "PAUSED" /\ SetControl("RUNNING")
  /\ Elsewhere /\ UNCHANGED <<procs, delaying>>

OperatorStops ==
  /\ "stop" \in Hazards /\ control # "STOPPED" /\ SetControl("STOPPED")
  /\ Elsewhere /\ UNCHANGED <<procs, delaying>>

\* The second half of stop terminates the processes of the RUNNING rows one by one.
OperatorTerminates(t) ==
  /\ control = "STOPPED" /\ t \in InState({"RUNNING"}) /\ <<t, task[t].pid>> \in live
  /\ Terminated({<<t, task[t].pid>>})
  /\ Elsewhere /\ UNCHANGED <<storeVars, delaying>>

\* next shows the next task, and refreshes the schedule to find it.
OperatorNext(t) ==
  /\ "next" \in Hazards
  /\ \/ TransitionTask(t, "READY", {"RETRY_WAIT"}, task[t].pid) /\ delaying' = delaying \ {t}
     \/ DepsPassed(t) /\ TransitionTask(t, "READY", {"PENDING"}, task[t].pid)
        /\ UNCHANGED delaying
  /\ Elsewhere /\ UNCHANGED procs

-----------------------------------------------------------------------------
(* Processes, time, kills *)

ProcessEnds(t, k, code) ==
  /\ <<t, k>> \in live
  /\ live' = live \ {<<t, k>>} /\ child' = child \ {<<t, k>>}
  /\ exited' = IF <<t, k>> \in child THEN exited \cup {<<t, k, code>>} ELSE exited
  /\ Elsewhere /\ UNCHANGED <<storeVars, delaying>>

\* timeout_min passes since t was claimed.
TaskOverdue(t) ==
  /\ t \in InState({"RUNNING"}) \ overtime
  /\ overtime' = overtime \cup {t}
  /\ UNCHANGED <<storeVars, pc, local, run, procs, delaying>>

ApprovalDue(a) ==
  /\ approval[a].state = "PENDING" /\ ~approval[a].due
  /\ approval' = [approval EXCEPT ![a].due = TRUE]
  /\ Elsewhere /\ UNCHANGED <<task, control, overridden, procs, delaying>>

\* approval_wait_seconds pass while the loop idles on pending approvals.
WaitElapses ==
  /\ waiting = "counting" /\ waiting' = "over"
  /\ UNCHANGED <<storeVars, pc, todo, cur, ret, expiring, run, procs, overtime, delaying>>

DelayElapses(t) ==
  /\ t \in delaying /\ delaying' = delaying \ {t}
  /\ Elsewhere /\ UNCHANGED <<storeVars, procs>>

\* kill -9, or the machine's end as seen by the controller.
Killed ==
  /\ "kill" \in Hazards /\ pc # "down"
  /\ Down("KILLED") /\ UNCHANGED <<storeVars, live, delaying>>

-----------------------------------------------------------------------------
(* Specification *)

RowStep(r) ==
  \/ RecoverAlive(r) \/ RecoverDead(r)
  \/ CollectIdle(r) \/ CollectTimeout(r) \/ CollectSuccess(r) \/ CollectFailure(r)
  \/ VerifyPass(r) \/ VerifyFail(r)
  \/ Promote(r) \/ Unblock(r)
  \/ ScheduleExecute(r) \/ ScheduleReject(r)

ApprovalStep(r, apr) ==
  \/ VerifyNonEvidentiary(r, apr)
  \/ ScheduleRequest(r, apr) \/ ScheduleAutoRequest(r, apr)

LoopStep ==
  \/ RecoverRaises \/ RecoverDone
  \/ Tick \/ HonourControl \/ StartCollecting \/ CollectDone
  \/ VerifyDone \/ PromoteDone \/ NoCapacity \/ UnblockDone \/ ScheduleDone
  \/ FailSkip \/ FailRead \/ FailWrite \/ RetrySchedule \/ RetryExhausted
  \/ WaiverTransition \/ AutoApprove \/ AutoCheck \/ Claim \/ ClaimLost
  \/ Launch \/ LaunchFails \/ RecordProcess \/ RecordFails
  \/ TerminalStay \/ TerminalWait \/ TerminalExit
  \/ PendingNone \/ PendingExit \/ PendingStay

Controller ==
  \/ LoopStep
  \/ \E a \in ApprovalId : Expire(a)
  \/ \E r \in todo : RowStep(r)
  \/ \E r \in todo, apr \in ApprovalId : ApprovalStep(r, apr)

Operator ==
  \/ \E a \in ApprovalId, d \in {"APPROVED", "REJECTED"} : OperatorDecides(a, d)
  \/ OperatorPauses \/ OperatorStops
  \/ \E t \in Task : OperatorTerminates(t) \/ OperatorNext(t)

Environment ==
  \/ \E j \in live, code \in ExitCode : ProcessEnds(j[1], j[2], code)
  \/ \E t \in Task : TaskOverdue(t) \/ DelayElapses(t)
  \/ \E a \in ApprovalId : ApprovalDue(a)
  \/ WaitElapses \/ Start \/ Killed

Next == Controller \/ Operator \/ Environment

Spec == Init /\ [][Next]_vars

\* The controller is scheduled, and time passes for tasks and for the idle loop.
Fairness ==
  /\ WF_vars(Controller)
  /\ \A t \in Task : WF_vars(TaskOverdue(t))
  /\ WF_vars(WaitElapses)

FairSpec == Spec /\ Fairness
=============================================================================
