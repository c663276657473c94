--------------------- MODULE OrchestratorProcesses_proofs ---------------------
(***************************************************************************)
(* The living processes are accounted for, for every plan: over crashes,   *)
(* restarts and recovery no task outlives its verdict, and a run that says *)
(* it stopped or is complete left nothing behind.  Account says of one     *)
(* task what the places of the controller know about its processes.        *)
(***************************************************************************)
EXTENDS OrchestratorClaims_proofs

NoJob(t) == \A j \in live : j[1] # t

\* The pid on record is the one of every living process of t.
Settled(t) == \A j \in live : j[1] = t => j[2] = task[t].pid

Outside == {"down", "recover"}

\* A task nobody decided out of turn: its processes are of its last attempt, and while
\* the controller is past recovery a row that is verified has none and a row that runs
\* has the one on record, unless it was launched a moment ago.  A row VERIFYING has no
\* pid on record, so that recovery gets past none of them; and what is still to be
\* polled of t is of an attempt that ended.
Account(t) ==
  /\ \A j \in live : j[1] = t => j[2] = task[t].attempts /\ task[t].state \in {"RUNNING", "VERIFYING"}
  /\ task[t].state = "VERIFYING" => task[t].pid = 0 /\ (pc \in Outside \/ NoJob(t))
  /\ task[t].state = "RUNNING" =>
       \/ Settled(t) \/ pc = "down"
       \/ pc = "record" /\ cur.id = t
       \/ pc = "recover" /\ \E r \in todo : r.id = t
  /\ cur.id = t /\ pc \in {"fail", "failTx", "launch"} => NoJob(t)
  /\ cur.id = t /\ pc \in {"launch", "record"} => task[t].state = "RUNNING"
  /\ \A e \in exited : e[1] = t =>
       /\ <<t, e[2]>> \notin live /\ e[2] <= task[t].attempts
       /\ cur.id = t /\ pc = "launch" => e[2] < task[t].attempts

\* Besides: the loops that use the pid of a copy use the one on record, and the rows
\* the verification loop still has to visit do not run.
Jobs ==
  /\ \A t \in Task : t \in overridden \/ Account(t)
  /\ InLoopOf("recover") \/ InLoopOf("collect") => \A r \in todo : r.pid = task[r.id].pid
  /\ InLoopOf("verify") => \A r \in todo : r.id \in overridden \/ task[r.id].state # "RUNNING"

-----------------------------------------------------------------------------
(* Two ways a step can treat a task *)

\* No process of t is started, and a process that ends may be left to be polled.
JobsKept(t) ==
  /\ \A j \in live' : j[1] = t => j \in live
  /\ \A e \in exited' : e[1] = t => e \in exited \/ (<<t, e[2]>> \in live /\ <<t, e[2]>> \notin live')

\* The controller ends, stays where it is, or goes where it needs to know nothing of t
\* but, to fail it, that it has no process.
PlaceKept(t) ==
  \/ pc' = "down" /\ cur'.id # t
  \/ UNCHANGED <<pc, cur>> /\ (pc = "recover" => todo' = todo)
  \/ /\ pc \notin Outside /\ pc' \notin Outside
     /\ cur'.id = t => pc' \notin {"launch", "record"} /\ (pc' \in {"fail", "failTx"} => NoJob(t)')
     /\ pc = "record" /\ cur.id = t => NoJob(t)'

\* A task whose row stays as it is.
LEMMA RowAlone ==
  ASSUME Typed, NEW t \in Task, Account(t), task'[t] = task[t], JobsKept(t), PlaceKept(t)
  PROVE  Account(t)'
<1>1. NoJob(t) => NoJob(t)'
  BY DEF JobsKept, NoJob
<1>2. Settled(t) => Settled(t)'
  BY DEF JobsKept, Settled
<1>3. \A j \in live' : j[1] = t =>
        j[2] = task'[t].attempts /\ task'[t].state \in {"RUNNING", "VERIFYING"}
  BY DEF JobsKept, Account
<1>4. task'[t].state = "VERIFYING" => task'[t].pid = 0 /\ (pc' \in Outside \/ NoJob(t)')
  BY <1>1 DEF PlaceKept, Account, Outside
<1>5. task'[t].state = "RUNNING" =>
        \/ Settled(t)' \/ pc' = "down"
        \/ pc' = "record" /\ cur'.id = t
        \/ pc' = "recover" /\ \E r \in todo' : r.id = t
  <2>1. NoJob(t)' => Settled(t)'
    BY DEF NoJob, Settled
  <2> QED
    BY <1>2, <2>1 DEF PlaceKept, Account, Outside
<1>6. cur'.id = t /\ pc' \in {"fail", "failTx", "launch"} => NoJob(t)'
  BY <1>1 DEF PlaceKept, Account, Outside
<1>7. cur'.id = t /\ pc' \in {"launch", "record"} => task'[t].state = "RUNNING"
  BY DEF PlaceKept, Account, Outside
<1>8. ASSUME NEW e \in exited', e[1] = t
      PROVE  /\ <<t, e[2]>> \notin live' /\ e[2] <= task'[t].attempts
             /\ cur'.id = t /\ pc' = "launch" => e[2] < task'[t].attempts
  <2>1. CASE e \in exited
    <3>1. <<t, e[2]>>[1] = t
      OBVIOUS
    <3> QED
      BY <1>8, <2>1, <3>1 DEF JobsKept, Account, PlaceKept, Outside
  <2>2. CASE <<t, e[2]>> \in live /\ <<t, e[2]>> \notin live'
    <3>1. e[2] = task[t].attempts /\ ~NoJob(t)
      BY <2>2 DEF Account, NoJob
    <3>2. task[t].attempts \in Nat
      BY DEF Typed, StoreInv, StoreTypeOK, Row
    <3> QED
      BY <2>2, <3>1, <3>2 DEF Account, PlaceKept, Outside
  <2> QED
    BY <1>8, <2>1, <2>2 DEF JobsKept
<1> QED
  BY <1>3, <1>4, <1>5, <1>6, <1>7, <1>8 DEF Account

\* A task that has no process and whose row is now neither RUNNING nor VERIFYING.
LEMMA RowLeft ==
  ASSUME Typed, NEW t \in Task, Account(t), NoJob(t), JobsKept(t), PlaceKept(t),
         task'[t].state \notin {"RUNNING", "VERIFYING"}, task'[t].attempts = task[t].attempts,
         cur.id = t => pc \notin {"launch", "record"}
  PROVE  Account(t)'
<1>1. NoJob(t)'
  BY DEF JobsKept, NoJob
<1>2. ~(cur'.id = t /\ pc' \in {"launch", "record"})
  BY DEF PlaceKept, Outside
<1>3. ASSUME NEW e \in exited', e[1] = t
      PROVE  <<t, e[2]>> \notin live' /\ e[2] <= task'[t].attempts
  <2>1. e \in exited
    BY <1>3 DEF JobsKept, NoJob
  <2>2. e[2] <= task[t].attempts
    BY <1>3, <2>1 DEF Account
  <2>3. <<t, e[2]>> \notin live'
    BY <1>1 DEF NoJob
  <2> QED
    BY <2>2, <2>3
<1> QED
  BY <1>1, <1>2, <1>3 DEF Account, NoJob

\* A row that is not running has no process; past recovery, nor has one that is verified.
LEMMA Idle ==
  ASSUME NEW t \in Task, Account(t),
         task[t].state # "RUNNING", task[t].state = "VERIFYING" => pc \notin Outside
  PROVE  NoJob(t)
BY DEF Account, NoJob

\* A row that is not running is not at the launch.
LEMMA NotAtLaunch ==
  ASSUME NEW t \in Task, Account(t), task[t].state # "RUNNING"
  PROVE  cur.id = t => pc \notin {"launch", "record"}
BY DEF Account

-----------------------------------------------------------------------------
(* The steps of the operator and of the environment *)

\* A decision keeps the account of every task it does not mark.
LEMMA DecisionAccounts ==
  ASSUME Typed, NEW t \in Task, Account(t), t \notin overridden', JobsKept(t), PlaceKept(t),
         NEW a \in ApprovalId, NEW d \in {"APPROVED", "REJECTED"}, DecideApproval(a, d)
  PROVE  Account(t)'
<1>1. CASE approval[a].task # t
  <2>1. task'[t] = task[t]
    BY <1>1 DEF DecideApproval, Typed, StoreInv, StoreTypeOK
  <2> QED
    BY <2>1, RowAlone
<1>2. CASE approval[a].task = t
  <2>1. task[t].state = "WAITING_APPROVAL"
    BY <1>2 DEF DecideApproval
  <2>2. task'[t].state = d /\ task'[t].attempts = task[t].attempts
    BY <1>2 DEF DecideApproval, Typed, StoreInv, StoreTypeOK, Row
  <2> QED
    BY <2>1, <2>2, Idle, NotAtLaunch, RowLeft
<1> QED
  BY <1>1, <1>2

\* A transition to a state in which nothing runs keeps every account.
LEMMA MoveAccounts ==
  ASSUME Typed, NEW t \in Task, Account(t), JobsKept(t), PlaceKept(t),
         NEW u \in Task, NEW new \in TaskState \ {"RUNNING", "VERIFYING"}, NEW expected, NEW pid \in Nat,
         TransitionTask(u, new, expected, pid),
         u = t => NoJob(t) /\ (cur.id = t => pc \notin {"launch", "record"})
  PROVE  Account(t)'
<1>1. CASE u # t
  <2>1. task'[t] = task[t]
    BY <1>1 DEF TransitionTask, Typed, StoreInv, StoreTypeOK
  <2> QED
    BY <2>1, RowAlone
<1>2. CASE u = t
  <2>1. task'[t].state = new /\ task'[t].attempts = task[t].attempts
    BY <1>2 DEF TransitionTask, Typed, StoreInv, StoreTypeOK, Row
  <2> QED
    BY <1>2, <2>1, RowLeft
<1> QED
  BY <1>1, <1>2

\* Steps of others keep every account.
LEMMA OthersAccount ==
  ASSUME Typed, NEW t \in Task, Account(t), t \notin overridden', Operator \/ Environment
  PROVE  Account(t)'
<1>0. 0 # t
  BY TaskAssumption
<1>1. ASSUME UNCHANGED <<live, exited>>
      PROVE  JobsKept(t)
  BY <1>1 DEF JobsKept
<1>2. ASSUME UNCHANGED <<pc, cur, todo>>
      PROVE  PlaceKept(t)
  BY <1>2 DEF PlaceKept
<1>3. ASSUME NEW a \in ApprovalId, NEW d \in {"APPROVED", "REJECTED"}, OperatorDecides(a, d)
      PROVE  Account(t)'
  BY <1>1, <1>2, <1>3, DecisionAccounts DEF OperatorDecides, Elsewhere, local, procs
<1>4. CASE OperatorPauses \/ OperatorStops
  BY <1>1, <1>2, <1>4, RowAlone DEF OperatorPauses, OperatorStops, SetControl, Elsewhere, local, procs
<1>5. ASSUME NEW u \in Task, OperatorTerminates(u)
      PROVE  Account(t)'
  <2>1. JobsKept(t)
    BY <1>5 DEF OperatorTerminates, Terminated, JobsKept, Typed, RunInv
  <2> QED
    BY <1>2, <1>5, <2>1, RowAlone DEF OperatorTerminates, Elsewhere, local, storeVars
<1>6. ASSUME NEW u \in Task, OperatorNext(u)
      PROVE  Account(t)'
  <2>1. PICK old \in {"RETRY_WAIT", "PENDING"} : TransitionTask(u, "READY", {old}, task[u].pid)
    BY <1>6 DEF OperatorNext
  <2>2. task[u].pid \in Nat /\ "READY" \in TaskState /\ task[u].state = old
    BY <2>1 DEF TransitionTask, CanTransition, Typed, StoreInv, StoreTypeOK, Row, TaskState
  <2>3. u = t => NoJob(t) /\ (cur.id = t => pc \notin {"launch", "record"})
    BY <2>2, Idle, NotAtLaunch
  <2>4. JobsKept(t) /\ PlaceKept(t)
    BY <1>1, <1>2, <1>6 DEF OperatorNext, Elsewhere, local, procs
  <2> QED
    BY <2>1, <2>2, <2>3, <2>4, MoveAccounts
<1>7. ASSUME NEW j \in live, NEW code \in ExitCode, ProcessEnds(j[1], j[2], code)
      PROVE  Account(t)'
  <2>1. JobsKept(t)
    BY <1>7 DEF ProcessEnds, JobsKept, Typed, RunInv
  <2> QED
    BY <1>2, <1>7, <2>1, RowAlone DEF ProcessEnds, Elsewhere, local, storeVars
<1>8. CASE Start
  <2>1. pc = "down" /\ pc' = "recover" /\ cur'.id # t /\ UNCHANGED <<task, live, exited>>
    BY <1>0, <1>8 DEF Start, Enter, NoRow, procs
  <2>2. ASSUME task[t].state = "RUNNING"
        PROVE  \E r \in todo' : r.id = t
    <3>1. t \in InState({"RUNNING"})
      BY <2>2 DEF InState
    <3>2. Copy(t) \in todo'
      BY <1>8, <3>1 DEF Start, Enter, List
    <3> QED
      BY <3>2 DEF Copy
  <2> QED
    BY <2>1, <2>2 DEF Account, NoJob, Settled, Outside
<1>9. CASE Killed
  <2>1. pc' = "down" /\ cur'.id # t /\ exited' = {} /\ UNCHANGED <<task, live>>
    BY <1>0, <1>9 DEF Killed, Down, NoRow, storeVars
  <2> QED
    BY <2>1, RowAlone DEF JobsKept, PlaceKept
<1>10. ASSUME UNCHANGED <<task, live, exited, pc, cur, todo>>
       PROVE  Account(t)'
  BY <1>1, <1>2, <1>10, RowAlone
<1>11. ASSUME NEW u \in Task, TaskOverdue(u) \/ DelayElapses(u)
       PROVE  UNCHANGED <<task, live, exited, pc, cur, todo>>
  BY <1>11 DEF TaskOverdue, DelayElapses, Elsewhere, local, procs, storeVars
<1>12. ASSUME NEW a \in ApprovalId, ApprovalDue(a)
       PROVE  UNCHANGED <<task, live, exited, pc, cur, todo>>
  BY <1>12 DEF ApprovalDue, Elsewhere, local, procs
<1>13. CASE WaitElapses
  BY <1>10, <1>13 DEF WaitElapses, procs, storeVars
<1>14. CASE Operator
  BY <1>3, <1>4, <1>5, <1>6, <1>14 DEF Operator
<1>15. CASE Environment
  BY <1>7, <1>8, <1>9, <1>10, <1>11, <1>12, <1>13, <1>15 DEF Environment
<1> QED
  BY <1>14, <1>15

-----------------------------------------------------------------------------
(* The steps of the controller *)

\* The steps between the loops that leave the rows alone and go where nothing is known.
LEMMA QuietAccounts ==
  ASSUME Typed, NEW t \in Task, Account(t), LoopStep, UNCHANGED <<task, live, exited>>,
         pc \notin Outside \cup {"record", "launch"}, pc' # "down"
  PROVE  Account(t)'
<1>0. 0 # t /\ JobsKept(t)
  BY TaskAssumption DEF JobsKept
<1>1. CASE pc' \notin Outside \cup {"fail", "failTx", "launch", "record"}
  BY <1>0, <1>1, RowAlone DEF PlaceKept, Outside
<1>2. CASE FailRead
  <2>1. cur'.id = cur.id /\ pc' = "failTx" /\ pc = "fail"
    BY <1>2 DEF FailRead, Typed, PlaceInv, Working, RowCopy
  <2>2. cur.id = t => NoJob(t)'
    BY <2>1 DEF Account, NoJob
  <2>3. PlaceKept(t)
    BY <2>1, <2>2 DEF PlaceKept, Outside
  <2> QED
    BY <1>0, <2>3, RowAlone
<1>3. CASE Claim
  <2>1. task' # task
    BY <1>3 DEF Claim, ClaimTask, Claimable, Typed, PlaceInv, Working, RowCopy, StoreInv, StoreTypeOK, Row
  <2> QED
    BY <2>1
<1> QED
  BY <1>1, <1>2, <1>3
  DEF LoopStep, RecoverRaises, Raise, RecoverDone, Tick, HonourControl, StartCollecting, CollectDone,
      VerifyDone, PromoteDone, NoCapacity, UnblockDone, ScheduleDone, FailSkip, FailWrite,
      RetrySchedule, RetryExhausted, WaiverTransition, AutoApprove, AutoCheck, ClaimLost,
      Launch, LaunchFails, RecordProcess, RecordFails, TerminalStay, TerminalWait, TerminalExit,
      PendingNone, PendingExit, PendingStay, Down, Enter, Step, Return, Outside, Typed, PlaceInv, Working

\* A controller that ends leaves the processes to nobody.
LEMMA EndAccounts ==
  ASSUME Typed, NEW t \in Task, Account(t), NEW status, Down(status), UNCHANGED task, live' \subseteq live
  PROVE  Account(t)'
<1>1. cur'.id # t /\ pc' = "down" /\ exited' = {}
  BY TaskAssumption DEF Down, NoRow
<1> QED
  BY <1>1, RowAlone DEF JobsKept, PlaceKept

\* The end of recovery.
LEMMA RecoveredAccounts ==
  ASSUME Typed, NEW t \in Task, Account(t), RecoverDone
  PROVE  Account(t)'
<1>1. CASE Down("BLOCKED") /\ UNCHANGED <<live, delaying>>
  BY <1>1, EndAccounts DEF RecoverDone, storeVars
<1>2. CASE Enter("tick", {}) /\ Quiet
  <2>1. pc = "recover" /\ pc' = "tick" /\ cur'.id # t /\ todo = {} /\ UNCHANGED <<task, live, exited>>
    BY <1>2, TaskAssumption DEF RecoverDone, Enter, Quiet, NoRow, procs, storeVars
  <2>2. task[t].state = "VERIFYING" => task[t].pid # 0
    BY DEF RecoverDone, OrphanVerifying, InState
  <2>3. Settled(t) <=> Settled(t)'
    BY <2>1 DEF Settled
  <2> QED
    BY <2>1, <2>2, <2>3 DEF Account, NoJob, Outside
<1>3. \/ Down("BLOCKED") /\ UNCHANGED <<live, delaying>>
      \/ Enter("tick", {}) /\ Quiet
  BY DEF RecoverDone
<1> QED
  BY <1>1, <1>2, <1>3

\* _fail writes FAILED only where no process is left, and retries what failed.
LEMMA FailAccounts ==
  ASSUME Typed, NEW t \in Task, Account(t), FailWrite \/ RetrySchedule \/ WaiverTransition
  PROVE  Account(t)'
<1>1. CASE Raise
  BY <1>1, EndAccounts DEF Raise, storeVars
<1>2. pc \in Working /\ cur.id \in Task /\ task[cur.id].pid \in Nat /\ ret \in {"collect", "verify", "schedule"}
  BY DEF FailWrite, RetrySchedule, WaiverTransition, Typed, PlaceInv, Working, RowCopy, StoreInv, StoreTypeOK, Row
<1>3. 0 # t /\ (UNCHANGED procs => JobsKept(t))
  BY TaskAssumption DEF JobsKept, procs
<1>4. CASE FailWrite /\ ~Raise
  <2>1. TransitionTask(cur.id, "FAILED", {cur.state}, 0) /\ JobsKept(t) /\ PlaceKept(t)
    BY <1>3, <1>4 DEF FailWrite, Quiet, Step, local, PlaceKept, Outside
  <2>2. cur.id = t => NoJob(t)
    BY <1>4 DEF FailWrite, Account
  <2> QED
    BY <1>2, <1>4, <2>1, <2>2, MoveAccounts DEF FailWrite, TaskState
<1>5. CASE RetrySchedule /\ ~Raise
  <2>1. TransitionTask(cur.id, "RETRY_WAIT", {"FAILED"}, task[cur.id].pid) /\ JobsKept(t) /\ PlaceKept(t)
    BY <1>2, <1>3, <1>5 DEF RetrySchedule, Return, procs, PlaceKept, Outside, NoRow
  <2>2. cur.id = t => NoJob(t)
    BY <2>1, Idle DEF TransitionTask, CanTransition
  <2> QED
    BY <1>2, <1>5, <2>1, <2>2, MoveAccounts DEF RetrySchedule, TaskState
<1>6. CASE WaiverTransition /\ ~Raise
  <2>1. /\ TransitionTask(cur.id, "WAITING_APPROVAL", {"VERIFYING"}, task[cur.id].pid)
        /\ JobsKept(t) /\ PlaceKept(t)
    BY <1>2, <1>3, <1>6 DEF WaiverTransition, Return, Quiet, PlaceKept, Outside, NoRow
  <2>2. cur.id = t => NoJob(t)
    BY <1>6, <2>1, Idle DEF TransitionTask, CanTransition, WaiverTransition, Outside
  <2> QED
    BY <1>2, <1>6, <2>1, <2>2, MoveAccounts DEF WaiverTransition, TaskState
<1> QED
  BY <1>1, <1>4, <1>5, <1>6

\* A claim, the launch and its record keep the account of the task they are about ...
LEMMA LaunchAccounts ==
  ASSUME Typed, NEW t \in Task, Account(t), cur.id = t,
         Claim \/ Launch \/ LaunchFails \/ RecordProcess \/ RecordFails
  PROVE  Account(t)'
<1>0. /\ task[t] \in Row /\ task \in [Task -> Row] /\ task[t].attempts \in Nat /\ 0 # t
      /\ ret \in {"collect", "verify", "schedule"}
      /\ live \subseteq Task \X Nat /\ exited \subseteq Task \X Nat \X ExitCode
  BY TaskAssumption DEF Claim, Launch, LaunchFails, RecordProcess, RecordFails,
     Typed, PlaceInv, RunInv, Working, StoreInv, StoreTypeOK, Row
<1>1. CASE Claim
  <2>1. /\ NoJob(t) /\ pc' = "launch" /\ cur' = cur /\ UNCHANGED <<live, exited>>
        /\ task'[t].state = "RUNNING" /\ task'[t].attempts = task[t].attempts + 1
    BY <1>0, <1>1, Idle DEF Claim, ClaimTask, Claimable, Step, local, procs, Row
  <2>2. \A e \in exited : e[1] = t =>
          <<t, e[2]>> \notin live /\ e[2] <= task[t].attempts /\ e[2] \in Nat
    BY <1>0 DEF Account
  <2>3. ASSUME NEW e \in exited, e[1] = t
        PROVE  e[2] < task'[t].attempts /\ e[2] <= task'[t].attempts
    <3>1. e[2] \in Nat /\ e[2] <= task[t].attempts /\ task'[t].attempts = task[t].attempts + 1
      BY <2>1, <2>2, <2>3
    <3> QED
      BY <1>0, <3>1
  <2> QED
    BY <2>1, <2>2, <2>3 DEF Account, NoJob, Settled
<1>2. CASE Launch
  <2>1. /\ NoJob(t) /\ task[t].state = "RUNNING" /\ pc = "launch" /\ pc' = "record" /\ cur' = cur
        /\ live' = live \cup {<<t, task[t].attempts>>} /\ UNCHANGED <<task, exited>>
    BY <1>2 DEF Launch, Account, Job, Step, local, storeVars
  <2>2. \A e \in exited : e[1] = t =>
          <<t, e[2]>> \notin live /\ e[2] < task[t].attempts /\ e[2] <= task[t].attempts /\ e[2] \in Nat
    BY <1>0, <2>1 DEF Account
  <2>3. \A e \in exited : e[1] = t => <<t, e[2]>> \notin live'
    BY <1>0, <2>1, <2>2
  <2> QED
    BY <2>1, <2>2, <2>3 DEF Account, NoJob
<1>3. CASE LaunchFails
  <2>1. NoJob(t)' /\ JobsKept(t) /\ task'[t] = task[t]
    BY <1>3 DEF LaunchFails, Account, NoJob, Quiet, procs, storeVars, JobsKept
  <2>2. PlaceKept(t)
    BY <1>3, <2>1 DEF LaunchFails, Step, local, PlaceKept, Outside
  <2> QED
    BY <2>1, <2>2, RowAlone
<1>4. CASE RecordProcess
  <2>1. /\ pc = "record" /\ pc' = ret /\ cur'.id # t /\ UNCHANGED <<live, exited>>
        /\ task'[t].state = task[t].state /\ task'[t].attempts = task[t].attempts
        /\ task'[t].pid = task[t].attempts
    BY <1>0, <1>4 DEF RecordProcess, SetProcess, Return, NoRow, Quiet, procs, Row
  <2>2. task[t].state = "RUNNING"
    BY <2>1 DEF Account
  <2> QED
    BY <1>0, <2>1, <2>2 DEF Account, Settled, NoJob, Outside
<1>5. CASE RecordFails
  <2>1. \A j \in live : j[1] = t => j = Job(t)
    BY <1>0 DEF Account, Job
  <2>2. NoJob(t)' /\ JobsKept(t) /\ task'[t] = task[t]
    BY <1>0, <1>5, <2>1 DEF RecordFails, Terminated, NoJob, JobsKept, Job, storeVars, Typed, RunInv
  <2>3. PlaceKept(t)
    BY <1>5, <2>2 DEF RecordFails, Step, local, PlaceKept, Outside
  <2> QED
    BY <2>2, <2>3, RowAlone
<1> QED
  BY <1>1, <1>2, <1>3, <1>4, <1>5

\* ... and of every other task.
LEMMA LaunchLeavesOthers ==
  ASSUME Typed, NEW t \in Task, Account(t), cur.id # t,
         Claim \/ Launch \/ LaunchFails \/ RecordProcess \/ RecordFails
  PROVE  Account(t)'
<1>0. /\ 0 # t /\ cur.id \in Task /\ ret \in {"collect", "verify", "schedule"} /\ pc \notin Outside
      /\ task \in [Task -> Row]
  BY TaskAssumption DEF Claim, Launch, LaunchFails, RecordProcess, RecordFails, Outside,
     Typed, PlaceInv, Working, RowCopy, StoreInv, StoreTypeOK
<1>1. task'[t] = task[t]
  BY <1>0 DEF Claim, ClaimTask, Launch, LaunchFails, RecordProcess, SetProcess, RecordFails, storeVars
<1>2. cur'.id # t /\ pc' \notin Outside
  BY <1>0 DEF Claim, Launch, LaunchFails, RecordProcess, RecordFails, Step, Return, local, NoRow, Outside
<1>3. PlaceKept(t)
  BY <1>0, <1>2 DEF PlaceKept
<1>4. JobsKept(t)
  BY DEF Claim, Launch, LaunchFails, RecordProcess, RecordFails, Quiet, procs, Terminated, Job,
     JobsKept, Typed, RunInv
<1> QED
  BY <1>1, <1>3, <1>4, RowAlone

\* The steps between the loops keep every account.
LEMMA LoopAccounts ==
  ASSUME Typed, NEW t \in Task, Account(t), t \notin overridden', LoopStep
  PROVE  Account(t)'
<1>1. CASE \E status \in ExitState : Down(status) /\ UNCHANGED task /\ live' \subseteq live
  BY <1>1, EndAccounts
<1>2. CASE RecoverDone
  BY <1>2, RecoveredAccounts
<1>3. CASE FailWrite \/ RetrySchedule \/ WaiverTransition
  BY <1>3, FailAccounts
<1>4. CASE Claim \/ Launch \/ LaunchFails \/ RecordProcess \/ RecordFails
  BY <1>4, LaunchAccounts, LaunchLeavesOthers
<1>5. CASE AutoApprove
  <2>1. cur.apr \in ApprovalId /\ JobsKept(t) /\ PlaceKept(t)
    BY <1>5 DEF AutoApprove, Typed, PlaceInv, Quiet, procs, JobsKept, PlaceKept, Step, local, Outside
  <2> QED
    BY <1>5, <2>1, DecisionAccounts DEF AutoApprove
<1>6. CASE UNCHANGED <<task, live, exited>> /\ pc \notin Outside \cup {"record", "launch"} /\ pc' # "down"
  BY <1>6, QuietAccounts
<1>7. CASE RecoverRaises \/ HonourControl \/ TerminalExit \/ PendingNone \/ PendingExit
  <2>1. \E status \in ExitState : Down(status) /\ UNCHANGED task /\ live' \subseteq live
    BY <1>7 DEF RecoverRaises, Raise, HonourControl, TerminalExit, PendingNone, PendingExit, storeVars,
       ExitState, Typed, StoreInv, StoreTypeOK, ControlState
  <2> QED
    BY <1>1, <2>1
<1>8. CASE AutoCheck
  BY <1>1, <1>6, <1>8 DEF AutoCheck, Raise, storeVars, Step, Quiet, procs, Outside, ExitState
<1>9. CASE FailSkip \/ RetryExhausted \/ ClaimLost
  BY <1>6, <1>9 DEF FailSkip, RetryExhausted, ClaimLost, Return, Quiet, procs, storeVars, Outside,
     Typed, PlaceInv, Working
<1>10. CASE Tick \/ StartCollecting \/ CollectDone \/ VerifyDone \/ PromoteDone \/ NoCapacity \/ UnblockDone
            \/ ScheduleDone \/ FailRead \/ TerminalStay \/ TerminalWait \/ PendingStay
  BY <1>6, <1>10 DEF Tick, StartCollecting, CollectDone, VerifyDone, PromoteDone, NoCapacity, UnblockDone,
     ScheduleDone, FailRead, TerminalStay, TerminalWait, PendingStay, Enter, Step, Quiet, procs,
     storeVars, Outside
<1> QED
  BY <1>2, <1>3, <1>4, <1>5, <1>7, <1>8, <1>9, <1>10 DEF LoopStep

\* What the loops know of the row they are at: its pid, and that it does not run while
\* rows are verified.
Known(r) ==
  /\ r.id \in Task /\ r \in todo /\ \A q \in todo : q.id = r.id => q = r
  /\ pc \in {"recover", "collect"} => r.pid = task[r.id].pid
  /\ pc = "verify" => r.id \in overridden \/ task[r.id].state # "RUNNING"

\* The processes a collected row has are the one its copy names.
LEMMA CollectedJobs ==
  ASSUME Typed, NEW t \in Task, Account(t), NEW r, Known(r), r.id = t, pc = "collect"
  PROVE  \A j \in live : j[1] = t => j = <<t, r.pid>>
<1>1. \A j \in live : j[1] = t => j[2] = task[t].pid
  <2>1. task[t].state # "RUNNING" => NoJob(t)
    BY Idle DEF Outside
  <2> QED
    BY <2>1 DEF Account, Settled, NoJob
<1> QED
  BY <1>1 DEF Known, Typed, RunInv

\* A step of recovery on one row.
LEMMA RecoverAccounts ==
  ASSUME Typed, NEW t \in Task, Account(t), NEW r, Known(r), RecoverAlive(r) \/ RecoverDead(r)
  PROVE  Account(t)'
<1>1. CASE Raise
  BY <1>1, EndAccounts DEF Raise, storeVars
<1>2. CASE ~Raise
  <2>1. /\ pc = "recover" /\ pc' = "recover" /\ todo' = todo \ {r} /\ cur' = cur /\ UNCHANGED <<live, exited>>
        /\ First(r)
    BY <1>2 DEF RecoverAlive, RecoverDead, NextRow, Quiet, procs
  <2>2. CASE r.id # t
    <3>1. task'[t] = task[t]
      BY <1>2, <2>2 DEF RecoverAlive, RecoverDead, TransitionTask, storeVars, Typed, StoreInv, StoreTypeOK
    <3>2. (\E q \in todo : q.id = t) => \E q \in todo' : q.id = t
      BY <2>1, <2>2
    <3> QED
      BY <2>1, <3>1, <3>2 DEF Account, NoJob, Settled, Outside
  <2>3. CASE r.id = t /\ RecoverAlive(r)
    <3>1. <<t, task[t].pid>> \in live /\ task' = task
      BY <2>1, <2>3 DEF RecoverAlive, Known, storeVars
    <3>2. task[t].pid = task[t].attempts
      BY <3>1 DEF Account
    <3>3. Settled(t)'
      BY <2>1, <3>1, <3>2 DEF Account, Settled
    <3> QED
      BY <2>1, <3>1, <3>3 DEF Account, NoJob, Outside
  <2>4. CASE r.id = t /\ RecoverDead(r)
    <3>1. task'[t].state = "VERIFYING" /\ task'[t].pid = 0 /\ task'[t].attempts = task[t].attempts
      BY <1>2, <2>4 DEF RecoverDead, TransitionTask, Typed, StoreInv, StoreTypeOK, Row
    <3> QED
      BY <2>1, <3>1 DEF Account, NoJob, Outside
  <2> QED
    BY <2>2, <2>3, <2>4
<1> QED
  BY <1>1, <1>2

\* A step of the collecting loop on one row.
LEMMA CollectAccounts ==
  ASSUME Typed, NEW t \in Task, Account(t), NEW r, Known(r),
         CollectIdle(r) \/ CollectTimeout(r) \/ CollectSuccess(r) \/ CollectFailure(r)
  PROVE  Account(t)'
<1>0. pc = "collect"
  BY DEF CollectIdle, CollectTimeout, CollectSuccess, CollectFailure
<1>1. CASE Raise
  BY <1>1, EndAccounts DEF Raise, storeVars
<1>2. CASE CollectIdle(r)
  <2>1. task'[t] = task[t] /\ JobsKept(t) /\ PlaceKept(t)
    BY <1>2 DEF CollectIdle, NextRow, Quiet, procs, storeVars, JobsKept, PlaceKept, Outside
  <2> QED
    BY <2>1, RowAlone
<1>3. CASE CollectTimeout(r) \/ CollectFailure(r)
  <2>1. task'[t] = task[t] /\ JobsKept(t)
    BY <1>3 DEF CollectTimeout, CollectFailure, storeVars, JobsKept
  <2>2. r.id = t => NoJob(t)'
    <3>1. CASE CollectTimeout(r)
      BY <1>0, <3>1, CollectedJobs DEF CollectTimeout, NoJob
    <3>2. CASE CollectFailure(r) /\ r.id = t
      <4>1. <<t, r.pid, 1>> \in exited
        BY <3>2 DEF CollectFailure, Polled
      <4>2. <<t, r.pid, 1>>[1] = t /\ <<t, r.pid, 1>>[2] = r.pid
        OBVIOUS
      <4>3. <<t, r.pid>> \notin live
        BY <4>1, <4>2 DEF Account
      <4> QED
        BY <1>0, <3>2, <4>3, CollectedJobs DEF CollectFailure, NoJob
    <3> QED
      BY <1>3, <3>1, <3>2
  <2>3. PlaceKept(t)
    BY <1>0, <1>3, <2>2 DEF CollectTimeout, CollectFailure, WorkOn, PlaceKept, Outside
  <2> QED
    BY <2>1, <2>3, RowAlone
<1>4. CASE CollectSuccess(r) /\ ~Raise
  <2>1. JobsKept(t) /\ PlaceKept(t) /\ pc' = "collect" /\ cur' = cur /\ live' = live /\ exited' \subseteq exited
        /\ TransitionTask(r.id, "VERIFYING", {"RUNNING"}, 0)
    BY <1>0, <1>4 DEF CollectSuccess, NextRow, JobsKept, PlaceKept, Outside
  <2>2. CASE r.id # t
    <3>1. task'[t] = task[t]
      BY <2>1, <2>2 DEF TransitionTask, Typed, StoreInv, StoreTypeOK
    <3> QED
      BY <2>1, <3>1, RowAlone
  <2>3. CASE r.id = t
    <3>1. <<t, r.pid, 0>> \in exited
      BY <1>4, <2>3 DEF CollectSuccess, Polled
    <3>2. <<t, r.pid, 0>>[1] = t /\ <<t, r.pid, 0>>[2] = r.pid
      OBVIOUS
    <3>3. <<t, r.pid>> \notin live
      BY <3>1, <3>2 DEF Account
    <3>4. NoJob(t)
      BY <1>0, <2>3, <3>3, CollectedJobs DEF NoJob
    <3>5. task'[t].state = "VERIFYING" /\ task'[t].pid = 0 /\ task'[t].attempts = task[t].attempts
      BY <2>1, <2>3 DEF TransitionTask, Typed, StoreInv, StoreTypeOK, Row
    <3> QED
      BY <1>0, <2>1, <3>4, <3>5 DEF Account, NoJob, Outside
  <2> QED
    BY <2>2, <2>3
<1> QED
  BY <1>1, <1>2, <1>3, <1>4

\* A step of the other loops on one row.
LEMMA RowAccounts ==
  ASSUME Typed, NEW t \in Task, Account(t), t \notin overridden, NEW r, Known(r), RowStep(r)
  PROVE  Account(t)'
<1>0. r.id \in Task /\ task[r.id].pid \in Nat
  BY DEF Known, Typed, StoreInv, StoreTypeOK, Row
<1>1. CASE Raise
  BY <1>1, EndAccounts DEF Raise, storeVars
<1>2. CASE RecoverAlive(r) \/ RecoverDead(r)
  BY <1>2, RecoverAccounts
<1>3. CASE CollectIdle(r) \/ CollectTimeout(r) \/ CollectSuccess(r) \/ CollectFailure(r)
  BY <1>3, CollectAccounts
<1>4. ASSUME NEW label \in {"verify", "promote", "unblock", "schedule"}, pc = label, NextRow(label, r)
      PROVE  PlaceKept(t)
  BY <1>4 DEF NextRow, PlaceKept, Outside
<1>5. ASSUME Quiet
      PROVE  JobsKept(t)
  BY <1>5 DEF Quiet, procs, JobsKept
<1>6. ASSUME NEW new \in TaskState \ {"RUNNING", "VERIFYING"}, NEW expected,
             TransitionTask(r.id, new, expected, task[r.id].pid), expected \subseteq TaskState \ {"RUNNING"},
             pc \in {"verify", "promote", "unblock", "schedule"}, NextRow(pc, r), Quiet
      PROVE  Account(t)'
  <2>1. task[r.id].state # "RUNNING"
    BY <1>6 DEF TransitionTask, CanTransition
  <2>2. r.id = t => NoJob(t) /\ (cur.id = t => pc \notin {"launch", "record"})
    BY <1>6, <2>1, Idle DEF Outside
  <2> QED
    BY <1>0, <1>4, <1>5, <1>6, <2>2, MoveAccounts
<1>7. CASE VerifyPass(r) \/ Promote(r) \/ Unblock(r) \/ ScheduleReject(r)
  <2>1. CASE VerifyPass(r) /\ ~Raise
    BY <1>6, <2>1 DEF VerifyPass, TaskState
  <2>2. CASE Promote(r) /\ ~Raise
    <3>1. /\ TransitionTask(r.id, "READY", {"RETRY_WAIT"}, task[r.id].pid) /\ JobsKept(t) /\ PlaceKept(t)
          /\ pc = "promote"
      BY <1>4, <2>2 DEF Promote, JobsKept, procs
    <3>2. r.id = t => NoJob(t)
      BY <3>1, Idle DEF TransitionTask, CanTransition
    <3> QED
      BY <1>0, <3>1, <3>2, MoveAccounts DEF TaskState
  <2>3. CASE Unblock(r) /\ ~Raise
    BY <1>6, <2>3 DEF Unblock, TaskState
  <2>4. CASE ScheduleReject(r) /\ ~Raise
    BY <1>6, <2>4 DEF ScheduleReject, TaskState
  <2> QED
    BY <1>1, <1>7, <2>1, <2>2, <2>3, <2>4
<1>8. CASE VerifyFail(r)
  <2>1. task'[t] = task[t] /\ JobsKept(t) /\ pc = "verify"
    BY <1>5, <1>8 DEF VerifyFail, storeVars
  <2>2. r.id = t => NoJob(t)'
    BY <1>8, <2>1, Idle DEF Known, Outside, JobsKept, NoJob
  <2>3. PlaceKept(t)
    BY <1>8, <2>2 DEF VerifyFail, WorkOn, PlaceKept, Outside
  <2> QED
    BY <2>1, <2>3, RowAlone
<1>9. CASE ScheduleExecute(r)
  <2>1. task'[t] = task[t] /\ JobsKept(t) /\ PlaceKept(t)
    BY <1>5, <1>9 DEF ScheduleExecute, WorkOn, storeVars, PlaceKept, Outside
  <2> QED
    BY <2>1, RowAlone
<1> QED
  BY <1>2, <1>3, <1>7, <1>8, <1>9 DEF RowStep

\* A request for an approval of one row.
LEMMA RequestAccounts ==
  ASSUME Typed, NEW t \in Task, Account(t), t \notin overridden', NEW r, Known(r),
         NEW apr \in ApprovalId, ApprovalStep(r, apr)
  PROVE  Account(t)'
<1>1. /\ Request(r.id, apr) /\ pc \in {"verify", "schedule"} /\ JobsKept(t) /\ PlaceKept(t)
  BY DEF ApprovalStep, VerifyNonEvidentiary, ScheduleRequest, ScheduleAutoRequest, NextRow, WorkOn,
     Quiet, procs, JobsKept, PlaceKept, Outside
<1>2. CASE task'[t] = task[t]
  BY <1>1, <1>2, RowAlone
<1>3. CASE task'[t] # task[t]
  <2>1. CreateApproval(apr, r.id)
    BY <1>1, <1>3 DEF Request, storeVars
  <2>2. r.id = t
    BY <1>3, <2>1 DEF CreateApproval, Typed, StoreInv, StoreTypeOK
  <2>3. task[t].state \in {"READY", "VERIFYING"}
    BY <2>1, <2>2 DEF CreateApproval, TaskTransitions, TaskState, Typed, StoreInv, StoreTypeOK, Row
  <2>4. task'[t].state = "WAITING_APPROVAL" /\ task'[t].attempts = task[t].attempts
    BY <2>1, <2>2 DEF CreateApproval, Typed, StoreInv, StoreTypeOK, Row
  <2>5. NoJob(t)
    BY <1>1, <2>3, Idle DEF Outside
  <2> QED
    BY <1>1, <2>4, <2>5, RowLeft
<1> QED
  BY <1>2, <1>3

-----------------------------------------------------------------------------
(* Jobs is inductive *)

\* The pid of a row is written at its launch, when it is failed, or on its way out of a loop.
LEMMA PidWrites ==
  ASSUME Typed, [Next]_vars, NEW t \in Task
  PROVE  \/ task'[t].pid = task[t].pid
         \/ pc \in Working /\ cur.id = t
         \/ \E r \in todo : r.id = t /\ r \notin todo'
<1>0. task \in [Task -> Row] /\ \A u \in Task : task[u] \in Row
  BY DEF Typed, StoreInv, StoreTypeOK
<1>1. CASE UNCHANGED task
  BY <1>1
<1>2. ASSUME NEW u \in Task, NEW new, NEW expected, TransitionTask(u, new, expected, task[u].pid)
      PROVE  task'[t].pid = task[t].pid
  BY <1>0, <1>2 DEF TransitionTask, Row
<1>3. ASSUME NEW u \in Task, NEW new, NEW expected, TransitionTask(u, new, expected, 0), u # t
      PROVE  task'[t].pid = task[t].pid
  BY <1>0, <1>3 DEF TransitionTask, Row
<1>4. ASSUME NEW a \in ApprovalId, NEW d, DecideApproval(a, d)
      PROVE  task'[t].pid = task[t].pid
  BY <1>0, <1>4 DEF DecideApproval, Row, Typed, StoreInv
<1>5. ASSUME NEW r \in todo, RowStep(r)
      PROVE  task'[t].pid = task[t].pid \/ (r.id = t /\ r \notin todo')
  <2>0. r.id \in Task
    BY DEF Typed, PlaceInv, RowCopy
  <2> QED
    BY <1>2, <1>3, <1>5, <2>0 DEF RowStep, RecoverAlive, RecoverDead, CollectIdle, CollectTimeout,
       CollectSuccess, CollectFailure, VerifyPass, VerifyFail, Promote, Unblock, ScheduleExecute,
       ScheduleReject, NextRow, Raise, storeVars
<1>6. ASSUME NEW r \in todo, NEW apr \in ApprovalId, ApprovalStep(r, apr)
      PROVE  task'[t].pid = task[t].pid
  <2>1. UNCHANGED storeVars \/ CreateApproval(apr, r.id)
    BY <1>6 DEF ApprovalStep, VerifyNonEvidentiary, ScheduleRequest, ScheduleAutoRequest, Request
  <2> QED
    BY <1>0, <2>1 DEF CreateApproval, storeVars, Row
<1>7. CASE LoopStep
  <2>1. CASE pc \in Working /\ cur.id # t
    <3>0. cur.id \in Task
      BY <2>1 DEF Typed, PlaceInv, RowCopy
    <3>1. CASE RetrySchedule \/ WaiverTransition \/ FailWrite
      BY <1>2, <1>3, <2>1, <3>0, <3>1 DEF RetrySchedule, WaiverTransition, FailWrite, Raise, storeVars
    <3>2. CASE AutoApprove
      BY <1>4, <3>2 DEF AutoApprove, Typed, PlaceInv
    <3>3. CASE Claim \/ RecordProcess
      BY <1>0, <2>1, <3>0, <3>3 DEF Claim, ClaimTask, RecordProcess, SetProcess
    <3> QED
      BY <1>7, <2>1, <3>1, <3>2, <3>3
      DEF LoopStep, RecoverRaises, RecoverDone, Tick, HonourControl, StartCollecting, CollectDone,
          VerifyDone, PromoteDone, NoCapacity, UnblockDone, ScheduleDone, FailSkip, FailRead, RetryExhausted,
          AutoCheck, ClaimLost, Launch, LaunchFails, RecordFails, TerminalStay, TerminalWait,
          TerminalExit, PendingNone, PendingExit, PendingStay, Raise, storeVars
  <2>2. CASE pc \notin Working
    BY <1>7, <2>2
    DEF LoopStep, RecoverRaises, RecoverDone, Tick, HonourControl, StartCollecting, CollectDone,
        VerifyDone, PromoteDone, NoCapacity, UnblockDone, ScheduleDone, FailSkip, FailRead, FailWrite,
        RetrySchedule, RetryExhausted, WaiverTransition, AutoApprove, AutoCheck, Claim, ClaimLost,
        Launch, LaunchFails, RecordProcess, RecordFails, TerminalStay, TerminalWait, TerminalExit,
        PendingNone, PendingExit, PendingStay, Raise, storeVars, Working
  <2> QED
    BY <2>1, <2>2
<1>8. ASSUME NEW a \in ApprovalId, Expire(a)
      PROVE  task'[t].pid = task[t].pid
  BY <1>4, <1>8 DEF Expire
<1>9. CASE Operator
  BY <1>2, <1>4, <1>9 DEF Operator, OperatorDecides, OperatorPauses, OperatorStops, OperatorTerminates,
     OperatorNext, SetControl, storeVars
<1>10. CASE Environment \/ UNCHANGED vars
  BY <1>1, <1>10 DEF Environment, ProcessEnds, TaskOverdue, DelayElapses, ApprovalDue, WaitElapses, Start,
     Killed, vars, storeVars
<1> QED
  BY <1>5, <1>6, <1>7, <1>8, <1>9, <1>10 DEF Next, Controller

\* A row begins to run by a claim only.
LEMMA RunsByClaim ==
  ASSUME Typed, StoreStep, NEW t \in Task, task[t].state # "RUNNING", pc = "claim" => cur.id # t
  PROVE  task'[t].state # "RUNNING"
<1>0. task \in [Task -> Row] /\ \A u \in Task : task[u] \in Row
  BY DEF Typed, StoreInv, StoreTypeOK
<1>1. ASSUME NEW u \in Task, NEW e \in Edge, Moves(u, e)
      PROVE  task'[t].state # "RUNNING"
  BY <1>0, <1>1 DEF Moves, Edge, Row
<1>2. ASSUME NEW r \in todo, NEW a \in ApprovalId, CreateApproval(a, r.id)
      PROVE  task'[t].state # "RUNNING"
  BY <1>0, <1>2 DEF CreateApproval, Row
<1>3. ASSUME NEW a \in ApprovalId, NEW d \in {"APPROVED", "REJECTED"}, DecideApproval(a, d)
      PROVE  task'[t].state # "RUNNING"
  BY <1>0, <1>3 DEF DecideApproval, Row
<1>4. ASSUME cur.id # t, ClaimTask(cur.id)
      PROVE  task'[t].state # "RUNNING"
  BY <1>0, <1>4 DEF ClaimTask
<1>5. ASSUME NEW u \in Task, NEW pid \in Nat, SetProcess(u, pid)
      PROVE  task'[t].state # "RUNNING"
  BY <1>0, <1>5 DEF SetProcess, Row
<1> QED
  BY <1>1, <1>2, <1>3, <1>4, <1>5 DEF StoreStep, Dues

\* A row a loop still has to visit is neither the one it works on nor one it visits now.
LEMMA TodoApart ==
  ASSUME Typed, Kept, NEW r \in todo, r \in todo'
  PROVE  /\ r.id \in Task
         /\ pc \in Working => cur.id # r.id
         /\ \A q \in todo : q.id = r.id => q \in todo'
BY DEF Kept, Typed, PlaceInv, RowCopy

\* Jobs is inductive.
LEMMA JobsHold ==
  ASSUME Typed, Kept, Jobs, [Next]_vars
  PROVE  Jobs'
<1>1. StoreStep /\ overridden \subseteq overridden'
  BY StoreSteps, MarksStay
<1>2. ASSUME NEW t \in Task, t \notin overridden'
      PROVE  Account(t)'
  <2>0. t \notin overridden /\ Account(t)
    BY <1>1, <1>2 DEF Jobs
  <2>1. ASSUME NEW r \in todo
        PROVE  Known(r)
    BY <2>1 DEF Known, Jobs, InLoopOf, Kept, Typed, PlaceInv, RowCopy
  <2>2. ASSUME NEW a \in ApprovalId, Expire(a)
        PROVE  Account(t)'
    <3>1. JobsKept(t) /\ PlaceKept(t)
      BY <2>2 DEF Expire, Quiet, procs, JobsKept, PlaceKept
    <3> QED
      BY <1>2, <2>0, <2>2, <3>1, DecisionAccounts DEF Expire
  <2>3. CASE UNCHANGED vars
    <3>1. JobsKept(t) /\ PlaceKept(t) /\ task'[t] = task[t]
      BY <2>3 DEF vars, storeVars, local, procs, JobsKept, PlaceKept
    <3> QED
      BY <2>0, <3>1, RowAlone
  <2>4. CASE Controller
    BY <1>2, <2>0, <2>1, <2>2, <2>4, LoopAccounts, RowAccounts, RequestAccounts DEF Controller
  <2> QED
    BY <1>2, <2>0, <2>3, <2>4, OthersAccount DEF Next
<1>3. ASSUME NEW l \in {"recover", "collect"}, InLoopOf(l)', NEW r \in todo'
      PROVE  r.pid = task'[r.id].pid
  <2>1. CASE InLoopOf(l) /\ todo' \subseteq todo
    BY <1>3, <2>1, TodoApart, PidWrites DEF Jobs
  <2>2. CASE Start \/ StartCollecting
    BY <1>3, <2>2 DEF Start, StartCollecting, Enter, List, Copy, storeVars
  <2> QED
    BY <1>3, <2>1, <2>2, LoopEntered
<1>4. ASSUME InLoopOf("verify")', NEW r \in todo'
      PROVE  r.id \in overridden' \/ task'[r.id].state # "RUNNING"
  <2>1. CASE InLoopOf("verify") /\ todo' \subseteq todo
    BY <1>1, <1>4, <2>1, TodoApart, RunsByClaim DEF Jobs, Working
  <2>2. CASE CollectDone
    BY <1>4, <2>2 DEF CollectDone, Enter, List, Copy, InState, storeVars
  <2> QED
    BY <1>4, <2>1, <2>2, LoopEntered
<1>5. (InLoopOf("recover") \/ InLoopOf("collect") => \A r \in todo : r.pid = task[r.id].pid)'
  BY <1>3
<1>6. (InLoopOf("verify") => \A r \in todo : r.id \in overridden \/ task[r.id].state # "RUNNING")'
  BY <1>4
<1> QED
  BY <1>2, <1>5, <1>6 DEF Jobs

\* The invariants of the theorems below hold of a fresh plan.
LEMMA JobsStart ==
  ASSUME Init
  PROVE  Typed /\ Kept /\ Jobs
<1>1. Kept
  BY DEF Init, Kept, InSchedule, Working
<1>2. Jobs
  BY DEF Init, StoreInit, Jobs, Account, NoJob, Settled, InLoopOf, Working, NoRow
<1> QED
  BY <1>1, <1>2, InitTyped

\* The accounts of all tasks hold in every reachable state.
LEMMA JobsAlways == Spec => [](Typed /\ Kept /\ Jobs)
<1>1. Typed /\ Kept /\ Jobs /\ [Next]_vars => (Typed /\ Kept /\ Jobs)'
  BY NextTyped, KeptHolds, JobsHold
<1> QED
  BY <1>1, JobsStart, PTL DEF Spec

\* No process of a task outlives its verdict, and none runs beside another attempt.
THEOREM ProcessesAccounted == Spec => []ProcessAccounted
<1>1. Typed /\ Jobs => ProcessAccounted
  BY DEF Jobs, Account, ProcessAccounted, Typed, RunInv
<1> QED
  BY <1>1, JobsAlways, PTL

-----------------------------------------------------------------------------
(* What a run leaves behind *)

\* The result of a run stands until the next one starts; meanwhile the controller is
\* down and no process starts.
Ended ==
  /\ exit # "NONE" => pc = "down"
  /\ StoppedIsQuiet
  /\ CompleteIsTrue

\* Where no controller runs, only others act, and they start no process.
LEMMA DownSteps ==
  ASSUME Typed, [Next]_vars, pc = "down", pc' = "down" \/ exit' # "NONE"
  PROVE  pc' = "down" /\ exit' = exit /\ live' \subseteq live
<1>1. ASSUME NEW a \in ApprovalId, Expire(a)
      PROVE  FALSE
  BY <1>1 DEF Expire
<1>2. ASSUME LoopStep
      PROVE  FALSE
  BY <1>2 DEF LoopStep, RecoverRaises, RecoverDone, Tick, HonourControl, StartCollecting, CollectDone,
     VerifyDone, PromoteDone, NoCapacity, UnblockDone, ScheduleDone, FailSkip, FailRead, FailWrite,
     RetrySchedule, RetryExhausted, WaiverTransition, AutoApprove, AutoCheck, Claim, ClaimLost,
     Launch, LaunchFails, RecordProcess, RecordFails, TerminalStay, TerminalWait, TerminalExit,
     PendingNone, PendingExit, PendingStay
<1>3. ASSUME NEW r \in todo, RowStep(r)
      PROVE  FALSE
  BY <1>3 DEF RowStep, RecoverAlive, RecoverDead, CollectIdle, CollectTimeout, CollectSuccess,
     CollectFailure, VerifyPass, VerifyFail, Promote, Unblock, ScheduleExecute, ScheduleReject
<1>4. ASSUME NEW r \in todo, NEW apr \in ApprovalId, ApprovalStep(r, apr)
      PROVE  FALSE
  BY <1>4 DEF ApprovalStep, VerifyNonEvidentiary, ScheduleRequest, ScheduleAutoRequest
<1>5. ASSUME Operator \/ Environment
      PROVE  pc' = "down" /\ exit' = exit /\ live' \subseteq live
  BY <1>5 DEF Operator, OperatorDecides, OperatorPauses, OperatorStops, OperatorTerminates, Terminated,
     OperatorNext, Environment, ProcessEnds, TaskOverdue, DelayElapses, ApprovalDue, WaitElapses, Start,
     Killed, Elsewhere, Enter, run, procs
<1>6. CASE UNCHANGED vars
  BY <1>6 DEF vars, run, procs
<1> QED
  BY <1>1, <1>2, <1>3, <1>4, <1>5, <1>6 DEF Next, Controller

\* A run in progress ends STOPPED or COMPLETE in one place each.
LEMMA Endings ==
  ASSUME Typed, [Next]_vars, pc # "down"
  PROVE  /\ exit' = exit \/ pc' = "down"
         /\ exit' = "STOPPED" => exit = "STOPPED" \/ HonourControl
         /\ exit' = "COMPLETE" => exit = "COMPLETE" \/ TerminalExit
<1>1. CASE Raise
  BY <1>1 DEF Raise, Down
<1>2. CASE UNCHANGED exit
  BY <1>2
<1>3. ASSUME NEW a \in ApprovalId, Expire(a)
      PROVE  UNCHANGED exit
  BY <1>3 DEF Expire, Quiet, run
<1>4. CASE HonourControl \/ TerminalExit \/ PendingNone \/ PendingExit \/ RecoverRaises \/ RecoverDone \/ Killed
  BY <1>4 DEF HonourControl, TerminalExit, PendingNone, PendingExit, RecoverRaises, RecoverDone, Killed,
     Raise, Down, Quiet, run, Typed, StoreInv, StoreTypeOK, ControlState
<1>5. CASE LoopStep
  BY <1>1, <1>2, <1>4, <1>5 DEF LoopStep, Tick, StartCollecting, CollectDone,
     VerifyDone, PromoteDone, NoCapacity, UnblockDone, ScheduleDone, FailSkip, FailRead, FailWrite,
     RetrySchedule, RetryExhausted, WaiverTransition, AutoApprove, AutoCheck, Claim, ClaimLost,
     Launch, LaunchFails, RecordProcess, RecordFails, TerminalStay, TerminalWait, PendingStay, Quiet, run
<1>6. ASSUME NEW r \in todo, RowStep(r)
      PROVE  Raise \/ UNCHANGED exit
  BY <1>6 DEF RowStep, RecoverAlive, RecoverDead, CollectIdle, CollectTimeout, CollectSuccess,
     CollectFailure, VerifyPass, VerifyFail, Promote, Unblock, ScheduleExecute, ScheduleReject, Quiet, run
<1>7. ASSUME NEW r \in todo, NEW apr \in ApprovalId, ApprovalStep(r, apr)
      PROVE  UNCHANGED exit
  BY <1>7 DEF ApprovalStep, VerifyNonEvidentiary, ScheduleRequest, ScheduleAutoRequest, Quiet, run
<1>8. ASSUME Operator \/ Environment
      PROVE  UNCHANGED exit \/ Killed
  BY <1>8 DEF Operator, OperatorDecides, OperatorPauses, OperatorStops, OperatorTerminates,
     OperatorNext, Environment, ProcessEnds, TaskOverdue, DelayElapses, ApprovalDue, WaitElapses, Start,
     Elsewhere, run
<1>9. CASE UNCHANGED vars
  BY <1>2, <1>9 DEF vars, run
<1> QED
  BY <1>1, <1>2, <1>3, <1>4, <1>5, <1>6, <1>7, <1>8, <1>9 DEF Next, Controller

\* A stop terminates every process: past the collecting loop a process belongs to a
\* RUNNING row and is the one its pid names.
LEMMA StopIsQuiet ==
  ASSUME Typed, Jobs, HonourControl, exit' = "STOPPED"
  PROVE  StoppedIsQuiet'
<1>1. pc = "expire" /\ live' = live \ WorkersOf(InState({"RUNNING"})) /\ overridden' = overridden
  BY DEF HonourControl, Down, storeVars
<1>2. ASSUME NEW j \in live, j[1] \notin overridden
      PROVE  j \notin live'
  <2>1. j[1] \in Task /\ j = <<j[1], j[2]>> /\ Account(j[1])
    BY <1>2 DEF Typed, RunInv, Jobs
  <2>2. task[j[1]].state = "RUNNING"
    BY <1>1, <1>2, <2>1 DEF Account, NoJob, Outside
  <2>3. j[2] = task[j[1]].pid
    BY <1>1, <1>2, <2>1, <2>2 DEF Account, Settled
  <2> QED
    BY <1>1, <1>2, <2>1, <2>2, <2>3 DEF WorkersOf, InState
<1> QED
  BY <1>1, <1>2 DEF StoppedIsQuiet

\* A result stays true until the next run.
LEMMA EndedHolds ==
  ASSUME Typed, Jobs, Ended, [Next]_vars
  PROVE  Ended'
<1>1. StoreStep /\ overridden \subseteq overridden'
  BY StoreSteps, MarksStay
<1>2. CASE pc = "down" /\ exit' # "NONE"
  <2>1. pc' = "down" /\ exit' = exit /\ live' \subseteq live
    BY <1>2, DownSteps
  <2>2. StoppedIsQuiet'
    BY <1>1, <2>1 DEF Ended, StoppedIsQuiet
  <2>3. ASSUME NEW t \in Task, t \notin overridden', task[t].state \in {"PASSED", "REJECTED"}
        PROVE  task'[t].state = task[t].state
    <3>0. task \in [Task -> Row] /\ task[t] \in Row /\ \A a \in ApprovalId : approval[a].state # "NONE" => approval[a].task \in Task
      BY DEF Typed, StoreInv, StoreTypeOK
    <3>1. ASSUME NEW u \in Task, NEW e \in Edge, Moves(u, e)
          PROVE  task'[t].state = task[t].state
      BY <2>3, <3>0, <3>1 DEF Moves, Edge, Row
    <3>2. ASSUME NEW a \in ApprovalId, NEW d \in {"APPROVED", "REJECTED"}, DecideApproval(a, d)
          PROVE  task'[t].state = task[t].state
      BY <2>3, <3>0, <3>2 DEF DecideApproval, Row
    <3>3. ASSUME NEW u \in Task, NEW pid \in Nat, SetProcess(u, pid)
          PROVE  task'[t].state = task[t].state
      BY <3>0, <3>3 DEF SetProcess, Row
    <3> QED
      BY <1>1, <1>2, <3>1, <3>2, <3>3 DEF StoreStep, Dues
  <2>4. CompleteIsTrue'
    <3> SUFFICES ASSUME exit' = "COMPLETE"
                 PROVE  /\ \A t \in Task \ overridden' :
                             task'[t].state \in (IF t \in Mandatory THEN {"PASSED"} ELSE {"PASSED", "REJECTED"})
                        /\ \A j \in live' : j[1] \in overridden'
      BY DEF CompleteIsTrue
    <3> QED
      BY <1>1, <2>1, <2>3 DEF Ended, CompleteIsTrue
  <2> QED
    BY <2>1, <2>2, <2>4 DEF Ended
<1>3. CASE exit' = "NONE"
  BY <1>3 DEF Ended, StoppedIsQuiet, CompleteIsTrue
<1>4. CASE pc # "down" /\ exit' # "NONE"
  <2>1. exit = "NONE" /\ pc' = "down"
    BY <1>4, Endings DEF Ended
  <2>2. StoppedIsQuiet'
    BY <1>4, <2>1, Endings, StopIsQuiet DEF StoppedIsQuiet
  <2>3. ASSUME TerminalExit, exit' = "COMPLETE"
        PROVE  CompleteIsTrue'
    <3>1. Complete /\ UNCHANGED <<task, overridden, live>>
      BY <2>3 DEF TerminalExit, Down, storeVars
    <3>2. \A t \in Task \ overridden : NoJob(t)
      BY <3>1, Idle DEF Complete, Jobs
    <3> QED
      BY <3>1, <3>2 DEF Complete, CompleteIsTrue, NoJob, Typed, RunInv
  <2>4. CompleteIsTrue'
    BY <1>4, <2>1, <2>3, Endings DEF CompleteIsTrue
  <2> QED
    BY <2>1, <2>2, <2>4 DEF Ended
<1> QED
  BY <1>2, <1>3, <1>4

\* The results of runs are true in every reachable state.
LEMMA EndedAlways == Spec => []Ended
<1>1. Init => Ended
  BY DEF Init, Ended, StoppedIsQuiet, CompleteIsTrue
<1>2. Typed /\ Kept /\ Jobs /\ Ended /\ [Next]_vars => Ended'
  BY EndedHolds
<1> QED
  BY <1>1, <1>2, JobsAlways, PTL DEF Spec

\* After a run that says STOPPED no task process is alive.
THEOREM StoppedAlwaysQuiet == Spec => []StoppedIsQuiet
<1>1. Ended => StoppedIsQuiet
  BY DEF Ended
<1> QED
  BY <1>1, EndedAlways, PTL

\* A run that says COMPLETE left nothing undone and nothing running.
THEOREM CompleteAlwaysTrue == Spec => []CompleteIsTrue
<1>1. Ended => CompleteIsTrue
  BY DEF Ended
<1> QED
  BY <1>1, EndedAlways, PTL
=============================================================================
