------------------------- MODULE Orchestrator_proofs -------------------------
(***************************************************************************)
(* Type correctness of the orchestrator for every plan, and the invariant  *)
(* Typed the other proof modules start from.  Typed splits into the store, *)
(* the controller's place in its loops, and its runs and processes,        *)
(* because a step usually disturbs one of the three.                       *)
(*                                                                         *)
(* Then the life of a task.  The store is written in few ways: StoreSteps  *)
(* reduces the fifty-odd actions to the writes they make, and each invariant*)
(* is proved over those.  A task that waits can be decided; dependencies come*)
(* first; and the controller implements TaskLifecycle.                     *)
(***************************************************************************)
EXTENDS OrchestratorProperties, TLAPS

\* The store is well typed, and an approval on record belongs to a task.
StoreInv ==
  /\ StoreTypeOK
  /\ \A a \in ApprovalId : approval[a].state # "NONE" => approval[a].task \in Task

\* transition_task keeps the store well typed.
LEMMA TransitionTyped ==
  ASSUME StoreInv, NEW t \in Task, NEW new \in TaskState, NEW expected, NEW pid \in Nat,
         TransitionTask(t, new, expected, pid)
  PROVE  StoreInv'
BY DEF StoreInv, StoreTypeOK, TransitionTask, Row

\* claim_task keeps the store well typed.
LEMMA ClaimTyped ==
  ASSUME StoreInv, NEW t \in Task, ClaimTask(t)
  PROVE  StoreInv'
BY DEF StoreInv, StoreTypeOK, ClaimTask, Row, TaskState

\* set_process keeps the store well typed.
LEMMA SetProcessTyped ==
  ASSUME StoreInv, NEW t \in Task, NEW pid \in Nat, SetProcess(t, pid)
  PROVE  StoreInv'
BY DEF StoreInv, StoreTypeOK, SetProcess, Row

\* create_approval keeps the store well typed.
LEMMA CreateTyped ==
  ASSUME StoreInv, NEW a \in ApprovalId, NEW t \in Task, CreateApproval(a, t)
  PROVE  StoreInv'
BY DEF StoreInv, StoreTypeOK, CreateApproval, Row, Approval, TaskState, ApprovalState

\* decide_approval keeps the store well typed.
LEMMA DecideTyped ==
  ASSUME StoreInv, NEW a \in ApprovalId, NEW d \in Decision, DecideApproval(a, d)
  PROVE  StoreInv'
BY DEF StoreInv, StoreTypeOK, DecideApproval, Row, Approval, TaskState, ApprovalState, Decision

\* The places inside one iteration of a loop, where cur is the row worked on.
Working == {"fail", "failTx", "retry", "waiver", "autoApprove", "autoCheck",
            "claim", "launch", "record"}

\* Where the controller is.  Inside an iteration it holds a copy and knows its loop; it
\* decides an approval it was given, and fails a row it saw running or being verified.
PlaceInv ==
  /\ pc \in Pc
  /\ todo \subseteq RowCopy
  /\ cur \in RowCopy \cup {NoRow}
  /\ ret \in {"none", "collect", "verify", "schedule"}
  /\ expiring \subseteq ApprovalId
  /\ waiting \in {"no", "counting", "over"}
  /\ pc \in Working => cur \in RowCopy /\ ret # "none"
  /\ pc = "autoApprove" => cur.apr \in ApprovalId
  /\ pc = "failTx" => cur.state \in {"RUNNING", "VERIFYING"}

\* Runs and processes; only living processes have a parent.
RunInv ==
  /\ exit \in ExitState
  /\ starts \in Nat
  /\ live \subseteq Task \X Nat /\ child \subseteq live
  /\ exited \subseteq Task \X Nat \X ExitCode
  /\ overtime \subseteq Task /\ delaying \subseteq Task

\* What list_tasks returns are copies of rows.
LEMMA CopyTyped ==
  ASSUME StoreInv, NEW S
  PROVE  List(S) \subseteq RowCopy
BY DEF StoreInv, StoreTypeOK, List, Copy, InState, RowCopy, Row

\* The end of a run, however it ends, leaves nothing of the controller behind.
LEMMA DownTyped ==
  ASSUME NEW status \in ExitState, RunInv, Down(status)
  PROVE  /\ PlaceInv'
         /\ exit' \in ExitState /\ starts' \in Nat /\ child' = {} /\ exited' = {} /\ overtime' \subseteq Task
BY DEF Down, PlaceInv, RunInv, Pc, Working

\* An uncaught exception keeps the whole state well typed.
LEMMA RaiseTyped ==
  ASSUME StoreInv, RunInv, Raise
  PROVE  StoreInv' /\ PlaceInv' /\ RunInv'
BY DownTyped DEF Raise, StoreInv, StoreTypeOK, storeVars, RunInv, ExitState, Down, PlaceInv, Pc, Working

\* Entering a loop with fresh copies keeps the place well typed.
LEMMA EnterTyped ==
  ASSUME PlaceInv, NEW label \in Pc \ Working, NEW copies \in SUBSET RowCopy, Enter(label, copies)
  PROVE  PlaceInv'
BY DEF PlaceInv, Enter, Working

\* Going on to the next copy keeps the place well typed.
LEMMA NextRowTyped ==
  ASSUME PlaceInv, NEW label \in Pc \ Working, NEW r, NextRow(label, r)
  PROVE  PlaceInv'
BY DEF PlaceInv, NextRow, Working

\* Starting to work on a copy keeps the place well typed.
LEMMA WorkOnTyped ==
  ASSUME PlaceInv, NEW label \in Working \ {"failTx"}, NEW r \in RowCopy, NEW loop \in {"collect", "verify", "schedule"},
         label = "autoApprove" => r.apr \in ApprovalId,
         WorkOn(label, r, loop)
  PROVE  PlaceInv'
BY DEF PlaceInv, WorkOn, Working, Pc

\* Returning to the loop keeps the place well typed.
LEMMA ReturnTyped ==
  ASSUME PlaceInv, pc \in Working, Return
  PROVE  PlaceInv'
BY DEF PlaceInv, Return, Working, Pc

\* Going on inside an iteration keeps the place well typed.
LEMMA StepTyped ==
  ASSUME PlaceInv, NEW label \in Pc \ {"autoApprove", "failTx"}, label \in Working => pc \in Working, Step(label)
  PROVE  PlaceInv'
BY DEF PlaceInv, Step, Working, Pc, local

\* A step that leaves the store alone keeps it well typed.
LEMMA StoreKept ==
  ASSUME StoreInv, UNCHANGED storeVars
  PROVE  StoreInv'
BY DEF StoreInv, StoreTypeOK, storeVars

\* A step that leaves runs and processes alone keeps them well typed.
LEMMA QuietTyped ==
  ASSUME RunInv, Quiet
  PROVE  RunInv'
BY DEF RunInv, Quiet, run, procs

\* The inductive type invariant.
Typed == StoreInv /\ PlaceInv /\ RunInv

\* ApprovalGate.request keeps the store well typed.
LEMMA RequestTyped ==
  ASSUME StoreInv, NEW t \in Task, NEW apr \in ApprovalId, Request(t, apr)
  PROVE  StoreInv'
BY StoreKept, CreateTyped DEF Request

\* Every step of a loop on one row keeps Typed.
LEMMA RowStepTyped ==
  ASSUME Typed, NEW r \in todo, RowStep(r)
  PROVE  Typed'
<1> USE DEF Typed
<1>r. r \in RowCopy /\ r.id \in Task /\ r.pid \in Nat
  BY DEF PlaceInv, RowCopy
<1>p. task[r.id].pid \in Nat
  BY <1>r DEF StoreInv, StoreTypeOK, Row
<1>1. CASE RecoverAlive(r)
  BY <1>1, StoreKept, QuietTyped, NextRowTyped DEF RecoverAlive, Pc, Working
<1>2. CASE RecoverDead(r)
  BY <1>2, <1>r, TransitionTyped, QuietTyped, NextRowTyped, RaiseTyped DEF RecoverDead, Pc, Working, TaskState
<1>3. CASE CollectIdle(r)
  BY <1>3, StoreKept, QuietTyped, NextRowTyped DEF CollectIdle, Pc, Working
<1>4. CASE CollectTimeout(r)
  <2>1. StoreInv' /\ PlaceInv'
    BY <1>4, <1>r, StoreKept, WorkOnTyped DEF CollectTimeout, Working
  <2>2. RunInv'
    BY <1>4 DEF CollectTimeout, RunInv, run
  <2> QED BY <2>1, <2>2
<1>5. CASE CollectSuccess(r)
  <2>1. CASE Raise
    BY <2>1, RaiseTyped
  <2>2. CASE ~Raise
    <3>1. StoreInv' /\ PlaceInv'
      BY <1>5, <1>r, <2>2, TransitionTyped, NextRowTyped DEF CollectSuccess, Pc, Working, TaskState
    <3>2. RunInv'
      BY <1>5, <2>2 DEF CollectSuccess, RunInv, run
    <3> QED BY <3>1, <3>2
  <2> QED BY <2>1, <2>2
<1>6. CASE CollectFailure(r)
  <2>1. StoreInv' /\ PlaceInv'
    BY <1>6, <1>r, StoreKept, WorkOnTyped DEF CollectFailure, Working
  <2>2. RunInv'
    BY <1>6 DEF CollectFailure, RunInv, run
  <2> QED BY <2>1, <2>2
<1>7. CASE VerifyPass(r)
  BY <1>7, <1>r, <1>p, TransitionTyped, QuietTyped, NextRowTyped, RaiseTyped DEF VerifyPass, Pc, Working, TaskState
<1>8. CASE VerifyFail(r)
  BY <1>8, <1>r, StoreKept, QuietTyped, WorkOnTyped DEF VerifyFail, Working
<1>9. CASE Promote(r)
  <2>1. CASE Raise
    BY <2>1, RaiseTyped
  <2>2. CASE ~Raise
    <3>1. StoreInv' /\ PlaceInv'
      BY <1>9, <1>r, <1>p, <2>2, TransitionTyped, NextRowTyped DEF Promote, Pc, Working, TaskState
    <3>2. RunInv'
      BY <1>9, <2>2 DEF Promote, RunInv, run, procs
    <3> QED BY <3>1, <3>2
  <2> QED BY <2>1, <2>2
<1>10. CASE Unblock(r)
  BY <1>10, <1>r, <1>p, TransitionTyped, QuietTyped, NextRowTyped, RaiseTyped DEF Unblock, Pc, Working, TaskState
<1>11. CASE ScheduleExecute(r)
  BY <1>11, <1>r, StoreKept, QuietTyped, WorkOnTyped DEF ScheduleExecute, Working
<1>12. CASE ScheduleReject(r)
  BY <1>12, <1>r, <1>p, TransitionTyped, QuietTyped, NextRowTyped, RaiseTyped DEF ScheduleReject, Pc, Working, TaskState
<1> QED
  BY <1>1, <1>2, <1>3, <1>4, <1>5, <1>6, <1>7, <1>8, <1>9, <1>10, <1>11, <1>12 DEF RowStep

\* Every step that asks for an approval keeps Typed.
LEMMA ApprovalStepTyped ==
  ASSUME Typed, NEW r \in todo, NEW apr \in ApprovalId, ApprovalStep(r, apr)
  PROVE  Typed'
<1> USE DEF Typed
<1>r. r \in RowCopy /\ r.id \in Task
  BY DEF PlaceInv, RowCopy
<1>1. CASE VerifyNonEvidentiary(r, apr)
  BY <1>1, <1>r, RequestTyped, QuietTyped, WorkOnTyped DEF VerifyNonEvidentiary, Working
<1>2. CASE ScheduleRequest(r, apr)
  BY <1>2, <1>r, RequestTyped, QuietTyped, NextRowTyped DEF ScheduleRequest, Pc, Working
<1>3. CASE ScheduleAutoRequest(r, apr)
  <2>1. [r EXCEPT !.apr = apr] \in RowCopy /\ [r EXCEPT !.apr = apr].apr = apr
    BY <1>r DEF RowCopy
  <2> QED
    BY <1>3, <1>r, <2>1, RequestTyped, QuietTyped, WorkOnTyped DEF ScheduleAutoRequest, Working
<1> QED
  BY <1>1, <1>2, <1>3 DEF ApprovalStep

\* Every other step of the controller keeps Typed.
LEMMA LoopStepTyped ==
  ASSUME Typed, LoopStep
  PROVE  Typed'
<1> USE DEF Typed
<1>c. pc \in Working => cur \in RowCopy /\ cur.id \in Task /\ task[cur.id].pid \in Nat
                        /\ task[cur.id].attempts \in Nat /\ task[cur.id].state \in TaskState
  BY DEF PlaceInv, RowCopy, StoreInv, StoreTypeOK, Row
<1>l. \A S : List(S) \subseteq RowCopy
  BY CopyTyped
<1>d. \A status \in ExitState :
        Down(status) /\ live' \subseteq live /\ UNCHANGED delaying => PlaceInv' /\ RunInv'
  <2> SUFFICES ASSUME NEW status \in ExitState, Down(status), live' \subseteq live, UNCHANGED delaying
               PROVE  PlaceInv' /\ RunInv'
    OBVIOUS
  <2> QED
    BY DownTyped DEF RunInv
<1>1. CASE RecoverRaises
  BY <1>1, RaiseTyped DEF RecoverRaises
<1>2. CASE RecoverDone
  <2>1. CASE Cyclic
    BY <1>2, <2>1, <1>d, StoreKept DEF RecoverDone, ExitState
  <2>2. CASE ~Cyclic
    BY <1>2, <2>2, EnterTyped, QuietTyped, StoreKept DEF RecoverDone, Pc, Working
  <2> QED
    BY <2>1, <2>2
<1>3. CASE Tick
  BY <1>3, StoreKept, QuietTyped DEF Tick, PlaceInv, Pc, Working
<1>4. CASE HonourControl
  BY <1>4, <1>d, StoreKept DEF HonourControl, ExitState, ControlState, StoreInv, StoreTypeOK
<1>5. CASE StartCollecting
  BY <1>5, <1>l, EnterTyped, StoreKept, QuietTyped DEF StartCollecting, Pc, Working
<1>6. CASE CollectDone
  BY <1>6, <1>l, EnterTyped, StoreKept, QuietTyped DEF CollectDone, Pc, Working
<1>7. CASE VerifyDone
  BY <1>7, <1>l, EnterTyped, StoreKept, QuietTyped DEF VerifyDone, Pc, Working
<1>8. CASE PromoteDone
  <2>1. {r \in List({"PENDING"}) : DepsPassed(r.id)} \subseteq RowCopy
    BY <1>l
  <2> QED
    BY <1>8, <2>1, EnterTyped, StoreKept, QuietTyped DEF PromoteDone, Pc, Working
<1>9. CASE UnblockDone
  <2>1. Selected \subseteq RowCopy
    BY <1>l DEF Selected, FirstN
  <2> QED
    BY <1>9, <2>1, EnterTyped, StoreKept, QuietTyped DEF UnblockDone, Pc, Working
<1>10. CASE ScheduleDone
  BY <1>10, StepTyped, StoreKept, QuietTyped DEF ScheduleDone, Pc, Working
<1>11. CASE FailSkip
  BY <1>11, ReturnTyped, StoreKept, QuietTyped DEF FailSkip, Working
<1>12. CASE FailRead
  <2>1. pc \in Working /\ [cur EXCEPT !.state = task[cur.id].state] \in RowCopy
         /\ [cur EXCEPT !.state = task[cur.id].state].state \in {"RUNNING", "VERIFYING"}
    BY <1>12, <1>c DEF FailRead, Working, RowCopy
  <2> QED
    BY <1>12, <2>1, StoreKept, QuietTyped DEF FailRead, PlaceInv, Pc, Working
<1>13. CASE FailWrite
  BY <1>13, <1>c, TransitionTyped, StepTyped, QuietTyped, RaiseTyped DEF FailWrite, Pc, Working, TaskState
<1>14. CASE RetrySchedule
  <2>1. CASE Raise
    BY <2>1, RaiseTyped
  <2>2. CASE ~Raise
    <3>1. StoreInv' /\ PlaceInv'
      BY <1>14, <2>2, <1>c, TransitionTyped, ReturnTyped DEF RetrySchedule, Working, TaskState
    <3>2. RunInv'
      BY <1>14, <2>2, <1>c DEF RetrySchedule, RunInv, run, procs, Working
    <3> QED
      BY <3>1, <3>2
  <2> QED
    BY <2>1, <2>2
<1>15. CASE RetryExhausted
  BY <1>15, ReturnTyped, StoreKept, QuietTyped DEF RetryExhausted, Working
<1>16. CASE WaiverTransition
  BY <1>16, <1>c, TransitionTyped, ReturnTyped, QuietTyped, RaiseTyped DEF WaiverTransition, Working, TaskState
<1>17. CASE AutoApprove
  <2>1. cur.apr \in ApprovalId
    BY <1>17 DEF AutoApprove, PlaceInv
  <2> QED
    BY <1>17, <2>1, DecideTyped, StepTyped, QuietTyped DEF AutoApprove, Decision, Pc, Working
<1>18. CASE AutoCheck
  BY <1>18, StepTyped, QuietTyped, StoreKept, RaiseTyped DEF AutoCheck, Pc, Working
<1>19. CASE Claim
  <2>1. StoreInv' /\ PlaceInv'
    BY <1>19, <1>c, ClaimTyped, StepTyped DEF Claim, Pc, Working
  <2>2. RunInv'
    BY <1>19 DEF Claim, RunInv, run, procs
  <2> QED
    BY <2>1, <2>2
<1>20. CASE ClaimLost
  BY <1>20, ReturnTyped, StoreKept, QuietTyped DEF ClaimLost, Working
<1>21. CASE Launch
  <2>1. StoreInv' /\ PlaceInv'
    BY <1>21, StoreKept, StepTyped DEF Launch, Pc, Working
  <2>2. RunInv'
    BY <1>21, <1>c DEF Launch, RunInv, run, Job, Working
  <2> QED
    BY <2>1, <2>2
<1>22. CASE LaunchFails
  BY <1>22, StepTyped, StoreKept, QuietTyped DEF LaunchFails, Pc, Working
<1>23. CASE RecordProcess
  BY <1>23, <1>c, SetProcessTyped, ReturnTyped, QuietTyped DEF RecordProcess, Working
<1>24. CASE RecordFails
  <2>1. StoreInv' /\ PlaceInv'
    BY <1>24, StoreKept, StepTyped DEF RecordFails, Pc, Working
  <2>2. RunInv'
    BY <1>24 DEF RecordFails, RunInv, run, Terminated, ExitCode
  <2> QED
    BY <2>1, <2>2
<1>25. CASE TerminalStay
  BY <1>25, StoreKept, QuietTyped DEF TerminalStay, PlaceInv, Pc, Working
<1>26. CASE TerminalWait
  BY <1>26, StepTyped, StoreKept, QuietTyped DEF TerminalWait, Pc, Working
<1>27. CASE TerminalExit
  BY <1>27, <1>d, StoreKept DEF TerminalExit, ExitState
<1>28. CASE PendingNone
  BY <1>28, <1>d, StoreKept DEF PendingNone, ExitState
<1>29. CASE PendingExit
  BY <1>29, <1>d, StoreKept DEF PendingExit, ExitState
<1>30. CASE PendingStay
  BY <1>30, StoreKept, QuietTyped DEF PendingStay, PlaceInv, Pc, Working
<1>31. CASE NoCapacity
  BY <1>31, StoreKept, QuietTyped DEF NoCapacity, PlaceInv, Pc, Working
<1> QED
  BY <1>1, <1>2, <1>3, <1>4, <1>5, <1>6, <1>7, <1>8, <1>9, <1>10, <1>11, <1>12, <1>13, <1>14,
     <1>15, <1>16, <1>17, <1>18, <1>19, <1>20, <1>21, <1>22, <1>23, <1>24, <1>25, <1>26, <1>27,
     <1>28, <1>29, <1>30, <1>31
  DEF LoopStep

\* Steps of others leave the controller where it is.
LEMMA ElsewhereTyped ==
  ASSUME PlaceInv, UNCHANGED <<pc, local>>
  PROVE  PlaceInv'
BY DEF PlaceInv, local

\* Every step of the command line, of a process, of time and of a kill keeps Typed.
LEMMA EnvironmentTyped ==
  ASSUME Typed, Operator \/ Environment
  PROVE  Typed'
<1> USE DEF Typed
<1>1. ASSUME NEW a \in ApprovalId, NEW d \in {"APPROVED", "REJECTED"}, OperatorDecides(a, d)
      PROVE  Typed'
  <2>1. StoreInv'
    BY <1>1, DecideTyped DEF OperatorDecides, Decision
  <2>2. PlaceInv' /\ RunInv'
    BY <1>1, ElsewhereTyped DEF OperatorDecides, Elsewhere, RunInv, run, procs
  <2> QED
    BY <2>1, <2>2
<1>2. CASE OperatorPauses \/ OperatorStops
  <2>1. StoreInv'
    BY <1>2 DEF OperatorPauses, OperatorStops, SetControl, StoreInv, StoreTypeOK, ControlState
  <2>2. PlaceInv' /\ RunInv'
    BY <1>2, ElsewhereTyped DEF OperatorPauses, OperatorStops, Elsewhere, RunInv, run, procs
  <2> QED
    BY <2>1, <2>2
<1>3. ASSUME NEW t \in Task, OperatorTerminates(t)
      PROVE  Typed'
  BY <1>3, StoreKept, ElsewhereTyped
  DEF OperatorTerminates, Elsewhere, Terminated, RunInv, run, ExitCode
<1>4. ASSUME NEW t \in Task, OperatorNext(t)
      PROVE  Typed'
  <2>1. task[t].pid \in Nat
    BY DEF StoreInv, StoreTypeOK, Row
  <2>2. StoreInv'
    BY <1>4, <2>1, TransitionTyped DEF OperatorNext, TaskState
  <2>3. PlaceInv' /\ RunInv'
    BY <1>4, ElsewhereTyped DEF OperatorNext, Elsewhere, RunInv, run, procs
  <2> QED
    BY <2>2, <2>3
<1>5. ASSUME NEW j \in live, NEW code \in ExitCode, ProcessEnds(j[1], j[2], code)
      PROVE  Typed'
  <2>1. j[1] \in Task /\ j[2] \in Nat
    BY DEF RunInv
  <2>2. RunInv'
    BY <1>5, <2>1 DEF ProcessEnds, Elsewhere, RunInv, run
  <2> QED
    BY <1>5, <2>2, StoreKept, ElsewhereTyped DEF ProcessEnds, Elsewhere
<1>6. ASSUME NEW t \in Task, TaskOverdue(t) \/ DelayElapses(t)
      PROVE  Typed'
  BY <1>6, StoreKept, ElsewhereTyped DEF TaskOverdue, DelayElapses, Elsewhere, RunInv, run, procs
<1>7. ASSUME NEW a \in ApprovalId, ApprovalDue(a)
      PROVE  Typed'
  <2>1. StoreInv'
    BY <1>7 DEF ApprovalDue, StoreInv, StoreTypeOK, Approval
  <2> QED
    BY <1>7, <2>1, ElsewhereTyped DEF ApprovalDue, Elsewhere, RunInv, run, procs
<1>8. CASE WaitElapses
  BY <1>8, StoreKept DEF WaitElapses, PlaceInv, RunInv, run, procs
<1>9. CASE Start
  <2>1. StoreInv'
    BY <1>9 DEF Start, StoreInv, StoreTypeOK, ControlState
  <2>2. PlaceInv'
    BY <1>9, CopyTyped, EnterTyped DEF Start, Pc, Working
  <2>3. RunInv'
    BY <1>9 DEF Start, RunInv, procs, ExitState
  <2> QED
    BY <2>1, <2>2, <2>3
<1>10. CASE Killed
  <2>1. PlaceInv' /\ RunInv'
    BY <1>10, DownTyped DEF Killed, RunInv, ExitState
  <2> QED
    BY <1>10, <2>1, StoreKept DEF Killed
<1> QED
  BY <1>1, <1>2, <1>3, <1>4, <1>5, <1>6, <1>7, <1>8, <1>9, <1>10 DEF Operator, Environment

\* Typed is inductive.
LEMMA NextTyped ==
  ASSUME Typed, [Next]_vars
  PROVE  Typed'
<1>1. ASSUME NEW a \in ApprovalId, Expire(a)
      PROVE  Typed'
  <2>1. StoreInv'
    BY <1>1, DecideTyped DEF Typed, Expire, Decision
  <2>2. PlaceInv' /\ RunInv'
    BY <1>1, QuietTyped DEF Typed, Expire, PlaceInv
  <2> QED
    BY <2>1, <2>2 DEF Typed
<1>2. CASE UNCHANGED vars
  BY <1>2, StoreKept, ElsewhereTyped DEF Typed, vars, RunInv, run, procs
<1> QED
  BY <1>1, <1>2, LoopStepTyped, RowStepTyped, ApprovalStepTyped, EnvironmentTyped
  DEF Next, Controller

\* Typed holds of a freshly planned store with no controller running.
LEMMA InitTyped ==
  ASSUME Init
  PROVE  Typed
BY DEF Init, StoreInit, Typed, StoreInv, StoreTypeOK, PlaceInv, RunInv, NoApproval, Approval,
   Row, TaskState, ApprovalState, ControlState, ExitState, ExitCode, Pc, Working

\* Rows, copies, places, approvals and processes keep their types in every
\* behaviour of the controller, its processes and its operators, for every plan.
THEOREM TypeCorrect == Spec => []TypeOK
<1>1. Init => Typed
  BY InitTyped
<1>2. Typed /\ [Next]_vars => Typed'
  BY NextTyped
<1>3. Typed => TypeOK
  BY DEF Typed, StoreInv, PlaceInv, RunInv, TypeOK
<1> QED
  BY <1>1, <1>2, <1>3, PTL DEF Spec


-----------------------------------------------------------------------------
(* The writes of the store, and waiting rows *)

\* The transitions some action asks for; the rest of TASK_TRANSITIONS is unused.
Edge == {<<"PENDING", "READY">>, <<"READY", "REJECTED">>, <<"RUNNING", "VERIFYING">>,
         <<"RUNNING", "FAILED">>, <<"VERIFYING", "FAILED">>, <<"VERIFYING", "PASSED">>,
         <<"VERIFYING", "WAITING_APPROVAL">>, <<"FAILED", "RETRY_WAIT">>,
         <<"RETRY_WAIT", "READY">>}

\* t takes the edge e, where the step is entitled to it.
Moves(t, e) ==
  /\ task[t].state = e[1]
  /\ \E pid \in Nat : task' = [task EXCEPT ![t].state = e[2], ![t].pid = pid]
  /\ e[1] = "PENDING" => DepsPassed(t) \/ (pc = "unblock" /\ \E r \in todo : r.id = t)
  /\ e[2] = "WAITING_APPROVAL" => pc = "waiver" /\ cur.id = t
  /\ e[2] = "RETRY_WAIT" => task[t].attempts <= MaxRetries[t]
  /\ UNCHANGED <<approval, overridden>>

\* An approval becomes due: nothing else about approvals or rows changes.
Dues ==
  /\ task' = task /\ overridden' = overridden
  /\ \E a \in ApprovalId :
       approval[a].state = "PENDING" /\ approval' = [approval EXCEPT ![a].due = TRUE]

\* The ways the rows and the approvals change.
StoreStep ==
  \/ UNCHANGED <<task, approval, overridden>>
  \/ \E t \in Task, e \in Edge : Moves(t, e)
  \/ pc = "claim" /\ cur.id \in Task /\ ClaimTask(cur.id)
  \/ \E t \in Task, pid \in Nat : SetProcess(t, pid)
  \/ \E r \in todo, a \in ApprovalId :
       /\ pc \in {"verify", "schedule"} /\ r \notin todo'
       /\ PendingFor(r.id) = {} /\ Fresh(a) /\ CreateApproval(a, r.id)
  \/ \E a \in ApprovalId, d \in {"APPROVED", "REJECTED"} : DecideApproval(a, d)
  \/ Dues

\* A successful transition_task whose expectation leaves one state is a move.
LEMMA TransitionMoves ==
  ASSUME Typed, NEW t \in Task, NEW old \in TaskState, NEW new \in TaskState, NEW pid \in Nat,
         <<old, new>> \in Edge, TransitionTask(t, new, {old}, pid),
         old = "PENDING" => DepsPassed(t) \/ (pc = "unblock" /\ \E r \in todo : r.id = t),
         new = "WAITING_APPROVAL" => pc = "waiver" /\ cur.id = t,
         new = "RETRY_WAIT" => task[t].attempts <= MaxRetries[t]
  PROVE  StoreStep
BY DEF TransitionTask, CanTransition, StoreStep, Moves

\* ApprovalGate.request writes the store only to create an approval nobody is asked for yet.
LEMMA RequestSteps ==
  ASSUME NEW r \in todo, NEW a \in ApprovalId, pc \in {"verify", "schedule"}, r \notin todo',
         Request(r.id, a)
  PROVE  StoreStep
BY DEF Request, StoreStep, storeVars

\* The steps of the loops on one row are store steps.
LEMMA RowStepStores ==
  ASSUME Typed, NEW r \in todo, RowStep(r)
  PROVE  StoreStep
<1>r. r.id \in Task /\ task[r.id].pid \in Nat
  BY DEF Typed, PlaceInv, RowCopy, StoreInv, StoreTypeOK, Row
<1>1. CASE UNCHANGED storeVars
  BY <1>1 DEF StoreStep, storeVars
<1>2. CASE RecoverDead(r) \/ CollectSuccess(r)
  BY <1>1, <1>2, <1>r, TransitionMoves DEF RecoverDead, CollectSuccess, Raise, Edge, TaskState
<1>3. CASE VerifyPass(r)
  BY <1>1, <1>3, <1>r, TransitionMoves DEF VerifyPass, Raise, Edge, TaskState
<1>4. CASE Promote(r)
  BY <1>1, <1>4, <1>r, TransitionMoves DEF Promote, Raise, Edge, TaskState
<1>5. CASE Unblock(r)
  BY <1>1, <1>5, <1>r, TransitionMoves DEF Unblock, Raise, Edge, TaskState
<1>6. CASE ScheduleReject(r)
  <2>1. CASE TransitionTask(r.id, "REJECTED", {"READY", "APPROVED"}, task[r.id].pid)
    <3>1. task[r.id].state = "READY"
      BY <2>1 DEF TransitionTask, CanTransition, TaskTransitions, TaskState
    <3> QED
      BY <2>1, <3>1, <1>r DEF TransitionTask, StoreStep, Moves, Edge
  <2> QED
    BY <1>1, <1>6, <2>1 DEF ScheduleReject, Raise
<1> QED
  BY <1>1, <1>2, <1>3, <1>4, <1>5, <1>6
  DEF RowStep, RecoverAlive, CollectIdle, CollectTimeout, CollectFailure, VerifyFail, ScheduleExecute

\* The other steps of the controller are store steps.
LEMMA LoopStepStores ==
  ASSUME Typed, LoopStep
  PROVE  StoreStep
<1>c. pc \in Working => cur.id \in Task /\ task[cur.id].pid \in Nat /\ cur.state \in TaskState
  BY DEF Typed, PlaceInv, RowCopy, StoreInv, StoreTypeOK, Row
<1>1. CASE UNCHANGED storeVars
  BY <1>1 DEF StoreStep, storeVars
<1>2. CASE FailWrite
  <2>1. CASE TransitionTask(cur.id, "FAILED", {cur.state}, 0)
    <3>1. cur.id \in Task /\ cur.state \in TaskState
      BY <1>2, <1>c DEF FailWrite, Working
    <3>2. cur.state \in {"RUNNING", "VERIFYING"}
      BY <1>2 DEF FailWrite, Typed, PlaceInv
    <3> QED
      BY <2>1, <3>1, <3>2, TransitionMoves DEF Edge, TaskState
  <2> QED
    BY <1>1, <1>2, <2>1 DEF FailWrite, Raise
<1>3. CASE RetrySchedule
  BY <1>1, <1>3, <1>c, TransitionMoves DEF RetrySchedule, Raise, Working, Edge, TaskState
<1>4. CASE WaiverTransition
  BY <1>1, <1>4, <1>c, TransitionMoves DEF WaiverTransition, Raise, Working, Edge, TaskState
<1>5. CASE AutoApprove
  BY <1>5 DEF AutoApprove, Typed, PlaceInv, StoreStep
<1>6. CASE Claim
  BY <1>6, <1>c DEF Claim, Working, StoreStep
<1>7. CASE RecordProcess
  BY <1>7, <1>c DEF RecordProcess, Working, StoreStep, Typed, StoreInv, StoreTypeOK, Row
<1> QED
  BY <1>1, <1>2, <1>3, <1>4, <1>5, <1>6, <1>7
  DEF LoopStep, RecoverRaises, Raise, RecoverDone, Tick, HonourControl, StartCollecting, CollectDone,
      VerifyDone, PromoteDone, NoCapacity, UnblockDone, ScheduleDone, FailSkip, FailRead, RetryExhausted,
      AutoCheck, ClaimLost, Launch, LaunchFails, RecordFails, TerminalStay, TerminalWait,
      TerminalExit, PendingNone, PendingExit, PendingStay

\* Every step of the system writes the store in one of these ways.
LEMMA StoreSteps ==
  ASSUME Typed, [Next]_vars
  PROVE  StoreStep
<1>1. ASSUME NEW r \in todo, NEW apr \in ApprovalId, ApprovalStep(r, apr)
      PROVE  StoreStep
  BY <1>1, RequestSteps
  DEF ApprovalStep, VerifyNonEvidentiary, ScheduleRequest, ScheduleAutoRequest, NextRow, WorkOn
<1>2. ASSUME NEW a \in ApprovalId, Expire(a)
      PROVE  StoreStep
  BY <1>2 DEF Expire, StoreStep
<1>3. CASE Operator
  <2>1. ASSUME NEW t \in Task, OperatorNext(t)
        PROVE  StoreStep
    <3>1. task[t].pid \in Nat
      BY DEF Typed, StoreInv, StoreTypeOK, Row
    <3> QED
      BY <2>1, <3>1, TransitionMoves DEF OperatorNext, Edge, TaskState
  <2> QED
    BY <1>3, <2>1
    DEF Operator, OperatorDecides, OperatorPauses, OperatorStops, OperatorTerminates, SetControl,
        StoreStep, storeVars
<1>4. CASE Environment
  BY <1>4
  DEF Environment, ProcessEnds, TaskOverdue, DelayElapses, ApprovalDue, WaitElapses, Start, Killed,
      StoreStep, storeVars, Dues
<1>5. CASE UNCHANGED vars
  BY <1>5 DEF vars, storeVars, StoreStep
<1> QED
  BY <1>1, <1>2, <1>3, <1>4, <1>5, RowStepStores, LoopStepStores DEF Next, Controller

-----------------------------------------------------------------------------
(* A waiting row can be decided *)

\* Between its two transactions the waiver path relies on the approval it has asked for.
Asked ==
  /\ WaitingIsDecidable
  /\ pc = "waiver" /\ task[cur.id].state = "VERIFYING" => PendingFor(cur.id) # {}

\* The waiver path is entered in one place, and only others act while it is there.
LEMMA WaiverEntered ==
  ASSUME Typed, [Next]_vars, pc' = "waiver"
  PROVE  \/ pc = "waiver" /\ cur' = cur /\ (Operator \/ Environment \/ UNCHANGED vars)
         \/ \E r \in todo, apr \in ApprovalId : VerifyNonEvidentiary(r, apr)
<1>1. ASSUME LoopStep
      PROVE  FALSE
  BY <1>1 DEF LoopStep, RecoverRaises, Raise, RecoverDone, Tick, HonourControl, StartCollecting,
      CollectDone, VerifyDone, PromoteDone, NoCapacity, UnblockDone, ScheduleDone, FailSkip, FailRead, FailWrite,
      RetrySchedule, RetryExhausted, WaiverTransition, AutoApprove, AutoCheck, Claim, ClaimLost,
      Launch, LaunchFails, RecordProcess, RecordFails, TerminalStay, TerminalWait, TerminalExit,
      PendingNone, PendingExit, PendingStay, Down, Enter, Step, Return, Typed, PlaceInv
<1>2. ASSUME NEW r \in todo, RowStep(r)
      PROVE  FALSE
  BY <1>2 DEF RowStep, RecoverAlive, RecoverDead, CollectIdle, CollectTimeout, CollectSuccess,
      CollectFailure, VerifyPass, VerifyFail, Promote, Unblock, ScheduleExecute, ScheduleReject,
      NextRow, WorkOn, Raise, Down
<1>3. ASSUME NEW r \in todo, NEW apr \in ApprovalId, ApprovalStep(r, apr)
      PROVE  VerifyNonEvidentiary(r, apr)
  BY <1>3 DEF ApprovalStep, ScheduleRequest, ScheduleAutoRequest, NextRow, WorkOn
<1>4. ASSUME NEW a \in ApprovalId, Expire(a)
      PROVE  FALSE
  BY <1>4 DEF Expire
<1>5. ASSUME Operator \/ Environment
      PROVE  pc = "waiver" /\ cur' = cur
  BY <1>5 DEF Operator, OperatorDecides, OperatorPauses, OperatorStops, OperatorTerminates,
      OperatorNext, Environment, ProcessEnds, TaskOverdue, DelayElapses, ApprovalDue, WaitElapses,
      Start, Killed, Elsewhere, local, Enter, Down
<1>6. CASE UNCHANGED vars
  BY <1>6 DEF vars, local
<1> QED
  BY <1>1, <1>2, <1>3, <1>4, <1>5, <1>6 DEF Next, Controller

\* A pending approval stays pending until it is decided, and then its row does not wait.
LEMMA PendingKept ==
  ASSUME Typed, StoreStep, NEW t \in Task, PendingFor(t) # {}
  PROVE  PendingFor(t)' # {} \/ task'[t].state \in {"APPROVED", "REJECTED"}
<1>1. PICK b \in ApprovalId : approval[b].state = "PENDING" /\ approval[b].task = t
  BY DEF PendingFor
<1>2. CASE UNCHANGED approval
  BY <1>1, <1>2 DEF PendingFor
<1>3. ASSUME NEW r \in todo, NEW a \in ApprovalId, Fresh(a), CreateApproval(a, r.id)
      PROVE  PendingFor(t)' # {}
  BY <1>1, <1>3 DEF Fresh, CreateApproval, PendingFor, Typed, StoreInv, StoreTypeOK
<1>4. ASSUME NEW a \in ApprovalId, NEW d \in {"APPROVED", "REJECTED"}, DecideApproval(a, d)
      PROVE  PendingFor(t)' # {} \/ task'[t].state \in {"APPROVED", "REJECTED"}
  <2>1. CASE a = b
    BY <1>1, <1>4, <2>1 DEF DecideApproval, Typed, StoreInv, StoreTypeOK, Row
  <2>2. CASE a # b
    BY <1>1, <1>4, <2>2 DEF DecideApproval, PendingFor, Typed, StoreInv, StoreTypeOK
  <2> QED
    BY <2>1, <2>2
<1>5. CASE Dues
  BY <1>1, <1>5 DEF Dues, PendingFor, Typed, StoreInv, StoreTypeOK, Approval
<1> QED
  BY <1>2, <1>3, <1>4, <1>5 DEF StoreStep, Moves, ClaimTask, SetProcess

\* A row comes to wait either with a new approval or on the waiver path.
LEMMA WaitingEntered ==
  ASSUME Typed, StoreStep, NEW t \in Task, task'[t].state = "WAITING_APPROVAL"
  PROVE  \/ task[t].state = "WAITING_APPROVAL"
         \/ pc = "waiver" /\ cur.id = t /\ task[t].state = "VERIFYING"
         \/ PendingFor(t)' # {}
<1>1. ASSUME NEW u \in Task, NEW e \in Edge, Moves(u, e)
      PROVE  task[t].state = "WAITING_APPROVAL" \/ (pc = "waiver" /\ cur.id = t /\ task[t].state = "VERIFYING")
  BY <1>1 DEF Moves, Edge, Typed, StoreInv, StoreTypeOK, Row
<1>2. ASSUME NEW r \in todo, NEW a \in ApprovalId, CreateApproval(a, r.id)
      PROVE  task[t].state = "WAITING_APPROVAL" \/ PendingFor(t)' # {}
  BY <1>2 DEF CreateApproval, PendingFor, Typed, StoreInv, StoreTypeOK, Row
<1>3. ASSUME NEW a \in ApprovalId, NEW d \in {"APPROVED", "REJECTED"}, DecideApproval(a, d)
      PROVE  task[t].state = "WAITING_APPROVAL"
  BY <1>3 DEF DecideApproval, Typed, StoreInv, StoreTypeOK, Row
<1>4. ASSUME cur.id \in Task, ClaimTask(cur.id)
      PROVE  task[t].state = "WAITING_APPROVAL"
  BY <1>4 DEF ClaimTask, Typed, StoreInv, StoreTypeOK, Row
<1>5. ASSUME NEW u \in Task, NEW pid \in Nat, SetProcess(u, pid)
      PROVE  task[t].state = "WAITING_APPROVAL"
  BY <1>5 DEF SetProcess, Typed, StoreInv, StoreTypeOK, Row
<1> QED
  BY <1>1, <1>2, <1>3, <1>4, <1>5 DEF StoreStep, Dues

\* While the waiver path is between its transactions, a row it finds VERIFYING was so before.
LEMMA StillVerifying ==
  ASSUME Typed, NEW t \in Task, Operator \/ Environment \/ UNCHANGED vars,
         task'[t].state = "VERIFYING"
  PROVE  task[t].state = "VERIFYING"
<1>1. ASSUME NEW a \in ApprovalId, NEW d \in {"APPROVED", "REJECTED"}, OperatorDecides(a, d)
      PROVE  task[t].state = "VERIFYING"
  BY <1>1 DEF OperatorDecides, DecideApproval, Typed, StoreInv, StoreTypeOK, Row
<1>2. ASSUME NEW u \in Task, OperatorNext(u)
      PROVE  task[t].state = "VERIFYING"
  BY <1>2 DEF OperatorNext, TransitionTask, Typed, StoreInv, StoreTypeOK, Row
<1>3. CASE UNCHANGED task
  BY <1>3
<1>4. CASE Operator
  BY <1>1, <1>2, <1>3, <1>4
  DEF Operator, OperatorPauses, OperatorStops, OperatorTerminates, SetControl, storeVars
<1>5. CASE Environment \/ UNCHANGED vars
  BY <1>3, <1>5
  DEF Environment, ProcessEnds, TaskOverdue, DelayElapses, ApprovalDue, WaitElapses, Start, Killed,
      vars, storeVars
<1> QED
  BY <1>4, <1>5

\* Asked is inductive.
LEMMA AskedHolds ==
  ASSUME Typed, Asked, [Next]_vars
  PROVE  Asked'
<1>1. StoreStep
  BY StoreSteps
<1>2. ASSUME NEW t \in Task, task'[t].state = "WAITING_APPROVAL"
      PROVE  PendingFor(t)' # {}
  <2>1. CASE PendingFor(t) # {}
    BY <1>1, <1>2, <2>1, PendingKept
  <2>2. CASE PendingFor(t) = {}
    BY <1>1, <1>2, <2>2, WaitingEntered DEF Asked, WaitingIsDecidable
  <2> QED
    BY <2>1, <2>2
<1>3. ASSUME NEW t \in Task, pc' = "waiver", cur'.id = t, task'[t].state = "VERIFYING"
      PROVE  PendingFor(t)' # {}
  <2>1. CASE pc = "waiver" /\ cur' = cur /\ (Operator \/ Environment \/ UNCHANGED vars)
    <3>1. task[t].state = "VERIFYING"
      BY <1>3, <2>1, StillVerifying
    <3>2. PendingFor(t) # {}
      BY <1>3, <2>1, <3>1 DEF Asked
    <3> QED
      BY <1>1, <1>3, <3>2, PendingKept
  <2>2. ASSUME NEW r \in todo, NEW apr \in ApprovalId, VerifyNonEvidentiary(r, apr)
        PROVE  PendingFor(t)' # {}
    <3>1. r.id = t /\ Request(t, apr)
      BY <1>3, <2>2 DEF VerifyNonEvidentiary, WorkOn
    <3> QED
      BY <3>1 DEF Request, CreateApproval, PendingFor, storeVars, Typed, StoreInv, StoreTypeOK
  <2> QED
    BY <1>3, <2>1, <2>2, WaiverEntered
<1>4. pc' = "waiver" => cur'.id \in Task
  BY NextTyped DEF Typed, PlaceInv, Working, RowCopy
<1>5. WaitingIsDecidable'
  BY <1>2 DEF WaitingIsDecidable
<1>6. (pc = "waiver" /\ task[cur.id].state = "VERIFYING" => PendingFor(cur.id) # {})'
  BY <1>3, <1>4 DEF PendingFor
<1> QED
  BY <1>5, <1>6 DEF Asked

\* A waiting row always has a pending approval.
THEOREM WaitingAlwaysDecidable == Spec => []WaitingIsDecidable
<1>1. Init => Typed /\ Asked
  BY InitTyped DEF Init, StoreInit, Asked, WaitingIsDecidable
<1>2. Typed /\ Asked /\ [Next]_vars => (Typed /\ Asked)'
  BY NextTyped, AskedHolds
<1>3. Asked => WaitingIsDecidable
  BY DEF Asked
<1> QED
  BY <1>1, <1>2, <1>3, PTL DEF Spec

-----------------------------------------------------------------------------
(* Dependencies and the refinement.  Behind is the inductive invariant of both: it says
   what the loops know of the rows they copied a while ago, and that only rows past
   PENDING are ever asked about. *)

\* The dependencies of t have passed, as far as t may still be held back by them.
Met(t) == \A d \in Deps[t] : task[d].state = "PASSED" \/ d \in overridden

\* The unblock loop holds PENDING rows whose dependencies had passed; every other
\* loop holds rows that had left PENDING; and an approval belongs to such a row.
Behind ==
  /\ \A t \in Task : task[t].state # "PENDING" => Met(t)
  /\ pc = "unblock" => \A r \in todo : Met(r.id)
  /\ pc # "unblock" => \A r \in todo : task[r.id].state # "PENDING"
  /\ \A a \in ApprovalId : approval[a].state # "NONE" => task[approval[a].task].state # "PENDING"

\* A step shortens the list of copies it holds, or starts a loop over fresh ones.
TodoStep ==
  \/ todo' \subseteq todo /\ (todo' = {} \/ (pc' = "unblock" <=> pc = "unblock"))
  \/ pc' # "unblock" /\ UNCHANGED task /\ \A r \in todo' : task[r.id].state # "PENDING"
  \/ PromoteDone

\* A fresh copy taken in other states than PENDING is of a row past PENDING.
LEMMA ListNotPending ==
  ASSUME Typed, NEW S, "PENDING" \notin S, NEW r \in List(S)
  PROVE  task[r.id].state # "PENDING"
BY DEF List, Copy, InState

\* The steps between the loops start a list or leave it.
LEMMA LoopTodo ==
  ASSUME Typed, LoopStep
  PROVE  TodoStep
<1>1. CASE \E status \in ExitState : Down(status)
  BY <1>1 DEF Down, TodoStep
<1>2. CASE Return /\ pc \in Working
  BY <1>2 DEF Return, TodoStep, Typed, PlaceInv, Working
<1>3. CASE UNCHANGED todo /\ pc # "unblock" /\ pc' # "unblock"
  BY <1>3 DEF TodoStep
<1>4. CASE \E S : "PENDING" \notin S /\ pc' # "unblock" /\ todo' \subseteq List(S) /\ UNCHANGED storeVars
  BY <1>4, ListNotPending DEF TodoStep, storeVars
<1>5. CASE PromoteDone
  BY <1>5 DEF TodoStep
<1>6. CASE UnblockDone
  <2>1. Selected \subseteq List({"READY", "APPROVED"})
    BY DEF Selected, FirstN
  <2>2. pc' = "schedule" /\ todo' \subseteq List({"READY", "APPROVED"}) /\ UNCHANGED storeVars
    BY <1>6, <2>1 DEF UnblockDone, Enter
  <2> QED
    BY <1>4, <2>2
<1>7. CASE RecoverRaises \/ RecoverDone
  BY <1>7 DEF RecoverRaises, Raise, RecoverDone, Down, Enter, TodoStep
<1>8. CASE HonourControl \/ TerminalExit \/ PendingNone \/ PendingExit
  BY <1>8 DEF HonourControl, TerminalExit, PendingNone, PendingExit, Down, TodoStep
<1>9. CASE StartCollecting \/ CollectDone \/ VerifyDone
  <2>1. PICK s \in {"RUNNING", "VERIFYING", "RETRY_WAIT"} : todo' = List({s}) /\ pc' # "unblock" /\ UNCHANGED storeVars
    BY <1>9 DEF StartCollecting, CollectDone, VerifyDone, Enter
  <2> QED
    BY <1>4, <2>1
<1>10. CASE Tick \/ FailRead \/ TerminalStay \/ PendingStay
  BY <1>3, <1>10 DEF Tick, FailRead, TerminalStay, PendingStay
<1>11. CASE ScheduleDone \/ Launch \/ LaunchFails \/ RecordFails \/ TerminalWait \/ Claim \/ AutoApprove
  BY <1>3, <1>11
  DEF ScheduleDone, Launch, LaunchFails, RecordFails, TerminalWait, Claim, AutoApprove, Step, local
<1>12. CASE FailWrite \/ AutoCheck
  BY <1>3, <1>12 DEF FailWrite, AutoCheck, Raise, Step, local, Down, TodoStep
<1>13. CASE FailSkip \/ RetryExhausted \/ ClaimLost \/ RecordProcess
  BY <1>2, <1>13 DEF FailSkip, RetryExhausted, ClaimLost, RecordProcess, Working
<1>14. CASE RetrySchedule \/ WaiverTransition
  BY <1>2, <1>14 DEF RetrySchedule, WaiverTransition, Working, Raise, Down, TodoStep
<1>15. CASE NoCapacity
  BY <1>15 DEF NoCapacity, TodoStep
<1> QED
  BY <1>5, <1>6, <1>7, <1>8, <1>9, <1>10, <1>11, <1>12, <1>13, <1>14, <1>15 DEF LoopStep

\* Every step of the system treats the list of copies in one of these ways.
LEMMA TodoSteps ==
  ASSUME Typed, [Next]_vars
  PROVE  TodoStep
<1>1. ASSUME NEW r \in todo, RowStep(r)
      PROVE  TodoStep
  <2>1. CASE Raise
    BY <2>1 DEF Raise, Down, TodoStep
  <2>2. CASE todo' \subseteq todo /\ (pc' = "unblock" <=> pc = "unblock")
    BY <2>2 DEF TodoStep
  <2> QED
    BY <1>1, <2>1, <2>2
    DEF RowStep, RecoverAlive, RecoverDead, CollectIdle, CollectTimeout, CollectSuccess,
        CollectFailure, VerifyPass, VerifyFail, Promote, Unblock, ScheduleExecute, ScheduleReject,
        NextRow, WorkOn
<1>2. ASSUME NEW r \in todo, NEW apr \in ApprovalId, ApprovalStep(r, apr)
      PROVE  TodoStep
  BY <1>2
  DEF ApprovalStep, VerifyNonEvidentiary, ScheduleRequest, ScheduleAutoRequest, NextRow, WorkOn, TodoStep
<1>3. ASSUME NEW a \in ApprovalId, Expire(a)
      PROVE  TodoStep
  BY <1>3 DEF Expire, TodoStep
<1>4. CASE Start
  <2>1. \A r \in todo' : task[r.id].state # "PENDING"
    BY <1>4, ListNotPending DEF Start, Enter
  <2> QED
    BY <1>4, <2>1 DEF Start, Enter, TodoStep
<1>5. CASE Operator \/ Environment
  BY <1>4, <1>5
  DEF Operator, OperatorDecides, OperatorPauses, OperatorStops, OperatorTerminates,
      OperatorNext, Environment, ProcessEnds, TaskOverdue, DelayElapses, ApprovalDue, WaitElapses,
      Killed, Elsewhere, local, Down, TodoStep
<1>6. CASE UNCHANGED vars
  BY <1>6 DEF vars, local, TodoStep
<1> QED
  BY <1>1, <1>2, <1>3, <1>5, <1>6, LoopTodo DEF Next, Controller

-----------------------------------------------------------------------------
(* Steps of the store under Behind *)

\* A row that moves along an edge has its dependencies behind it.
LEMMA EntitledMove ==
  ASSUME Typed, Behind, NEW t \in Task, NEW e \in Edge, Moves(t, e)
  PROVE  Met(t)
<1>1. CASE e[1] = "PENDING"
  BY <1>1 DEF Moves, Met, DepsPassed, Behind
<1>2. CASE e[1] # "PENDING"
  BY <1>2 DEF Moves, Behind
<1> QED
  BY <1>1, <1>2

\* No step brings a row back to PENDING, and one that leaves it was entitled to.
LEMMA PendingLeft ==
  ASSUME Typed, Behind, StoreStep, NEW t \in Task, task'[t].state # "PENDING"
  PROVE  Met(t)
<1>1. CASE task[t].state # "PENDING"
  BY <1>1 DEF Behind
<1>2. ASSUME task[t].state = "PENDING", NEW u \in Task, NEW e \in Edge, Moves(u, e)
      PROVE  Met(t)
  <2>1. u = t
    BY <1>2 DEF Moves, Typed, StoreInv, StoreTypeOK, Row
  <2> QED
    BY <1>2, <2>1, EntitledMove
<1>3. ASSUME task[t].state = "PENDING", NEW r \in todo, NEW a \in ApprovalId,
             pc \in {"verify", "schedule"}, CreateApproval(a, r.id)
      PROVE  FALSE
  BY <1>3 DEF CreateApproval, Behind, Typed, StoreInv, StoreTypeOK, Row
<1>4. ASSUME task[t].state = "PENDING", NEW a \in ApprovalId, NEW d \in {"APPROVED", "REJECTED"},
             DecideApproval(a, d)
      PROVE  FALSE
  BY <1>4 DEF DecideApproval, Behind, Typed, StoreInv, StoreTypeOK, Row
<1>5. ASSUME task[t].state = "PENDING", cur.id \in Task, ClaimTask(cur.id)
      PROVE  FALSE
  BY <1>5 DEF ClaimTask, Claimable, Typed, StoreInv, StoreTypeOK, Row
<1>6. ASSUME task[t].state = "PENDING", NEW u \in Task, NEW pid \in Nat, SetProcess(u, pid)
      PROVE  FALSE
  BY <1>6 DEF SetProcess, Typed, StoreInv, StoreTypeOK, Row
<1> QED
  BY <1>1, <1>2, <1>3, <1>4, <1>5, <1>6 DEF StoreStep, Dues

\* Nothing writes PENDING over a row that left it.
LEMMA NeverPendingAgain ==
  ASSUME Typed, StoreStep, NEW t \in Task, task[t].state # "PENDING"
  PROVE  task'[t].state # "PENDING"
<1>1. ASSUME NEW u \in Task, NEW e \in Edge, Moves(u, e)
      PROVE  task'[t].state # "PENDING"
  BY <1>1 DEF Moves, Edge, Typed, StoreInv, StoreTypeOK, Row
<1>2. ASSUME NEW r \in todo, NEW a \in ApprovalId, CreateApproval(a, r.id)
      PROVE  task'[t].state # "PENDING"
  BY <1>2 DEF CreateApproval, Typed, StoreInv, StoreTypeOK, Row
<1>3. ASSUME NEW a \in ApprovalId, NEW d \in {"APPROVED", "REJECTED"}, DecideApproval(a, d)
      PROVE  task'[t].state # "PENDING"
  BY <1>3 DEF DecideApproval, Typed, StoreInv, StoreTypeOK, Row
<1>4. ASSUME cur.id \in Task, ClaimTask(cur.id)
      PROVE  task'[t].state # "PENDING"
  BY <1>4 DEF ClaimTask, Typed, StoreInv, StoreTypeOK, Row
<1>5. ASSUME NEW u \in Task, NEW pid \in Nat, SetProcess(u, pid)
      PROVE  task'[t].state # "PENDING"
  BY <1>5 DEF SetProcess, Typed, StoreInv, StoreTypeOK, Row
<1> QED
  BY <1>1, <1>2, <1>3, <1>4, <1>5 DEF StoreStep, Dues

\* A row that has passed stays so, or is marked.
LEMMA PassedKept ==
  ASSUME Typed, StoreStep, NEW t \in Task, task[t].state = "PASSED" \/ t \in overridden
  PROVE  task'[t].state = "PASSED" \/ t \in overridden'
<1>1. ASSUME NEW u \in Task, NEW e \in Edge, Moves(u, e)
      PROVE  task'[t].state = "PASSED" \/ t \in overridden'
  BY <1>1 DEF Moves, Edge, Typed, StoreInv, StoreTypeOK, Row
<1>2. ASSUME NEW r \in todo, NEW a \in ApprovalId, CreateApproval(a, r.id)
      PROVE  task'[t].state = "PASSED" \/ t \in overridden'
  <2>1. TaskTransitions["PASSED"] = {}
    BY DEF TaskTransitions, TaskState
  <2> QED
    BY <1>2, <2>1 DEF CreateApproval, Typed, StoreInv, StoreTypeOK, Row
<1>3. ASSUME NEW a \in ApprovalId, NEW d \in {"APPROVED", "REJECTED"}, DecideApproval(a, d)
      PROVE  task'[t].state = "PASSED" \/ t \in overridden'
  BY <1>3 DEF DecideApproval, Typed, StoreInv, StoreTypeOK, Row
<1>4. ASSUME cur.id \in Task, ClaimTask(cur.id)
      PROVE  task'[t].state = "PASSED" \/ t \in overridden'
  BY <1>4 DEF ClaimTask, Claimable, Typed, StoreInv, StoreTypeOK, Row
<1>5. ASSUME NEW u \in Task, NEW pid \in Nat, SetProcess(u, pid)
      PROVE  task'[t].state = "PASSED" \/ t \in overridden'
  BY <1>5 DEF SetProcess, Typed, StoreInv, StoreTypeOK, Row
<1> QED
  BY <1>1, <1>2, <1>3, <1>4, <1>5 DEF StoreStep, Dues

\* Dependencies once met stay met.
LEMMA MetKept ==
  ASSUME Typed, StoreStep, NEW t \in Task, Met(t)
  PROVE  Met(t)'
BY PassedKept, DepsAssumption DEF Met

\* Behind is inductive.
LEMMA BehindHolds ==
  ASSUME Typed, Behind, [Next]_vars
  PROVE  Behind'
<1>1. StoreStep /\ TodoStep /\ Typed'
  BY StoreSteps, TodoSteps, NextTyped
<1>2. ASSUME NEW t \in Task, task'[t].state # "PENDING"
      PROVE  Met(t)'
  BY <1>1, <1>2, PendingLeft, MetKept
<1>t. todo \subseteq RowCopy /\ todo' \subseteq RowCopy /\ \A r \in RowCopy : r.id \in Task
  BY <1>1 DEF Typed, PlaceInv, RowCopy
<1>3. ASSUME pc' = "unblock", NEW r \in todo'
      PROVE  Met(r.id)'
  <2>1. Met(r.id)
    BY <1>1, <1>3 DEF TodoStep, Behind, PromoteDone, Enter, Met, DepsPassed
  <2> QED
    BY <1>1, <1>t, <1>3, <2>1, MetKept
<1>4. ASSUME pc' # "unblock", NEW r \in todo'
      PROVE  task'[r.id].state # "PENDING"
  <2>1. task[r.id].state # "PENDING"
    BY <1>1, <1>4 DEF TodoStep, Behind, PromoteDone, Enter
  <2> QED
    BY <1>1, <1>t, <1>4, <2>1, NeverPendingAgain
<1>5. ASSUME NEW a \in ApprovalId, approval'[a].state # "NONE"
      PROVE  task'[approval'[a].task].state # "PENDING"
  <2>1. CASE approval[a].state # "NONE" /\ approval'[a].task = approval[a].task
    BY <1>1, <2>1, NeverPendingAgain DEF Behind, Typed, StoreInv
  <2>2. ASSUME NEW r \in todo, NEW b \in ApprovalId, CreateApproval(b, r.id)
        PROVE  task'[approval'[a].task].state # "PENDING"
    BY <1>5, <1>t, <2>1, <2>2 DEF CreateApproval, Typed, StoreInv, StoreTypeOK, Row, Approval
  <2>3. ASSUME NEW b \in ApprovalId, NEW d \in {"APPROVED", "REJECTED"}, DecideApproval(b, d)
        PROVE  approval[a].state # "NONE" /\ approval'[a].task = approval[a].task
    BY <1>5, <2>3 DEF DecideApproval, Typed, StoreInv, StoreTypeOK, Approval
  <2>4. CASE Dues
    BY <1>5, <2>1, <2>4 DEF Dues, Typed, StoreInv, StoreTypeOK, Approval
  <2>5. CASE UNCHANGED approval
    BY <1>5, <2>1, <2>5
  <2>6. UNCHANGED approval \/ Dues
        \/ (\E r \in todo, b \in ApprovalId : CreateApproval(b, r.id))
        \/ (\E b \in ApprovalId, d \in {"APPROVED", "REJECTED"} : DecideApproval(b, d))
    BY <1>1 DEF StoreStep, Moves, ClaimTask, SetProcess
  <2> QED
    BY <2>1, <2>2, <2>3, <2>4, <2>5, <2>6
<1> QED
  BY <1>2, <1>3, <1>4, <1>5 DEF Behind

\* Behind holds of a fresh plan.
LEMMA BehindStarts ==
  ASSUME Init
  PROVE  Behind
BY DEF Init, StoreInit, Behind, NoApproval

\* No task leaves PENDING before its dependencies have passed.
THEOREM DependenciesAlwaysFirst == Spec => []DependenciesFirst
<1>1. Init => Typed /\ Behind
  BY InitTyped, BehindStarts
<1>2. Typed /\ Behind /\ [Next]_vars => (Typed /\ Behind)'
  BY NextTyped, BehindHolds
<1>3. Behind => DependenciesFirst
  BY DEF Behind, Met, DependenciesFirst
<1> QED
  BY <1>1, <1>2, <1>3, PTL DEF Spec

-----------------------------------------------------------------------------
(* The controller implements TaskLifecycle *)

\* A fresh plan is a fresh plan of the life cycle.
LEMMA MappedInit ==
  ASSUME Init
  PROVE  LC!Init
BY DEF Init, StoreInit, LC!Init

\* The instance speaks of the same states, edges and decisions.
LEMMA SameWords ==
  /\ LC!TaskState = TaskState
  /\ LC!TaskTransitions = TaskTransitions
  /\ LC!Decision = Decision
BY DEF LC!TaskState, LC!TaskTransitions, LC!Decision, TaskState, TaskTransitions, Decision

\* A transition maps to a Move of the life cycle.
LEMMA MappedMove ==
  ASSUME Typed, Behind, NEW t \in Task, NEW e \in Edge, Moves(t, e)
  PROVE  LC!Next
<1>1. e[2] \in TaskState /\ e[2] \in TaskTransitions[e[1]] /\ e[2] # "RUNNING"
  BY DEF Edge, TaskState, TaskTransitions
<1>2. [u \in Task |-> task'[u].state] = [[u \in Task |-> task[u].state] EXCEPT ![t] = e[2]]
  BY DEF Moves, Typed, StoreInv, StoreTypeOK, Row
<1>3. [u \in Task |-> task'[u].attempts] = [u \in Task |-> task[u].attempts]
  BY DEF Moves, Typed, StoreInv, StoreTypeOK, Row
<1>4. LC!Released(t)
  BY EntitledMove, DepsAssumption DEF Met, LC!Released
<1>5. LC!Move(t, e[2])
  BY <1>1, <1>2, <1>3, <1>4, SameWords DEF LC!Move, Moves, Typed, StoreInv, StoreTypeOK
<1> QED
  BY <1>1, <1>5, SameWords DEF LC!Next

\* A claim maps to a Move to RUNNING, which costs an attempt.
LEMMA MappedClaim ==
  ASSUME Typed, Behind, NEW t \in Task, ClaimTask(t)
  PROVE  LC!Next
<1>1. "RUNNING" \in TaskState /\ "RUNNING" \in TaskTransitions[task[t].state]
  BY DEF ClaimTask, Claimable, TaskState, TaskTransitions
<1>2. [u \in Task |-> task'[u].state] = [[u \in Task |-> task[u].state] EXCEPT ![t] = "RUNNING"]
  BY DEF ClaimTask, Typed, StoreInv, StoreTypeOK, Row
<1>3. [u \in Task |-> task'[u].attempts]
        = [[u \in Task |-> task[u].attempts] EXCEPT ![t] = @ + 1]
  BY DEF ClaimTask, Typed, StoreInv, StoreTypeOK, Row
<1>4. LC!Move(t, "RUNNING")
  BY <1>1, <1>2, <1>3, SameWords DEF LC!Move, ClaimTask, Claimable
<1> QED
  BY <1>1, <1>4, SameWords DEF LC!Next

\* A decision, or a request for one, moves the row or overrides it.
LEMMA MappedWrite ==
  ASSUME Typed, Behind, NEW t \in Task, NEW new \in {"APPROVED", "REJECTED", "WAITING_APPROVAL"},
         task[t].state # "PENDING",
         task' = [task EXCEPT ![t].state = new],
         \/ overridden' = overridden \cup {t}
         \/ overridden' = overridden /\ new \in TaskTransitions[task[t].state]
  PROVE  LC!Next
<1>1. [u \in Task |-> task'[u].state] = [[u \in Task |-> task[u].state] EXCEPT ![t] = new]
  BY DEF Typed, StoreInv, StoreTypeOK, Row
<1>2. [u \in Task |-> task'[u].attempts] = [u \in Task |-> task[u].attempts]
  BY DEF Typed, StoreInv, StoreTypeOK, Row
<1>3. new \in TaskState /\ new \in Decision \cup {"WAITING_APPROVAL"}
  BY DEF TaskState, Decision
<1>4. LC!Move(t, new) \/ LC!Override(t, new)
  BY <1>1, <1>2, <1>3, SameWords DEF LC!Move, LC!Override
<1> QED
  BY <1>3, <1>4, SameWords DEF LC!Next

\* Every step of the system maps to a step of the life cycle or to a stutter.
LEMMA MappedStep ==
  ASSUME Typed, Behind, [Next]_vars
  PROVE  [LC!Next]_LC!vars
<1>1. StoreStep
  BY StoreSteps
<1>2. CASE UNCHANGED <<task, overridden>>
  BY <1>2 DEF LC!vars
<1>3. ASSUME NEW t \in Task, NEW pid \in Nat, SetProcess(t, pid)
      PROVE  [LC!Next]_LC!vars
  BY <1>3 DEF SetProcess, LC!vars, Typed, StoreInv, StoreTypeOK, Row
<1>4. ASSUME NEW r \in todo, NEW a \in ApprovalId, pc \in {"verify", "schedule"}, CreateApproval(a, r.id)
      PROVE  LC!Next
  <2>1. r.id \in Task /\ task[r.id].state # "PENDING"
    BY <1>4 DEF Behind, Typed, PlaceInv, RowCopy
  <2> QED
    BY <1>4, <2>1, MappedWrite DEF CreateApproval
<1>5. ASSUME NEW a \in ApprovalId, NEW d \in {"APPROVED", "REJECTED"}, DecideApproval(a, d)
      PROVE  LC!Next
  <2>1. approval[a].task \in Task /\ task[approval[a].task].state # "PENDING"
    BY <1>5 DEF DecideApproval, Behind, Typed, StoreInv
  <2>2. d \in TaskTransitions["WAITING_APPROVAL"]
    BY DEF TaskTransitions, TaskState
  <2> QED
    BY <1>5, <2>1, <2>2, MappedWrite DEF DecideApproval
<1> QED
  BY <1>1, <1>2, <1>3, <1>4, <1>5, MappedMove, MappedClaim DEF StoreStep, Dues

\* The controller, its crashes and its operators together implement the life cycle.
THEOREM LifecycleImplemented == Spec => ImplementsLifecycle
<1>1. Init => Typed /\ Behind /\ LC!Init
  BY InitTyped, BehindStarts, MappedInit
<1>2. Typed /\ Behind /\ [Next]_vars => (Typed /\ Behind)' /\ [LC!Next]_LC!vars
  BY NextTyped, BehindHolds, MappedStep
<1> QED
  BY <1>1, <1>2, PTL DEF Spec, ImplementsLifecycle, LC!Spec
=============================================================================
