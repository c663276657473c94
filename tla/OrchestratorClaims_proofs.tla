---------------------- MODULE OrchestratorClaims_proofs ----------------------
(***************************************************************************)
(* What a claim rests on, for every plan: the approval the policy wants and *)
(* an attempt of the retry budget.  Both are lost or kept by what happens to *)
(* a row between the moment the scheduling loop copies it and the moment it *)
(* is claimed.  And why, undisturbed, every other loop finds its rows as it *)
(* listed them, so that no exception escapes the run.                      *)
(***************************************************************************)
EXTENDS Orchestrator_proofs

-----------------------------------------------------------------------------
(* Approved first.  The scheduling loop works on copies of rows that others write
   meanwhile: Kept says how far an APPROVED copy can be trusted when it is claimed. *)

\* The controller is in the scheduling loop, between its rows or at one.
InSchedule == pc = "schedule" \/ (pc \in Working /\ ret = "schedule")

\* Copies are of different rows; an APPROVED copy is of a row that is still decided, for
\* nobody but the loop itself takes a decided row elsewhere; and so is the row about to
\* be claimed, when the policy wants it approved.
Kept ==
  /\ \A q, r \in todo : q.id = r.id => q = r
  /\ pc \in Working => \A q \in todo : q.id # cur.id
  /\ InSchedule => \A r \in todo : r.state = "APPROVED" => task[r.id].state \in Decision
  /\ pc = "claim" /\ Decide(cur.id) = "REQUIRE_APPROVAL" => task[cur.id].state \in Decision

\* How a step changes the copies it holds and the one it works on.
CopyStep ==
  \/ todo' = {} /\ pc' \notin Working
  \/ todo' \subseteq todo /\ pc' \notin Working /\ (InSchedule' => InSchedule)
  \/ todo' = todo /\ pc \in Working /\ pc' \in Working /\ cur'.id = cur.id /\ ret' = ret
  \/ /\ \E S : todo' \subseteq List(S)
     /\ pc' \notin Working /\ UNCHANGED task
  \/ \E r \in todo :
       /\ todo' = {q \in todo : q.id # r.id} /\ cur'.id = r.id
       /\ pc' \in Working /\ (InSchedule' => InSchedule)

\* The steps between the loops treat the copies in one of these ways.
LEMMA LoopCopies ==
  ASSUME Typed, LoopStep
  PROVE  CopyStep
<1> USE DEF Working
<1>1. CASE \E status \in ExitState : Down(status)
  BY <1>1 DEF Down, CopyStep
<1>2. CASE Return /\ pc \in Working
  BY <1>2 DEF Return, CopyStep, InSchedule, Typed, PlaceInv
<1>3. CASE UNCHANGED <<todo, ret>> /\ pc' \in {"tick", "expire", "terminal", "pending"}
  BY <1>3 DEF CopyStep, InSchedule
<1>4. CASE pc \in Working /\ pc' \in Working /\ UNCHANGED <<todo, ret>> /\ cur'.id = cur.id
  BY <1>4 DEF CopyStep
<1>5. CASE \E S : pc' \notin Working /\ todo' \subseteq List(S) /\ UNCHANGED storeVars
  BY <1>5 DEF CopyStep, storeVars
<1>6. CASE PromoteDone \/ UnblockDone
  <2>1. {r \in List({"PENDING"}) : DepsPassed(r.id)} \subseteq List({"PENDING"})
    OBVIOUS
  <2>2. Selected \subseteq List({"READY", "APPROVED"})
    BY DEF Selected, FirstN
  <2>3. \E S : todo' \subseteq List(S)
    BY <1>6, <2>1, <2>2 DEF PromoteDone, UnblockDone, Enter
  <2> QED
    BY <1>5, <1>6, <2>3 DEF PromoteDone, UnblockDone, Enter
<1>7. CASE RecoverRaises \/ RecoverDone
  BY <1>7 DEF RecoverRaises, Raise, RecoverDone, Down, Enter, CopyStep
<1>8. CASE HonourControl \/ TerminalExit \/ PendingNone \/ PendingExit
  BY <1>8 DEF HonourControl, TerminalExit, PendingNone, PendingExit, Down, CopyStep
<1>9. CASE StartCollecting \/ CollectDone \/ VerifyDone
  <2>1. PICK s \in {"RUNNING", "VERIFYING", "RETRY_WAIT"} :
          todo' = List({s}) /\ pc' \notin Working /\ UNCHANGED storeVars
    BY <1>9 DEF StartCollecting, CollectDone, VerifyDone, Enter
  <2> QED
    BY <1>5, <2>1
<1>10. CASE Tick \/ NoCapacity \/ TerminalStay \/ PendingStay \/ ScheduleDone \/ TerminalWait
  BY <1>3, <1>10 DEF Tick, NoCapacity, TerminalStay, PendingStay, ScheduleDone, TerminalWait, Step, local
<1>11. CASE FailRead
  <2>1. cur'.id = cur.id
    BY <1>11 DEF FailRead, Typed, PlaceInv, RowCopy
  <2> QED
    BY <1>4, <1>11, <2>1 DEF FailRead
<1>12. CASE Launch \/ LaunchFails \/ RecordFails \/ Claim \/ AutoApprove
  BY <1>4, <1>12 DEF Launch, LaunchFails, RecordFails, Claim, AutoApprove, Step, local
<1>13. CASE FailWrite \/ AutoCheck
  BY <1>4, <1>13 DEF FailWrite, AutoCheck, Raise, Step, local, Down, CopyStep
<1>14. CASE FailSkip \/ RetryExhausted \/ ClaimLost \/ RecordProcess
  BY <1>2, <1>14 DEF FailSkip, RetryExhausted, ClaimLost, RecordProcess
<1>15. CASE RetrySchedule \/ WaiverTransition
  BY <1>2, <1>15 DEF RetrySchedule, WaiverTransition, Raise, Down, CopyStep
<1> QED
  BY <1>6, <1>7, <1>8, <1>9, <1>10, <1>11, <1>12, <1>13, <1>14, <1>15 DEF LoopStep

\* Every step of the system does.
LEMMA CopySteps ==
  ASSUME Typed, [Next]_vars
  PROVE  CopyStep
<1>1. ASSUME NEW r \in todo, RowStep(r)
      PROVE  CopyStep
  <2>1. CASE Raise
    BY <2>1 DEF Raise, Down, CopyStep, Working
  <2>2. ASSUME NEW label \in {"recover", "collect", "verify", "promote", "unblock", "schedule"},
               pc = label, NextRow(label, r)
        PROVE  CopyStep
    BY <2>2 DEF NextRow, CopyStep, InSchedule, Working
  <2>3. ASSUME NEW label \in {"fail", "claim"}, NEW loop \in {"collect", "verify", "schedule"},
               pc = loop, WorkOn(label, r, loop)
        PROVE  CopyStep
    BY <2>3 DEF WorkOn, CopyStep, InSchedule, Working
  <2> QED
    BY <1>1, <2>1, <2>2, <2>3
    DEF RowStep, RecoverAlive, RecoverDead, CollectIdle, CollectTimeout, CollectSuccess,
        CollectFailure, VerifyPass, VerifyFail, Promote, Unblock, ScheduleExecute, ScheduleReject
<1>2. ASSUME NEW r \in todo, NEW apr \in ApprovalId, ApprovalStep(r, apr)
      PROVE  CopyStep
  <2>1. [r EXCEPT !.apr = apr].id = r.id
    BY DEF Typed, PlaceInv, RowCopy
  <2> QED
    BY <1>2, <2>1
    DEF ApprovalStep, VerifyNonEvidentiary, ScheduleRequest, ScheduleAutoRequest, NextRow, WorkOn,
        CopyStep, InSchedule, Working
<1>3. CASE UNCHANGED <<pc, todo, cur, ret>>
  BY <1>3 DEF CopyStep, InSchedule
<1>4. ASSUME NEW a \in ApprovalId, Expire(a)
      PROVE  CopyStep
  BY <1>3, <1>4 DEF Expire
<1>5. CASE Start
  BY <1>5 DEF Start, Enter, CopyStep, Working
<1>6. CASE Killed
  BY <1>6 DEF Killed, Down, CopyStep, Working
<1>7. CASE Operator \/ Environment
  BY <1>3, <1>5, <1>6, <1>7
  DEF Operator, OperatorDecides, OperatorPauses, OperatorStops, OperatorTerminates,
      OperatorNext, Environment, ProcessEnds, TaskOverdue, DelayElapses, ApprovalDue, WaitElapses,
      Elsewhere, local
<1>8. CASE UNCHANGED vars
  BY <1>3, <1>8 DEF vars, local
<1> QED
  BY <1>1, <1>2, <1>4, <1>7, <1>8, LoopCopies DEF Next, Controller

\* A step leaves a decided row decided, unless it claims the row or asks for it anew.
LEMMA DecidedKept ==
  ASSUME Typed, StoreStep, NEW t \in Task, task[t].state \in Decision,
         pc = "claim" => cur.id # t,
         \A r \in todo : r \notin todo' => r.id # t
  PROVE  task'[t].state \in Decision
<1>1. ASSUME NEW u \in Task, NEW e \in Edge, Moves(u, e)
      PROVE  task'[t].state \in Decision
  BY <1>1 DEF Moves, Edge, Decision, Typed, StoreInv, StoreTypeOK, Row
<1>2. ASSUME NEW r \in todo, r \notin todo', NEW a \in ApprovalId, CreateApproval(a, r.id)
      PROVE  task'[t].state \in Decision
  BY <1>2 DEF CreateApproval, Typed, StoreInv, StoreTypeOK, Row
<1>3. ASSUME NEW a \in ApprovalId, NEW d \in {"APPROVED", "REJECTED"}, DecideApproval(a, d)
      PROVE  task'[t].state \in Decision
  BY <1>3 DEF DecideApproval, Decision, Typed, StoreInv, StoreTypeOK, Row
<1>4. ASSUME cur.id \in Task, cur.id # t, ClaimTask(cur.id)
      PROVE  task'[t].state \in Decision
  BY <1>4 DEF ClaimTask, Typed, StoreInv, StoreTypeOK, Row
<1>5. ASSUME NEW u \in Task, NEW pid \in Nat, SetProcess(u, pid)
      PROVE  task'[t].state \in Decision
  BY <1>5 DEF SetProcess, Typed, StoreInv, StoreTypeOK, Row
<1> QED
  BY <1>1, <1>2, <1>3, <1>4, <1>5 DEF StoreStep, Dues

\* The claim is entered in two places, and only others act while it is there.
LEMMA ClaimEntered ==
  ASSUME Typed, [Next]_vars, pc' = "claim"
  PROVE  \/ pc = "claim" /\ UNCHANGED <<cur, todo>> /\ (Operator \/ Environment \/ UNCHANGED vars)
         \/ \E r \in todo : ScheduleExecute(r)
         \/ AutoCheck /\ task[cur.id].state = "APPROVED" /\ cur' = cur /\ UNCHANGED task
<1>1. ASSUME LoopStep
      PROVE  AutoCheck /\ task[cur.id].state = "APPROVED" /\ cur' = cur /\ UNCHANGED task
  BY <1>1 DEF LoopStep, RecoverRaises, Raise, RecoverDone, Tick, HonourControl, StartCollecting,
      CollectDone, VerifyDone, PromoteDone, NoCapacity, UnblockDone, ScheduleDone, FailSkip, FailRead, FailWrite,
      RetrySchedule, RetryExhausted, WaiverTransition, AutoApprove, AutoCheck, Claim, ClaimLost,
      Launch, LaunchFails, RecordProcess, RecordFails, TerminalStay, TerminalWait, TerminalExit,
      PendingNone, PendingExit, PendingStay, Down, Enter, Step, Return, Typed, PlaceInv, storeVars,
      local
<1>2. ASSUME NEW r \in todo, RowStep(r)
      PROVE  ScheduleExecute(r)
  BY <1>2 DEF RowStep, RecoverAlive, RecoverDead, CollectIdle, CollectTimeout, CollectSuccess,
      CollectFailure, VerifyPass, VerifyFail, Promote, Unblock, ScheduleReject,
      NextRow, WorkOn, Raise, Down
<1>3. ASSUME NEW r \in todo, NEW apr \in ApprovalId, ApprovalStep(r, apr)
      PROVE  FALSE
  BY <1>3 DEF ApprovalStep, VerifyNonEvidentiary, ScheduleRequest, ScheduleAutoRequest, NextRow, WorkOn
<1>4. ASSUME NEW a \in ApprovalId, Expire(a)
      PROVE  FALSE
  BY <1>4 DEF Expire
<1>5. ASSUME Operator \/ Environment
      PROVE  pc = "claim" /\ UNCHANGED <<cur, todo>>
  BY <1>5 DEF Operator, OperatorDecides, OperatorPauses, OperatorStops, OperatorTerminates,
      OperatorNext, Environment, ProcessEnds, TaskOverdue, DelayElapses, ApprovalDue, WaitElapses,
      Start, Killed, Elsewhere, local, Enter, Down
<1>6. CASE UNCHANGED vars
  BY <1>6 DEF vars, local
<1> QED
  BY <1>1, <1>2, <1>3, <1>4, <1>5, <1>6 DEF Next, Controller

\* Nobody but the controller takes a decided row anywhere.
LEMMA OthersKeepDecided ==
  ASSUME Typed, NEW t \in Task, Operator \/ Environment \/ UNCHANGED vars,
         task[t].state \in Decision
  PROVE  task'[t].state \in Decision
<1>1. ASSUME NEW a \in ApprovalId, NEW d \in {"APPROVED", "REJECTED"}, OperatorDecides(a, d)
      PROVE  task'[t].state \in Decision
  BY <1>1 DEF OperatorDecides, DecideApproval, Decision, Typed, StoreInv, StoreTypeOK, Row
<1>2. ASSUME NEW u \in Task, OperatorNext(u)
      PROVE  task'[t].state \in Decision
  BY <1>2 DEF OperatorNext, TransitionTask, CanTransition, Decision, Typed, StoreInv, StoreTypeOK, Row
<1>3. CASE UNCHANGED task
  BY <1>3
<1>4. CASE Operator
  BY <1>1, <1>2, <1>3, <1>4
  DEF Operator, OperatorPauses, OperatorStops, OperatorTerminates, SetControl, storeVars
<1>5. CASE Environment \/ UNCHANGED vars
  BY <1>3, <1>5
  DEF Environment, ProcessEnds, TaskOverdue, DelayElapses, ApprovalDue, WaitElapses, Start, Killed,
      vars, storeVars
<1> QED
  BY <1>4, <1>5

\* Kept is inductive.
LEMMA KeptHolds ==
  ASSUME Typed, Kept, [Next]_vars
  PROVE  Kept'
<1>1. StoreStep /\ CopyStep /\ Typed'
  BY StoreSteps, CopySteps, NextTyped
<1>t. /\ todo \subseteq RowCopy /\ todo' \subseteq RowCopy /\ \A r \in RowCopy : r.id \in Task
      /\ pc' \in Working => cur'.id \in Task
  BY <1>1 DEF Typed, PlaceInv, RowCopy
<1>2. ASSUME NEW q \in todo', NEW r \in todo', q.id = r.id
      PROVE  q = r
  <2>1. ASSUME NEW S, todo' \subseteq List(S)
        PROVE  q = r
    BY <1>2, <2>1 DEF List, Copy
  <2> QED
    BY <1>1, <1>2, <2>1 DEF CopyStep, Kept
<1>3. ASSUME pc' \in Working, NEW q \in todo'
      PROVE  q.id # cur'.id
  BY <1>1, <1>3 DEF CopyStep, Kept
<1>4. ASSUME InSchedule', NEW r \in todo', r.state = "APPROVED"
      PROVE  task'[r.id].state \in Decision
  <2>1. ASSUME NEW S, todo' \subseteq List(S), UNCHANGED task
        PROVE  task'[r.id].state \in Decision
    BY <1>4, <2>1 DEF List, Copy, Decision
  <2>2. CASE todo' \subseteq todo /\ InSchedule
    <3>1. task[r.id].state \in Decision
      BY <1>4, <2>2 DEF Kept
    <3>2. pc = "claim" => cur.id # r.id
      BY <1>4, <2>2 DEF Kept, Working
    <3>3. \A q \in todo : q \notin todo' => q.id # r.id
      BY <1>4, <2>2 DEF Kept
    <3> QED
      BY <1>1, <1>t, <1>4, <3>1, <3>2, <3>3, DecidedKept
  <2>3. \/ \E S : todo' \subseteq List(S) /\ UNCHANGED task
        \/ todo' \subseteq todo /\ InSchedule
    BY <1>1, <1>4 DEF CopyStep, InSchedule, Working
  <2> QED
    BY <2>1, <2>2, <2>3
<1>5. ASSUME pc' = "claim", Decide(cur'.id) = "REQUIRE_APPROVAL"
      PROVE  task'[cur'.id].state \in Decision
  <2>1. CASE pc = "claim" /\ UNCHANGED <<cur, todo>> /\ (Operator \/ Environment \/ UNCHANGED vars)
    BY <1>t, <1>5, <2>1, OthersKeepDecided DEF Kept, Working
  <2>2. ASSUME NEW r \in todo, ScheduleExecute(r)
        PROVE  task'[cur'.id].state \in Decision
    BY <1>5, <2>2 DEF ScheduleExecute, Executes, WorkOn, Kept, InSchedule, storeVars
  <2>3. CASE AutoCheck /\ task[cur.id].state = "APPROVED" /\ cur' = cur /\ UNCHANGED task
    BY <2>3 DEF Decision
  <2> QED
    BY <1>5, <2>1, <2>2, <2>3, ClaimEntered
<1> QED
  BY <1>2, <1>3, <1>4, <1>5 DEF Kept

\* No write of the store releases a gated row without an approval.
LEMMA ApprovedKept ==
  ASSUME Typed, Kept, ApprovedFirst, StoreStep
  PROVE  ApprovedFirst'
<1> SUFFICES ASSUME NEW t \in Task, Decide(t) = "REQUIRE_APPROVAL", task'[t].state \in Released
             PROVE  \E a \in ApprovalId : approval'[a].task = t /\ approval'[a].state = "APPROVED"
  BY DEF ApprovedFirst, Decide, Evaluate, GateDecision, BoundaryDecision
<1>0. task[t].state \in Released =>
        \E a \in ApprovalId : approval[a].task = t /\ approval[a].state = "APPROVED"
  BY DEF ApprovedFirst
<1>1. ASSUME NEW u \in Task, NEW e \in Edge, Moves(u, e)
      PROVE  task[t].state \in Released /\ UNCHANGED approval
  BY <1>1 DEF Moves, Edge, Released, Typed, StoreInv, StoreTypeOK, Row
<1>2. ASSUME pc = "claim", cur.id \in Task, ClaimTask(cur.id)
      PROVE  task[t].state \in Released /\ UNCHANGED approval
  BY <1>2 DEF ClaimTask, Claimable, Kept, Decision, Released, Typed, StoreInv, StoreTypeOK, Row
<1>3. ASSUME NEW u \in Task, NEW pid \in Nat, SetProcess(u, pid)
      PROVE  task[t].state \in Released /\ UNCHANGED approval
  BY <1>3 DEF SetProcess, Typed, StoreInv, StoreTypeOK, Row
<1>4. ASSUME NEW r \in todo, NEW a \in ApprovalId, Fresh(a), CreateApproval(a, r.id)
      PROVE  \E b \in ApprovalId : approval'[b].task = t /\ approval'[b].state = "APPROVED"
  <2>1. task[t].state \in Released
    BY <1>4 DEF CreateApproval, Released, Typed, StoreInv, StoreTypeOK, Row
  <2>2. PICK b \in ApprovalId : approval[b].task = t /\ approval[b].state = "APPROVED"
    BY <1>0, <2>1
  <2> QED
    BY <1>4, <2>2 DEF Fresh, CreateApproval, Typed, StoreInv, StoreTypeOK
<1>5. ASSUME NEW a \in ApprovalId, NEW d \in {"APPROVED", "REJECTED"}, DecideApproval(a, d)
      PROVE  \E b \in ApprovalId : approval'[b].task = t /\ approval'[b].state = "APPROVED"
  <2>1. CASE approval[a].task = t
    <3>1. d = "APPROVED"
      BY <1>5, <2>1 DEF DecideApproval, Released, Typed, StoreInv, StoreTypeOK, Row
    <3> QED
      BY <1>5, <2>1, <3>1 DEF DecideApproval, Typed, StoreInv, StoreTypeOK, Approval
  <2>2. CASE approval[a].task # t
    <3>1. task[t].state \in Released
      BY <1>5, <2>2 DEF DecideApproval, Typed, StoreInv, StoreTypeOK, Row
    <3>2. PICK b \in ApprovalId : approval[b].task = t /\ approval[b].state = "APPROVED"
      BY <1>0, <3>1
    <3> QED
      BY <1>5, <2>2, <3>2 DEF DecideApproval, Typed, StoreInv, StoreTypeOK, Approval
  <2> QED
    BY <2>1, <2>2
<1>6. CASE Dues
  BY <1>0, <1>6 DEF Dues, Typed, StoreInv, StoreTypeOK, Approval
<1> QED
  BY <1>0, <1>1, <1>2, <1>3, <1>4, <1>5, <1>6 DEF StoreStep

\* A task the policy wants approved is never released without an approval on record.
THEOREM AlwaysApprovedFirst == Spec => []ApprovedFirst
<1>1. Init => Typed /\ Kept /\ ApprovedFirst
  <2>1. ASSUME Init
        PROVE  Kept
    BY <2>1 DEF Init, Kept, InSchedule, Working
  <2>2. ASSUME Init
        PROVE  ApprovedFirst
    BY <2>2 DEF Init, StoreInit, ApprovedFirst, Released
  <2> QED
    BY <2>1, <2>2, InitTyped
<1>2. Typed /\ Kept /\ ApprovedFirst /\ [Next]_vars => (Typed /\ Kept /\ ApprovedFirst)'
  BY NextTyped, KeptHolds, ApprovedKept, StoreSteps
<1> QED
  BY <1>1, <1>2, PTL DEF Spec

-----------------------------------------------------------------------------
(* The retry budget.  A row that may still be claimed has an attempt left; the one
   write that could bring a row back with none left is the request for an approval,
   and the proof is about where it is made. *)

\* The states from which a row can be claimed without another failure.
ToRun == {"PENDING", "READY", "WAITING_APPROVAL", "APPROVED", "RETRY_WAIT"}

\* A task in its budget: an attempt is left while the row may still run.
InBudget(t) ==
  /\ task[t].attempts <= MaxRetries[t] + 1
  /\ task[t].state \in ToRun => task[t].attempts <= MaxRetries[t]

\* Besides the budget: the rows the scheduling loop still has to visit do not run, and
\* the waiver path is taken by tasks without evidence alone.
Counted ==
  /\ \A t \in Task : t \in overridden \cup NonEvidentiary \/ InBudget(t)
  /\ InSchedule => \A r \in todo : r.id \in overridden \/ task[r.id].state \notin {"RUNNING", "VERIFYING"}
  /\ pc = "waiver" => cur.id \in NonEvidentiary

\* The controller is in the loop l, between its rows or at one.
InLoopOf(l) == pc = l \/ (pc \in Working /\ ret = l)

\* A loop is entered with fresh copies, and then works them off.
LEMMA LoopEntered ==
  ASSUME Typed, [Next]_vars, NEW l \in {"recover", "collect", "verify", "schedule"}, InLoopOf(l)'
  PROVE  \/ InLoopOf(l) /\ todo' \subseteq todo
         \/ l = "recover" /\ Start
         \/ l = "collect" /\ StartCollecting
         \/ l = "verify" /\ CollectDone
         \/ l = "schedule" /\ UnblockDone
<1> USE DEF InLoopOf, Working
<1>1. CASE UNCHANGED <<pc, todo, ret>>
  BY <1>1
<1>2. CASE LoopStep
  <2>1. ASSUME NEW status, Down(status)
        PROVE  FALSE
    BY <2>1 DEF Down
  <2>2. CASE Return /\ pc \in Working
    BY <2>2 DEF Return, Typed, PlaceInv
  <2>3. CASE pc \in Working /\ pc' \in Working /\ UNCHANGED <<todo, ret>>
    BY <2>3
  <2> QED
    BY <1>2, <2>1, <2>2, <2>3 DEF LoopStep, RecoverRaises, Raise, RecoverDone, Tick, HonourControl,
      StartCollecting, CollectDone, VerifyDone, PromoteDone, NoCapacity, UnblockDone, ScheduleDone,
      FailSkip, FailRead, FailWrite, RetrySchedule, RetryExhausted, WaiverTransition, AutoApprove,
      AutoCheck, Claim, ClaimLost, Launch, LaunchFails, RecordProcess, RecordFails, TerminalStay,
      TerminalWait, TerminalExit, PendingNone, PendingExit, PendingStay, Enter, Step, local
<1>3. ASSUME NEW r \in todo, RowStep(r)
      PROVE  InLoopOf(l) /\ todo' \subseteq todo
  BY <1>3 DEF RowStep, RecoverAlive, RecoverDead, CollectIdle, CollectTimeout, CollectSuccess,
      CollectFailure, VerifyPass, VerifyFail, Promote, Unblock, ScheduleExecute, ScheduleReject,
      NextRow, WorkOn, Raise, Down
<1>4. ASSUME NEW r \in todo, NEW apr \in ApprovalId, ApprovalStep(r, apr)
      PROVE  InLoopOf(l) /\ todo' \subseteq todo
  BY <1>4 DEF ApprovalStep, VerifyNonEvidentiary, ScheduleRequest, ScheduleAutoRequest, NextRow, WorkOn
<1>5. ASSUME NEW a \in ApprovalId, Expire(a)
      PROVE  UNCHANGED <<pc, todo, ret>>
  BY <1>5 DEF Expire
<1>6. ASSUME Operator \/ Environment
      PROVE  UNCHANGED <<pc, todo, ret>> \/ (l = "recover" /\ Start)
  BY <1>6 DEF Operator, OperatorDecides, OperatorPauses, OperatorStops, OperatorTerminates,
      OperatorNext, Environment, ProcessEnds, TaskOverdue, DelayElapses, ApprovalDue, WaitElapses,
      Start, Killed, Elsewhere, local, Enter, Down, Typed, PlaceInv
<1>7. CASE UNCHANGED vars
  BY <1>1, <1>7 DEF vars, local
<1> QED
  BY <1>1, <1>2, <1>3, <1>4, <1>5, <1>6, <1>7 DEF Next, Controller

\* While rows are verified, approvals are asked for tasks without evidence alone.
LEMMA VerifyAsks ==
  ASSUME Typed, [Next]_vars, pc = "verify", NEW r \in todo, r \notin todo',
         NEW a \in ApprovalId, Fresh(a), CreateApproval(a, r.id)
  PROVE  r.id \in NonEvidentiary
<1>1. approval' # approval
  BY DEF Fresh, CreateApproval, Typed, StoreInv, StoreTypeOK
<1>2. ASSUME LoopStep
      PROVE  FALSE
  BY <1>2 DEF LoopStep, RecoverRaises, Raise, RecoverDone, Tick, HonourControl, StartCollecting,
      CollectDone, VerifyDone, PromoteDone, NoCapacity, UnblockDone, ScheduleDone, FailSkip, FailRead,
      FailWrite, RetrySchedule, RetryExhausted, WaiverTransition, AutoApprove, AutoCheck, Claim, ClaimLost,
      Launch, LaunchFails, RecordProcess, RecordFails, TerminalStay, TerminalWait, TerminalExit,
      PendingNone, PendingExit, PendingStay
<1>3. ASSUME NEW q \in todo, RowStep(q)
      PROVE  FALSE
  BY <1>1, <1>3 DEF RowStep, RecoverAlive, RecoverDead, CollectIdle, CollectTimeout, CollectSuccess,
      CollectFailure, VerifyPass, VerifyFail, Promote, Unblock, ScheduleExecute, ScheduleReject,
      TransitionTask, Raise, storeVars
<1>4. ASSUME NEW q \in todo, NEW apr \in ApprovalId, ApprovalStep(q, apr)
      PROVE  r.id \in NonEvidentiary
  BY <1>4 DEF ApprovalStep, VerifyNonEvidentiary, ScheduleRequest, ScheduleAutoRequest, WorkOn
<1>5. ASSUME NEW b \in ApprovalId, Expire(b)
      PROVE  FALSE
  BY <1>5 DEF Expire
<1>6. ASSUME Operator \/ Environment
      PROVE  FALSE
  BY <1>1, <1>6 DEF Operator, OperatorDecides, OperatorPauses, OperatorStops, OperatorTerminates,
      OperatorNext, Environment, ProcessEnds, TaskOverdue, DelayElapses, ApprovalDue, WaitElapses,
      Start, Killed, Elsewhere, local, storeVars
<1>7. CASE UNCHANGED vars
  BY <1>1, <1>7 DEF vars, storeVars
<1> QED
  BY <1>2, <1>3, <1>4, <1>5, <1>6, <1>7 DEF Next, Controller

\* A row starts to run by a claim, and it is verified after it ran.
LEMMA StartedByClaim ==
  ASSUME Typed, StoreStep, NEW t \in Task, task[t].state \notin {"RUNNING", "VERIFYING"},
         pc = "claim" => cur.id # t
  PROVE  task'[t].state \notin {"RUNNING", "VERIFYING"}
<1>1. ASSUME NEW u \in Task, NEW e \in Edge, Moves(u, e)
      PROVE  task'[t].state \notin {"RUNNING", "VERIFYING"}
  BY <1>1 DEF Moves, Edge, Typed, StoreInv, StoreTypeOK, Row
<1>2. ASSUME NEW r \in todo, NEW a \in ApprovalId, CreateApproval(a, r.id)
      PROVE  task'[t].state \notin {"RUNNING", "VERIFYING"}
  BY <1>2 DEF CreateApproval, Typed, StoreInv, StoreTypeOK, Row
<1>3. ASSUME NEW a \in ApprovalId, NEW d \in {"APPROVED", "REJECTED"}, DecideApproval(a, d)
      PROVE  task'[t].state \notin {"RUNNING", "VERIFYING"}
  BY <1>3 DEF DecideApproval, Typed, StoreInv, StoreTypeOK, Row
<1>4. ASSUME cur.id \in Task, cur.id # t, ClaimTask(cur.id)
      PROVE  task'[t].state \notin {"RUNNING", "VERIFYING"}
  BY <1>4 DEF ClaimTask, Typed, StoreInv, StoreTypeOK, Row
<1>5. ASSUME NEW u \in Task, NEW pid \in Nat, SetProcess(u, pid)
      PROVE  task'[t].state \notin {"RUNNING", "VERIFYING"}
  BY <1>5 DEF SetProcess, Typed, StoreInv, StoreTypeOK, Row
<1> QED
  BY <1>1, <1>2, <1>3, <1>4, <1>5 DEF StoreStep, Dues

\* A task marked as decided out of turn stays marked.
LEMMA MarksStay ==
  ASSUME StoreStep
  PROVE  overridden \subseteq overridden'
BY DEF StoreStep, Moves, ClaimTask, SetProcess, CreateApproval, DecideApproval, Dues

\* Every write of the store keeps a task in its budget, or marks it.
LEMMA BudgetKept ==
  ASSUME Typed, Counted, [Next]_vars, StoreStep,
         NEW t \in Task, t \notin overridden', t \notin NonEvidentiary
  PROVE  InBudget(t)'
<1>0. /\ InBudget(t) /\ task[t].attempts \in Nat /\ MaxRetries[t] \in Nat /\ task[t] \in Row
      /\ task \in [Task -> Row]
  BY MarksStay, PlanAssumption DEF Counted, Typed, StoreInv, StoreTypeOK, Row
<1>1. ASSUME NEW u \in Task, NEW e \in Edge, Moves(u, e)
      PROVE  InBudget(t)'
  <2>1. CASE u # t
    BY <1>0, <1>1, <2>1 DEF Moves, InBudget, Row
  <2>2. CASE u = t
    <3>1. task'[t].state = e[2] /\ task'[t].attempts = task[t].attempts /\ task[t].state = e[1]
      BY <1>0, <1>1, <2>2 DEF Moves, Row
    <3>2. e[2] # "WAITING_APPROVAL"
      BY <1>1, <2>2 DEF Moves, Counted
    <3>3. e[2] = "RETRY_WAIT" => task[t].attempts <= MaxRetries[t]
      BY <1>1, <2>2 DEF Moves
    <3>4. e[2] = "READY" => e[1] \in ToRun
      BY DEF Edge, ToRun
    <3>5. e[2] \in ToRun => e[2] \in {"READY", "WAITING_APPROVAL", "RETRY_WAIT"}
      BY DEF Edge, ToRun
    <3> QED
      BY <1>0, <3>1, <3>2, <3>3, <3>4, <3>5 DEF InBudget
  <2> QED
    BY <2>1, <2>2
<1>2. ASSUME cur.id \in Task, ClaimTask(cur.id)
      PROVE  InBudget(t)'
  <2>1. CASE cur.id # t
    BY <1>0, <1>2, <2>1 DEF ClaimTask, InBudget, Row
  <2>2. CASE cur.id = t
    <3>1. task[t].state \in ToRun
      BY <1>2, <2>2 DEF ClaimTask, Claimable, ToRun
    <3>2. task'[t].state = "RUNNING" /\ task'[t].attempts = task[t].attempts + 1
      BY <1>0, <1>2, <2>2 DEF ClaimTask, Row
    <3> QED
      BY <1>0, <3>1, <3>2 DEF InBudget, ToRun
  <2> QED
    BY <2>1, <2>2
<1>3. ASSUME NEW u \in Task, NEW pid \in Nat, SetProcess(u, pid)
      PROVE  InBudget(t)'
  BY <1>0, <1>3 DEF SetProcess, InBudget, Row
<1>4. ASSUME NEW r \in todo, NEW a \in ApprovalId, pc \in {"verify", "schedule"}, r \notin todo',
             Fresh(a), CreateApproval(a, r.id)
      PROVE  InBudget(t)'
  <2>1. CASE r.id # t
    BY <1>0, <1>4, <2>1 DEF CreateApproval, InBudget, Row
  <2>2. CASE r.id = t
    <3>1. task[t].state \in {"READY", "VERIFYING"}
      BY <1>0, <1>4, <2>2 DEF CreateApproval, TaskTransitions, TaskState, Row
    <3>2. pc = "schedule"
      BY <1>4, <2>2, VerifyAsks
    <3>3. t \notin overridden
      BY MarksStay
    <3>4. task[t].state = "READY"
      BY <1>4, <2>2, <3>1, <3>2, <3>3 DEF Counted, InSchedule
    <3>5. task'[t].attempts = task[t].attempts
      BY <1>0, <1>4, <2>2 DEF CreateApproval, Row
    <3> QED
      BY <1>0, <3>4, <3>5 DEF InBudget, ToRun
  <2> QED
    BY <2>1, <2>2
<1>5. ASSUME NEW a \in ApprovalId, NEW d \in {"APPROVED", "REJECTED"}, DecideApproval(a, d)
      PROVE  InBudget(t)'
  <2>1. CASE approval[a].task # t
    BY <1>0, <1>5, <2>1 DEF DecideApproval, InBudget, Typed, StoreInv, Row
  <2>2. CASE approval[a].task = t
    <3>1. task[t].state = "WAITING_APPROVAL"
      BY <1>5, <2>2 DEF DecideApproval
    <3>2. task'[t].attempts = task[t].attempts
      BY <1>0, <1>5, <2>2 DEF DecideApproval, Row
    <3> QED
      BY <1>0, <3>1, <3>2 DEF InBudget, ToRun
  <2> QED
    BY <2>1, <2>2
<1>6. CASE UNCHANGED task
  BY <1>0, <1>6 DEF InBudget
<1> QED
  BY <1>1, <1>2, <1>3, <1>4, <1>5, <1>6 DEF StoreStep, Dues

\* Counted is inductive.
LEMMA CountedHolds ==
  ASSUME Typed, Kept, Counted, [Next]_vars
  PROVE  Counted'
<1>1. StoreStep /\ overridden \subseteq overridden' /\ Typed'
  BY StoreSteps, MarksStay, NextTyped
<1>2. ASSUME NEW t \in Task, t \notin overridden' \cup NonEvidentiary
      PROVE  InBudget(t)'
  BY <1>1, <1>2, BudgetKept
<1>3. ASSUME InSchedule', NEW r \in todo'
      PROVE  r.id \in overridden' \/ task'[r.id].state \notin {"RUNNING", "VERIFYING"}
  <2>0. r.id \in Task
    BY <1>1 DEF Typed, PlaceInv, RowCopy
  <2>1. CASE InSchedule /\ todo' \subseteq todo
    <3>1. pc = "claim" => cur.id # r.id
      BY <2>1 DEF Kept, Working
    <3>2. r.id \in overridden \/ task[r.id].state \notin {"RUNNING", "VERIFYING"}
      BY <2>1 DEF Counted
    <3> QED
      BY <1>1, <2>0, <3>1, <3>2, StartedByClaim
  <2>2. CASE UnblockDone
    <3>1. r \in List({"READY", "APPROVED"}) /\ task' = task
      BY <2>2 DEF UnblockDone, Enter, Selected, FirstN, storeVars
    <3> QED
      BY <3>1 DEF List, Copy, InState
  <2> QED
    BY <1>3, <2>1, <2>2, LoopEntered DEF InSchedule, InLoopOf
<1>4. ASSUME pc' = "waiver"
      PROVE  cur'.id \in NonEvidentiary
  BY <1>4, WaiverEntered DEF Counted, VerifyNonEvidentiary, WorkOn
<1> QED
  BY <1>2, <1>3, <1>4 DEF Counted

\* No task runs more often than its retries allow, unless a decision restarted it.
THEOREM BudgetAlwaysKept == Spec => []RetryBudget
<1>1. Init => Typed /\ Kept /\ Counted
  <2>1. ASSUME Init
        PROVE  Counted
    BY <2>1, PlanAssumption DEF Init, StoreInit, Counted, InBudget, InSchedule, Working
  <2>2. ASSUME Init
        PROVE  Kept
    BY <2>2 DEF Init, Kept, InSchedule, Working
  <2> QED
    BY <2>1, <2>2, InitTyped
<1>2. Typed /\ Kept /\ Counted /\ [Next]_vars => (Typed /\ Kept /\ Counted)'
  BY NextTyped, KeptHolds, CountedHolds
<1>3. Counted => RetryBudget
  BY DEF Counted, InBudget, RetryBudget
<1> QED
  BY <1>1, <1>2, <1>3, PTL DEF Spec

-----------------------------------------------------------------------------
(* No exception escapes.  The controller raises where a row is no longer as the copy
   says.  Without decisions out of turn and without `next` nobody but the controller
   moves a row that is not waiting for a decision, and none of the rows it has listed
   is; that a transition finds the state it expects is then a matter of the loops. *)

\* The loop the controller is in, between its rows or at one.
Loop == IF pc \in Working THEN ret ELSE pc

\* The states the loop l lists rows in.
Listed(l, s) ==
  \/ l = "collect" /\ s = "RUNNING"
  \/ l = "verify" /\ s = "VERIFYING"
  \/ l = "promote" /\ s = "RETRY_WAIT"
  \/ l = "unblock" /\ s = "PENDING"
  \/ l = "schedule" /\ s \in {"READY", "APPROVED"}

\* The copies a loop still has to visit are as their rows are.
UpToDate == \A r \in todo : task[r.id].state = r.state /\ Listed(Loop, r.state)

\* So is what the iteration knows of its row.
AtHand ==
  /\ pc = "failTx" => task[cur.id].state = cur.state
  /\ pc = "retry" => task[cur.id].state = "FAILED"
  /\ pc = "autoApprove" => approval[cur.apr].task = cur.id
  /\ pc = "autoCheck" => task[cur.id].state = "APPROVED"
  /\ pc # "waiver"

\* The one run starts, and recovers, with a fresh plan.
OneRun ==
  /\ starts = 0 => pc = "down"
  /\ starts = 0 \/ pc = "recover" => \A t \in Task : task[t].state = "PENDING"

Undisturbed == exit # "CRASHED" /\ OneRun /\ UpToDate /\ AtHand

\* A task's row changes by a transition; the others stay as they are.
LEMMA TransitionOne ==
  ASSUME Typed, NEW t \in Task, NEW new, NEW expected, NEW pid, TransitionTask(t, new, expected, pid)
  PROVE  /\ task'[t].state = new /\ UNCHANGED approval
         /\ \A u \in Task : u # t => task'[u] = task[u]
BY DEF Typed, StoreInv, StoreTypeOK, Row, TransitionTask

\* A step that shortens the list, stays in its loop and leaves the rows on it alone keeps
\* them up to date.
LEMMA Shortened ==
  ASSUME UpToDate, todo' \subseteq todo, Loop' = Loop,
         \A r \in todo' : task'[r.id].state = task[r.id].state
  PROVE  UpToDate'
BY DEF UpToDate

\* What a loop lists is up to date.
LEMMA ListedFresh ==
  ASSUME Typed, NEW S, todo' \subseteq List(S), UNCHANGED task, pc' \notin Working,
         \A s \in S : Listed(pc', s)
  PROVE  UpToDate'
<1>1. \A r \in List(S) : task[r.id].state = r.state /\ r.state \in S
  BY DEF List, Copy, InState
<1> QED BY <1>1 DEF UpToDate, Loop

\* The end of a run that does not crash.
LEMMA DownUndisturbed ==
  ASSUME Undisturbed, NEW status \in ExitState, status # "CRASHED", Down(status), pc # "down"
  PROVE  Undisturbed'
BY DEF Undisturbed, OneRun, UpToDate, AtHand, Down

\* Past recovery, a step within the run leaves its count and its outcome as they are.
LEMMA WithinRun ==
  ASSUME OneRun, exit # "CRASHED", pc # "down", pc' \notin {"down", "recover"}, UNCHANGED <<exit, starts>>
  PROVE  OneRun' /\ exit' # "CRASHED"
BY DEF OneRun

\* A row moves and its loop goes on.
LEMMA MovedOn ==
  ASSUME Typed, Kept, Undisturbed, NEW r \in todo, NEW label \in {"verify", "collect", "promote", "unblock", "schedule"},
         pc = label, NEW new, NEW expected, NEW pid,
         TransitionTask(r.id, new, expected, pid), NextRow(label, r), UNCHANGED run
  PROVE  Undisturbed'
<1>1. r.id \in Task /\ \A q \in todo : q.id \in Task
  BY DEF Typed, PlaceInv, RowCopy
<1>2. \A q \in todo' : q \in todo /\ q.id # r.id
  BY DEF NextRow, Kept
<1>3. \A q \in todo' : task'[q.id].state = task[q.id].state
  BY <1>1, <1>2, TransitionOne
<1>4. Loop' = Loop /\ todo' \subseteq todo
  BY DEF Loop, NextRow, Working
<1>5. UpToDate'
  BY <1>3, <1>4, Shortened DEF Undisturbed
<1>6. AtHand'
  BY DEF AtHand, NextRow
<1> QED BY <1>5, <1>6, WithinRun DEF Undisturbed, NextRow, run

\* Nothing is written and the loop goes on, or takes up a row.
LEMMA PassedBy ==
  ASSUME Typed, Undisturbed, NEW r \in todo,
         NEW label \in {"verify", "collect", "promote", "unblock", "schedule"}, pc = label,
         \/ NextRow(label, r)
         \/ WorkOn("fail", r, label) \/ WorkOn("claim", r, label),
         UNCHANGED <<task, run>>
  PROVE  Undisturbed'
<1>1. Loop' = Loop /\ todo' \subseteq todo
  BY DEF Loop, NextRow, WorkOn, Working
<1>2. UpToDate'
  BY <1>1, Shortened DEF Undisturbed
<1>3. AtHand' /\ pc' \notin {"down", "recover"}
  BY DEF AtHand, NextRow, WorkOn
<1> QED BY <1>2, <1>3, WithinRun DEF Undisturbed, run

\* The loops on rows keep what they know, and none of their transitions is refused.
LEMMA RowsUndisturbed ==
  ASSUME Typed, Kept, Undisturbed, NEW r \in todo, RowStep(r)
  PROVE  Undisturbed'
<1>1. r.id \in Task /\ task[r.id].state = r.state /\ Listed(Loop, r.state)
  BY DEF Typed, PlaceInv, RowCopy, Undisturbed, UpToDate
<1>2. CASE RecoverAlive(r) \/ RecoverDead(r)
  BY <1>1, <1>2 DEF RecoverAlive, RecoverDead, Listed, Loop, Working
<1>3. CASE CollectIdle(r) \/ CollectTimeout(r) \/ CollectFailure(r)
  BY <1>3, PassedBy DEF CollectIdle, CollectTimeout, CollectFailure, Quiet, run, storeVars
<1>4. CASE VerifyFail(r) \/ ScheduleExecute(r)
  BY <1>4, PassedBy DEF VerifyFail, ScheduleExecute, Quiet, run, storeVars
<1>5. CASE CollectSuccess(r)
  <2>1. CanTransition(r.id, "VERIFYING", {"RUNNING"})
    BY <1>1, <1>5 DEF CollectSuccess, Listed, Loop, Working, CanTransition, TaskTransitions, TaskState
  <2> QED BY <1>5, <2>1, MovedOn DEF CollectSuccess
<1>6. CASE VerifyPass(r)
  <2>1. CanTransition(r.id, "PASSED", {"VERIFYING"})
    BY <1>1, <1>6 DEF VerifyPass, Listed, Loop, Working, CanTransition, TaskTransitions, TaskState
  <2> QED BY <1>6, <2>1, MovedOn DEF VerifyPass, Quiet
<1>7. CASE Promote(r)
  <2>1. CanTransition(r.id, "READY", {"RETRY_WAIT"})
    BY <1>1, <1>7 DEF Promote, Listed, Loop, Working, CanTransition, TaskTransitions, TaskState
  <2> QED BY <1>7, <2>1, MovedOn DEF Promote
<1>8. CASE Unblock(r)
  <2>1. CanTransition(r.id, "READY", {"PENDING"})
    BY <1>1, <1>8 DEF Unblock, Listed, Loop, Working, CanTransition, TaskTransitions, TaskState
  <2> QED BY <1>8, <2>1, MovedOn DEF Unblock, Quiet
<1>9. CASE ScheduleReject(r)
  <2>1. r.state = "READY"
    BY <1>1, <1>9 DEF ScheduleReject, Executes, Listed, Loop, Working
  <2>2. CanTransition(r.id, "REJECTED", {"READY", "APPROVED"})
    BY <1>1, <2>1 DEF CanTransition, TaskTransitions, TaskState
  <2> QED BY <1>9, <2>2, MovedOn DEF ScheduleReject, Quiet
<1> QED BY <1>2, <1>3, <1>4, <1>5, <1>6, <1>7, <1>8, <1>9 DEF RowStep

\* A step of an iteration writes no row but the one at hand.
LEMMA OthersUpToDate ==
  ASSUME Typed, Kept, UpToDate, pc \in Working, todo' = todo, Loop' = Loop,
         \A u \in Task : u # cur.id => task'[u].state = task[u].state
  PROVE  UpToDate'
<1>1. \A q \in todo : q.id \in Task /\ q.id # cur.id
  BY DEF Typed, PlaceInv, RowCopy, Kept
<1> QED BY <1>1, Shortened

\* A request goes to the row's approval and writes no other row.
LEMMA RequestOne ==
  ASSUME Typed, NEW t \in Task, NEW apr \in ApprovalId, Request(t, apr)
  PROVE  /\ approval'[apr].task = t
         /\ \A u \in Task : u # t => task'[u].state = task[u].state
BY DEF Request, PendingFor, storeVars, CreateApproval, Typed, StoreInv, StoreTypeOK, Approval, Row

\* Where everything has evidence, asking keeps what the loops know.
LEMMA RequestUndisturbed ==
  ASSUME NonEvidentiary = {}, Typed, Kept, Undisturbed, NEW r \in todo, NEW apr \in ApprovalId,
         ApprovalStep(r, apr)
  PROVE  Undisturbed'
<1>1. r \in RowCopy /\ r.id \in Task /\ \A q \in todo : q.id \in Task
  BY DEF Typed, PlaceInv, RowCopy
<1>2. pc = "schedule" /\ Request(r.id, apr) /\ UNCHANGED run
  BY DEF ApprovalStep, VerifyNonEvidentiary, ScheduleRequest, ScheduleAutoRequest, Quiet
<1>3. /\ approval'[apr].task = r.id
      /\ \A u \in Task : u # r.id => task'[u].state = task[u].state
  BY <1>1, <1>2, RequestOne
<1>4. CASE NextRow("schedule", r)
  <2>1. \A q \in todo' : q \in todo /\ q.id # r.id
    BY <1>4 DEF NextRow, Kept
  <2>2. Loop' = Loop
    BY <1>2, <1>4 DEF Loop, NextRow, Working
  <2>3. UpToDate'
    BY <1>1, <1>3, <2>1, <2>2, Shortened DEF Undisturbed
  <2> QED BY <1>2, <1>4, <2>3, WithinRun DEF Undisturbed, AtHand, NextRow, run
<1>5. CASE WorkOn("autoApprove", [r EXCEPT !.apr = apr], "schedule")
  <2>1. cur'.id = r.id /\ cur'.apr = apr
    BY <1>1, <1>5 DEF WorkOn, RowCopy
  <2>2. todo' = {q \in todo : q.id # r.id} /\ pc' = "autoApprove" /\ ret' = "schedule"
    <3>1. [r EXCEPT !.apr = apr].id = r.id
      BY <1>1 DEF RowCopy
    <3> QED BY <1>5, <3>1 DEF WorkOn
  <2>3. Loop' = Loop
    BY <1>2, <2>2 DEF Loop, Working
  <2>4. UpToDate'
    BY <1>1, <1>3, <2>2, <2>3, Shortened DEF Undisturbed
  <2>5. AtHand'
    BY <1>3, <2>1, <2>2 DEF AtHand
  <2> QED BY <1>2, <2>2, <2>4, <2>5, WithinRun DEF Undisturbed, run
<1> QED BY <1>2, <1>4, <1>5 DEF ApprovalStep, VerifyNonEvidentiary, ScheduleRequest, ScheduleAutoRequest

\* Outside the loops on rows the controller holds no copy.
LEMMA NoCopies ==
  ASSUME UpToDate, pc \in {"recover", "tick", "expire", "terminal", "pending"}
  PROVE  todo = {}
BY DEF UpToDate, Loop, Listed, Working

\* The controller between its loops.
LEMMA BetweenUndisturbed ==
  ASSUME Typed, Undisturbed, pc # "down", pc' \notin Working \cup {"down", "recover"}, UNCHANGED run,
         UpToDate'
  PROVE  Undisturbed'
BY WithinRun DEF Undisturbed, AtHand, Working, run

\* The steps between the loops, and the ends of runs.
LEMMA LoopsUndisturbed ==
  ASSUME Typed, Kept, Undisturbed,
         \/ RecoverRaises \/ RecoverDone \/ Tick \/ HonourControl \/ StartCollecting \/ CollectDone
         \/ VerifyDone \/ PromoteDone \/ NoCapacity \/ UnblockDone \/ ScheduleDone
         \/ TerminalStay \/ TerminalWait \/ TerminalExit \/ PendingNone \/ PendingExit \/ PendingStay
  PROVE  Undisturbed'
<1>1. CASE RecoverRaises
  BY <1>1 DEF RecoverRaises, OrphanVerifying, InState, Undisturbed, OneRun
<1>2. CASE HonourControl \/ TerminalExit \/ PendingNone \/ PendingExit
  <2>1. PICK status \in ExitState : status # "CRASHED" /\ Down(status)
    BY <1>2 DEF HonourControl, TerminalExit, PendingNone, PendingExit, Typed, StoreInv, StoreTypeOK,
                ControlState, ExitState
  <2> QED BY <1>2, <2>1, DownUndisturbed DEF HonourControl, TerminalExit, PendingNone, PendingExit
<1>3. CASE RecoverDone
  <2>1. CASE Down("BLOCKED")
    BY <1>3, <2>1, DownUndisturbed DEF RecoverDone, ExitState
  <2>2. CASE Enter("tick", {}) /\ Quiet
    BY <1>3, <2>2, BetweenUndisturbed DEF RecoverDone, Enter, Quiet, UpToDate, Working
  <2> QED BY <1>3, <2>1, <2>2 DEF RecoverDone
<1>4. CASE Tick \/ NoCapacity \/ ScheduleDone \/ TerminalStay \/ TerminalWait \/ PendingStay
  <2>1. todo = {} /\ todo' = {} /\ pc # "down"
    BY <1>4, NoCopies
    DEF Tick, NoCapacity, ScheduleDone, TerminalStay, TerminalWait, PendingStay, Step, local, Undisturbed
  <2> QED
    BY <1>4, <2>1, BetweenUndisturbed
    DEF Tick, NoCapacity, ScheduleDone, TerminalStay, TerminalWait, PendingStay, Step, Quiet, UpToDate, Working
<1>5. CASE StartCollecting \/ CollectDone \/ VerifyDone
  <2>1. PICK s \in {"RUNNING", "VERIFYING", "RETRY_WAIT"} :
          todo' = List({s}) /\ Listed(pc', s) /\ pc' \notin Working \cup {"down", "recover"}
    BY <1>5 DEF StartCollecting, CollectDone, VerifyDone, Enter, Listed, Working
  <2>2. UpToDate'
    BY <1>5, <2>1, ListedFresh DEF StartCollecting, CollectDone, VerifyDone, storeVars
  <2> QED BY <1>5, <2>1, <2>2, BetweenUndisturbed DEF StartCollecting, CollectDone, VerifyDone, Quiet
<1>6. CASE PromoteDone
  <2>1. todo' \subseteq List({"PENDING"}) /\ pc' = "unblock" /\ UNCHANGED <<task, run>>
    BY <1>6 DEF PromoteDone, Enter, Quiet, storeVars
  <2>2. UpToDate'
    BY <2>1, ListedFresh DEF Listed, Working
  <2> QED BY <1>6, <2>1, <2>2, BetweenUndisturbed DEF PromoteDone, Working
<1>7. CASE UnblockDone
  <2>1. Selected \subseteq List({"READY", "APPROVED"})
    BY DEF Selected, FirstN
  <2>2. todo' \subseteq List({"READY", "APPROVED"}) /\ pc' = "schedule" /\ UNCHANGED <<task, run>>
    BY <1>7, <2>1 DEF UnblockDone, Enter, Quiet, storeVars
  <2>3. UpToDate'
    BY <2>2, ListedFresh DEF Listed, Working
  <2> QED BY <1>7, <2>2, <2>3, BetweenUndisturbed DEF UnblockDone, Working
<1> QED BY <1>1, <1>2, <1>3, <1>4, <1>5, <1>6, <1>7

\* The steps of an iteration: what it expects of its row is there.
LEMMA IterationUndisturbed ==
  ASSUME Typed, Kept, Undisturbed,
         \/ FailSkip \/ FailRead \/ FailWrite \/ RetrySchedule \/ RetryExhausted
         \/ WaiverTransition \/ AutoApprove \/ AutoCheck \/ Claim \/ ClaimLost
         \/ Launch \/ LaunchFails \/ RecordProcess \/ RecordFails
  PROVE  Undisturbed'
<1>1. pc \in Working /\ cur \in RowCopy /\ cur.id \in Task
  BY DEF FailSkip, FailRead, FailWrite, RetrySchedule, RetryExhausted, WaiverTransition, AutoApprove,
         AutoCheck, Claim, ClaimLost, Launch, LaunchFails, RecordProcess, RecordFails, Typed, PlaceInv,
         Working, RowCopy
<1>2. ASSUME Return, UNCHANGED run, \A u \in Task : u # cur.id => task'[u].state = task[u].state
      PROVE  Undisturbed'
  <2>1. todo' = todo /\ Loop' = Loop /\ pc' \in {"collect", "verify", "schedule"}
    BY <1>1, <1>2 DEF Return, Loop, Working, Typed, PlaceInv
  <2>2. UpToDate'
    BY <1>1, <1>2, <2>1, OthersUpToDate DEF Undisturbed
  <2> QED BY <1>1, <1>2, <2>1, <2>2, BetweenUndisturbed DEF Working
<1>3. ASSUME NEW label \in Working, Step(label), UNCHANGED run, AtHand',
             \A u \in Task : u # cur.id => task'[u].state = task[u].state
      PROVE  Undisturbed'
  <2>1. todo' = todo /\ Loop' = Loop /\ pc' \notin {"down", "recover"} /\ pc # "down"
    BY <1>1, <1>3 DEF Step, Loop, Working, local
  <2>2. UpToDate'
    BY <1>1, <1>3, <2>1, OthersUpToDate DEF Undisturbed
  <2> QED BY <1>3, <2>1, <2>2, WithinRun DEF Undisturbed, run
<1>4. CASE FailSkip \/ RetryExhausted \/ ClaimLost
  BY <1>2, <1>4 DEF FailSkip, RetryExhausted, ClaimLost, Quiet, storeVars
<1>5. CASE RecordProcess
  <2>1. \A u \in Task : u # cur.id => task'[u].state = task[u].state
    BY <1>1, <1>5 DEF RecordProcess, SetProcess, Typed, StoreInv, StoreTypeOK
  <2> QED BY <1>2, <1>5, <2>1 DEF RecordProcess, Quiet
<1>6. CASE RetrySchedule
  <2>1. CanTransition(cur.id, "RETRY_WAIT", {"FAILED"})
    BY <1>6 DEF RetrySchedule, Undisturbed, AtHand, CanTransition, TaskTransitions, TaskState
  <2>2. TransitionTask(cur.id, "RETRY_WAIT", {"FAILED"}, task[cur.id].pid) /\ Return /\ UNCHANGED run
    BY <1>6, <2>1 DEF RetrySchedule
  <2> QED BY <1>1, <1>2, <2>2, TransitionOne
<1>7. CASE FailRead
  <2>1. /\ pc = "fail" /\ pc' = "failTx" /\ UNCHANGED <<task, approval, run, todo, ret>>
        /\ cur' = [cur EXCEPT !.state = task[cur.id].state]
    BY <1>7 DEF FailRead, Quiet, storeVars
  <2>2. cur'.id = cur.id /\ cur'.state = task[cur.id].state
    BY <1>1, <2>1 DEF RowCopy
  <2>3. Loop' = Loop
    BY <2>1 DEF Loop, Working
  <2>4. UpToDate' /\ AtHand'
    BY <1>1, <2>1, <2>2, <2>3, OthersUpToDate DEF Undisturbed, AtHand
  <2> QED BY <2>1, <2>4, WithinRun DEF Undisturbed, run
<1>8. CASE FailWrite
  <2>1. CanTransition(cur.id, "FAILED", {cur.state})
    BY <1>8 DEF FailWrite, Undisturbed, AtHand, CanTransition, TaskTransitions, TaskState, Typed, PlaceInv
  <2>2. TransitionTask(cur.id, "FAILED", {cur.state}, 0) /\ Step("retry") /\ UNCHANGED run
    BY <1>8, <2>1 DEF FailWrite, Quiet
  <2>3. /\ task'[cur.id].state = "FAILED"
        /\ \A u \in Task : u # cur.id => task'[u].state = task[u].state
    BY <1>1, <2>2, TransitionOne
  <2>4. AtHand'
    BY <2>2, <2>3 DEF AtHand, Step, local
  <2> QED BY <1>3, <2>2, <2>3, <2>4 DEF Working
<1>9. CASE WaiverTransition
  BY <1>9 DEF WaiverTransition, Undisturbed, AtHand
<1>10. CASE AutoApprove
  <2>1. /\ pc = "autoApprove" /\ DecideApproval(cur.apr, "APPROVED") /\ Step("autoCheck") /\ UNCHANGED run
        /\ approval[cur.apr].task = cur.id
    BY <1>10 DEF AutoApprove, Quiet, Undisturbed, AtHand
  <2>2. task' = [task EXCEPT ![cur.id].state = "APPROVED"]
    BY <2>1 DEF DecideApproval
  <2>3. /\ task'[cur.id].state = "APPROVED"
        /\ \A u \in Task : u # cur.id => task'[u].state = task[u].state
    BY <1>1, <2>2 DEF Typed, StoreInv, StoreTypeOK, Row
  <2>4. AtHand'
    BY <2>1, <2>3 DEF AtHand, Step, local
  <2> QED BY <1>3, <2>1, <2>3, <2>4 DEF Working
<1>11. CASE AutoCheck
  <2>1. Step("claim") /\ Quiet /\ UNCHANGED storeVars
    BY <1>11 DEF AutoCheck, Undisturbed, AtHand
  <2>2. AtHand'
    BY <2>1 DEF AtHand, Step
  <2> QED BY <1>3, <2>1, <2>2 DEF Working, Quiet, storeVars
<1>12. CASE Claim
  <2>1. Step("launch") /\ UNCHANGED run /\ \A u \in Task : u # cur.id => task'[u].state = task[u].state
    BY <1>1, <1>12 DEF Claim, ClaimTask, Typed, StoreInv, StoreTypeOK
  <2>2. AtHand'
    BY <2>1 DEF AtHand, Step
  <2> QED BY <1>3, <2>1, <2>2 DEF Working
<1>13. CASE Launch \/ LaunchFails \/ RecordFails
  <2>1. PICK label \in {"record", "fail"} : Step(label) /\ UNCHANGED <<task, run>>
    BY <1>13 DEF Launch, LaunchFails, RecordFails, Quiet, storeVars
  <2>2. AtHand'
    BY <2>1 DEF AtHand, Step
  <2> QED BY <1>3, <2>1, <2>2 DEF Working
<1> QED BY <1>4, <1>5, <1>6, <1>7, <1>8, <1>9, <1>10, <1>11, <1>12, <1>13

\* What goes on beside the controller writes only rows that wait for a decision.
LEMMA BesideUndisturbed ==
  ASSUME Hazards \cap {"late", "next"} = {}, Typed, Undisturbed, UNCHANGED <<pc, todo, cur, ret, run>>,
         \/ UNCHANGED <<task, approval>>
         \/ \E a \in ApprovalId, d \in {"APPROVED", "REJECTED"} : OperatorDecides(a, d)
         \/ \E t \in Task : OperatorNext(t)
         \/ \E a \in ApprovalId : ApprovalDue(a)
  PROVE  Undisturbed'
<1>1. CASE UNCHANGED <<task, approval>>
  BY <1>1 DEF Undisturbed, OneRun, UpToDate, AtHand, Loop, run
<1>2. CASE \E t \in Task : OperatorNext(t)
  BY <1>2 DEF OperatorNext
<1>3. CASE \E a \in ApprovalId : ApprovalDue(a)
  <2>1. UNCHANGED task /\ \A a \in ApprovalId : approval'[a].task = approval[a].task
    BY <1>3 DEF ApprovalDue, Typed, StoreInv, StoreTypeOK, Approval
  <2>2. AtHand'
    BY <2>1 DEF Undisturbed, AtHand, Typed, PlaceInv
  <2> QED BY <2>1, <2>2 DEF Undisturbed, OneRun, UpToDate, Loop, run
<1>4. ASSUME NEW a \in ApprovalId, NEW d \in {"APPROVED", "REJECTED"}, OperatorDecides(a, d)
      PROVE  Undisturbed'
  <2> DEFINE t == approval[a].task
  <2>1. t \in Task /\ task[t].state = "WAITING_APPROVAL" /\ DecideApproval(a, d)
    BY <1>4 DEF OperatorDecides, InTurn, Typed, StoreInv
  <2>2. /\ \A u \in Task : u # t => task'[u] = task[u]
        /\ \A b \in ApprovalId : approval'[b].task = approval[b].task
    BY <2>1 DEF DecideApproval, Typed, StoreInv, StoreTypeOK, Approval
  <2>3. OneRun'
    BY <2>1 DEF Undisturbed, OneRun, run
  <2>4. UpToDate'
    <3>1. \A r \in todo : r.id \in Task /\ r.id # t
      BY <2>1 DEF Undisturbed, UpToDate, Listed, Typed, PlaceInv, RowCopy
    <3> QED BY <2>2, <3>1 DEF Undisturbed, UpToDate, Loop
  <2>5. AtHand'
    <3>1. pc \in Working => cur.id \in Task
      BY DEF Typed, PlaceInv, RowCopy
    <3>2. pc \in {"failTx", "retry", "autoCheck"} => cur.id # t
      BY <2>1 DEF Undisturbed, AtHand, Typed, PlaceInv
    <3>3. pc = "autoApprove" => cur.apr \in ApprovalId
      BY DEF Typed, PlaceInv
    <3> QED BY <2>2, <3>1, <3>2, <3>3 DEF Undisturbed, AtHand, Working
  <2> QED BY <2>3, <2>4, <2>5 DEF Undisturbed, run
<1> QED BY <1>1, <1>2, <1>3, <1>4

\* Undisturbed is inductive, where the environment leaves the run alone.
LEMMA UndisturbedHolds ==
  ASSUME NonEvidentiary = {}, Hazards \cap {"late", "next"} = {}, MaxStarts <= 1,
         Typed, Kept, Undisturbed, [Next]_vars
  PROVE  Undisturbed'
<1>1. ASSUME NEW a \in ApprovalId, Expire(a)
      PROVE  Undisturbed'
  BY <1>1, NoCopies DEF Expire, Quiet, run, Undisturbed, OneRun, UpToDate, AtHand
<1>2. CASE Operator
  BY <1>2, BesideUndisturbed
  DEF Operator, OperatorDecides, OperatorPauses, OperatorStops, OperatorTerminates, OperatorNext,
      SetControl, Elsewhere, local, storeVars
<1>3. CASE Start
  <2>1. starts = 0 /\ starts' = 1 /\ pc' = "recover" /\ exit' = "NONE" /\ UNCHANGED task
    BY <1>3, BoundsAssumption DEF Start, Enter, Typed, RunInv
  <2>2. todo' = {}
    BY <1>3, <2>1 DEF Start, Enter, List, InState, Undisturbed, OneRun
  <2> QED BY <2>1, <2>2 DEF Undisturbed, OneRun, UpToDate, AtHand
<1>4. CASE Killed
  BY <1>4, DownUndisturbed DEF Killed, ExitState
<1>5. CASE Environment
  BY <1>3, <1>4, <1>5, BesideUndisturbed
  DEF Environment, ProcessEnds, TaskOverdue, DelayElapses, ApprovalDue, WaitElapses, Elsewhere,
      local, storeVars
<1>6. CASE UNCHANGED vars
  BY <1>6, BesideUndisturbed DEF vars, storeVars, local
<1> QED
  BY <1>1, <1>2, <1>5, <1>6, RowsUndisturbed, RequestUndisturbed, LoopsUndisturbed, IterationUndisturbed
  DEF Next, Controller, LoopStep

\* In a single run of tasks that all have evidence, with `next` unused and decisions in
\* turn, no exception escapes the controller, for any plan, whatever fails, times out, is
\* paused, stopped or killed.
THEOREM NeverCrashesUndisturbed ==
  ASSUME NonEvidentiary = {}, Hazards \cap {"late", "next"} = {}, MaxStarts <= 1
  PROVE  Spec => []NeverCrashes
<1>1. Init => Typed /\ Kept /\ Undisturbed
  BY InitTyped DEF Init, StoreInit, Kept, InSchedule, Working, Undisturbed, OneRun, UpToDate, AtHand
<1>2. Typed /\ Kept /\ Undisturbed /\ [Next]_vars => (Typed /\ Kept /\ Undisturbed)'
  BY NextTyped, KeptHolds, UndisturbedHolds
<1>3. Undisturbed => NeverCrashes
  BY DEF Undisturbed, NeverCrashes
<1> QED BY <1>1, <1>2, <1>3, PTL DEF Spec
=============================================================================
