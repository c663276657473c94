----------------------------- MODULE StateStore -----------------------------
(***************************************************************************)
(* The canonical SQLite state store, as far as tasks, approvals and the    *)
(* control word go.  Each operator is one BEGIN IMMEDIATE transaction of   *)
(* the store, hence one atomic step of whoever calls it; a transaction     *)
(* that raises rolls back and is the caller's business.                    *)
(*                                                                         *)
(* A row keeps what the program decides on: its state, its attempt count   *)
(* and its pid.  Text columns, owners and time stamps are left out, and so *)
(* is retry_at, a column no statement of the store ever writes.            *)
(***************************************************************************)
EXTENDS TaskStates, Naturals, FiniteSets

CONSTANTS
  Task,         \* the tasks, numbered in rowid order
  ApprovalId    \* the identifiers approvals draw from

ASSUME TaskAssumption == Task \subseteq Nat \ {0} /\ IsFiniteSet(Task)
ASSUME ApprovalIdAssumption == ApprovalId \subseteq Nat \ {0} /\ IsFiniteSet(ApprovalId)

VARIABLES
  task,         \* task[t]: the row of t
  approval,     \* approval[a]: the approval row a
  control,      \* the control word, "RUNNING" until somebody sets it
  overridden    \* history: tasks written by a decision they were not waiting for

storeVars == <<task, approval, control, overridden>>

Row == [state : TaskState, attempts : Nat, pid : Nat]     \* pid 0 is NULL
Approval == [task : Task \cup {0}, state : ApprovalState, due : BOOLEAN]

NoApproval == [task |-> 0, state |-> "NONE", due |-> FALSE]

StoreTypeOK ==
  /\ task \in [Task -> Row]
  /\ approval \in [ApprovalId -> Approval]
  /\ control \in ControlState
  /\ overridden \subseteq Task

\* create_tasks has inserted every task of the plan.  A later create_tasks of the
\* same plan inserts nothing (INSERT OR IGNORE), so a restart keeps the rows.
StoreInit ==
  /\ task = [t \in Task |-> [state |-> "PENDING", attempts |-> 0, pid |-> 0]]
  /\ approval = [a \in ApprovalId |-> NoApproval]
  /\ control = "RUNNING"
  /\ overridden = {}

-----------------------------------------------------------------------------
(* Reads *)

InState(S) == {t \in Task : task[t].state \in S}

PendingFor(t) == {a \in ApprovalId : approval[a].state = "PENDING" /\ approval[a].task = t}

\* transition_task raises InvalidTransition when this is false.
CanTransition(t, new, expected) ==
  /\ task[t].state \in expected
  /\ new \in TaskTransitions[task[t].state] \cup {task[t].state}

-----------------------------------------------------------------------------
(* Writes *)

\* A legal transition of t, the callers of which either keep or clear the pid.
TransitionTask(t, new, expected, pid) ==
  /\ CanTransition(t, new, expected)
  /\ task' = [task EXCEPT ![t].state = new, ![t].pid = pid]
  /\ UNCHANGED <<approval, control, overridden>>

\* claim_task returns None when this is false.
Claimable(t) == task[t].state \in {"READY", "APPROVED"}

\* Mutant of ClaimTask: a start that costs no attempt.
ClaimTaskUncounted(t) ==
  /\ Claimable(t)
  /\ task' = [task EXCEPT ![t].state = "RUNNING"]
  /\ UNCHANGED <<approval, control, overridden>>

ClaimTask(t) ==
  /\ Claimable(t)
  /\ task' = [task EXCEPT ![t].state = "RUNNING", ![t].attempts = @ + 1]
  /\ UNCHANGED <<approval, control, overridden>>

\* set_process looks at no state: it writes the row as it finds it.
SetProcess(t, pid) ==
  /\ task' = [task EXCEPT ![t].pid = pid]
  /\ UNCHANGED <<approval, control, overridden>>

\* A fresh uuid; the least unused identifier stands for all of them.
Fresh(a) ==
  /\ approval[a].state = "NONE"
  /\ \A b \in ApprovalId : approval[b].state = "NONE" => a <= b

\* create_approval writes WAITING_APPROVAL over whatever state the row has.
CreateApproval(a, t) ==
  /\ approval' = [approval EXCEPT ![a] = [task |-> t, state |-> "PENDING", due |-> FALSE]]
  /\ task' = [task EXCEPT ![t].state = "WAITING_APPROVAL"]
  /\ overridden' = IF "WAITING_APPROVAL" \in TaskTransitions[task[t].state]
                   THEN overridden ELSE overridden \cup {t}
  /\ UNCHANGED control

\* decide_approval checks neither the approval's state nor the row's: the decision
\* becomes the state of both.
DecideApproval(a, decision) ==
  LET t == approval[a].task IN
  /\ approval[a].state # "NONE"
  /\ approval' = [approval EXCEPT ![a].state = decision]
  /\ task' = [task EXCEPT ![t].state = decision]
  /\ overridden' = IF task[t].state = "WAITING_APPROVAL"
                   THEN overridden ELSE overridden \cup {t}
  /\ UNCHANGED control

SetControl(word) ==
  /\ control' = word
  /\ UNCHANGED <<task, approval, overridden>>
=============================================================================
