--------------------------- MODULE TaskLifecycle ---------------------------
(***************************************************************************)
(* What the orchestrator promises about the life of its tasks, whatever    *)
(* processes, crashes and operators do.  A row moves along the edges of    *)
(* TaskTransitions, with three duties the edges alone do not state: it is  *)
(* released only behind its dependencies, every start costs an attempt,    *)
(* and a failure is retried only within the budget.  The one way around    *)
(* the edges is a decision that lands on a row which no longer waits for   *)
(* it; such a row is marked in overridden and loses its guarantees.        *)
(***************************************************************************)
EXTENDS TaskStates, Naturals

CONSTANTS
  Task,         \* the tasks of the plan
  Deps,         \* Deps[t]: the tasks t depends on
  MaxRetries    \* MaxRetries[t]: retry_policy.max_retries of t

VARIABLES
  state,        \* state[t]: the state column of t's row
  attempts,     \* attempts[t]: how many times t was claimed
  overridden    \* the tasks whose row an out-of-turn decision has written

vars == <<state, attempts, overridden>>

Init ==
  /\ state = [t \in Task |-> "PENDING"]
  /\ attempts = [t \in Task |-> 0]
  /\ overridden = {}

\* t may leave PENDING when each dependency has passed and none was rewritten.
Released(t) == \A d \in Deps[t] : state[d] = "PASSED" \/ d \in overridden

Move(t, new) ==
  /\ new \in TaskTransitions[state[t]]
  /\ state[t] = "PENDING" => Released(t)
  /\ new = "RETRY_WAIT" => attempts[t] <= MaxRetries[t]
  /\ state' = [state EXCEPT ![t] = new]
  /\ attempts' = IF new = "RUNNING" THEN [attempts EXCEPT ![t] = @ + 1] ELSE attempts
  /\ UNCHANGED overridden

\* A decision, or a request for one, written over a row that does not wait for it.
Override(t, new) ==
  /\ new \in Decision \cup {"WAITING_APPROVAL"}
  /\ state[t] # "PENDING"
  /\ state' = [state EXCEPT ![t] = new]
  /\ overridden' = overridden \cup {t}
  /\ UNCHANGED attempts

Next == \E t \in Task, new \in TaskState : Move(t, new) \/ Override(t, new)

Spec == Init /\ [][Next]_vars
=============================================================================
