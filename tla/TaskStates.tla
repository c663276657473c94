----------------------------- MODULE TaskStates -----------------------------
(***************************************************************************)
(* The vocabulary of the canonical state store: the states of a task row,  *)
(* the edges transition_task accepts, and the decisions an approval can    *)
(* receive.  Pure definitions, shared by the abstract life cycle, by the   *)
(* store and by the controller.                                            *)
(***************************************************************************)

\* The legacy aliases PASS and FAIL are normalised to PASSED and FAILED before
\* they reach a row, so they are not states.
TaskState ==
  {"PENDING", "READY", "WAITING_APPROVAL", "APPROVED", "RUNNING", "VERIFYING",
   "PASSED", "FAILED", "RETRY_WAIT", "BLOCKED", "REJECTED", "WAIVED", "EXPIRED",
   "LEGACY_UNVERIFIED"}

\* The edges of a row's life; a terminal state has none.
TaskTransitions ==
  [s \in TaskState |->
     CASE s = "PENDING"            -> {"READY", "FAILED", "BLOCKED"}
       [] s = "READY"              -> {"RUNNING", "WAITING_APPROVAL", "REJECTED",
                                       "FAILED", "BLOCKED"}
       [] s = "WAITING_APPROVAL"   -> {"APPROVED", "REJECTED", "WAIVED", "EXPIRED"}
       [] s = "APPROVED"           -> {"RUNNING"}
       [] s = "RUNNING"            -> {"VERIFYING", "FAILED", "READY"}
       [] s = "VERIFYING"          -> {"PASSED", "FAILED", "WAITING_APPROVAL"}
       [] s = "FAILED"             -> {"RETRY_WAIT", "BLOCKED"}
       [] s = "RETRY_WAIT"         -> {"READY"}
       [] s = "BLOCKED"            -> {"READY"}
       [] s = "LEGACY_UNVERIFIED"  -> {"PASSED", "FAILED", "BLOCKED"}
       [] OTHER                    -> {}]

\* What decide_approval accepts.  The command line only ever sends the first two.
Decision == {"APPROVED", "REJECTED", "WAIVED", "EXPIRED"}

\* The state of an approval row; "NONE" stands for a row not yet inserted.
ApprovalState == {"NONE", "PENDING"} \cup Decision

\* The operator's control word, and the results a controller run can end with:
\* the five documented ones, an uncaught exception, and a kill.
ControlState == {"RUNNING", "PAUSED", "STOPPED"}
ExitState ==
  {"NONE", "COMPLETE", "BLOCKED", "WAITING_APPROVAL", "PAUSED", "STOPPED",
   "CRASHED", "KILLED"}
=============================================================================
