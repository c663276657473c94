---------------------------- MODULE PlanDocument ----------------------------
(***************************************************************************)
(* A plan document as it is written, task by task: every plan on the way   *)
(* may be read by any of the readers of PlanSchema.                        *)
(***************************************************************************)
EXTENDS PlanSchema

CONSTANTS
  Heading,      \* the documents without tasks that a plan starts as
  DocOpening,   \* the tasks a plan may begin with
  DocTask,      \* the tasks behind the first
  MaxTasks      \* bound on the tasks of a plan

Mode == {"absent", "known", "review"}

ASSUME DocumentAssumption ==
  /\ Heading \subseteq [front : BOOLEAN, named : BOOLEAN, current : BOOLEAN, mode : Mode,
                        fields : BOOLEAN, tasks : {<<>>}]
  /\ DocOpening \cup DocTask \subseteq TaskDef(STRING, Seq(STRING))
  /\ MaxTasks \in Nat

VARIABLE document    \* the plan file

DocInit == document \in Heading

WriteTask(t) ==
  /\ Len(document.tasks) < MaxTasks
  /\ t \in IF document.tasks = <<>> THEN DocOpening ELSE DocTask
  /\ document' = [document EXCEPT !.tasks = Append(@, t)]

DocNext == \E t \in DocOpening \cup DocTask : WriteTask(t)

DocSpec == DocInit /\ [][DocNext]_document

-----------------------------------------------------------------------------
(* Properties *)

\* What all readers of a plan let through names earlier tasks only, and the two searches
\* for a cycle say the same of every plan (plan_schema.py, plan_validate.py).
PlanChecksAgree == Ordered(document) /\ SearchesAgree(document)
=============================================================================
