----------------------------- MODULE PlanForms ------------------------------
(***************************************************************************)
(* A plan on its way from the file into the task table.  The file is a     *)
(* PlanSchema document in one of four shapes; the controller loads it as a *)
(* canonical plan or, where that fails, as a legacy one, and each way has  *)
(* its own idea of what a task's keys are called.                          *)
(*                                                                         *)
(* Beyond PlanSchema a task has: key, the key its dependencies stand       *)
(* under; policy, the key its retry policy counts by; titled, whether it   *)
(* has a name.                                                             *)
(***************************************************************************)
EXTENDS PlanSchema

CONSTANTS
  FormOpening,  \* the tasks a plan may begin with
  FormTask,     \* the tasks behind the first
  MaxForms      \* bound on the tasks of a plan

TaskForm == [id : STRING, deps : Seq(STRING), tests : {"missing", "empty", "some"}, waived : BOOLEAN,
             key : {"deps", "depends_on"}, policy : {"max_attempts", "max_retries"}, titled : BOOLEAN]

ASSUME FormAssumption == FormOpening \cup FormTask \subseteq TaskForm /\ MaxForms \in Nat

VARIABLES
  planText,    \* the plan file
  table,       \* the rows of the task table, in order
  ran          \* how the last `run` went

formVars == <<planText, table, ran>>

\* Frontmatter, a mapping without it (JSON or YAML), a list of tasks, anything else.
Shape == {"front", "mapping", "list", "scalar"}

\* A list has no mode.  Of the modes in the migration table "known" is one the
\* controller runs, strict or optimized.
FormInit ==
  /\ \E shape \in Shape, mode \in {"absent", "known", "review"} :
       /\ shape \in {"list", "scalar"} => mode = "absent"
       /\ planText = [shape |-> shape, front |-> shape = "front", named |-> TRUE,
                      current |-> shape # "list", mode |-> mode, fields |-> TRUE, tasks |-> <<>>]
  /\ table = <<>> /\ ran = "none"

WriteForm(t) ==
  /\ ran = "none" /\ Len(planText.tasks) < MaxForms /\ planText.shape # "scalar"
  /\ t \in IF planText.tasks = <<>> THEN FormOpening ELSE FormTask
  /\ planText' = [planText EXCEPT !.tasks = Append(@, t)]
  /\ UNCHANGED <<table, ran>>

-----------------------------------------------------------------------------
(* Loading *)

\* _dict_to_task: either key will do for the dependencies, only max_attempts counts.
DictToTask(t) ==
  [id |-> t.id, deps |-> t.deps, tests |-> t.tests, waived |-> t.waived,
   attempts |-> IF t.policy = "max_attempts" THEN 2 ELSE 1, titled |-> TRUE]
DictToPlan(d) == [d EXCEPT !.tasks = [i \in DOMAIN @ |-> DictToTask(@[i])]]

Testless(tests) == IF tests = "missing" THEN "empty" ELSE tests

\* Mutant of RuntimeTask: attempts are taken for retries.
RuntimeTaskAttempts(t) ==
  [id |-> t.id, deps |-> t.deps, tests |-> Testless(t.tests), waived |-> t.waived,
   retries |-> t.attempts, titled |-> TRUE]

\* to_runtime_dict: the retries are the attempts but the first.
RuntimeTask(t) ==
  [id |-> t.id, deps |-> t.deps, tests |-> Testless(t.tests), waived |-> t.waived,
   retries |-> IF t.attempts > 0 THEN t.attempts - 1 ELSE 0, titled |-> t.titled]
ToRuntimeDict(p) == [i \in DOMAIN p.tasks |-> RuntimeTask(p.tasks[i])]

\* A migrated legacy plan is not converted: the store will look for `deps`, which the
\* migration has set to an empty list where it was not there, and for max_retries.
LegacyTask(t) ==
  LET m == MigrateTask(t) IN
  [id |-> t.id, deps |-> IF t.key = "deps" THEN t.deps ELSE <<>>, tests |-> m.tests,
   waived |-> m.waived, retries |-> IF t.policy = "max_retries" THEN 1 ELSE 0, titled |-> t.titled]

Refused == [ok |-> FALSE, tasks |-> <<>>]

\* controller.load_plan.  A plan with frontmatter that has errors, read as YAML, is two
\* documents, which raises; cycles and unknown dependencies are left to the scheduler.
ControllerLoad(d) ==
  IF LoadPlan(d) THEN [ok |-> TRUE, tasks |-> ToRuntimeDict(DictToPlan(d))]
  ELSE IF d.shape = "mapping" /\ ValidationErrors(MigrateLegacyPlan(d)) \subseteq {"circular", "deps"}
       THEN [ok |-> TRUE, tasks |-> [i \in DOMAIN d.tasks |-> LegacyTask(d.tasks[i])]]
  ELSE Refused

\* `start` takes a list for the tasks of a plan that has nothing else.
StartVerdict(d) == IF d.shape = "scalar" THEN "invalid" ELSE SchemaVerdict(d)

\* dump_plan writes the canonical keys and leaves out non_evidentiary and the mode.
DumpPlan(d) ==
  [d EXCEPT !.mode = "absent",
            !.tasks = [i \in DOMAIN @ |-> [@[i] EXCEPT !.waived = FALSE, !.key = "deps", !.titled = TRUE]]]

-----------------------------------------------------------------------------
(* run *)

TaskRow == [id : STRING, deps : Seq(STRING), tests : {"empty", "some"}, waived : BOOLEAN, retries : Nat,
        titled : BOOLEAN]

\* A runtime plan has no mode; a legacy one has its own.
ModeGiven(d, option) == option \/ (d.shape = "mapping" /\ d.mode = "known")

\* create_tasks: one transaction; rows that are there stay as they are; a task without a
\* name raises.
CreateTasks(tasks) ==
  AfterLoop(Len(tasks), table,
            [i \in 1..Len(tasks) |->
              [rows \in Seq(TaskRow) |-> IF tasks[i].id \in Ids(rows) THEN rows ELSE Append(rows, tasks[i])]])

\* detect_cycles: take away what depends on nothing that is left.
Pass(rows, seen) ==
  seen \cup {rows[j].id : j \in {k \in DOMAIN rows : Range(rows[k].deps) \subseteq seen}}
Visited(rows) ==
  AfterLoop(Len(rows), {}, [i \in 1..Len(rows) |-> [seen \in SUBSET Ids(rows) |-> Pass(rows, seen)]])
CyclesFound(rows) ==
  \/ \E i \in DOMAIN rows : ~(Range(rows[i].deps) \subseteq Ids(rows))
  \/ Visited(rows) # Ids(rows)

\* Commands may follow each other; those behind the first meet its rows.
RunForm(option) ==
  /\ planText.tasks # <<>>
  /\ LET loaded == ControllerLoad(planText) IN
       IF ~loaded.ok \/ ~ModeGiven(planText, option)
       THEN ran' = "refused" /\ UNCHANGED table
       ELSE IF \E i \in DOMAIN loaded.tasks : ~loaded.tasks[i].titled
       THEN ran' = "raised" /\ UNCHANGED table
       ELSE /\ table' = CreateTasks(loaded.tasks)
            /\ ran' = IF CyclesFound(table') THEN "blocked" ELSE "running"
  /\ UNCHANGED planText

FormNext ==
  \/ \E t \in FormOpening \cup FormTask : WriteForm(t)
  \/ \E option \in BOOLEAN : RunForm(option)

FormSpec == FormInit /\ [][FormNext]_formVars

-----------------------------------------------------------------------------
(* Properties *)

\* The task that a plan asks for: what the older validator and the doctor read.
Asked(t) ==
  [id |-> t.id, deps |-> t.deps, tests |-> Testless(t.tests), waived |-> t.waived \/ t.tests = "missing"]
Got(row) == [id |-> row.id, deps |-> row.deps, tests |-> row.tests, waived |-> row.waived]

\* A canonical plan that is dumped can be loaded again unless it waives a task that gives
\* no tests; then the tasks are the same, except that what needed a waiver needs none.
DumpLoadsAgain ==
  LoadPlan(planText) =>
    LET before == ControllerLoad(planText)
        after == ControllerLoad(DumpPlan(planText))
    IN  /\ after.ok <=> \A i \in DOMAIN planText.tasks : planText.tasks[i].tests # "missing"
        /\ after.ok => after.tasks = [i \in DOMAIN before.tasks |-> [before.tasks[i] EXCEPT !.waived = FALSE]]

\* What runs is what was written and what `start` accepted: the controller loads exactly
\* the plans `start` accepts, but for bare lists; the rows it runs are the plan's tasks
\* with their tests, waivers and dependencies, and no task among them waits for itself or
\* for nobody.  Two things get lost on the way, and no others: the dependencies of a
\* legacy task that stand under depends_on, and a retry policy counted by the other
\* form's key.  What is dumped is what was loaded.
PlanReachesTable ==
  LET t == planText.tasks IN
  /\ ControllerLoad(planText).ok <=> StartVerdict(planText) = "ok" /\ planText.shape # "list"
  /\ table # <<>> =>
       /\ Len(table) = Len(t)
       /\ \A i \in DOMAIN t :
            /\ Got(table[i]) = IF planText.front \/ t[i].key = "deps" THEN Asked(t[i])
                               ELSE [Asked(t[i]) EXCEPT !.deps = <<>>]
            /\ table[i].retries = IF planText.front = (t[i].policy = "max_attempts") THEN 1 ELSE 0
  /\ LET sound == ~Cyclic(table) /\ \A i \in DOMAIN table : Range(table[i].deps) \subseteq Ids(table)
     IN  (ran = "running" => sound) /\ (ran = "blocked" => ~sound)
  /\ DumpLoadsAgain
=============================================================================
