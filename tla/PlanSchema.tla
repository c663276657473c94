----------------------------- MODULE PlanSchema -----------------------------
(***************************************************************************)
(* The three readers of a plan file: the schema (plan_schema.py), which    *)
(* `start` consults first and falls back from for legacy plans; the older  *)
(* validator (plan_validate.py), which the claim consults afterwards; and  *)
(* the doctor's own look at the task graph.  Each has its own idea of a    *)
(* dependency error.                                                       *)
(*                                                                         *)
(* A plan is a record: whether it has frontmatter and a name, whether its  *)
(* schema version is the current one, its mode string ("absent", one the   *)
(* migration table maps, or one a human must review), whether its three    *)
(* mode fields have legal values, and its tasks in file order.             *)
(***************************************************************************)
EXTENDS Loops, Sequences, FiniteSets, SequencesExt

\* One task.  tests is acceptance_tests, accept whether the older key
\* `acceptance` is filled in; deps are the ids named by depends_on.
TaskDef(Id, Deps) ==
  [id : Id, deps : Deps, tests : {"missing", "empty", "some"}, waived : BOOLEAN,
   accept : BOOLEAN]

Ids(tasks) == {tasks[i].id : i \in DOMAIN tasks}
EarlierIds(tasks, i) == {tasks[j].id : j \in 1..i}

\* by_id: of two tasks with one id the later one is kept.
DepsOf(tasks, id) ==
  LET last == CHOOSE i \in DOMAIN tasks :
                /\ tasks[i].id = id
                /\ \A j \in DOMAIN tasks : tasks[j].id = id => j <= i
  IN tasks[last].deps

-----------------------------------------------------------------------------
(* Depth-first cycle search, shared by the two validators, over the graph  *)
(* of what each id depends on.  unknown says what a dependency on an id no *)
(* task has does: the schema colours it gray and goes on, the older        *)
(* validator calls it a cycle.                                             *)

Graph(tasks) == [id \in Ids(tasks) |-> DepsOf(tasks, id)]
Names(graph) == DOMAIN graph \cup UNION {Range(graph[id]) : id \in DOMAIN graph}

\* "unknown": the dictionary of colours has no such key.
Color == {"white", "gray", "black", "unknown"}
SearchState(graph) == [color : [Names(graph) -> Color], cyclic : BOOLEAN]

\* One dependency of a task; visit is what a visit of a task makes of a state.
Follow(unknown, visit, s, dep) ==
  IF s.cyclic \/ s.color[dep] = "black" THEN s
  ELSE IF s.color[dep] = "white" THEN visit[dep][s]
  ELSE IF s.color[dep] = "unknown" /\ unknown = "gray" THEN [s EXCEPT !.color[dep] = "gray"]
  ELSE [s EXCEPT !.cyclic = TRUE]

Visit(states, unknown, visit, s, id, deps) ==
  LET out == AfterLoop(Len(deps), [s EXCEPT !.color[id] = "gray"],
               [k \in 1..Len(deps) |-> [t \in states |-> Follow(unknown, visit, t, deps[k])]])
  IN  IF out.cyclic THEN out ELSE [out EXCEPT !.color[id] = "black"]

\* A visit meets white tasks only and paints them, so it calls itself as deep as there are
\* tasks at most.
Visits(graph, unknown) ==
  LET states == SearchState(graph)
      deep == Cardinality(DOMAIN graph)
      visits[n \in 0..deep] ==
        IF n = 0 THEN [id \in DOMAIN graph |-> [s \in states |-> s]]
        ELSE [id \in DOMAIN graph |->
               [s \in states |-> Visit(states, unknown, visits[n - 1], s, id, graph[id])]]
  IN  visits[deep]

Unvisited(graph) ==
  [color |-> [id \in Names(graph) |-> IF id \in DOMAIN graph THEN "white" ELSE "unknown"],
   cyclic |-> FALSE]

\* Mutant of Search: only what the first task depends on is looked at.
SearchFirst(tasks, unknown) ==
  LET graph == Graph(tasks) IN
  IF tasks = <<>> THEN Unvisited(graph)
  ELSE Visits(graph, unknown)[tasks[1].id][Unvisited(graph)]

Search(tasks, unknown) ==
  LET graph == Graph(tasks)
      visit == Visits(graph, unknown)
      Root(s, id) == IF s.cyclic \/ s.color[id] # "white" THEN s ELSE visit[id][s]
  IN  AfterLoop(Len(tasks), Unvisited(graph),
           [i \in 1..Len(tasks) |-> [s \in SearchState(graph) |-> Root(s, tasks[i].id)]])

HasCycle(tasks) == Search(tasks, "gray").cyclic
DetectCycles(tasks) == Search(tasks, "cycle").cyclic

-----------------------------------------------------------------------------
(* The schema: load_plan, and the legacy fallback of `start` *)

\* Mutant of UnknownDeps: any declared id will do.
UnknownDepsAnywhere(tasks) ==
  \E i \in DOMAIN tasks : ~(Range(tasks[i].deps) \subseteq Ids(tasks))

UnknownDeps(tasks) ==
  \E i \in DOMAIN tasks : ~(Range(tasks[i].deps) \subseteq EarlierIds(tasks, i))

DuplicateIds(tasks) == \E i, j \in DOMAIN tasks : i # j /\ tasks[i].id = tasks[j].id

\* A mode string the table maps overrides the three fields with legal values.
LegalFields(d) == d.mode = "known" \/ d.fields

ValidationErrors(d) ==
  {e \in {"schema_version", "mode", "fields", "duplicate", "acceptance_tests", "deps", "circular"} :
     CASE e = "schema_version" -> ~d.current
       [] e = "mode" -> d.mode = "review"
       [] e = "fields" -> ~LegalFields(d)
       [] e = "duplicate" -> DuplicateIds(d.tasks)
       [] e = "acceptance_tests" ->
            \E i \in DOMAIN d.tasks : d.tasks[i].tests = "missing" /\ ~d.tasks[i].waived
       [] e = "deps" -> UnknownDeps(d.tasks)
       [] e = "circular" -> HasCycle(d.tasks)}

LoadPlan(d) == d.front /\ ValidationErrors(d) = {}

\* A task without acceptance tests becomes non-evidentiary with an empty list.
MigrateTask(t) ==
  IF t.tests = "missing" THEN [t EXCEPT !.tests = "empty", !.waived = TRUE] ELSE t

MigrateLegacyPlan(d) ==
  [d EXCEPT !.current = TRUE, !.tasks = [i \in DOMAIN @ |-> MigrateTask(@[i])]]

\* cmd_start and the self test.  A plan that has frontmatter and errors reaches
\* yaml.safe_load with two documents in it, which raises; a legacy plan's cycles
\* and unknown dependencies are filtered out of its errors.
SchemaVerdict(d) ==
  IF LoadPlan(d) THEN "ok"
  ELSE IF d.front THEN "crash"
  ELSE IF ValidationErrors(MigrateLegacyPlan(d)) \subseteq {"circular", "deps", "schema_version"}
       THEN "ok" ELSE "invalid"

-----------------------------------------------------------------------------
(* The older validator, and the doctor *)

MissingAcceptance(tasks) == \E i \in DOMAIN tasks : ~tasks[i].accept

FrontmatterOK(d) ==
  /\ d.front /\ d.named
  /\ ~DetectCycles(d.tasks)
  /\ ~MissingAcceptance(d.tasks)

\* Only declared ids count here, in any order; without frontmatter no task is seen.
DoctorRejects(d) ==
  d.front /\ \E i \in DOMAIN d.tasks : ~(Range(d.tasks[i].deps) \subseteq Ids(d.tasks))

\* _ensure_task_graph: the first task is READY; a plan without tasks gets PLAN_REVIEW.
FirstTask(d) == IF d.tasks = <<>> THEN "PLAN_REVIEW" ELSE d.tasks[1].id

-----------------------------------------------------------------------------
(* Properties of a plan document d *)

\* A cycle: tasks each of which depends on another one of them.
Cyclic(tasks) ==
  \E C \in (SUBSET Ids(tasks)) \ {{}} :
    \A id \in C : Range(Graph(tasks)[id]) \cap C # {}

\* A plan both readers accept has distinct ids and depends backwards only, so taking
\* its tasks in file order is sound, whatever else the two readers disagree about.
Ordered(d) ==
  SchemaVerdict(d) = "ok" /\ FrontmatterOK(d) =>
    /\ \A i, j \in DOMAIN d.tasks : d.tasks[i].id = d.tasks[j].id => i = j
    /\ \A i \in DOMAIN d.tasks : Range(d.tasks[i].deps) \subseteq EarlierIds(d.tasks, i) \ {d.tasks[i].id}

\* Where no task depends on an id nobody has, both searches find a cycle just when
\* there is one, with ids declared twice included.
SearchesAgree(d) ==
  (\A i \in DOMAIN d.tasks : Range(d.tasks[i].deps) \subseteq Ids(d.tasks)) =>
    HasCycle(d.tasks) = Cyclic(d.tasks) /\ DetectCycles(d.tasks) = Cyclic(d.tasks)
=============================================================================
