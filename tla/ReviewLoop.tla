----------------------------- MODULE ReviewLoop -----------------------------
(***************************************************************************)
(* The review of a reproduction: up to max_iterations looks at the tasks   *)
(* of the store, 0.1 s apart, while the orchestrator goes on.              *)
(*                                                                         *)
(* The store says PASSED and FAILED.  The review looks for PASS and FAIL,  *)
(* so of all tasks it sees the RUNNING and the VERIFYING ones, and takes   *)
(* each for a failed one: the pass rate is 0 throughout.  It collects no   *)
(* metric at all, so a required metric is always missing.                  *)
(***************************************************************************)
EXTENDS Naturals, FiniteSets

CONSTANTS
  ReviewTask,        \* the tasks under review
  ReviewConfig       \* the configurations: the registered presets, and any other

ASSUME ReviewAssumption ==
  ReviewConfig \subseteq [iterations : Nat, autoStop : BOOLEAN, threshold : Nat]

VARIABLES
  taskOf,       \* ReviewTask -> its status in the store
  config,       \* the configuration of this review
  demands,      \* what the caller asks for: a metric, a pattern in the evidence
  iteration,    \* iterations done
  fails,        \* _consecutive_fails
  verdict,      \* of the last iteration
  failures,     \* what it found wrong
  final         \* what run returned: "none" while it runs

reviewVars == <<taskOf, config, demands, iteration, fails, verdict, failures, final>>

ReviewStatus == {"RUNNING", "VERIFYING", "PASSED", "FAILED"}
Verdict == {"GO", "PIVOT", "NO-GO"}

ReviewInit ==
  /\ taskOf \in [ReviewTask -> {"RUNNING", "PASSED", "FAILED"}]
  /\ config \in ReviewConfig /\ demands \in SUBSET {"metric", "pattern"}
  /\ iteration = 0 /\ fails = 0 /\ verdict = "none" /\ failures = {} /\ final = "none"

\* The orchestrator goes on between two looks; a failed task is retried.
Ahead == {<<"RUNNING", "VERIFYING">>, <<"VERIFYING", "PASSED">>, <<"VERIFYING", "FAILED">>,
          <<"FAILED", "RUNNING">>}

TaskMoves(t) ==
  /\ final = "none"
  /\ \E s \in ReviewStatus : <<taskOf[t], s>> \in Ahead /\ taskOf' = [taskOf EXCEPT ![t] = s]
  /\ UNCHANGED <<config, demands, iteration, fails, verdict, failures, final>>

\* The tasks that go into the evidence, each without a "passed".
Evidence == {t \in ReviewTask : taskOf[t] \in {"RUNNING", "VERIFYING"}}

\* A pattern is looked for in the text of the evidence, which changes.
FailuresNow ==
  {f \cup {"task" : t \in Evidence} \cup (demands \cap {"metric"}) :
     f \in SUBSET (demands \cap {"pattern"})}

\* Other than by the pass rate, the review pivots when a metric is missing and a task failed.
ShouldPivot(f) == {"metric", "task"} \subseteq f

VerdictOn(f) ==
  IF f = {} THEN "GO" ELSE IF ShouldPivot(f) THEN "PIVOT" ELSE "NO-GO"

\* Mutant of Aggregate: the verdict of the last iteration stands.
AggregateLast(failed, last) == last

\* After threshold failures the verdict is NO-GO, whatever the last one was.
Aggregate(failed, last) == IF failed >= config.threshold THEN "NO-GO" ELSE last

\* One iteration, its event, and the decision to go on.
Iterate ==
  /\ final = "none" /\ iteration < config.iterations
  /\ failures' \in FailuresNow /\ verdict' = VerdictOn(failures') /\ iteration' = iteration + 1
  /\ fails' = IF verdict' = "GO" THEN fails ELSE fails + 1
  /\ final' = IF verdict' = "GO" THEN "GO"
              ELSE IF \/ config.autoStop /\ fails' >= config.threshold
                      \/ iteration' = config.iterations THEN Aggregate(fails', verdict')
              ELSE "none"
  /\ UNCHANGED <<taskOf, config, demands>>

\* A review that may not look once has no results.
NoResults ==
  /\ final = "none" /\ config.iterations = 0 /\ final' = "NO-GO"
  /\ UNCHANGED <<taskOf, config, demands, iteration, fails, verdict, failures>>

ReviewNext == Iterate \/ NoResults \/ \E t \in ReviewTask : TaskMoves(t)

ReviewSpec == ReviewInit /\ [][ReviewNext]_reviewVars

-----------------------------------------------------------------------------
(* Properties *)

\* How a review ends, whatever the tasks do between its looks.  GO: at the last look no
\* task was underway, whatever became of the others, no metric was asked for and nothing was
\* missing.  Else every look was a failed one, and the review went on as long as it may: to
\* its last iteration, or, if it stops by itself, to the threshold and not beyond.  NO-GO is
\* said from the threshold on, so PIVOT, which the class and run promise like the other two,
\* only by a configuration whose threshold is out of reach; no preset is one.
ReviewSettles ==
  final # "none" =>
    /\ final = "GO" => Evidence = {} /\ "metric" \notin demands /\ failures = {} /\ fails < iteration
    /\ final # "GO" =>
         /\ fails = iteration
         /\ (iteration = config.iterations) \/ (config.autoStop /\ fails >= config.threshold)
    /\ config.autoStop => fails <= config.threshold \/ fails <= 1
    /\ final = "PIVOT" => ShouldPivot(failures) /\ config.threshold > config.iterations
    /\ final = "NO-GO" => fails >= config.threshold \/ ~ShouldPivot(failures)
=============================================================================
