------------------------------ MODULE Verifier ------------------------------
(***************************************************************************)
(* The verifier of the orchestrator: one `verify` of a task, test after    *)
(* test, with the rows it leaves in the event table.  Orchestrator knows   *)
(* only that the verdict may be either; here is what it rests on.          *)
(*                                                                         *)
(* A test is its type, whether its required fields are there, and what the *)
(* disk holds for it.  A behaviour writes a task's list of tests and then  *)
(* verifies it.  The store or the process table may fail at any point;     *)
(* what verify raises then is answered like a failed test.                 *)
(***************************************************************************)
EXTENDS Naturals, Sequences, SequencesExt

CONSTANT MaxTests      \* bound on the tests of a task

ASSUME VerifierAssumption == MaxTests \in Nat

VARIABLES
  tests,        \* the acceptance tests of the task
  evidentiary,  \* not non_evidentiary
  testsRun,     \* how many tests were tried
  verifyRows,   \* the events of this verification
  answer        \* "none" before verify, "open" while it works, then its answer

verifierVars == <<tests, evidentiary, testsRun, verifyRows, answer>>

TestType == {"command", "file_exists", "numeric_range", "metrics_recompute", "unknown"}

\* What a test may find.  A file: none; unreadable, or no number, no list, no square, a
\* negative entry; without a value ("nan", a JSON object that has no final_loss); out of
\* the range or off the expected mIoU; good.
Found == {"missing", "malformed", "nan", "off", "good"}
Test == [type : TestType, complete : BOOLEAN, found : Found]

VerifierInit ==
  /\ tests = <<>> /\ evidentiary \in BOOLEAN /\ testsRun = 0 /\ verifyRows = <<>> /\ answer = "none"

\* validate_plan has no say on most fields; a test of an unknown type is taken for a
\* command.  A file is there or not; an exit code is 0 or not; a mIoU is never NaN.
WriteTest(t) ==
  /\ answer = "none" /\ Len(tests) < MaxTests
  /\ t.type \in {"command", "unknown"} => t.found \in {"off", "good"}
  /\ t.type = "file_exists" => t.found \in {"missing", "good"}
  /\ t.type = "metrics_recompute" => t.found # "nan"
  /\ ~t.complete => t.found = "good"
  /\ tests' = Append(tests, t)
  /\ UNCHANGED <<evidentiary, testsRun, verifyRows, answer>>

-----------------------------------------------------------------------------
(* verify *)

LogRow(event, code) == [event |-> event, code |-> code]
Log(rows) == verifyRows' = verifyRows \o rows

\* A task that is no evidence needs a waiver and none of its tests is run; a task
\* without tests passes.
BeginVerify ==
  /\ answer = "none"
  /\ IF ~evidentiary
     THEN answer' = "waiver" /\ Log(<<LogRow("VERIFICATION_BYPASS", 0)>>)
     ELSE IF tests = <<>>
     THEN answer' = "pass" /\ Log(<<LogRow("VERIFICATION_PASS", 0)>>)
     ELSE answer' = "open" /\ UNCHANGED verifyRows
  /\ UNCHANGED <<tests, evidentiary, testsRun>>

\* The next test, if it is one of these types.
TryNext(types) ==
  /\ answer = "open" /\ testsRun < Len(tests)
  /\ tests[testsRun + 1].type \in types
  /\ testsRun' = testsRun + 1 /\ UNCHANGED <<tests, evidentiary>>
Current == tests[testsRun + 1]

\* One row per test; the first that does not pass decides.
TestAnswer(code) ==
  /\ Log(<<LogRow("ACCEPTANCE_RESULT", code)>>)
  /\ answer' = IF code = 0 THEN "open" ELSE "fail"

\* A required field is missing or empty: exit code -1, here 2.
SchemaError == TryNext(TestType) /\ ~Current.complete /\ TestAnswer(2)

FileExists ==
  TryNext({"file_exists"}) /\ Current.complete /\ TestAnswer(IF Current.found = "missing" THEN 1 ELSE 0)

\* A number, or final_loss of an object; NaN is in no range.
NumericRange ==
  TryNext({"numeric_range"}) /\ Current.complete /\ TestAnswer(IF Current.found = "good" THEN 0 ELSE 1)

\* The matrix must be square and without negative entries, and its mIoU within the
\* tolerance.  Then verify returns True at once: the tests behind it are not run and the
\* PASS row is not written.
MetricsRecompute ==
  /\ TryNext({"metrics_recompute"}) /\ Current.complete
  /\ IF Current.found = "good"
     THEN Log(<<LogRow("ACCEPTANCE_RESULT", 0)>>) /\ answer' = "pass"
     ELSE TestAnswer(1)

\* Anything that is no other type is run as a shell command, under its timeout.
CommandTest ==
  /\ TryNext({"command", "unknown"}) /\ Current.complete
  /\ TestAnswer(IF Current.found = "good" THEN 0 ELSE 1)

\* Mutant of EndVerify: a task whose tests are through has passed, whoever counts them.
EndVerifyEarly ==
  /\ answer = "open" /\ testsRun > 0
  /\ answer' = "pass" /\ Log(<<LogRow("VERIFICATION_PASS", testsRun)>>)
  /\ UNCHANGED <<tests, evidentiary, testsRun>>

EndVerify ==
  /\ answer = "open" /\ testsRun = Len(tests)
  /\ answer' = "pass" /\ Log(<<LogRow("VERIFICATION_PASS", testsRun)>>)
  /\ UNCHANGED <<tests, evidentiary, testsRun>>

\* verify says False and leaves a row that says why; when that row cannot be written
\* either, verify raises.
Breaks ==
  \/ answer' = "fail" /\ Log(<<LogRow("VERIFICATION_ERROR", 1)>>)
  \/ answer' = "raised" /\ UNCHANGED verifyRows

\* A test raises before its row is written - a log that cannot be written, a process that
\* cannot start - or its row cannot be: the store is locked.
Crash == TryNext(TestType) /\ Breaks

\* The row of a waiver or of a pass cannot be written.
CrashAround ==
  /\ \/ answer = "none" /\ (~evidentiary \/ tests = <<>>)
     \/ answer = "open" /\ testsRun = Len(tests)
  /\ Breaks /\ UNCHANGED <<tests, evidentiary, testsRun>>

\* The verifier tries itself on a file it has just made: one test, which passes unless the
\* temporary file cannot be made or the log cannot be written.
VerifierSelfTest ==
  /\ answer = "none" /\ tests = <<>> /\ evidentiary
  /\ tests' = <<[type |-> "file_exists", complete |-> TRUE, found |-> "good"]>>
  /\ answer' = "open"
  /\ UNCHANGED <<evidentiary, testsRun, verifyRows>>

VerifierNext ==
  \/ \E t \in Test : WriteTest(t)
  \/ BeginVerify \/ SchemaError \/ FileExists \/ NumericRange \/ MetricsRecompute
  \/ CommandTest \/ EndVerify \/ Crash \/ CrashAround \/ VerifierSelfTest

VerifierSpec == VerifierInit /\ [][VerifierNext]_verifierVars

-----------------------------------------------------------------------------
(* Properties *)

Passes(t) == t.complete /\ t.found = "good"

\* A task passes only by tests that passed: every test is good up to the last one or up
\* to the first metrics_recompute, which decides alone.  It has a waiver only if nothing
\* was tried, and it fails only by a test that fails or a row that says what broke.  The
\* rows tell a reader the same: one per test that was run, and a PASS row exactly when
\* none of the tests is a metrics_recompute.  With one, verify returns before that row,
\* even if it is the last test, where its comment says it falls through to it.
VerdictRestsOnTests ==
  LET results == {i \in DOMAIN verifyRows : verifyRows[i].event = "ACCEPTANCE_RESULT"}
      pass == \E i \in DOMAIN verifyRows : verifyRows[i].event = "VERIFICATION_PASS"
      error == \E i \in DOMAIN verifyRows : verifyRows[i].event = "VERIFICATION_ERROR"
      decided == {i \in DOMAIN tests : tests[i].type = "metrics_recompute"}
  IN  /\ answer = "pass" =>
           /\ \A i \in 1..testsRun : Passes(tests[i])
           /\ testsRun = Len(tests) \/ testsRun \in decided
           /\ \A i \in decided : testsRun <= i
           /\ pass <=> decided = {}
           /\ Cardinality(results) = testsRun
      /\ answer = "waiver" => testsRun = 0 /\ ~evidentiary
      /\ answer = "fail" => error \/ (~Passes(tests[testsRun]) /\ Cardinality(results) = testsRun)
      /\ pass => answer = "pass"
=============================================================================
