# A TLA+ model of kestrel-repro

kestrel-repro runs reproduction plans: a plan is a graph of tasks with gates,
commands and acceptance tests; an orchestrator starts the tasks as processes,
verifies what they did, asks humans where the policy wants it, and survives
being stopped and started again. Around it stand a startup state machine with a
lock and files of its own, an older experiment driver, two kinds of daemons, a
verification catalogue with a GPU lock, a soak engine, a review loop, and tools
that keep evidence, backups, checkpoints, caches and reports. This directory
models them, checks the models with TLC and proves the main properties with
TLAPS.

## Inventory of the system

Paths are under `scripts/`.

| Component | State it keeps | Operations | Here |
|---|---|---|---|
| state store, `core/state_store.py` | SQLite rows: tasks, approvals, control word, authorization, events, metadata | one `BEGIN IMMEDIATE` transaction per operation | `TaskStates`, `StateStore`, `Authorization` |
| controller, `orchestrator/controller.py` | its place in the loop, row copies, `_waiting_since` | recover, tick, collect, verify, fail and retry, schedule, exit | `Orchestrator` |
| scheduler, `orchestrator/scheduler.py` | none | `detect_cycles`, `refresh`, `select_ready` | `Orchestrator`, `PlanForms` |
| approval gate, `orchestrator/approval_gate.py` | none (rows of the store) | request, approve, reject, expiry, auto-approval | `Orchestrator` |
| process manager, task executor | handles of children, pids in the store | start, poll, terminate, launch guard | `Orchestrator` |
| recovery, `orchestrator/recovery.py` | none | adopt or recover RUNNING rows; checkpoint checks and advice | `Orchestrator`, `Checkpoints` |
| watchdog | none | timeouts; terminate all; diagnosis | `Orchestrator` |
| verifier, `orchestrator/verifier.py` | verification rows, artifacts, reports | the acceptance tests of a task | `Verifier`; three outcomes in `Orchestrator` |
| policy engine | policy file | decision per task, safe-auto path boundary | `PolicyEngine`, `WriteBoundary` |
| command line, `orchestrator/cli.py` | `controller.pid` | run, pause, continue, stop, next, approve, reject, daemon | `Orchestrator`, `Daemons` |
| event journal | JSONL mirror of the events | append, read, repair | `EventJournal` |
| authorization, `startup/authorization.py` and `state_store.py` | contracts and bound hashes | grant, revoke, check, consume, re-confirm | `Authorization`, `WriteBoundary` |
| startup state machine, project lock, `startup/` | `execution_state.json`, task graphs, checkpoint, `run.lock` | start, dry run, claim one task, stop, resume, stale-lock takeover | `Startup` |
| plan schema, plan validation | none | two validators, the legacy migration, conversion to task rows | `PlanSchema`, `PlanForms` |
| migration, backup, integrity check | schema version, archives | migrate, snapshot, restore, check | `Authorization`, `Backup`, `Inspection` |
| startup services | reports, allow-lists | doctor, storage cleanup, generated texts, redaction | `Inspection`, `Storage` |
| stop hook, evidence, reports | state and checkpoint files, run directories, index | save on a signal; create and complete runs; conclude | `StopHook`, `Evidence`, `Reports` |
| review loop and agents | review report | rounds, votes, one verdict | `ReviewLoop` |
| continuous verification, `cvo/` | node files, one `<id>.tmp` each, GPU lock | init, run-next, run-node, run-stage, retry | `Cvo` |
| soak engine and services, `ostar/` | soak database, `ostar.pid` | start, plan, pause, resume, stop, cycles | `Soak` |
| metrics, `repro_agent/metrics/` | none | recompute segmentation and change metrics | `Metrics` |
| drivers: `reproctl.py`, `autopilot.py`, `commands/repro_start.py`, `l0_l3_loop.py` | ledger and its `state.tmp`, tracker, `autopilot.pid`, contract file, results file | gates, launches, loops, daemons, cleanup | `Reproctl`, `Daemons`, `Storage`, `GuidedStart`, `LevelLoop` |
| stand-alone tools | caches, capacity files | batch search, crawling, measuring | `PerfTuner`, `Crawler` |

The parts interact through the store and through files. The controller and the
command line are separate processes; each writes rows the other has read a
moment ago. Task processes are children of the controller that started them and
outlive it: a later controller adopts them by pid, without being able to learn
their exit code. Time drives expiry of approvals, task timeouts, retry delays
and the idle limit of a run. The programs around the orchestrator share files
instead of rows: each reads a file whole, works, and writes it whole, most of
them in place and without a lock.

What makes this hard:

- *Stale copies.* Every loop of the controller iterates over row copies; the
  ledger, the tracker, the evidence index and the plan are read long before
  they are written back or relied on.
- *Unconditional writes.* `create_approval`, `decide_approval` and `set_process`
  write a row whatever state it is in.
- *Several transactions per duty.* Failing a task takes three, asking for a
  waiver two, auto-approval three, starting a process two and a fork; recording
  a plan, and upgrading a schema, several of one metadata value each.
- *Locks that are checked, removed and written in steps*: the project lock, the
  GPU lock, three pid files. Nothing makes a user wait for one command before
  the next is given.
- *One temporary file for all writers*: `controller.tmp`, `state.tmp`,
  `<id>.tmp`. Two writers at once empty, mix or move away each other's text.
- *Kills and restarts* between any two of those, also between truncating a file
  and filling it.
- *Timeouts, retries and late answers* of processes and of humans, and signals
  that arrive inside their own handler.

What makes the parts correct: nothing runs without its dependencies, without
the approval its gate needs, twice at once or beyond its retry budget; a row
that waits can be decided; what a run reports is true and stays true; every run
ends; a file is torn only by a kill, and what is read back is what one writer
wrote; a lock or pid file keeps a second one out; what a validator lets through
is what the next reader understands. `PROJECT.json` lists the hazards at their
lines.

## Modules

The orchestrator, composed of several components:

- `TaskStates`: states, legal transitions, decisions. Pure.
- `PolicyEngine`: the decision for a gate under the default policy and
  safe-auto. Whether a write or the command leaves the allowed roots is one bit
  per task (`OutsideWrites`).
- `StateStore`: `task`, `approval`, `control`, and one operator per transaction
  of `state_store.py`. `overridden` is a history variable: the tasks a decision
  or a request was written over while they were not waiting for it.
- `Orchestrator`: the composition. `pc` is the place in `Controller.run` and the
  methods it calls; `todo`, `cur`, `ret`, `expiring` and `waiting` are the local
  variables alive there; `live`, `child` and `exited` are the task processes;
  `overtime` and `delaying` stand for clocks. Each action ends at most one store
  transaction, so that every other actor can act between a read and the write
  that relies on it. An uncaught exception is `Raise`: the transaction is rolled
  back, the run is over.
- `TaskLifecycle`: the abstract specification, what an operator may rely on. A
  row moves along the legal edges; it is released behind its dependencies, each
  start costs an attempt, retries stay within the budget; a decision out of turn
  is visible as such.
- `OrchestratorProperties`: the properties and the refinement mapping.
- `MCOrchestrator`: three small plans for TLC.

The components around it. Each is a module with its own variables; programs
interleave at the granularity of one file operation or one transaction, and a
kill may come between any two:

- `Startup` (`startup/`): one claim of one task at a time, with
  `execution_state.json`, the two task graphs, the checkpoint and the lock as
  variables, and start, dry run, self test, resume, stop, verify and doctor as
  chains of steps of a process. `ReadLock`, `UnlinkStale`, `PutTmp`, `MoveTmp`
  are the steps of `lock.acquire`.
- `PlanSchema` (`plan_schema.py`, `plan_validate.py`): a plan is a sequence of
  tasks with dependencies; the two validators, the doctor's check, the legacy
  migration and the depth-first search, as a recursive function of how deep a
  visit may call itself. `PlanDocument`: a plan as it is written, task by task.
  `PlanForms`: what the forms a plan may take turn into on the way to the task
  table, with both names of dependencies, retries and modes.
- `Authorization`: contracts, bound hashes and schema version, one action per
  transaction of `record_plan`, `start`, `migrate`, `_refresh` and the commands.
- `WriteBoundary`: paths as sequences of steps over a tree with links: the
  safe-auto boundary of the policy engine and the path check of a contract,
  beside the place where a write lands.
- `EventJournal`: the database's events and the lines of the file, torn ones
  included.
- `Backup`: snapshot, restore and verification file by file, while the files
  change. `Inspection`: the doctor's checks as a function of what ails a
  machine, and the integrity check, which reads rows, then processes, while a
  controller works.
- `Reproctl`: the ledger of `reproctl.py` (init, update-gate, launch, short loop),
  loaded, held and saved through the `state.tmp` all commands share, and the
  experiment tracker (record, update).
- `Daemons`: the pid files of both daemons, start and stop as chains of steps, any
  number of them at once, runs in the foreground, and the controllers.
- `Soak`: `ostar` start, plan, pause, resume and stop, any number at once, and the
  engine from guard to its end.
- `Cvo`: node files and their temporary files, the GPU lock and its age, and every
  command over them, one file operation at a time.
- `ReviewLoop`: iterations, failures and the verdict, for any configuration.
- `StopHook`: the hook's lock, its saves and the errors it swallows, with signals
  nested in each other.
- `Storage`: `cleanup`, its two plans and the approved file, while checkpoints
  are saved.
- `PerfTuner`: the batch search over every outcome of its trials; `Crawler`:
  pages and ETags in the cache, with conditional requests and retries.
- `Metrics`: the confusion matrix and every metric of `recompute.py`, over
  integers, compared with definitions by sets of pixels. `Loops`: a loop of the
  code as a recursive function, for these three.
- `Verifier`: `verify_task` test by test, with its processes and artifacts.
- `Evidence`: `evidence_manager.py`, every write of a run's directory and of the
  index, and what its readers are told or not told.
- `Reports`: the verdicts and aggregates of `report_generator.py`.
- `Checkpoints`: the questions recovery answers file by file while training saves.
- `GuidedStart`, `LevelLoop`: the guided start with the contract file it may
  find or write, and the L0-L3 loop.
- `MCStartup`, `MCServices`: instances for TLC. A behaviour of `MCServices` is a
  behaviour of one of the components, chosen at the start; the variables of the
  others rest at their first value.
- `Orchestrator*_proofs`, `Startup_proofs`, `Commands_proofs` (the programs that are run
  as commands: authorization, ledger, daemons, soak engine, verification), `Data_proofs`
  (plans and metrics), `Services_proofs` (all others) and `Loops_proofs`, the lemmas on
  loops both build on: theorems, see below.

Operators called "Mutant of X" are plausible mistakes in X; each is used to
check that the property named for it in `PROJECT.json` notices.

### How actions correspond to code

Every definition's file, symbol and lines are in `PROJECT.json` under "map". For
the orchestrator:

| Place | Actions | Code |
|---|---|---|
| start, recovery | `Start`, `RecoverAlive`, `RecoverDead`, `RecoverRaises`, `RecoverDone` | `Controller.__init__`, `RecoveryManager.recover`, `Scheduler.detect_cycles` |
| head of the tick | `Tick`, `Expire`, `HonourControl`, `StartCollecting` | `cleanup_expired`, `control_state`, `Watchdog.terminate_running` |
| processes | `CollectIdle`, `CollectTimeout`, `CollectSuccess`, `CollectFailure` | `_collect_processes`, `Watchdog.inspect`, `ProcessManager.poll` |
| failure | `FailSkip`, `FailRead`, `FailWrite`, `RetrySchedule`, `RetryExhausted` | `_fail` |
| verification | `VerifyPass`, `VerifyFail`, `VerifyNonEvidentiary`, `WaiverTransition` | `_run_verifications`, `ApprovalGate.request` |
| scheduler | `Promote`, `Unblock`, `NoCapacity`, `Selected` | `Scheduler.refresh`, `select_ready` |
| scheduling | `ScheduleExecute`, `ScheduleReject`, `ScheduleRequest`, `ScheduleAutoRequest`, `AutoApprove`, `AutoCheck`, `Claim`, `Launch`, `RecordProcess`, and their failures | `_schedule`, `TaskExecutor.launch` |
| result | `TerminalStay`, `TerminalWait`, `TerminalExit`, `PendingNone`, `PendingExit`, `PendingStay` | `_terminal_result` |
| others | `OperatorDecides`, `OperatorPauses`, `OperatorStops`, `OperatorTerminates`, `OperatorNext` | `orchestrator/cli.py` |
| environment | `ProcessEnds`, `TaskOverdue`, `ApprovalDue`, `WaitElapses`, `DelayElapses`, `Killed` | processes, clocks, SIGKILL |

In the other modules a variable is a file, a row or a process, and a program is
a record with its step and what it has read. A file written by `write_text` or
`open(..., "w")` takes two steps, empty and full; one written beside its place
and replaced takes those two steps in a temporary file and one more. Where other
writers may be at the same file, whoever has it open keeps it when it is moved or
removed, and a text written over another may leave the other's tail behind it.
There are two exceptions: of a run's `command.txt` nobody asks more than that it
exists, so it is one step, and so is `safe_capacity.yaml`, which its own tuner
alone writes and nobody reads back.

### Abstractions

- One controller at a time in `Orchestrator`, as
  `docs/orchestrator/RUN_LOOP.md:3` has it. How two come about is the matter of
  `Daemons`; what two would do to the rows is not modelled.
- A pid is the attempt number of its task, so pids are not reused; a task is one
  process, without grandchildren; terminating a process succeeds in one step.
- `Request` reads the pending approvals and creates one in one step: only the
  controller creates approvals. `Selected` is computed in one read with the
  capacity. The last read of a run and its end are one step, and so are the read
  and the write of `next`; the exception `next` itself may raise only ends `next`.
- `select_ready` and the list loops follow rowid order; task numbers are rowids.
- The plan does not change between runs (`INSERT OR IGNORE` keeps the rows), and
  the policy's answer for a task is constant.
- The optional package `kestrel_extension`, which hooks into `_fail`, `_schedule`
  and the approval gate, is not part of the repository and left out.
- `retry_at` is not a variable: no statement of the store writes it.
- Approval identifiers are numbers, the least unused one standing for a fresh
  uuid.
- Documents are what their readers tell apart: a hash is the thing it is the
  hash of, a plan is its tasks and dependencies, a file is absent, torn, or
  whole with its content. Texts, times of day and layouts are left out.
- The services are checked apart from each other. They share little beyond what
  a module already has as its environment: `Inspection` has the controller's
  moves, `Reproctl` all of its own commands, `Backup` the writers of the files.

## Runs

| Run | Instance | Shows |
|---|---|---|
| `chain` (`Chain.cfg`) | task 1 free, task 2 behind it and gated; one retry each; two controller starts; kill, stop, next, launch failures, late decisions | types; `RetryBudget`, `ProcessAccounted`, `DependenciesFirst`, `CompleteIsTrue`, `StoppedIsQuiet`; the refinement of `TaskLifecycle` |
| `gates` (`Gates.cfg`) | a low-risk task the controller approves itself, a gated non-evidentiary one; two starts; late decisions | `ApprovedFirst`, `WaitingIsDecidable` on the approval, waiver and crash paths |
| `plan` (`Plan.cfg`) | four tasks under AUTO_PROCEED: a delayed retry, two parallel tasks behind it, one refused; pause, stop, launch failures | `NeverCrashes`; `RunEnds` under fairness |
| `services` (`Services.cfg`) | every component around the orchestrator, one per behaviour | the properties of the table below |
| `stop_resume` | `chain` with stop only | recovery raises (finding) |
| `waiver` | `gates` without any hazard | the waiver path raises (finding) |
| `rejection` | `gates`, evidentiary | auto-approval overwrites a rejection (finding) |
| `early_exit` | `chain` without any hazard | a run ends BLOCKED with a task APPROVED (finding) |
| `retry_delay` | `chain` with a delay | the delay is not kept (finding) |
| `duplicate_start` | three startup commands over a stale lock | two of them claim (finding) |
| `journal` | a repair of the event journal that is killed, then another | an unreadable line in the middle (finding) |
| `cleanup` | four files, checkpoints saved after the plan was read | files are deleted that nobody approved (finding) |

What `services` checks:

| Module | Property | Says |
|---|---|---|
| `Startup` | `ClaimFromRecordedPlan` | a claimed task comes from the plan on record |
| | `NoSilentSwitch` | a project does not go over to another plan on its own |
| | `NeverLockedOut` | the lock a finished or killed command left refuses no later one |
| | `TornOnlyByKill` | only a kill leaves a torn file |
| `PlanDocument` | `PlanChecksAgree` | what the checks let through together is in order and acyclic, and the searches for cycles agree |
| `PlanForms` | `PlanReachesTable` | dependencies and retries of a plan are those of its rows, except for the named losses |
| `Authorization` | `AuthorizationHolds` | what runs is authorized for the recorded plan; an upgrade ends every earlier contract |
| `WriteBoundary` | `AllowedWritesLand` | an allowed write lands where its judge meant it to; the exceptions are named |
| `EventJournal` | `JournalIsPrefix` | the journal is the events in order while no line was torn |
| `Backup` | `RestoredMatchesManifest` | a restore that succeeds puts back the content each hash was taken from |
| `Inspection` | `IntegrityVerdict` | an orphan is reported only after a kill, a move meanwhile, or a reaped process not yet collected; nothing that stood still is missed |
| `Reproctl` | `LedgerCurrent` | unless two saved at one moment, the ledger is whole, and nothing decided is lost but what was decided while a command held an older copy that it saved since |
| | `TrackerComplete` | one row per experiment, unless two tracker commands met or a rewrite was cut off |
| `Daemons` | `OneDaemonPerKind` | two controllers of a kind only after one of three slips; short of those status and recover know of the one at work |
| `Soak` | `OneSoakDaemon` | two soak daemons only after one of three slips; short of those the daemon alive is on file |
| `Cvo` | `GpuExclusive` | GPU nodes overlap only after a lock expired, or was removed or written over by one who had looked before |
| | `RunningHasRunner` | a RUNNING node has a runner, lost it to a kill or an exit, or two were writing its file |
| `ReviewLoop` | `ReviewSettles` | what each of GO, NO-GO and PIVOT stands for, and when the loop ends |
| `StopHook` | `HandoffIsFinal` | a program that is over has handed over its last change, but for a file that failed in the last save |
| | `StuckOnlyInCount` | it can hang in one place only |
| `PerfTuner` | `CapacityIsBoundary` | safe and OOM batch are neighbours that were tried |
| `Crawler` | `HitIsCurrent` | a not-modified answer meets the current body, unless crawlers overlapped, or a body was written without its ETag and the page was put back |
| `Metrics` | `RecomputedMetrics` | every metric is what its definition says, absent classes included |
| `Verifier` | `VerdictRestsOnTests` | a verdict rests on tests that were run, and the rows say so |
| `Evidence` | `EvidenceListed` | what makes `list_runs` raise; when it answers, created runs are listed under their task, verify and say what was said last |
| `Reports` | `VerdictsFollow` | the verdicts agree and follow from the counts; what a mean may be beside its extremes |
| `Checkpoints` | `ResumesFromWhole` | training is not sent to a torn file, nor told that there is none, by a file that stood still |
| `GuidedStart` | `BoundaryGivenUp` | the boundary is given up only for a strict start or a human |
| `LevelLoop` | `LevelsAnswer` | the loop's answer is that of its four levels, and its file one loop's answer unless killed or shared |

Where a property has an exception ("unless", a history variable such as
`lost`, `slip`, `overlap`), the exception is what the code lets happen; the
sections below name it. Some hazards are let through by such an exception and by
nothing else, so that a property cannot show them going wrong: a launch that saves
its old copy (`since` and `lost` of `LedgerCurrent` say which decisions, and that no
others, are lost so), a tracker rewrite that is killed (`rewriteCut`), a file
written between its copy and its hash (`meanwhile` in `RestoredMatchesManifest`),
and the contract of an earlier guided start (its author in `BoundaryGivenUp`). What
those properties show is that nothing else has the same effect.

Deadlock is not checked in any run: after the last start, command, day or
signal the systems stop.

### Bounds

- `MaxStarts` (controller starts): two, because what a kill leaves behind is
  what the next start finds.
- `MaxAttempts`: a decision out of turn may restart a task only below this many
  attempts. It bounds `attempts`; ordinary attempts are bounded by
  `MaxRetries`.
- `ApprovalId`: one more identifier than any behaviour of the passing runs uses,
  so no step is disabled for want of one.
- `Hazards` selects the environment of a run: out-of-turn decisions (`late`),
  `kill`, `stop`, `pause`, `next`, failures of `launch`. Splitting them over runs
  keeps each below a million states; kills and late decisions, the most
  entangled ones, are together in `chain`.

Two tasks are enough for a dependency, for two rows in one loop and for a stale
copy of the second while the first is worked on; the proofs below do not bound
the plan.

In `services`:

- `Proc` three commands of startup, one at a time, so that one finds what a
  killed one left and a third what came of that; `duplicate_start` lets them
  overlap. `MaxEdits` two edits of the plan: away and back.
- `MaxTasks` three tasks of a plan, with two dependencies each: a cycle of three, a
  dependency on a later one, a duplicate identifier, a task reached twice.
- `MaxCommands` four authorization commands: grant, change, run, run again;
  `MaxEvents` four events and `MaxKills` two kills, the second one in the repair
  of what the first left. `Place` four of the files a snapshot holds, two of
  them with the same base name; `MaxWrites` two writes to them.
- `MaxJobs` two snapshots or restores. `Command` two commands of the ledger or the
  tracker, each of them any: one overtakes the other, or both are in a save at once.
  `Experiment` two ids, so that one may be read while the other is added.
- `Pid` two controllers and `Caller` two commands at once; `Engine` two soak engines,
  `SoakCaller` two commands at once, `MaxSignals` two of pause, resume and stop.
- `CvoNode` the root and one node that needs the GPU, `Runner` two
  commands: a holder and one that finds its lock young, old, empty or gone. The theorems
  below are about any number of all of these; three commands over one GPU lock, for
  instance, are covered by `GpuIsExclusive` alone.
- `Caller`, `SoakCaller`, `Fetcher`, `Start` and `Loop` are the same two model values, and
  their permutation is a symmetry. The histories `slip`, `soakSlip` and `overlap`, once true,
  stay so and void what the property says; no step is taken from a state in which they are
  (`Exempt`), as nothing could be violated behind it.
- `ReviewTask` two tasks, so that one is underway while the other is not; `ReviewConfig`
  the four presets, one configuration that cannot fail often enough and one that may not
  look at all. `MaxWork` two changes of the store before a stop; `MaxStops` three signals,
  nested.
- `File` four with a special and a cached one, two days, one checkpoint kept.
- `MaxBatch` six: an interval that closes at both of its ends. `Fetcher` two crawlers, two
  versions of a page, between which it goes back and forth, one retry.
- `Classes` three with one label out of range, `MaxLabels` three pixels: a class absent from
  truth, from prediction and from both.
- `MaxTests` three tests, `MaxForms` two tasks of a plan, `LastDay` two days, `MaxLinks` two
  links (a link to a link), `MaxChecks` one integrity check.
- `Worker` two and `LastSecond` two seconds: two runs of one second and two that overlap.
  `MaxRows` ten, because the verdicts turn at 9, 7 and 5 tenths. `MaxClaims` two,
  `Place4` ten: a value has one digit more than a mean is rounded to. `MaxSaves` four writes of
  checkpoints after which no further save begins: one of each file, and one over each.
  `Start` and `Loop` two, at once or the second one finding what the first left.

### Fairness

`RunEnds` assumes that the controller process is scheduled (`WF(Controller)`:
its loop never waits for anything but its poll interval), and that wall-clock
time passes for a running task and for the idle limit (`WF(TaskOverdue)`,
`WF(WaitElapses)`). Nothing is assumed of humans, of task processes or of the
expiry of approvals: a task that never ends is ended by its timeout, and an
approval nobody decides ends the run with WAITING_APPROVAL.

The services have no fairness: their commands end by themselves, and what
matters of them is what they leave behind when they do not. That nobody is shut
out for good is stated as safety there: `NeverLockedOut` and `StuckOnlyInCount`
name the states in which nobody could go on.

### What to know about some properties

- Tasks in `overridden` are exempt where a property depends on the row: the
  store lets a late decision write over any row, which is a hazard in its own
  right. `RetryBudget` also exempts non-evidentiary tasks, since approving a
  waiver makes the task run again.
- `NeverCrashes` holds without kills, restarts and out-of-turn decisions. With
  them it does not; `RecoverRaises`, `AutoCheck` and every `Raise` disjunct show
  where.
- `StoppedIsQuiet` and `ProcessAccounted` hold after a kill between `Popen` and
  `set_process` for an odd reason: the row goes to VERIFYING and recovery then
  raises, so no later run reaches the point of starting the task again or of
  reporting STOPPED. The mutant `RecoverRequeues`, the statement recovery meant
  to execute, starts such a task while its first process is alive.
- `RunEnds` is checked on one start without kills (`Plan.cfg`), so the processes a
  later controller adopts are not in it.
- `OneDaemonPerKind` has three exceptions, its `slip`: two starts, or a start and the
  child of another, look at the pid file before either has written it; a start is killed
  before its child is on file (autopilot's child writes itself there); somebody empties a
  file that names a living controller by now. autopilot's `stop`, and the end of an
  autopilot that is no longer on file, do the latter without a look. The two kinds never
  look at each other's file, and `reproctl run` in the foreground at none.
- `OneSoakDaemon` has the same three: `stop` waits ten seconds and then writes 0,
  whoever has been started meanwhile.
- `GpuExclusive`: the lock is never renewed, so a node of more than 120 seconds loses it
  (`LockAges`); and what is unlinked or written over is what is there, not what was
  judged old.
- `ReviewSettles`: GO says that no task was underway at the last look; FAILED rows are
  not seen, for the review looks for the word FAIL. PIVOT needs a threshold that the
  iterations do not reach; no preset has one.
- `ResumesFromWhole` is about a machine with PyTorch where it says what training finds;
  without it a file of more than 1000 bytes counts as a checkpoint. Files that are
  deleted meanwhile are not modelled.
- `VerdictsFollow` is about reports with rows: without any the Markdown report says
  INCONCLUSIVE and the json NO-GO. It leaves out claims whose value in the paper is zero
  or negative, which are always "within tolerance". A mean is rounded to four places and
  its extremes are not, so it may lie outside them by half a place.
- `EvidenceListed` names what makes `list_runs` raise. One torn manifest hides all runs
  of its task from that reader, for good after a kill.
- `VerdictRestsOnTests`: a PASS row is written exactly when no test is a
  `metrics_recompute`, also when that one is the last of the tests.
- `IntegrityVerdict` is about the integrity check; that a doctor's verdict follows from
  its checks is modelled, but no property depends on the detail of it.

## Findings

Shown by a run each:

1. `recover` updates `tasks.status`, a column that does not exist
   (`orchestrator/recovery.py:88`; the column is `state`). A run that is stopped
   or killed while a task runs cannot be started again.
2. `_run_verifications` requests a waiver, which moves the row, and then expects
   the row unmoved (`orchestrator/controller.py:264`). The run ends with
   InvalidTransition.
3. `auto_approve_low_risk` overwrites a rejection given between its request and
   its approval (`orchestrator/approval_gate.py:133`).
4. `_terminal_result` reads rows and pending approvals apart; an approval in
   between ends the run BLOCKED with work to do (`orchestrator/controller.py:391`).
5. `transition_task` drops `retry_at` (`core/state_store.py:956`); retries are
   not delayed.
6. Two commands that read the same stale project lock both claim
   (`startup/lock.py:104`).
7. A repair of the event journal appends behind a torn line, and the journal
   cannot be read from then on (`orchestrator/event_journal.py:49`).
8. `cleanup` executes a plan of its own before the approved one
   (`reproctl.py:357`).

Met while modelling, part of the models, without a run of their own:

- Verification ends with a pass right after a `metrics_recompute` that passes: later
  tests are skipped and no VERIFICATION_PASS is recorded, even if it is the last test,
  though a comment there says "fall through to final VERIFICATION_PASS"
  (`orchestrator/verifier.py:383`) and the module "Run every acceptance command; only an
  all-zero result is PASS" (line 28).
- A review ends with PIVOT under no preset, though the class and `run` promise it beside
  GO and NO-GO (`orchestrator/review_loop.py:66`, `70`, `102`): from the threshold on the
  verdict is NO-GO, and every preset reaches its threshold. Line 69 has it
  "GO: Evidence validates the reproduction", but FAILED rows are not seen; nothing blocks.
- `autopilot recover` never resumes: its parser has no `--plan` and `--mode`,
  and `cmd_run` raises. The child of autopilot's daemon may refuse to run
  because of its own pid on file (`autopilot.py:218`).
- Startup: nothing sets `interrupted`, so the guard that asks for a resume never
  fires; `stop` without a state writes one that `resume` crashes on; a dry run
  writes a task graph; all commands share one temporary file of the lock.
- A legacy plan with `depends_on` alone is validated with its dependencies and
  run without them; a retry policy counts only under one of its two names.
- The safe-auto boundary judges relative paths as written, so `..` and links are
  not resolved; an authorization with an expiry that cannot be parsed never
  expires; relative paths are judged from the working directory.
- Authorization: a record torn between its transactions leaves an old contract
  valid until the next start; the store ignores `expires_at`.
- The integrity check reports an orphan if the controller reaps a process while
  it looks; its plan-hash check never runs, for nobody writes what it reads.
- A snapshot mixes moments, and one file written between its copy and its hash
  makes all of it unusable.
- `launch` saves the ledger it loaded before the training; an update of the
  tracker that is killed loses all rows. Two saves of the ledger at once share
  `state.tmp`: what is moved may be the other's text, a mixture or nothing, and the
  second move raises. A torn ledger stops every command but `init`, which overwrites it.
- `run-next` never runs a GPU node: it meets the lock it has taken. While any node is
  RUNNING it raises a TypeError, for the default it builds for an unknown node lacks an
  argument (`cvo/runner.py:322`). The GPU lock is not renewed, and a stale one is removed
  by name, so that a fresh one may be hit. A command that is killed between the opening and
  the filling of the lock leaves an empty one, and no GPU command gets past it. A runner
  that is killed leaves RUNNING for good. Two commands on one node share `<id>.tmp`: they
  may tear the node's file, and one of them crashes; `audit init` writes PASSED over
  whatever VAL-000 said.
- Two starts of the orchestrator's daemon at once share `controller.tmp`: two daemons may
  run with an empty pid file, or one start fails on the move. A child that never lived stays
  on file: only one that died between two looks is cleared, though the comment has it that
  an immediate exit cleans up the file (`orchestrator/cli.py:255`).
- A soak that was told to stop is completed on top of its abort. A row of `soak_runs` has
  another run id than its engine (see `Soak`).
- The stop hook's lock is not reentrant: a signal inside the section hangs it. Errors in its
  saves end in a result nobody reads (`orchestrator/stop_hook.py:167`, `246`, `283`).
- Two crawlers, or a page put back after a write that was cut off, can leave an ETag with
  another body.
- Two L0-L3 loops at once can leave a file with the tail of the longer text behind the
  shorter one, without any kill (`l0_l3_loop.py:275`).
- The tables of the Markdown report count PASS and FAIL (`report_generator.py:103`), which
  no row has: they show 0 beside a verdict, and a json report, that count PASSED. The advice
  per task looks for FAIL, too.
- Recovery's summary counts every row as one without a checkpoint, for no row has the key
  it looks for (`recovery.py:346`). A whole file that holds something else than a dictionary
  is judged invalid.
- The tuner's file calls the safe batch "80% of OOM" (`repro_perf_tuner.py:1032`), and line
  64 says that the recommended one is 80 % of the OOM batch. The safe batch is the largest
  that ran, and what is recommended is 80 % of that.
- The guided start describes `diagnose` as a dry run and executes it; `strict`
  only skips the safe-auto boundary; the contract one start leaves decides for
  the next of another mode.
- Evidence runs of one second share directory and index entry; updates that overlap lose a
  run or leave a mixture; a torn index stops every reader and every further run, a torn
  manifest every listing of its task. The continuity of metrics recovery speaks of is never
  computed for a row: it is always "unknown".

## Proofs

No theorem bounds the instance: they hold for every set of tasks, of commands,
of nodes, and so on, from the assumptions named in the modules.

The orchestrator, for every dependency relation, gates, retry budgets,
parallelism and repertoire of hazards (tasks and approvals are finite sets of
positive numbers, the plan's sets and functions have their types; no acyclicity
is assumed):

- `Orchestrator_proofs`: `TypeCorrect`. Its invariant `Typed` adds to the types
  what the steps need: approvals on record belong to tasks; inside an iteration
  the controller holds a row copy and knows its loop; `_fail` writes only rows
  it saw RUNNING or VERIFYING; the auto-approved approval exists.
  `StoreSteps` shows that all fifty-odd actions write the store in seven ways; the other
  proofs argue over those.
  `WaitingAlwaysDecidable` then needs one strengthening, `Asked`: between the
  two transactions of the waiver path, a row still VERIFYING has its approval.
  `DependenciesAlwaysFirst`, by `Behind`: the
  copies the unblock loop holds are of tasks whose dependencies have passed, the
  copies of all other loops are of rows that left PENDING, and so are the rows
  approvals belong to. `LifecycleImplemented` is the refinement: with `Behind`,
  each of the seven writes is a step of `TaskLifecycle` or a stutter.
- `OrchestratorClaims_proofs`: `AlwaysApprovedFirst`, by `Kept`: an APPROVED
  copy in the scheduling loop is of a row that is still decided, because copies
  are of different rows and nobody but the loop takes a decided row elsewhere;
  so what is claimed of it is APPROVED, or the claim is lost.
  `BudgetAlwaysKept`, by `Counted`: a row that may
  still be claimed has an attempt left. The one write that could break it is the
  request for an approval of a row that is VERIFYING; it is made for tasks without
  evidence alone, for the rows a scheduling loop has left to visit do not run.
  `NeverCrashesUndisturbed`, by `Undisturbed`: in the one run there is, a copy the
  controller is about to write by is up to date, and the approval it is about to decide is
  at hand. It is stated for plans of evidentiary tasks, one start and no commands out of
  turn, and for every plan, kill, pause, stop and failing launch within that. Each of the
  three hypotheses excludes a way in which a run does end with an exception: the waiver of
  a task without evidence, the UPDATE of recovery (both findings), and a decision or
  `next` between a read and the write that relies on it.
- `OrchestratorProcesses_proofs`: `ProcessesAccounted`, `StoppedAlwaysQuiet` and
  `CompleteAlwaysTrue`, by `Jobs`, which says of each task not decided out of turn what each
  place of the controller knows of its processes. Past recovery a row that is verified
  has no process and a row that runs has the one its pid names, but for the
  moment between launch and record. A kill in that moment leaves a process no row
  names, and recovery moves its row to VERIFYING all the same; the proof goes
  through because such a row has no pid, and recovery never gets past one: its
  UPDATE names a column that does not exist. That the process is not joined by a second one
  rests on this fault (`RecoverRequeues`, the UPDATE as it was meant, breaks
  `ProcessAccounted`): whoever repairs the statement has to end the
  process first.

The services:

- `Startup_proofs`: `StartupTypeCorrect`; `ClaimAlwaysFromRecordedPlan`, by `PlansInv`: the
  task in the state, in the checkpoint and in the hands of every process is one of the plan
  whose hash goes with it, and so is the graph's; `TornAlwaysByKill`, by `Torn`: whoever
  is between emptying and filling a file is at work or was killed there. These two hold also
  when commands overlap. `NeverLockedOutAlone` and `NoSilentSwitchAlone` assume that they do
  not (`~Concurrent`): `AloneInv` says that one process at most is alive, that a lock on file
  is of a process past taking it, and that a claim has read the state that is on file and the
  plan it records. A command that overlaps another is meant to be refused; that it may not be
  is shown by `duplicate_start`.
- `Commands_proofs`: `AuthorizationSafe`, by `AuthInv`: what each command has still to write
  of a record, an upgrade or a migration, and what binds the plan meanwhile.
  `LedgerStaysCurrent`, by `LedgerInv`: as long as no two saves were in progress at once, the
  file is the last decisions, and what a command holds agrees with them, but for those made
  since it loaded its copy and its own.
  `TrackerAlwaysComplete`, by `TrackerHeld`: the rows are in the file
  or with the one command that is rewriting it.
  `OneDaemonOnly`, by `DaemonInv`: until starts of a kind met, every daemon of it that lives is
  on file or the child of the one start in progress, which has none beside it.
  `SoakIsOneDaemon`, by `SoakInv`: until commands got in each other's way, one start at a
  time is past its check, no daemon lives beside its child, and otherwise the daemon is on file.
  Of the verification catalogue, `GpuIsExclusive` and `RunNextNeverRunsGpu` rest on `LockInv`:
  while no lock slipped, the lock of a command is on file as it wrote it, and run-next, whose
  own lock is there when run_node looks, never gets past that check. `RunningIsRun` rests on
  `WriteInv`: while one command at a time writes a node's file, what it moves there is
  what it wrote. All of these allow any number of commands at any step of each other; what
  makes the hypotheses false is recorded by the step that does it (see "What to know").
- `Data_proofs`: `PlanReadersAgree`, for plans of any tasks and length. What it rests on is
  `SearchFindsCycles`: the depth-first search with three colours, as the code has it, says
  that there is a cycle exactly where there is one. Its argument has two halves. While the
  search has found nothing, black tasks depend on black ones only and hold no cycle
  (`Done`), and at the end every task is black; a gray task is on a way along gray tasks to
  the one being visited (`Linked`), so that a gray one met again closes a cycle. Ids
  declared twice are covered; a dependency on an id nobody has is not, for the two searches
  take it differently: one for a cycle, the other for a gray task from then on.
  `PlansReachTable`, by `FormInv`: the rows are those of the plan that was loaded, each
  once. `PassesFindCycles` is the same question for the scheduler, which takes away what
  depends on nothing that is left: no pass removes a task of a cycle, and a pass that removes
  nothing leaves a set each of whose tasks depends on another one.
  `MetricsAreDefinitions`, by `MetricsInv` (a matrix on hand counts the points that are
  there), for any number of classes, points and foreign labels. Each point that counts is in one cell of the matrix (`CountByClass`), so the sums of rows, columns
  and of all cells are numbers of points, and IoU, accuracy and change are the fractions
  their definitions say; F1, a harmonic mean, is the Dice coefficient (`HarmonicIsDice`).
  Kappa is 1 on full agreement alone and else corrects by chance (`KappaCorrects`), a mean lies between the least and the
  greatest of what it averages (`MeanBound`), and the verifier's mean differs from the
  recomputed one by classes that are absent and add nothing (`VerifierMean`).
- `Services_proofs`: `CapacityBoundary` (the batch search; its invariant says
  that everything at or below the safe batch and at or above the OOM batch was
  tried, and that the interval lies between), `CacheHitIsCurrent` (by `CacheInv`: with one
  crawler at work and no page put back, the tag on file is that of the body on file or one
  the page no longer has; with no body written over without its tag, it is that of the body),
  `ReviewAlwaysSettles` (while it runs every look has failed, and
  neither bound is reached),
  `HandoffFinal` (a program that is over has saved what it last saw, but for a file that
  failed in the very last save), `StuckOnlyWhileCounting` (its `LockHolder` says
  which save has the lock), `BoundaryOnlyGivenUp` (every
  contract on file or in hand is its author's),
  `LevelsAlwaysAnswer` (by `LevelInv`: what a loop has still to write follows from its
  verdicts, and while loops have not filled the file at once it is what one of them wrote),
  `RestoreMatches` (while a restore runs every copy verifies, and
  what it has come past is back), `IntegrityAlwaysRight` (what the inspector has read is how it was, until
  something moves), `JournalAlwaysPrefix` (while every line can be read, what a repair has
  still to append is what comes next), `AlwaysResumesFromWhole` (`SearchInv`: a file that has not
  changed since the search looked at it is still to be judged or was found invalid), `VerdictAlwaysRests` (the
  rows are the tests run so far), `EvidenceAlwaysListed` (by `EvidenceInv` and `IndexInv`:
  the files of each run are as far as its worker is, but for runs of one second, and who
  writes the index holds everything that was entered, but for updates that overlapped),
  `VerdictsAlwaysFollow` (the lines a report has, and what its verdict says of them), and `AllowedWritesAlwaysLand` (an answer is the
  one that would be given now, until something changes; a path without `..` that meets no
  link resolves to itself).

Induction over data. The induction theorems of the library take an operator, which the
installed provers cannot instantiate. `LeastNatural`, `UpTo`, `LoopRuns` and `LoopInvariant`
in `Loops_proofs` say the same with sets and functions in its place, from the fact that
finite sets are well founded under inclusion: a set of numbers with 0 and the successors of
its members has all numbers; a loop of n steps is defined, is what its steps make of its
start one after the other, and stays where its steps stay. What a loop of the code computes
is therefore written as a recursive function here (`AfterLoop`, `MissingFrom`, `Resolve`, the
sum in `MetricReport`) and proved for every length; folds and recursive operators cannot be
unfolded. The visits of the search call themselves: `Visits` is a function of the depth that
is left, and the induction is over the number of white tasks.

The assumptions are those the modules name: constants have their types, sets of tasks,
engines, pids and the like are sets of numbers, a bound is a number. Three are more than
types: the value that stands for nothing is none of the values (`NilAssumption`), what a
snapshot restores goes to places of the instance (`BackupAssumption`), and at least one second
passes (`EvidenceAssumption`). All are evaluated on the runs.

`NeverCrashes` needs the three hypotheses above. The services need no
acyclic plan, no distinct tasks and no fairness.

Only model-checked:

- `RunEnds`: liveness is out of the prover's reach.
- The properties of the runs that expect a violation, which are false.

## Not modelled

- Three searches and detections of state databases, export of snapshots,
  artifact and experiment rows of the store: they copy data.
- GPU, log and out-of-memory diagnosis of the watchdog; hardware profile,
  environment check, benchmark, training monitor (its command line always
  fails), run comparison, artifact verification: they measure and print.
- The agents of the review loop, generated texts, redaction of secrets, the
  catalogues, schemas and text detectors of the metrics: text processing.
- The validation functions of the CVO catalogue look outside the repository
  (most of the callables they name do not exist in it): any outcome is allowed.
- Repair nodes, exit validation and reports of the soak engine: no engine gets
  that far.
- `set_project_mode` of reproctl, one more load and save of the ledger; the command line
  and summary of recovery and the continuity of metrics, which change nothing.
- A pid that is given out again to another process.
- `migrate_legacy_paths` of the evidence manager, which takes a partial copy for
  done, and the conversion of documents by `migrate`.

## Plan

1. Two controllers over one store, as two daemons of different kinds come to
   be.
2. Fingerprints and conflicts of metrics, and which state database is in
   authority.
