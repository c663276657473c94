------------------------------ MODULE Startup -------------------------------
(***************************************************************************)
(* The startup command line: `start`, `start --dry-run`, `start --self-    *)
(* test`, `resume`, `stop`, `verify` and `doctor`, each a short-lived      *)
(* process, over the files they share: the plan, execution_state.json,     *)
(* task_graph.yaml, its checkpoint copy and run.lock.                      *)
(*                                                                         *)
(* A step ends at the file operation another process, or a kill, can tell  *)
(* apart: a file written in place is first truncated, then filled; a file  *)
(* replaced from a temporary name changes at once.  A process that has     *)
(* ended, killed or not, has a dead pid, so its lock is stale.             *)
(*                                                                         *)
(* The reports a command writes and nobody reads back are left out, and    *)
(* task_journal.jsonl with them; execution_state.json names one plan path. *)
(***************************************************************************)
EXTENDS Naturals

CONSTANTS
  Proc,          \* the pids, taken in increasing order
  Plan,          \* the contents the plan file may have; a hash is the content
  NoPlan,        \* a missing plan_hash
  Task,          \* the task ids of all plans
  NoTask,        \* current_task = None
  SchemaCheck,   \* Plan -> "ok", "invalid" (exit 5) or "crash"
  ValidPlans,    \* the plans plan_validate accepts
  DoctorFails,   \* the plans the doctor's task graph check fails
  FirstReady,    \* Plan -> the task its graph makes READY
  TasksOf,       \* Plan -> the tasks of its graph
  Concurrent,    \* may two commands run at once?
  MaxEdits       \* bound on the edits between commands

ASSUME StartupAssumption ==
  /\ Proc \subseteq Nat \ {0} /\ NoPlan \notin Plan /\ NoTask \notin Task
  /\ ValidPlans \subseteq Plan /\ DoctorFails \subseteq Plan
  /\ SchemaCheck \in [Plan -> {"ok", "invalid", "crash"}]
  /\ TasksOf \in [Plan -> SUBSET Task]
  /\ FirstReady \in [Plan -> Task] /\ \A d \in Plan : FirstReady[d] \in TasksOf[d]
  /\ Concurrent \in BOOLEAN /\ MaxEdits \in Nat

VARIABLES
  plan,       \* the content of the plan file
  es,         \* execution_state.json
  ckpt,       \* checkpoints/execution_state.last_valid.json
  graph,      \* task_graph.yaml
  lock,       \* run.lock: the pid it records, 0 when missing
  tmp,        \* run.lock.tmp: likewise
  started,    \* startup_state.json and doctor_report.json have been written
  pc, cmd,    \* where each process is, and its subcommand
  view,       \* what it has read: the state, the plan it validated, the task
  exit,       \* the exit code of the command that ended last, until the next begins
  killed,     \* what kills have ended so far: a stop, or a command that claims
  edits       \* edits made so far

fileVars == <<plan, es, ckpt, graph, lock, tmp, started, edits>>
vars == <<plan, es, ckpt, graph, lock, tmp, started, edits, pc, cmd, view, exit, killed>>

Commands == {"start", "dry", "selftest", "resume", "stop", "verify", "doctor"}
Places == {"idle", "check", "open", "lock", "clear", "tmp", "replace", "recover", "claim",
           "graph", "create", "fill", "pick", "write", "finish", "save", "keep", "refill", "unlock",
           "cleared", "done"}
ExitCodes == {0, 1, 2, 3, 4, 5, 8, 10}

StateFile == [file : {"absent", "empty", "whole"}, hash : Plan \cup {NoPlan},
              task : Task \cup {NoTask}, path : BOOLEAN]
GraphFile == [file : {"absent", "empty", "whole"}, hash : Plan \cup {NoPlan},
              ready : Task \cup {NoTask}]
View == [es : StateFile, hash : Plan \cup {NoPlan}, task : Task \cup {NoTask}]

Absent == [file |-> "absent", hash |-> NoPlan, task |-> NoTask, path |-> FALSE]
Emptied == [Absent EXCEPT !.file = "empty"]
NoGraph == [file |-> "absent", hash |-> NoPlan, ready |-> NoTask]
Nothing == [es |-> Absent, hash |-> NoPlan, task |-> NoTask]

StartupTypeOK ==
  /\ plan \in Plan /\ es \in StateFile /\ ckpt \in StateFile /\ graph \in GraphFile
  /\ lock \in Proc \cup {0} /\ tmp \in Proc \cup {0}
  /\ started \in BOOLEAN /\ edits \in 0..MaxEdits
  /\ pc \in [Proc -> Places] /\ cmd \in [Proc -> Commands]
  /\ view \in [Proc -> View] /\ exit \in ExitCodes /\ killed \subseteq {"stop", "claim"}

\* A project nothing has been started in, with some plan.
StartupInit ==
  /\ plan \in Plan /\ es = Absent /\ ckpt = Absent /\ graph = NoGraph
  /\ lock = 0 /\ tmp = 0 /\ started = FALSE /\ edits = 0
  /\ pc = [p \in Proc |-> "idle"] /\ cmd = [p \in Proc |-> "start"]
  /\ view = [p \in Proc |-> Nothing] /\ exit = 0 /\ killed = {}

Alive(p) == pc[p] \notin {"idle", "done"}
Quiet == \A p \in Proc : ~Alive(p)

\* Mutant of Stale: whatever lock there is counts as held.
StaleNever(pid) == pid = 0

\* _is_stale: the recorded pid is not alive.  (Another host and an age above six
\* hours count too; every command here runs on one host and for seconds.)
Stale(pid) == ~Alive(pid)

\* A process that ends takes its subcommand and what it has read with it.
Goto(p, place) == pc' = [pc EXCEPT ![p] = place] /\ UNCHANGED <<cmd, view, exit, killed>>
Look(p, place, v) ==
  pc' = [pc EXCEPT ![p] = place] /\ view' = [view EXCEPT ![p] = v] /\ UNCHANGED <<cmd, exit, killed>>
Forget(p) ==
  /\ pc' = [pc EXCEPT ![p] = "done"]
  /\ cmd' = [cmd EXCEPT ![p] = "start"] /\ view' = [view EXCEPT ![p] = Nothing]
Exit(p, code) == Forget(p) /\ exit' = code /\ UNCHANGED killed

-----------------------------------------------------------------------------
(* Processes come and go *)

FirstPlace(c) == CASE c \in {"start", "dry", "selftest", "doctor", "verify"} -> "check"
                   [] c = "resume" -> "open"
                   [] c = "stop" -> "save"

Launch(p, c) ==
  /\ pc[p] = "idle" /\ \A q \in Proc : q < p => pc[q] # "idle"
  /\ Concurrent \/ Quiet
  /\ pc' = [pc EXCEPT ![p] = FirstPlace(c)] /\ cmd' = [cmd EXCEPT ![p] = c]
  /\ exit' = 0 /\ UNCHANGED <<fileVars, view, killed>>

Kill(p) ==
  /\ Alive(p) /\ Forget(p) /\ UNCHANGED <<fileVars, exit>>
  /\ killed' = killed \cup (CASE cmd[p] = "stop" -> {"stop"}
                             [] cmd[p] \in {"start", "dry", "resume"} -> {"claim"}
                             [] OTHER -> {})

-----------------------------------------------------------------------------
(* start, start --dry-run, start --self-test, doctor *)

\* The doctor fails on a mandatory check of the host, or on the task graph.
DoctorReport == {v \in BOOLEAN : plan \in DoctorFails => v = FALSE}

\* cmd_start up to the lock: doctor, state check, schema.
StartCheck(p) ==
  /\ pc[p] = "check" /\ cmd[p] \in {"start", "dry"}
  /\ \E healthy \in DoctorReport :
       \/ ~healthy /\ Exit(p, 3)
       \/ healthy /\ es.file = "empty" /\ Exit(p, 8)
       \/ healthy /\ es.file # "empty" /\ SchemaCheck[plan] = "invalid" /\ Exit(p, 5)
       \/ healthy /\ es.file # "empty" /\ SchemaCheck[plan] = "crash" /\ Exit(p, 1)
       \/ healthy /\ es.file # "empty" /\ SchemaCheck[plan] = "ok"
            /\ Goto(p, IF cmd[p] = "dry" THEN "claim" ELSE "lock")
  /\ UNCHANGED fileVars

\* _cmd_self_test takes no lock and claims nothing.
SelfTest(p) ==
  /\ pc[p] = "check" /\ cmd[p] = "selftest"
  /\ \E healthy \in DoctorReport :
       Exit(p, IF SchemaCheck[plan] = "crash" THEN 1
               ELSE IF healthy /\ SchemaCheck[plan] = "ok" THEN 0 ELSE 2)
  /\ UNCHANGED fileVars

Doctor(p) ==
  /\ pc[p] = "check" /\ cmd[p] = "doctor"
  /\ \E healthy \in DoctorReport : Exit(p, IF healthy THEN 0 ELSE 3)
  /\ UNCHANGED fileVars

-----------------------------------------------------------------------------
(* lock.acquire: read, clear a stale lock, write run.lock.tmp, replace *)

LockRead(p) ==
  /\ pc[p] = "lock"
  /\ \/ lock # 0 /\ ~Stale(lock) /\ Exit(p, 4)
     \/ lock # 0 /\ Stale(lock) /\ Goto(p, "clear")
     \/ lock = 0 /\ Goto(p, "tmp")
  /\ UNCHANGED fileVars

\* unlink removes whatever lock is there by now.
LockClear(p) ==
  /\ pc[p] = "clear" /\ Goto(p, "tmp") /\ lock' = 0
  /\ UNCHANGED <<plan, es, ckpt, graph, tmp, started, edits>>

LockTmp(p) ==
  /\ pc[p] = "tmp" /\ Goto(p, "replace") /\ tmp' = p
  /\ UNCHANGED <<plan, es, ckpt, graph, lock, started, edits>>

\* The temporary name is shared: the second of two replacements finds no file.
LockReplace(p) ==
  /\ pc[p] = "replace"
  /\ \/ tmp = 0 /\ Exit(p, 1) /\ UNCHANGED <<lock, tmp>>
     \/ /\ tmp # 0 /\ lock' = tmp /\ tmp' = 0
        /\ Goto(p, IF cmd[p] = "resume" THEN "recover" ELSE "claim")
  /\ UNCHANGED <<plan, es, ckpt, graph, started, edits>>

-----------------------------------------------------------------------------
(* claim_one *)

\* Mutant of ClaimRead: the plan is validated and its hash not compared.
ClaimReadUnchecked(p) ==
  /\ pc[p] = "claim"
  /\ IF plan \notin ValidPlans THEN Exit(p, 5)
     ELSE Look(p, "graph", [Nothing EXCEPT !.es = es, !.hash = plan])
  /\ UNCHANGED fileVars

\* The state is read, the plan validated and its hash compared.
ClaimRead(p) ==
  /\ pc[p] = "claim"
  /\ \/ plan \notin ValidPlans /\ Exit(p, 5)
     \/ plan \in ValidPlans /\ es.hash \notin {NoPlan, plan} /\ Exit(p, 8)
     \/ /\ plan \in ValidPlans /\ es.hash \in {NoPlan, plan}
        /\ Look(p, "graph", [Nothing EXCEPT !.es = es, !.hash = plan])
  /\ UNCHANGED fileVars

\* _ensure_task_graph: an existing graph is loaded as it is, an empty one is None.
GraphLoad(p) ==
  /\ pc[p] = "graph"
  /\ \/ graph.file = "absent" /\ Goto(p, "create")
     \/ graph.file = "empty" /\ Exit(p, 1)
     \/ graph.file = "whole" /\ Goto(p, "pick")
  /\ UNCHANGED fileVars

GraphCreate(p) ==
  /\ pc[p] = "create" /\ Goto(p, "fill") /\ graph' = [NoGraph EXCEPT !.file = "empty"]
  /\ UNCHANGED <<plan, es, ckpt, lock, tmp, started, edits>>

GraphFill(p) ==
  /\ pc[p] = "fill" /\ Goto(p, "pick")
  /\ graph' = [file |-> "whole", hash |-> view[p].hash, ready |-> FirstReady[view[p].hash]]
  /\ UNCHANGED <<plan, es, ckpt, lock, tmp, started, edits>>

\* Mutant of Pick: a fresh state takes the hash of the plan just validated.
PickValidatedHash(p) ==
  /\ pc[p] = "pick"
  /\ IF graph.ready = NoTask \/ cmd[p] = "dry" THEN Goto(p, "finish")
     ELSE Look(p, "write", [view[p] EXCEPT !.task = graph.ready])
  /\ UNCHANGED fileVars

\* The first READY task; the state of a fresh project takes the graph's hash.
Pick(p) ==
  /\ pc[p] = "pick"
  /\ \/ /\ graph.ready = NoTask \/ cmd[p] = "dry"
        /\ Goto(p, "finish")
     \/ /\ graph.ready # NoTask /\ cmd[p] # "dry"
        /\ Look(p, "write", [view[p] EXCEPT !.hash = graph.hash, !.task = graph.ready])
  /\ UNCHANGED fileVars

\* A state that exists keeps its hash, or its lack of one.
ClaimedState(v) ==
  IF v.es.file = "whole" THEN [v.es EXCEPT !.task = v.task, !.path = TRUE]
  ELSE [file |-> "whole", hash |-> v.hash, task |-> v.task, path |-> TRUE]

ClaimWrite(p) ==
  /\ pc[p] = "write" /\ Goto(p, "finish") /\ es' = ClaimedState(view[p])
  /\ UNCHANGED <<plan, ckpt, graph, lock, tmp, started, edits>>

\* The journal line and the reports of `start`; nothing releases the lock.
Finish(p) ==
  /\ pc[p] = "finish" /\ Exit(p, 0)
  /\ started' = (started \/ cmd[p] \in {"start", "dry"})
  /\ UNCHANGED <<plan, es, ckpt, graph, lock, tmp, edits>>

-----------------------------------------------------------------------------
(* resume, stop, verify *)

\* A state that names no plan makes it read the working directory, which raises.
ResumeOpen(p) ==
  /\ pc[p] = "open"
  /\ \/ es.file # "whole" /\ Exit(p, 8)
     \/ es.file = "whole" /\ ~es.path /\ Exit(p, 1)
     \/ es.file = "whole" /\ es.path /\ plan \notin ValidPlans /\ Exit(p, 5)
     \/ es.file = "whole" /\ es.path /\ plan \in ValidPlans /\ Goto(p, "lock")
  /\ UNCHANGED fileVars

\* recovery.run reads the state again before it claims.
Recover(p) ==
  /\ pc[p] = "recover"
  /\ \/ es.file = "absent" /\ Exit(p, 8)
     \/ es.file = "empty" /\ ckpt.file = "absent" /\ Exit(p, 8)
     \/ es.file = "empty" /\ ckpt.file = "empty" /\ Exit(p, 1)
     \/ /\ es.file = "whole" \/ (es.file = "empty" /\ ckpt.file = "whole")
        /\ Goto(p, "claim")
  /\ UNCHANGED fileVars

\* stop.run copies a state it can read aside, then writes the state in place, then
\* unlinks the lock.
StopRead(p) ==
  /\ pc[p] = "save" /\ Look(p, "keep", [Nothing EXCEPT !.es = es])
  /\ ckpt' = IF es.file = "whole" THEN Emptied ELSE ckpt
  /\ UNCHANGED <<plan, es, graph, lock, tmp, started, edits>>

StopSave(p) ==
  /\ pc[p] = "keep" /\ Goto(p, "refill")
  /\ ckpt' = IF view[p].es.file = "whole" THEN view[p].es ELSE ckpt
  /\ es' = Emptied
  /\ UNCHANGED <<plan, graph, lock, tmp, started, edits>>

\* Mutant of StopFill: a missing or empty state raises after the file was opened.
StopFillStrict(p) ==
  /\ pc[p] = "refill"
  /\ IF view[p].es.file # "whole" THEN Exit(p, 1) /\ UNCHANGED es
     ELSE Goto(p, "unlock") /\ es' = [view[p].es EXCEPT !.task = NoTask]
  /\ UNCHANGED <<plan, ckpt, graph, lock, tmp, started, edits>>

StopFill(p) ==
  /\ pc[p] = "refill" /\ Goto(p, "unlock")
  /\ es' = [view[p].es EXCEPT !.file = "whole", !.task = NoTask]
  /\ UNCHANGED <<plan, ckpt, graph, lock, tmp, started, edits>>

StopUnlock(p) ==
  /\ pc[p] = "unlock" /\ Goto(p, "cleared") /\ lock' = 0
  /\ UNCHANGED <<plan, es, ckpt, graph, tmp, started, edits>>

StopCheck(p) ==
  /\ pc[p] = "cleared" /\ Exit(p, IF lock = 0 THEN 0 ELSE 10)
  /\ UNCHANGED fileVars

\* cmd_verify: a state without a plan hash skips the hash check.
Verify(p) ==
  /\ pc[p] = "check" /\ cmd[p] = "verify"
  /\ Exit(p, IF es.hash # NoPlan /\ es.path /\ plan \notin ValidPlans THEN 5
             ELSE IF started /\ es.file = "whole" /\ (es.hash # NoPlan /\ es.path => plan = es.hash)
                  THEN 0 ELSE 8)
  /\ UNCHANGED fileVars

-----------------------------------------------------------------------------
(* The user, between commands *)

Edit == Quiet /\ edits < MaxEdits /\ edits' = edits + 1

EditPlan(d) ==
  /\ Edit /\ d # plan /\ plan' = d
  /\ UNCHANGED <<es, ckpt, graph, lock, tmp, started, pc, cmd, view, exit, killed>>

\* The graph is hand-edited as tasks get done: another of its tasks is READY, or none.
EditGraph(t) ==
  /\ Edit /\ graph.file = "whole" /\ t \in TasksOf[graph.hash] \cup {NoTask} /\ t # graph.ready
  /\ graph' = [graph EXCEPT !.ready = t]
  /\ UNCHANGED <<plan, es, ckpt, lock, tmp, started, pc, cmd, view, exit, killed>>

\* "remove the corrupt state file or restore from checkpoints"
RepairState(f) ==
  /\ Edit /\ es.file = "empty" /\ f \in {Absent, ckpt} /\ es' = f
  /\ UNCHANGED <<plan, ckpt, graph, lock, tmp, started, pc, cmd, view, exit, killed>>

-----------------------------------------------------------------------------
Step(p) ==
  \/ StartCheck(p) \/ SelfTest(p) \/ Doctor(p) \/ Verify(p)
  \/ LockRead(p) \/ LockClear(p) \/ LockTmp(p) \/ LockReplace(p)
  \/ ClaimRead(p) \/ GraphLoad(p) \/ GraphCreate(p) \/ GraphFill(p) \/ Pick(p)
  \/ ClaimWrite(p) \/ Finish(p)
  \/ ResumeOpen(p) \/ Recover(p) \/ StopRead(p) \/ StopSave(p) \/ StopFill(p) \/ StopUnlock(p) \/ StopCheck(p)

StartupNext ==
  \/ \E p \in Proc : Step(p) \/ Kill(p) \/ \E c \in Commands : Launch(p, c)
  \/ \E d \in Plan : EditPlan(d)
  \/ \E t \in Task \cup {NoTask} : EditGraph(t)
  \/ \E f \in {Absent, ckpt} : RepairState(f)

StartupSpec == StartupInit /\ [][StartupNext]_vars

-----------------------------------------------------------------------------
(* Properties *)

\* A task recorded under a plan hash is a task of that plan, whatever dry runs, edits,
\* stops, kills and repairs came before: the hash a fresh state takes is the one of the
\* graph the task came from (state_machine.py:307), not that of the file validated.
ClaimFromRecordedPlan ==
  es.hash # NoPlan /\ es.task # NoTask => es.task \in TasksOf[es.hash]

\* Commands run one after the other are never locked out: the lock a finished or killed
\* command leaves behind, which nothing but `stop` removes, counts as stale (lock.py:74).
NeverLockedOut == exit # 4

\* A state or a graph that is found empty was left so by a killed command: a `stop` for
\* the state, a claim for the graph.  No refusal, and no retry of one, tears a file.
TornOnlyByKill ==
  Quiet => /\ es.file = "empty" => "stop" \in killed
           /\ graph.file = "empty" => "claim" \in killed

\* While the plan file differs from the recorded plan, no command claims a task
\* (state_machine.py:269).
NoSilentSwitch ==
  [][es.hash \notin {NoPlan, plan} /\ es'.file = "whole" => es'.task \in {es.task, NoTask}]_vars

\* The lock fences a project: of the commands that take it, one at a time claims.
Claiming(p) ==
  /\ cmd[p] \in {"start", "resume"}
  /\ pc[p] \in {"recover", "claim", "graph", "create", "fill", "pick", "write", "finish"}
OneClaimer == \A p, q \in Proc : Claiming(p) /\ Claiming(q) => p = q
=============================================================================
