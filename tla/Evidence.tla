------------------------------ MODULE Evidence ------------------------------
(***************************************************************************)
(* The evidence manager: one directory per run under artifacts/runs, with  *)
(* a manifest, the command and metrics, and one index of all runs.  Every  *)
(* file is emptied and then filled, in place, and nothing is locked; who   *)
(* fills a file another one has filled meanwhile may leave a mixture of    *)
(* both.  Workers create a run and complete or fail it, each for a task,   *)
(* and are killed; anybody may verify or read meanwhile.                   *)
(*                                                                         *)
(* A run's id is the second it was created in; one run may be there from   *)
(* before.  Hardware and environment in the manifest, times, the csv text  *)
(* and the verification nobody reads are left out.  No program of the      *)
(* repository creates runs: recovery and the reports read them.            *)
(***************************************************************************)
EXTENDS Naturals

CONSTANTS
  Worker,       \* who keeps evidence, by number
  LastSecond    \* bound on the seconds that pass

ASSUME EvidenceAssumption == Worker \subseteq Nat /\ LastSecond \in Nat \ {0, 1}

VARIABLES
  now,          \* the second
  runDir,       \* run id -> its directory
  index,        \* evidence_index.json: what it is and the task of every run in it
  worker,       \* each worker: its step, its task and run, what it has read, where it was killed
  beside        \* history: the workers whose update of the index overlapped another one

evidenceVars == <<now, runDir, index, worker, beside>>

EvidenceTask == {"train", "eval"}
EarlierRun == 1

\* What json.loads makes nothing of.
Torn == {"empty", "mixed"}
NoManifest == [is |-> "absent", task |-> "none", status |-> "none"]
NoDir == [manifest |-> NoManifest, command |-> "absent", metrics |-> "absent"]
EarlierDir == [manifest |-> [is |-> "whole", task |-> "train", status |-> "COMPLETE"],
               command |-> "whole", metrics |-> "whole"]
NoEntries == [r \in {} |-> "train"]
Off == [at |-> "idle", task |-> "none", run |-> 0, seen |-> NoEntries, read |-> NoManifest,
        cut |-> "none"]

EvidenceInit ==
  /\ now = 2
  /\ \/ /\ runDir = [r \in 1..LastSecond |-> NoDir]
        /\ index = [is |-> "absent", runs |-> NoEntries]
     \/ /\ runDir = [r \in 1..LastSecond |-> IF r = EarlierRun THEN EarlierDir ELSE NoDir]
        /\ index = [is |-> "whole", runs |-> [r \in {EarlierRun} |-> "train"]]
  /\ worker = [w \in Worker |-> Off] /\ beside = {}

OneMore == now < LastSecond /\ now' = now + 1 /\ UNCHANGED <<runDir, index, worker, beside>>

-----------------------------------------------------------------------------
(* create_run *)

Doing(w, step) == worker[w].at = step
Proceed(w, step) == worker' = [worker EXCEPT ![w] = [@ EXCEPT !.at = step]]
InDir(w, field, value) ==
  /\ runDir' = [runDir EXCEPT ![worker[w].run] = [@ EXCEPT ![field] = value]]
  /\ UNCHANGED <<now, index, beside>>
\* A worker that raised or was killed; the directory it made stays.
Left(w, how) ==
  worker' = [worker EXCEPT ![w] = [Off EXCEPT !.at = how, !.run = worker[w].run, !.cut = worker[w].at]]

\* What a file may hold after `text` was written to it: something unreadable as well where
\* another text has come in since it was emptied.
Filled(file, text) ==
  {text} \cup IF file.is \in {"whole", "mixed"} THEN {[text EXCEPT !.is = "mixed"]} ELSE {}

\* mkdir is content with a directory that exists.  The workers are alike: they begin in
\* increasing order.
CreateRun(w, task) ==
  /\ Doing(w, "idle") /\ \A v \in Worker : v < w => ~Doing(v, "idle")
  /\ worker' = [worker EXCEPT ![w] = [Off EXCEPT !.at = "create", !.task = task, !.run = now]]
  /\ UNCHANGED <<now, runDir, index, beside>>

EmptyManifest(w) ==
  /\ Doing(w, "create") /\ Proceed(w, "fill manifest")
  /\ InDir(w, "manifest", [NoManifest EXCEPT !.is = "empty"])
FillManifest(w) ==
  /\ Doing(w, "fill manifest") /\ Proceed(w, "command")
  /\ \E m \in Filled(runDir[worker[w].run].manifest,
                     [is |-> "whole", task |-> worker[w].task, status |-> "RUNNING"]) :
       InDir(w, "manifest", m)
\* Nobody asks for more than that the command is there, which it is once it was opened.
WriteCommand(w) ==
  /\ Doing(w, "command") /\ Proceed(w, "read index") /\ InDir(w, "command", "whole")

\* The index is read, extended and written back; one that cannot be read raises.
ReadIndex(w) ==
  /\ Doing(w, "read index")
  /\ IF index.is \in Torn THEN Left(w, "raised") /\ UNCHANGED beside
     ELSE LET others == {v \in Worker \ {w} : worker[v].at \in {"empty index", "fill index"}}
          IN  /\ worker' = [worker EXCEPT ![w] = [@ EXCEPT !.at = "empty index", !.seen = index.runs]]
              /\ beside' = beside \cup others \cup {v \in {w} : others # {}}
  /\ UNCHANGED <<now, runDir, index>>
EmptyIndex(w) ==
  /\ Doing(w, "empty index") /\ Proceed(w, "fill index")
  /\ index' = [is |-> "empty", runs |-> NoEntries]
  /\ UNCHANGED <<now, runDir, beside>>

\* Mutant of WithRunIn: the index is written with the new run alone.
WithRunInAlone(runs, r, task) == [s \in {r} |-> task]

WithRunIn(runs, r, task) == [s \in DOMAIN runs \cup {r} |-> IF s = r THEN task ELSE runs[s]]

FillIndex(w) ==
  /\ Doing(w, "fill index")
  /\ worker' = [worker EXCEPT ![w] = [@ EXCEPT !.at = "created", !.seen = NoEntries]]
  /\ index' \in Filled(index, [is |-> "whole",
                               runs |-> WithRunIn(worker[w].seen, worker[w].run, worker[w].task)])
  /\ UNCHANGED <<now, runDir, beside>>

-----------------------------------------------------------------------------
(* complete_run, whatever status its caller likes, and fail_run *)

ReadManifest(w, status) ==
  LET m == runDir[worker[w].run].manifest
  IN  /\ Doing(w, "created")
      /\ IF m.is \in Torn THEN Left(w, "raised")
         ELSE worker' = [worker EXCEPT ![w] = [@ EXCEPT !.at = "update", !.read = [m EXCEPT !.status = status]]]
      /\ UNCHANGED <<now, runDir, index, beside>>
EmptyForUpdate(w) ==
  /\ Doing(w, "update") /\ Proceed(w, "fill update")
  /\ InDir(w, "manifest", [NoManifest EXCEPT !.is = "empty"])
FillUpdate(w) ==
  /\ Doing(w, "fill update") /\ Proceed(w, "updated")
  /\ \E m \in Filled(runDir[worker[w].run].manifest, worker[w].read) : InDir(w, "manifest", m)

\* Metrics, if complete_run was given any.
EmptyMetrics(w) ==
  /\ Doing(w, "updated") /\ worker[w].read.status # "FAILED"
  /\ Proceed(w, "fill metrics") /\ InDir(w, "metrics", "empty")
FillMetrics(w) ==
  /\ Doing(w, "fill metrics") /\ Proceed(w, "measured") /\ InDir(w, "metrics", "whole")

Killed(w) ==
  /\ worker[w].at \notin {"idle", "created", "updated", "measured", "raised", "killed"}
  /\ Left(w, "killed") /\ UNCHANGED <<now, runDir, index, beside>>

EvidenceNext ==
  \/ OneMore
  \/ \E w \in Worker :
       \/ \E task \in EvidenceTask : CreateRun(w, task)
       \/ EmptyManifest(w) \/ FillManifest(w) \/ WriteCommand(w)
       \/ ReadIndex(w) \/ EmptyIndex(w) \/ FillIndex(w)
       \/ \E status \in {"COMPLETE", "FAILED"} : ReadManifest(w, status)
       \/ EmptyForUpdate(w) \/ FillUpdate(w) \/ EmptyMetrics(w) \/ FillMetrics(w)
       \/ Killed(w)

EvidenceSpec == EvidenceInit /\ [][EvidenceNext]_evidenceVars

-----------------------------------------------------------------------------
(* What its readers are told: list_runs, claims and verification *)

\* A run whose manifest is gone is passed over; one torn manifest, or a torn index, raises.
RunsOf(task) == {r \in DOMAIN index.runs : index.runs[r] = task}
ListRaises(task) == index.is \in Torn \/ \E r \in RunsOf(task) : runDir[r].manifest.is \in Torn
ListedRuns(task) == {r \in RunsOf(task) : runDir[r].manifest.is = "whole"}
\* verify_evidence_chain says PASSED.
VerifyEvidenceChain(r) == runDir[r].manifest.is = "whole" /\ runDir[r].command = "whole"
EvidenceForClaim == {r \in DOMAIN index.runs : runDir[r].metrics = "whole"}

-----------------------------------------------------------------------------
(* Properties *)

Created(w) == worker[w].at \in {"created", "update", "fill update", "updated", "fill metrics", "measured"}
\* Two runs of one second.
Shared(w) == \E v \in Worker \ {w} : worker[v].run = worker[w].run
\* The worker is about to fill a file, or was killed there.
CutAt(w, steps) == worker[w].at \in steps \/ (worker[w].at = "killed" /\ worker[w].cut \in steps)

\* list_runs raises for a task only while the index or the manifest of a run it has under
\* that task is being written, after a kill there, or after two workers overlapped at the
\* index or in one second.  When it answers, every run that create_run has returned is in
\* the answer under its own task, verifies, says what its worker said last and shows its
\* metrics, whatever others did to the index before and after: but for the runs of the very
\* updates that overlapped, and the runs that share a second.  And a run from before is
\* never lost.
EvidenceListed ==
  \A task \in EvidenceTask :
    /\ ListRaises(task) =>
         \/ beside # {} \/ \E w \in Worker : CutAt(w, {"fill index"})
         \/ \E w \in Worker : /\ worker[w].run \in RunsOf(task)
                              /\ CutAt(w, {"fill manifest", "fill update"}) \/ Shared(w)
    /\ ~ListRaises(task) =>
         /\ \A w \in Worker \ beside :
              Created(w) /\ ~Shared(w) /\ worker[w].task = task =>
                LET r == worker[w].run
                IN  /\ r \in ListedRuns(task) /\ VerifyEvidenceChain(r)
                    /\ worker[w].at \in {"updated", "fill metrics", "measured"} =>
                         runDir[r].manifest = worker[w].read
                    /\ Doing(w, "measured") => r \in EvidenceForClaim
         /\ task = "train" /\ runDir[EarlierRun] = EarlierDir => EarlierRun \in ListedRuns(task)
=============================================================================
