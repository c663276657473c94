------------------------------ MODULE Reproctl ------------------------------
(***************************************************************************)
(* The gate ledger of reproctl (.repro/state.json) and its experiment      *)
(* tracker.  A command loads the whole ledger, works on its copy, in the   *)
(* case of `launch` for as long as a training runs, and saves the whole    *)
(* copy: nothing locks the file, so two commands can save over each other. *)
(* A save empties and fills state.tmp, which all commands share, and moves *)
(* it over the ledger.                                                     *)
(*                                                                         *)
(* The tracker is appended to, or emptied and rewritten.  The decision log,*)
(* which nobody reads back, is left out, and so is the legacy `verify`: the*)
(* dispatcher hands that word to the startup command line, so gate 5 is    *)
(* only ever set by hand.                                                  *)
(***************************************************************************)
EXTENDS Naturals, Sequences, SequencesExt, FiniteSets

CONSTANTS
  Command,      \* the command processes, each runs once; a launch's run is named after it
  Experiment    \* experiment ids

Gate == {"gate_0", "gate_1", "gate_2", "gate_3"}

ASSUME ReproAssumption == Command \cap Gate = {}

VARIABLES
  gateFile,    \* the texts in state.json: one, or none, or two of which it is a mixture
  gateTmp,     \* the texts in state.tmp
  tmpThere,     \* whether there is a state.tmp
  cpc, ccopy,   \* where each command is, and the ledger as it loaded or changed it
  opened,       \* where the file is by now that the command has open
  choice,       \* the gates and runs the command decides
  tracker,      \* the rows of the tracker, in order
  trackerFile,  \* "whole", or "emptied" while it is rewritten
  crow,         \* the row a tracker command is to write, or the rows it read
  decided,      \* history: the last decision saved on each gate and run
  since,        \* history: what was decided since the command loaded its copy
  lost,         \* history: what was decided last while a command held an older copy, now saved
  clash,        \* history: a save began while another was under way
  entered,      \* history: the experiments recorded
  rewriteCut    \* history: a tracker rewrite was killed, or two tracker commands met

reproVars == <<gateFile, gateTmp, tmpThere, cpc, ccopy, opened, choice, tracker, trackerFile,
               crow, decided, since, lost, clash, entered, rewriteCut>>

Key == Gate \cup Command
Word == {"pending", "passed", "failed", "none", "running", "success"}
Ledger == [Key -> Word]

LedgerTypeOK ==
  /\ gateFile \in Seq(Ledger) /\ gateTmp \in Seq(Ledger) /\ tmpThere \in BOOLEAN
  /\ ccopy \in [Command -> Ledger] /\ opened \in [Command -> {"none", "tmp", "file", "gone"}]
  /\ choice \in [Command -> SUBSET Key] /\ since \in [Command -> SUBSET Key]
  /\ decided \in Ledger /\ lost \subseteq Key /\ clash \in BOOLEAN

CommandPlace == {"idle", "set", "launch", "train", "loop", "fill", "put", "record", "rewrite", "refill", "done"}
TrackerTypeOK ==
  /\ cpc \in [Command -> CommandPlace]
  /\ tracker \in Seq(Experiment) /\ trackerFile \in {"whole", "emptied"}
  /\ crow \in [Command -> Seq(Experiment)] /\ entered \subseteq Experiment /\ rewriteCut \in BOOLEAN

ReproTypeOK == LedgerTypeOK /\ TrackerTypeOK

\* get_default_state, saved by `init`.
FreshLedger == [k \in Key |-> IF k \in Gate THEN "pending" ELSE "none"]
GatesPassed == [k \in Key |-> IF k \in Gate THEN "passed" ELSE "none"]

\* A new project, or one whose gates have all been passed.
ReproInit ==
  /\ decided \in {FreshLedger, GatesPassed} /\ gateFile = <<decided>>
  /\ gateTmp = <<>> /\ tmpThere = FALSE
  /\ cpc = [c \in Command |-> "idle"] /\ ccopy = [c \in Command |-> FreshLedger]
  /\ opened = [c \in Command |-> "none"] /\ choice = [c \in Command |-> {}]
  /\ since = [c \in Command |-> {}] /\ lost = {} /\ clash = FALSE
  /\ tracker = <<>> /\ trackerFile = "whole" /\ crow = [c \in Command |-> <<>>]
  /\ entered = {} /\ rewriteCut = FALSE

trackerVars == <<tracker, trackerFile, crow, entered, rewriteCut>>
savedVars == <<gateFile, gateTmp, tmpThere, opened, decided, lost, clash>>
CommandAt(c, place) == cpc' = [cpc EXCEPT ![c] = place]

\* A command that ends forgets its copy.
Leave(c) ==
  /\ CommandAt(c, "done") /\ ccopy' = [ccopy EXCEPT ![c] = FreshLedger]
  /\ choice' = [choice EXCEPT ![c] = {}] /\ since' = [since EXCEPT ![c] = {}]

-----------------------------------------------------------------------------
(* load_state and save_state *)

\* A ledger that was cut short or is a mixture of two is no JSON: the command fails.
Load(c, place, keys, copy) ==
  /\ cpc[c] = "idle" /\ Len(gateFile) = 1
  /\ CommandAt(c, place) /\ ccopy' = [ccopy EXCEPT ![c] = copy]
  /\ choice' = [choice EXCEPT ![c] = keys] /\ since' = [since EXCEPT ![c] = {}]
  /\ UNCHANGED <<savedVars, trackerVars>>

\* The open of a save, which empties what another command may be about to move.
SaveState(c, copy, keys) ==
  /\ CommandAt(c, "fill")
  /\ ccopy' = [ccopy EXCEPT ![c] = copy] /\ choice' = [choice EXCEPT ![c] = keys]
  /\ gateTmp' = <<>> /\ tmpThere' = TRUE /\ opened' = [opened EXCEPT ![c] = "tmp"]
  /\ clash' = (clash \/ \E d \in Command : cpc[d] \in {"fill", "put"})
  /\ UNCHANGED <<gateFile, decided, since, lost, trackerVars>>

\* What a file holds that `new` is written over: the old text shows behind a shorter one.
WrittenOver(texts, new) == {<<new>>} \cup {<<new, texts[i]>> : i \in DOMAIN texts}

\* What is written goes where the file is by now that was opened.
FillState(c) ==
  /\ cpc[c] = "fill" /\ CommandAt(c, "put")
  /\ gateTmp' \in IF opened[c] = "tmp" THEN WrittenOver(gateTmp, ccopy[c]) ELSE {gateTmp}
  /\ gateFile' \in IF opened[c] = "file" THEN WrittenOver(gateFile, ccopy[c]) ELSE {gateFile}
  /\ opened' = [opened EXCEPT ![c] = "none"]
  /\ UNCHANGED <<tmpThere, ccopy, choice, decided, since, lost, clash, trackerVars>>

\* What was decided since the copy was loaded is lost, unless the command decides it anew.
Decides(c) ==
  /\ decided' = [k \in Key |-> IF k \in choice[c] THEN ccopy[c][k] ELSE decided[k]]
  /\ lost' = (lost \cup since[c]) \ choice[c]

\* Another command may have moved the file already; then this one crashes.
PutState(c) ==
  /\ cpc[c] = "put"
  /\ IF ~tmpThere THEN Leave(c) /\ UNCHANGED savedVars
     ELSE /\ gateFile' = gateTmp /\ gateTmp' = <<>> /\ tmpThere' = FALSE
          /\ opened' = [d \in Command |-> IF opened[d] = "tmp" THEN "file"
                                          ELSE IF opened[d] = "file" THEN "gone" ELSE opened[d]]
          /\ Decides(c)
          /\ CommandAt(c, IF choice[c] = {c} /\ ccopy[c][c] = "running" THEN "train" ELSE "done")
          /\ since' = [d \in Command |-> IF d = c THEN since[c] ELSE since[d] \cup choice[c]]
          /\ UNCHANGED <<ccopy, choice, clash>>
  /\ UNCHANGED trackerVars

-----------------------------------------------------------------------------
(* init, update-gate *)

\* `init` does not ask whether there is a ledger already.
InitProject(c) ==
  /\ cpc[c] = "idle" /\ SaveState(c, FreshLedger, Key)

UpdateGate(c, g, status) ==
  Load(c, "set", {g}, [gateFile[1] EXCEPT ![g] = status])

SaveGate(c) == cpc[c] = "set" /\ SaveState(c, ccopy[c], choice[c])

-----------------------------------------------------------------------------
(* launch: the gates of the mode, the run record, the training, its result *)

RequiredGates(mode) ==
  {"gate_0", "gate_1", "gate_2"} \cup (IF mode = "optimized_repro_safe" THEN {"gate_3"} ELSE {})

CanLaunch(state, mode) == \A g \in RequiredGates(mode) : state[g] = "passed"

LaunchLoad(c) ==
  /\ Load(c, "launch", {}, gateFile[1])
  /\ \E mode \in {"strict_repro", "optimized_repro_safe"} : CanLaunch(gateFile[1], mode)

\* Mutant of WithRun: the list of runs is started anew.
WithRunAlone(state, c, status) ==
  [k \in DOMAIN state |-> IF k = c THEN status ELSE IF k \in Command THEN "none" ELSE state[k]]

WithRun(state, c, status) == [state EXCEPT ![c] = status]

\* The record is saved after a snapshot of the environment that takes seconds.
LaunchRecord(c) == cpc[c] = "launch" /\ SaveState(c, WithRun(ccopy[c], c, "running"), {c})

\* The copy saved when the training ends is the one saved when it began.
LaunchEnd(c) ==
  /\ cpc[c] = "train"
  /\ \E status \in {"success", "failed"} : SaveState(c, WithRun(ccopy[c], c, status), {c})

-----------------------------------------------------------------------------
(* run-short-loop: gates 0 and 1, the requested tests, gate 2 *)

ShortLoopLoad(c) ==
  /\ Load(c, "loop", {}, gateFile[1])
  /\ \A g \in {"gate_0", "gate_1"} : gateFile[1][g] = "passed"

\* The exit code of a test decides, a missing script skips it.
TestResult == {"passed", "failed", "skipped"}

\* A test that was skipped, or not asked for, does not keep the gate closed.
Gate2(results) == IF \E i \in DOMAIN results : results[i] = "failed" THEN "failed" ELSE "passed"

\* `--level all` runs four tests, any other level one.
Gate2Answers == {Gate2(results) : results \in [1..1 -> TestResult] \cup [1..4 -> TestResult]}

ShortLoopSave(c) ==
  /\ cpc[c] = "loop"
  /\ \E answer2 \in Gate2Answers : SaveState(c, [ccopy[c] EXCEPT !["gate_2"] = answer2], {"gate_2"})

-----------------------------------------------------------------------------
(* The experiment tracker *)

ledgerVars == <<savedVars, ccopy, choice, since>>
Tracking == {c \in Command : cpc[c] \in {"record", "rewrite", "refill"}}

\* Mutant of RecordRead: the ids already there are not looked at.
RecordReadAgain(c, x) ==
  /\ cpc[c] = "idle"
  /\ CommandAt(c, "record") /\ crow' = [crow EXCEPT ![c] = <<x>>]
  /\ rewriteCut' = (rewriteCut \/ Tracking # {})
  /\ UNCHANGED <<tracker, trackerFile, entered, ledgerVars>>

\* record_experiment reads the ids; one already there is not added again.
RecordRead(c, x) ==
  /\ cpc[c] = "idle"
  /\ LET new == x \notin ToSet(tracker) IN
       /\ CommandAt(c, IF new THEN "record" ELSE "done")
       /\ crow' = [crow EXCEPT ![c] = IF new THEN <<x>> ELSE <<>>]
  /\ rewriteCut' = (rewriteCut \/ Tracking # {})
  /\ UNCHANGED <<tracker, trackerFile, entered, ledgerVars>>

RecordAppend(c) ==
  /\ cpc[c] = "record"
  /\ tracker' = tracker \o crow[c] /\ crow' = [crow EXCEPT ![c] = <<>>]
  /\ entered' = entered \cup ToSet(crow[c]) /\ CommandAt(c, "done")
  /\ UNCHANGED <<trackerFile, rewriteCut, ledgerVars>>

\* update_experiment reads every row, empties the file and writes the rows back.
UpdateRead(c) ==
  /\ cpc[c] = "idle" /\ tracker # <<>>
  /\ CommandAt(c, "rewrite") /\ crow' = [crow EXCEPT ![c] = tracker]
  /\ rewriteCut' = (rewriteCut \/ Tracking # {})
  /\ UNCHANGED <<tracker, trackerFile, entered, ledgerVars>>

UpdateEmpty(c) ==
  /\ cpc[c] = "rewrite"
  /\ tracker' = <<>> /\ trackerFile' = "emptied" /\ CommandAt(c, "refill")
  /\ UNCHANGED <<crow, entered, rewriteCut, ledgerVars>>

UpdateRefill(c) ==
  /\ cpc[c] = "refill"
  /\ tracker' = crow[c] /\ trackerFile' = "whole" /\ crow' = [crow EXCEPT ![c] = <<>>]
  /\ CommandAt(c, "done")
  /\ UNCHANGED <<entered, rewriteCut, ledgerVars>>

\* A killed launch leaves its run "running" for good.
KillCommandOf(c) ==
  /\ cpc[c] \notin {"idle", "done"}
  /\ Leave(c) /\ crow' = [crow EXCEPT ![c] = <<>>] /\ opened' = [opened EXCEPT ![c] = "none"]
  /\ rewriteCut' = (rewriteCut \/ cpc[c] = "refill")
  /\ UNCHANGED <<tracker, trackerFile, entered, gateFile, gateTmp, tmpThere, decided, lost, clash>>

ReproNext ==
  \E c \in Command :
    \/ InitProject(c)
    \/ \E g \in Gate, status \in {"passed", "failed", "pending"} : UpdateGate(c, g, status)
    \/ SaveGate(c) \/ FillState(c) \/ PutState(c)
    \/ LaunchLoad(c) \/ LaunchRecord(c) \/ LaunchEnd(c)
    \/ ShortLoopLoad(c) \/ ShortLoopSave(c)
    \/ \E x \in Experiment : RecordRead(c, x)
    \/ RecordAppend(c) \/ UpdateRead(c) \/ UpdateEmpty(c) \/ UpdateRefill(c)
    \/ KillCommandOf(c)

ReproSpec == ReproInit /\ [][ReproNext]_reproVars

-----------------------------------------------------------------------------
(* Properties *)

\* Unless two commands saved at one moment, the ledger is whole and holds the last
\* decision on every gate and the last status of every run, but for what was decided while
\* a command held an older copy that it saved since: a command that saves takes back
\* nothing it could have loaded, kills in the middle of a save included.
LedgerCurrent ==
  ~clash => Len(gateFile) = 1 /\ \A k \in Key \ lost : gateFile[1][k] = decided[k]

\* Unless two tracker commands met or a rewrite was cut off, each experiment recorded
\* has one row, in the file or in the hands of the update that is rewriting it.
TrackerComplete ==
  ~rewriteCut =>
    LET rows == IF trackerFile = "whole" THEN tracker
                ELSE crow[CHOOSE c \in Command : cpc[c] = "refill"]
    IN  Cardinality(entered) = Len(rows) /\ ToSet(rows) = entered
=============================================================================
