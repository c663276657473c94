-------------------------------- MODULE Soak --------------------------------
(***************************************************************************)
(* The overnight soak: `soak start`, `plan`, `pause`, `resume` and `stop`  *)
(* with their pid file ostar.pid, and the engine processes they fork, or   *)
(* run in the foreground.                                                  *)
(*                                                                         *)
(* Several commands are given at once; each is a chain of steps that the   *)
(* others, and the engines, interleave with.  The pid file is written in   *)
(* place: it is emptied first and filled next.                             *)
(*                                                                         *)
(* An engine works under the run id its guard made up; the row of          *)
(* soak_runs that init_run inserts has another one.  So every update of    *)
(* the row finds none, and the first test result of the first cycle        *)
(* violates the foreign key.  The handler of that error calls a method the *)
(* store does not have, and the engine dies: a soak ends in an orderly way *)
(* before its first cycle or not at all.  The repairs, bugs and cycles an  *)
(* engine would go on to record are never reached and left out, and so are *)
(* the files that only report on a run.                                    *)
(***************************************************************************)
EXTENDS Integers, FiniteSets

CONSTANTS
  Engine,        \* the pids of engine processes, taken in increasing order
  SoakCaller,    \* the commands that run at once
  MaxSignals     \* bound on the pause, resume and stop commands

ASSUME SoakAssumption == Engine \subseteq Nat \ {0} /\ MaxSignals \in Nat

VARIABLES
  soakPid,       \* ostar.pid; 0 when it is missing or empty or says 0
  engine,        \* Engine -> how it was started, how far it is, its signals
  soakCall,      \* each command: its next step and its pid
  soakSlip,      \* history: commands got in each other's way, or a start was killed
  signals        \* signals so far

soakVars == <<soakPid, engine, soakCall, soakSlip, signals>>

Stranger == -1   \* a number that is no engine's pid
EngineStage == {"free", "forked", "guarding", "guarded", "looping", "leaving", "down"}
EngineRec ==
  [how : {"daemon", "dry", "plan"}, stage : EngineStage, paused : BOOLEAN, stop : BOOLEAN,
   pending : BOOLEAN]
Unstarted == [how |-> "daemon", stage |-> "free", paused |-> FALSE, stop |-> FALSE, pending |-> FALSE]
SoakStarting == {"fork", "record", "refill"}
SoakStep == [name : SoakStarting \cup {"none", "pause", "resume", "term", "wait", "strike", "zero"},
             pid : Engine \cup {0, Stranger}]
SoakIdle == [name |-> "none", pid |-> 0]

SoakTypeOK ==
  /\ soakPid \in Engine \cup {0, Stranger} /\ engine \in [Engine -> EngineRec]
  /\ soakCall \in [SoakCaller -> SoakStep] /\ soakSlip \in BOOLEAN /\ signals \in 0..MaxSignals

SoakInit ==
  /\ soakPid = 0 /\ soakSlip = FALSE /\ signals = 0
  /\ engine = [p \in Engine |-> Unstarted]
  /\ soakCall = [c \in SoakCaller |-> SoakIdle]

EngineAlive(p) == p \in Engine /\ engine[p].stage \notin {"free", "down"}
NextEngine(p) == engine[p].stage = "free" /\ \A q \in Engine : q < p => engine[q].stage # "free"
EngineIs(p, e) == engine' = [engine EXCEPT ![p] = e]
EngineAt(p, stage) == EngineIs(p, [engine[p] EXCEPT !.stage = stage])
SoakAt(c, name) == soakCall[c].name = name
SoakGoes(c, name, pid) == soakCall' = [soakCall EXCEPT ![c] = [name |-> name, pid |-> pid]]
SoakDone(c) == soakCall' = [soakCall EXCEPT ![c] = SoakIdle]
SoakSlips(happens) == soakSlip' = (soakSlip \/ happens)

\* What is in the file after a text is written over one that is there already: the
\* longer leaves a tail.
SoakText(text) == IF soakPid \notin {0, text} THEN {text, Stranger} ELSE {text}

-----------------------------------------------------------------------------
(* start, plan *)

\* The look at the pid file: "soak already running" where it names a living process.  It
\* finds nobody as well while another start has looked and not written yet.
FindsNoSoak ==
  /\ ~EngineAlive(soakPid)
  /\ SoakSlips(\E c \in SoakCaller : soakCall[c].name \in SoakStarting)

SoakStart(c) ==
  /\ SoakAt(c, "none") /\ FindsNoSoak /\ SoakGoes(c, "fork", 0)
  /\ UNCHANGED <<soakPid, engine, signals>>

Fork(c, p) ==
  /\ SoakAt(c, "fork") /\ NextEngine(p)
  /\ EngineAt(p, "forked") /\ SoakGoes(c, "record", p)
  /\ UNCHANGED <<soakPid, soakSlip, signals>>

EmptySoakPid(c) ==
  /\ SoakAt(c, "record") /\ soakPid' = 0 /\ SoakGoes(c, "refill", soakCall[c].pid)
  /\ UNCHANGED <<engine, soakSlip, signals>>

RecordPid(c) ==
  /\ SoakAt(c, "refill") /\ soakPid' \in SoakText(soakCall[c].pid) /\ SoakDone(c)
  /\ UNCHANGED <<engine, soakSlip, signals>>

\* The dry run looks at the pid file, `plan` does not.  Both run the engine in the
\* foreground and leave no pid; other commands may be given meanwhile.
RunInFront(p, how) ==
  /\ NextEngine(p) /\ (how = "dry" => ~EngineAlive(soakPid))
  /\ EngineIs(p, [Unstarted EXCEPT !.stage = "forked", !.how = how])
  /\ UNCHANGED <<soakPid, soakCall, soakSlip, signals>>

-----------------------------------------------------------------------------
(* The engine *)

Works(p, stage) == engine[p].stage = stage /\ ~engine[p].paused
EngineMoves(p, from, to) ==
  /\ Works(p, from) /\ \E stage \in to : EngineAt(p, stage)
  /\ UNCHANGED <<soakPid, soakCall, soakSlip, signals>>

\* The constructor ends with the signal handlers.
Construct(p) == EngineMoves(p, "forked", {"guarding"})

\* One failed check ends the engine before it has written anything.
RunGuard(p) == EngineMoves(p, "guarding", {"guarded", "down"})

\* A rehearsal tries the tools and ends; it never starts its run.
Rehearse(p) == engine[p].how = "plan" /\ EngineMoves(p, "guarded", {"down"})
StartRun(p) == engine[p].how # "plan" /\ EngineMoves(p, "guarded", {"looping"})

\* The first pass of the loop: asked to stop, or a reason to terminate; otherwise the end
\* time after all, or the first cycle, which dies.
LoopOnce(p) == EngineMoves(p, "looping", IF engine[p].stop THEN {"leaving"} ELSE {"leaving", "down"})

\* The validator, the completion of the run, aborted or not, and the reports.
LeaveLoop(p) == EngineMoves(p, "leaving", {"down"})

\* A signal nobody here sent, a crash, or files that cannot be written.
EngineDies(p) ==
  /\ EngineAlive(p) /\ EngineAt(p, "down")
  /\ UNCHANGED <<soakPid, soakCall, soakSlip, signals>>

-----------------------------------------------------------------------------
(* pause, resume, stop *)

Signal(c, name) ==
  /\ SoakAt(c, "none") /\ signals < MaxSignals /\ signals' = signals + 1
  /\ SoakGoes(c, name, soakPid)
  /\ UNCHANGED <<soakPid, engine, soakSlip>>

SoakPause(c) == EngineAlive(soakPid) /\ Signal(c, "pause")
SoakResume(c) == EngineAlive(soakPid) /\ Signal(c, "resume")
\* A dead pid needs no SIGTERM; the file is put to 0 all the same.
SoakStop(c) == soakPid # 0 /\ Signal(c, IF EngineAlive(soakPid) THEN "term" ELSE "strike")

\* SIGTERM: a stopped process does not see it yet; before an engine has its handler the
\* process dies of it, afterwards the engine notes it.
Terminated(e) ==
  IF e.paused THEN [e EXCEPT !.pending = TRUE]
  ELSE IF e.stage = "forked" THEN [e EXCEPT !.stage = "down"] ELSE [e EXCEPT !.stop = TRUE]

Continued(e) ==
  LET f == [e EXCEPT !.paused = FALSE, !.pending = FALSE] IN
    IF e.pending THEN Terminated(f) ELSE f

Delivered(name, e) ==
  CASE name = "pause" -> [e EXCEPT !.paused = TRUE]
    [] name = "resume" -> Continued(e)
    [] OTHER -> Terminated(e)

\* The signal goes to the pid that was on file.
Deliver(c) ==
  LET p == soakCall[c].pid IN
    /\ soakCall[c].name \in {"pause", "resume", "term"} /\ EngineAlive(p)
    /\ EngineIs(p, Delivered(soakCall[c].name, engine[p]))
    /\ IF SoakAt(c, "term") THEN SoakGoes(c, "wait", p) ELSE SoakDone(c)
    /\ UNCHANGED <<soakPid, soakSlip, signals>>

\* Mutant of StopWaited: ten seconds are enough for every engine.
StopWaitedOnly(c) ==
  /\ SoakAt(c, "wait") /\ SoakGoes(c, "strike", soakCall[c].pid)
  /\ UNCHANGED <<soakPid, engine, soakSlip, signals>>

\* Ten seconds later SIGKILL ends what is still alive, paused or not.
StopWaited(c) ==
  LET p == soakCall[c].pid IN
    /\ SoakAt(c, "wait") /\ SoakGoes(c, "strike", p)
    /\ IF EngineAlive(p) THEN EngineAt(p, "down") ELSE UNCHANGED engine
    /\ UNCHANGED <<soakPid, soakSlip, signals>>

\* The file is emptied and 0 put in it, whoever is on it by now.
StrikesOff(c) == SoakSlips(EngineAlive(soakPid) /\ soakPid # soakCall[c].pid)

StopEmpties(c) ==
  /\ SoakAt(c, "strike") /\ soakPid' = 0 /\ StrikesOff(c)
  /\ SoakGoes(c, "zero", soakCall[c].pid)
  /\ UNCHANGED <<engine, signals>>

StopZero(c) ==
  /\ SoakAt(c, "zero") /\ StrikesOff(c) /\ SoakDone(c)
  /\ soakPid' = IF soakPid \in Engine THEN Stranger ELSE soakPid
  /\ UNCHANGED <<engine, signals>>

\* A command is killed, or fails because the process it signals is gone.  A start killed
\* behind its fork leaves a daemon that is not on file.
KillSoakCall(c) ==
  /\ ~SoakAt(c, "none") /\ SoakDone(c)
  /\ SoakSlips(soakCall[c].name \in {"record", "refill"} /\ EngineAlive(soakCall[c].pid))
  /\ UNCHANGED <<soakPid, engine, signals>>

SoakNext ==
  \/ \E c \in SoakCaller :
       \/ SoakStart(c) \/ EmptySoakPid(c) \/ RecordPid(c) \/ \E p \in Engine : Fork(c, p)
       \/ SoakPause(c) \/ SoakResume(c) \/ SoakStop(c) \/ Deliver(c)
       \/ StopWaited(c) \/ StopEmpties(c) \/ StopZero(c) \/ KillSoakCall(c)
  \/ \E p \in Engine :
       \/ RunInFront(p, "dry") \/ RunInFront(p, "plan")
       \/ Construct(p) \/ RunGuard(p) \/ Rehearse(p) \/ StartRun(p) \/ LoopOnce(p) \/ LeaveLoop(p)
       \/ EngineDies(p)

SoakSpec == SoakInit /\ [][SoakNext]_soakVars

-----------------------------------------------------------------------------
(* Properties *)

SoakDaemons == {p \in Engine : EngineAlive(p) /\ engine[p].how = "daemon"}

\* Two soak daemons are alive together only after one of three slips: two starts looked
\* at the pid file before either had written it, a start was killed behind its fork, or a
\* stop put its 0 over the pid of a daemon started since (ostar/cli.py).  A daemon that is
\* paused and deaf to SIGTERM, dead pids on file, stops beside a start and commands killed
\* at any other step do not get there; and outside a start the daemon alive is the one on
\* file, so that pause, resume and stop reach it.
OneSoakDaemon ==
  ~soakSlip =>
    /\ Cardinality(SoakDaemons) <= 1
    /\ (\A c \in SoakCaller : soakCall[c].name \notin SoakStarting) => SoakDaemons \subseteq {soakPid}
=============================================================================
