------------------------------ MODULE Daemons ------------------------------
(***************************************************************************)
(* Who runs a controller, and who believes one is running: `daemon start`  *)
(* and `daemon stop` of reproctl (pid file controller.pid) and of          *)
(* autopilot (autopilot.pid), `run` of both, autopilot's stop, and the     *)
(* controllers, which run on beside the commands.                          *)
(*                                                                         *)
(* Several commands are given at once; each is a chain of steps that the   *)
(* others, and the controllers, interleave with.  A pid file written in    *)
(* place is empty for a while, and one that is renamed into place has a    *)
(* temporary file all commands share.  What a controller does with its     *)
(* tasks, and what a stop does to them and to the control word, is         *)
(* Orchestrator's matter.                                                  *)
(***************************************************************************)
EXTENDS Integers, FiniteSets

CONSTANTS
  Pid,          \* the pids of controllers, taken in increasing order
  Caller        \* the commands that run at once

ASSUME DaemonAssumption == Pid \subseteq Nat \ {0}

VARIABLES
  pidFile,      \* per kind: what the pid file says
  pidTmp,       \* controller.tmp, shared by all starts of reproctl
  runner,       \* each controller: its kind, its stage, whether it leads its process group
  step,         \* each command: its next step, its kind, its pid, where its open file is
  slip          \* history, per kind: commands got in each other's way, or one was killed

daemonVars == <<pidFile, pidTmp, runner, step, slip>>

Kind == {"reproctl", "autopilot"}
Blank == -1      \* no file, or nothing in it; 0 stands for any number that is nobody's
NoTmp == -2
Stage == {"free", "booting", "checked", "claiming", "up", "leaving", "ending", "down"}
Starting == {"fork", "open", "fill", "put", "check", "refill"}
NoController == [kind |-> "reproctl", stage |-> "free", leads |-> TRUE]
NoStep == [name |-> "none", kind |-> "reproctl", pid |-> 0, at |-> "none"]

\* The kind "foreground" is `reproctl run`, which no pid file ever names.
Controller == [kind : Kind \cup {"foreground"}, stage : Stage, leads : BOOLEAN]
CallStep == [name : Starting \cup {"none", "confirm", "again", "kill", "clear", "zero", "rezero"},
         kind : Kind, pid : Pid \cup {0}, at : {"none", "tmp", "file"}]

DaemonTypeOK ==
  /\ pidFile \in [Kind -> Pid \cup {0, Blank}] /\ pidTmp \in Pid \cup {Blank, NoTmp}
  /\ runner \in [Pid -> Controller] /\ step \in [Caller -> CallStep] /\ slip \in [Kind -> BOOLEAN]

DaemonInit ==
  /\ pidFile = [k \in Kind |-> Blank] /\ pidTmp = NoTmp
  /\ runner = [p \in Pid |-> NoController]
  /\ step = [c \in Caller |-> NoStep] /\ slip = [k \in Kind |-> FALSE]

\* is_alive: a zombie, 0 and nobody's numbers are not.
Living(p) == p \in Pid /\ runner[p].stage \notin {"free", "down"}
NextPid(p) == runner[p].stage = "free" /\ \A q \in Pid : q < p => runner[q].stage # "free"
Begins(p, r) == NextPid(p) /\ runner' = [runner EXCEPT ![p] = r]
StageTo(p, stage) == runner' = [runner EXCEPT ![p].stage = stage]
\* A process that is gone is forgotten but for its pid.
Gone(p) == runner' = [runner EXCEPT ![p] = [NoController EXCEPT !.stage = "down"]]
Due(c, name) == step[c].name = name
Free(c) == step[c] = NoStep
Enters(c, name, k, pid) == step' = [step EXCEPT ![c] = [name |-> name, kind |-> k, pid |-> pid, at |-> "none"]]
Onto(c, name) == step' = [step EXCEPT ![c].name = name]
Finished(c) == step' = [step EXCEPT ![c] = NoStep]
OnFile(k, p) == pidFile' = [pidFile EXCEPT ![k] = p]
Slips(k, happens) == slip' = [slip EXCEPT ![k] = @ \/ happens]

\* A pid written over another one where two had emptied the file: the longer leaves a tail.
Overlaid(old, new) == IF old \in Pid /\ old # new THEN {new, 0} ELSE {new}
FillsFile(k, pid) == \E text \in Overlaid(pidFile[k], pid) : OnFile(k, text)
\* 0 is put in the file, or nothing, whoever is on it by now.
Strikes(k, self, text) ==
  OnFile(k, text) /\ Slips(k, Living(pidFile[k]) /\ pidFile[k] # self)

-----------------------------------------------------------------------------
(* The look at the pid file *)

\* Someone else has looked at the file of this kind and not written it yet.
Underway(k, own) ==
  \/ \E c \in Caller : step[c].name \in Starting /\ step[c].kind = k /\ step[c].pid # own
  \/ \E q \in Pid \ {own} : runner[q].kind = k /\ runner[q].stage \in {"checked", "claiming"}

\* Mutant of FindsNobody: the pid on file is not looked up.
FindsAnybody(k, own) == Slips(k, Underway(k, own))

FindsNobody(k, own) == ~Living(pidFile[k]) /\ Slips(k, Underway(k, own))

-----------------------------------------------------------------------------
(* daemon start *)

\* A live pid on file: "already running", and nothing happens.
DaemonStart(c, k) ==
  /\ Free(c) /\ FindsNobody(k, Blank) /\ Enters(c, "fork", k, 0)
  /\ UNCHANGED <<pidFile, pidTmp, runner>>

Spawn(c, p) ==
  /\ Due(c, "fork")
  /\ Begins(p, [kind |-> step[c].kind, stage |-> "booting", leads |-> TRUE])
  /\ Enters(c, IF step[c].kind = "reproctl" THEN "open" ELSE "check", step[c].kind, p)
  /\ UNCHANGED <<pidFile, pidTmp, slip>>

\* reproctl writes the pid to controller.tmp and renames it, ...
OpenPidTmp(c) ==
  /\ Due(c, "open") /\ pidTmp' = Blank
  /\ step' = [step EXCEPT ![c].name = "fill", ![c].at = "tmp"]
  /\ UNCHANGED <<pidFile, runner, slip>>

\* ... but the file opened as controller.tmp may bear the other name by now, or none.
FillPidTmp(c) ==
  /\ Due(c, "fill") /\ step' = [step EXCEPT ![c].name = "put", ![c].at = "none"]
  /\ CASE step[c].at = "tmp" -> pidTmp' \in Overlaid(pidTmp, step[c].pid) \ {0} /\ UNCHANGED pidFile
       [] step[c].at = "file" -> FillsFile("reproctl", step[c].pid) /\ UNCHANGED pidTmp
       [] OTHER -> UNCHANGED <<pidFile, pidTmp>>
  /\ UNCHANGED <<runner, slip>>

Moved(at) == IF at = "tmp" THEN "file" ELSE "none"

PutPidTmp(c) ==
  /\ Due(c, "put") /\ pidTmp # NoTmp /\ OnFile("reproctl", pidTmp) /\ pidTmp' = NoTmp
  /\ step' = [d \in Caller |-> IF d = c THEN [step[d] EXCEPT !.name = "confirm"]
                                         ELSE [step[d] EXCEPT !.at = Moved(@)]]
  /\ UNCHANGED <<runner, slip>>

\* The file is unlinked: a start that still has it open writes nowhere.
Unlinks(c) ==
  step' = [d \in Caller |-> IF d = c THEN NoStep
                            ELSE [step[d] EXCEPT !.at = IF @ = "file" THEN "none" ELSE @]]

\* The child is looked up twice, and only one that has died in between is cleared away:
\* one that never lived stays on file.
ConfirmChild(c) ==
  /\ Due(c, "confirm")
  /\ IF Living(step[c].pid) THEN Onto(c, "again") ELSE Finished(c)
  /\ UNCHANGED <<pidFile, pidTmp, runner, slip>>

ConfirmAgain(c) ==
  /\ Due(c, "again")
  /\ IF Living(step[c].pid) THEN Finished(c) /\ UNCHANGED <<pidFile, slip>>
                            ELSE Unlinks(c) /\ Strikes("reproctl", 0, Blank)
  /\ UNCHANGED <<pidTmp, runner>>

\* autopilot writes the pid of a living child, in place.
CheckChild(c) ==
  /\ Due(c, "check")
  /\ IF Living(step[c].pid) THEN Onto(c, "refill") /\ OnFile("autopilot", Blank)
                            ELSE Finished(c) /\ UNCHANGED pidFile
  /\ UNCHANGED <<pidTmp, runner, slip>>

FillChild(c) ==
  /\ Due(c, "refill") /\ FillsFile("autopilot", step[c].pid) /\ Finished(c)
  /\ UNCHANGED <<pidTmp, runner, slip>>

\* A command is killed, or fails because controller.tmp is gone.  The child of a start
\* then lives on without being on file; autopilot's writes itself there.
KillCaller(c) ==
  /\ ~Free(c) /\ Finished(c)
  /\ Slips(step[c].kind, step[c].name \in {"open", "fill", "put", "refill"} /\ Living(step[c].pid))
  /\ UNCHANGED <<pidFile, pidTmp, runner>>

-----------------------------------------------------------------------------
(* The controllers *)

\* `reproctl run` and `autopilot run`, by hand; in a script they do not lead their group.
RunForeground(p) ==
  /\ Begins(p, [kind |-> "foreground", stage |-> "booting", leads |-> TRUE])
  /\ UNCHANGED <<pidFile, pidTmp, step, slip>>

RunAutopilot(p) ==
  /\ \E leads \in BOOLEAN : Begins(p, [kind |-> "autopilot", stage |-> "booting", leads |-> leads])
  /\ UNCHANGED <<pidFile, pidTmp, step, slip>>

\* cmd_run of autopilot: a live pid on file makes it give up, even when the pid is its
\* own, written there by the command that started it.
CheckFile(p) ==
  /\ runner[p].kind = "autopilot" /\ runner[p].stage = "booting"
  /\ FindsNobody("autopilot", p) /\ StageTo(p, "checked")
  /\ UNCHANGED <<pidFile, pidTmp, step>>

GiveUp(p) ==
  /\ runner[p].kind = "autopilot" /\ runner[p].stage = "booting"
  /\ Living(pidFile["autopilot"]) /\ Gone(p)
  /\ UNCHANGED <<pidFile, pidTmp, step, slip>>

EmptyFile(p) ==
  /\ runner[p].stage = "checked" /\ OnFile("autopilot", Blank) /\ StageTo(p, "claiming")
  /\ UNCHANGED <<pidTmp, step, slip>>

ClaimFile(p) ==
  /\ runner[p].stage = "claiming" /\ FillsFile("autopilot", p) /\ StageTo(p, "up")
  /\ UNCHANGED <<pidTmp, step, slip>>

BootController(p) ==
  /\ runner[p].kind # "autopilot" /\ runner[p].stage = "booting" /\ StageTo(p, "up")
  /\ UNCHANGED <<pidFile, pidTmp, step, slip>>

\* The loop ends: told to, or because the work is done or blocked.
EndController(p) ==
  /\ runner[p].kind # "autopilot" /\ runner[p].stage = "up" /\ Gone(p)
  /\ UNCHANGED <<pidFile, pidTmp, step, slip>>

\* autopilot puts 0 in its file at the end, and in answer to a signal.
EndAutopilot(p) ==
  /\ runner[p].kind = "autopilot" /\ runner[p].stage = "up" /\ StageTo(p, "leaving")
  /\ UNCHANGED <<pidFile, pidTmp, step, slip>>

EmptyOwn(p) ==
  /\ runner[p].stage = "leaving" /\ StageTo(p, "ending") /\ Strikes("autopilot", p, Blank)
  /\ UNCHANGED <<pidTmp, step>>

ZeroOwn(p) ==
  /\ runner[p].stage = "ending" /\ Gone(p) /\ Strikes("autopilot", p, 0)
  /\ UNCHANGED <<pidTmp, step>>

\* A boot that fails (doctor, plan, arguments), or a crash anywhere.
CrashController(p) ==
  /\ Living(p) /\ Gone(p)
  /\ UNCHANGED <<pidFile, pidTmp, step, slip>>

-----------------------------------------------------------------------------
(* stop, daemon stop *)

\* autopilot stop puts 0 in the file, and kills nobody.
StopAutopilot(c) ==
  /\ Free(c) /\ Enters(c, "zero", "autopilot", 0)
  /\ UNCHANGED <<pidFile, pidTmp, runner, slip>>

EmptyStopped(c) ==
  /\ Due(c, "zero") /\ Onto(c, "rezero") /\ Strikes("autopilot", 0, Blank)
  /\ UNCHANGED <<pidTmp, runner>>

ZeroStopped(c) ==
  /\ Due(c, "rezero") /\ Finished(c) /\ Strikes("autopilot", 0, 0)
  /\ UNCHANGED <<pidTmp, runner>>

\* daemon stop reads the pid, and deals with the tasks.
DaemonStop(c, k) ==
  /\ Free(c) /\ pidFile[k] # Blank /\ Enters(c, "kill", k, pidFile[k])
  /\ UNCHANGED <<pidFile, pidTmp, runner, slip>>

\* The process is ended, with SIGKILL if SIGTERM does not, unless the pid is no group.
KillDaemon(c) ==
  /\ Due(c, "kill") /\ Enters(c, IF step[c].kind = "reproctl" THEN "clear" ELSE "zero", step[c].kind, 0)
  /\ IF Living(step[c].pid) /\ runner[step[c].pid].leads THEN Gone(step[c].pid) ELSE UNCHANGED runner
  /\ UNCHANGED <<pidFile, pidTmp, slip>>

ClearFile(c) ==
  /\ Due(c, "clear") /\ Unlinks(c) /\ Strikes("reproctl", 0, Blank)
  /\ UNCHANGED <<pidTmp, runner>>

DaemonNext ==
  \/ \E c \in Caller :
       \/ \E k \in Kind : DaemonStart(c, k) \/ DaemonStop(c, k)
       \/ \E p \in Pid : Spawn(c, p)
       \/ OpenPidTmp(c) \/ FillPidTmp(c) \/ PutPidTmp(c) \/ ConfirmChild(c) \/ ConfirmAgain(c)
       \/ CheckChild(c) \/ FillChild(c) \/ KillCaller(c) \/ StopAutopilot(c)
       \/ EmptyStopped(c) \/ ZeroStopped(c) \/ KillDaemon(c) \/ ClearFile(c)
  \/ \E p \in Pid : \/ RunForeground(p) \/ RunAutopilot(p) \/ CheckFile(p) \/ GiveUp(p) \/ EmptyFile(p)
                    \/ ClaimFile(p) \/ BootController(p) \/ EndController(p) \/ EndAutopilot(p)
                    \/ EmptyOwn(p) \/ ZeroOwn(p) \/ CrashController(p)

DaemonSpec == DaemonInit /\ [][DaemonNext]_daemonVars

-----------------------------------------------------------------------------
(* What the commands that only read say *)

\* daemon status, and status of autopilot.
DaemonStatus(k) ==
  CASE pidFile[k] = Blank -> "NOT_RUNNING" [] Living(pidFile[k]) -> "RUNNING" [] OTHER -> "STALE"

\* autopilot recover: where nobody is at work it runs the doctor and then `run`, without
\* the arguments of `run`, and fails.
RecoverAutopilot == IF DaemonStatus("autopilot") = "RUNNING" THEN "refused" ELSE "failed"

-----------------------------------------------------------------------------
(* Properties *)

AtWork(k) == {p \in Pid : runner[p].kind = k /\ runner[p].stage = "up"}
NoStart(k) == \A c \in Caller : ~(step[c].name \in Starting /\ step[c].kind = k)

\* Two controllers of a kind that the pid files know about are at work together only
\* after one of three slips of that kind: two looked at the file before either had
\* written it, a start was killed before its child was on file, or somebody struck
\* another living controller's pid off.  Boots that fail or refuse, crashes at any step,
\* ends, kills, stale pids and runs in the foreground do not get there, and outside a
\* start status says RUNNING of the one at work, so that recover keeps its hands off.
OneDaemonPerKind ==
  \A k \in Kind : ~slip[k] =>
    /\ Cardinality(AtWork(k)) <= 1
    /\ NoStart(k) /\ AtWork(k) # {} => DaemonStatus(k) = "RUNNING"
    /\ NoStart("autopilot") /\ ~slip["autopilot"] /\ AtWork("autopilot") # {} => RecoverAutopilot = "refused"
=============================================================================
