------------------------------ MODULE LevelLoop ------------------------------
(***************************************************************************)
(* The L0-L3 loop, from its own command line or by autopilot: four         *)
(* scripts, one after the other, and a file of what they said.  Several    *)
(* run in one project, write that file in place and are killed.            *)
(*                                                                         *)
(* A script that is missing, takes five minutes, cannot be started or ends *)
(* with another code than 0 has failed.                                    *)
(***************************************************************************)
EXTENDS Naturals, Sequences, FiniteSets

CONSTANT Loop          \* the loops

VARIABLES
  loop,         \* each loop: its step, does it go on after a failure?, the verdicts, exit code
  resultsFile,  \* l0_l3_results.json: what it is, the verdicts in it
  shared        \* history: two loops had the file open at once

levelVars == <<loop, resultsFile, shared>>

Levels == <<"L0", "L1", "L2", "L3">>

LevelInit ==
  /\ loop = [l \in Loop |-> [at |-> "idle", goOn |-> FALSE, said |-> <<>>, exit |-> "none"]]
  /\ resultsFile = [is |-> "absent", said |-> <<>>] /\ shared = FALSE

-----------------------------------------------------------------------------
(* run_all and save_results *)

BeginLoop(l, goOn) ==
  /\ loop[l].at = "idle" /\ loop' = [loop EXCEPT ![l].at = "run", ![l].goOn = goOn]
  /\ UNCHANGED <<resultsFile, shared>>

PassCount(said) == Cardinality({i \in DOMAIN said : said[i] = "PASS"})

\* Mutant of Verdicts: the level the loop stops at is left out.
VerdictsUnlessStopped(l, verdict) ==
  IF verdict = "FAIL" /\ ~loop[l].goOn THEN loop[l].said ELSE Append(loop[l].said, verdict)

Verdicts(l, verdict) == Append(loop[l].said, verdict)

RunLevel(l, verdict) ==
  /\ loop[l].at = "run" /\ Len(loop[l].said) < Len(Levels)
  /\ LET said == Verdicts(l, verdict)
     IN  loop' = [loop EXCEPT ![l].said = said,
                              ![l].at = IF verdict = "FAIL" /\ ~loop[l].goOn THEN "save"
                                        ELSE IF Len(said) = Len(Levels) THEN "save" ELSE "run"]
  /\ UNCHANGED <<resultsFile, shared>>

\* The file is opened, which empties it, ...
SaveResults(l) ==
  /\ loop[l].at = "save" /\ loop' = [loop EXCEPT ![l].at = "fill"]
  /\ resultsFile' = [is |-> "torn", said |-> <<>>]
  /\ shared' = (shared \/ \E k \in Loop : loop[k].at = "fill")

\* ... and written from its start: a text that is there by then shows behind a shorter one.
ResultTexts(said) ==
  {[is |-> "whole", said |-> said]} \cup
  IF resultsFile.is \in {"whole", "mixed"} THEN {[is |-> "mixed", said |-> <<>>]} ELSE {}

FillResults(l) ==
  /\ loop[l].at = "fill" /\ loop' = [loop EXCEPT ![l].at = "filled"]
  /\ resultsFile' \in ResultTexts(loop[l].said)
  /\ UNCHANGED shared

\* all_passed: as many passed as ran.
AllPassed(said) == PassCount(said) = Len(said)

EndLoop(l) ==
  /\ loop[l].at = "filled"
  /\ loop' = [loop EXCEPT ![l].at = "ended", ![l].exit = IF AllPassed(loop[l].said) THEN "ok" ELSE "failed"]
  /\ UNCHANGED <<resultsFile, shared>>

LoopKilled(l) ==
  /\ loop[l].at \in {"run", "save", "fill", "filled"} /\ loop' = [loop EXCEPT ![l].at = "killed"]
  /\ UNCHANGED <<resultsFile, shared>>

LevelNext ==
  \E l \in Loop :
    \/ \E goOn \in BOOLEAN : BeginLoop(l, goOn)
    \/ \E verdict \in {"PASS", "FAIL"} : RunLevel(l, verdict)
    \/ SaveResults(l) \/ FillResults(l) \/ EndLoop(l) \/ LoopKilled(l)

LevelSpec == LevelInit /\ [][LevelNext]_levelVars

-----------------------------------------------------------------------------
(* Properties *)

\* The loop ends with 0 exactly if all four levels passed, and passes over a failure only
\* when it was asked to.  The file of the results is empty only while it is written or
\* after a kill in between; it is one loop's whole answer otherwise, unless two loops had
\* it open at once: then the tail of one text may follow the other, without any kill.
LevelsAnswer ==
  /\ \A l \in Loop :
       /\ loop[l].exit = "ok" => loop[l].said = [i \in DOMAIN Levels |-> "PASS"]
       /\ loop[l].exit = "failed" => \E i \in DOMAIN loop[l].said : loop[l].said[i] = "FAIL"
       /\ ~loop[l].goOn => \A i \in 1..(Len(loop[l].said) - 1) : loop[l].said[i] = "PASS"
  /\ resultsFile.is = "torn" => \E l \in Loop : loop[l].at \in {"fill", "killed"}
  /\ resultsFile.is = "whole" =>
       \E l \in Loop : loop[l].at \in {"filled", "ended", "killed"} /\ loop[l].said = resultsFile.said
  /\ resultsFile.is = "mixed" => shared
=============================================================================
