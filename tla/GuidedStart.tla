----------------------------- MODULE GuidedStart -----------------------------
(***************************************************************************)
(* repro-start: the doctor, then the automation from                       *)
(* .repro/auth_contract.json, which it writes if it finds none, then       *)
(* `reproctl run`.  Several run in one project and are killed.             *)
(*                                                                         *)
(* A project or plan that is not found ends it before it begins.  The      *)
(* startup summary, which nobody reads, and what is printed are left out.  *)
(***************************************************************************)
EXTENDS Naturals

CONSTANT Start         \* the guided starts

VARIABLES
  contractFile, \* auth_contract.json: what it is, its automation, who wrote it
  start         \* each guided start: its step, mode, dry run?, doctor, automation, whose it is

guidedVars == <<contractFile, start>>

\* Only the strict mode differs from the others here.
GuidedMode == {"strict", "optimized"}

NewStart == [at |-> "idle", mode |-> "none", dry |-> FALSE, doctor |-> "none",
             automation |-> "none", author |-> "nobody"]

GuidedInit ==
  /\ contractFile = [is |-> "absent", automation |-> "unset", author |-> "nobody"]
  /\ start = [s \in Start |-> NewStart]

-----------------------------------------------------------------------------
(* main *)

Guided(s, step, then) == start[s].at = step /\ start' = [start EXCEPT ![s].at = then]
Untouched == UNCHANGED contractFile

BeginStart(s, mode, dry) ==
  /\ start[s].at = "idle"
  /\ start' = [start EXCEPT ![s] = [NewStart EXCEPT !.at = "doctor", !.mode = mode, !.dry = dry]]
  /\ Untouched

\* A doctor that fails stops a strict start only.
RunDoctorFirst(s, overall) ==
  /\ start[s].at = "doctor"
  /\ start' = [start EXCEPT ![s].doctor = overall,
                            ![s].at = IF overall = "FAIL" /\ start[s].mode = "strict"
                                      THEN "refused" ELSE "contract"]
  /\ Untouched

\* Mutant of DefaultAutomation: the default is the same for every mode.
DefaultAutomationManual(mode) == "manual"

DefaultAutomation(mode) == IF mode # "strict" THEN "safe-auto" ELSE "manual"

\* A contract that is there and can be read is taken as it is, whoever wrote it; without an
\* automation it means safe-auto.
TakeContract(s) ==
  /\ start[s].at = "contract" /\ contractFile.is = "whole"
  /\ start' = [start EXCEPT
       ![s].at = "hand over",
       ![s].automation = IF contractFile.automation = "unset" THEN "safe-auto" ELSE contractFile.automation,
       ![s].author = contractFile.author]
  /\ Untouched

\* Otherwise the default is written, and used whether or not that succeeds.
DefaultContract(s) ==
  /\ start[s].at = "contract" /\ contractFile.is # "whole"
  /\ start' = [start EXCEPT ![s].at = "write", ![s].author = start[s].mode,
                            ![s].automation = DefaultAutomation(start[s].mode)]
  /\ Untouched
EmptyContract(s) ==
  /\ Guided(s, "write", "fill")
  /\ contractFile' = [is |-> "torn", automation |-> "unset", author |-> "nobody"]
FillContract(s) ==
  /\ Guided(s, "fill", "hand over")
  /\ contractFile' = [is |-> "whole", automation |-> start[s].automation, author |-> start[s].mode]
CannotWrite(s) == Guided(s, "write", "hand over") /\ Untouched

\* A dry run ends here, the contract written; the others run, in any mode.
HandOver(s) ==
  /\ Guided(s, "hand over", IF start[s].dry THEN "dry" ELSE "running") /\ Untouched

StartKilled(s) ==
  /\ start[s].at \in {"doctor", "contract", "write", "fill", "hand over"}
  /\ start' = [start EXCEPT ![s].at = "killed"] /\ Untouched

\* A human puts a contract there, with an automation or without.
WriteByHand ==
  /\ contractFile.is = "absent"
  /\ \E automation \in {"safe-auto", "manual", "unset"} :
       contractFile' = [is |-> "whole", automation |-> automation, author |-> "human"]
  /\ UNCHANGED start

GuidedNext ==
  \/ WriteByHand
  \/ \E s \in Start :
       \/ \E mode \in GuidedMode, dry \in BOOLEAN : BeginStart(s, mode, dry)
       \/ \E overall \in {"PASS", "FAIL"} : RunDoctorFirst(s, overall)
       \/ TakeContract(s) \/ DefaultContract(s) \/ EmptyContract(s) \/ FillContract(s)
       \/ CannotWrite(s) \/ HandOver(s) \/ StartKilled(s)

GuidedSpec == GuidedInit /\ [][GuidedNext]_guidedVars

-----------------------------------------------------------------------------
(* Properties *)

\* A guided start that runs has passed its doctor if it is strict, and gives up the boundary
\* of safe-auto only for a strict start, its own or the one that left the contract, or for a
\* human; a strict start keeps it only because of somebody else's contract.
BoundaryGivenUp ==
  \A s \in Start : start[s].at = "running" =>
    /\ start[s].mode = "strict" => start[s].doctor = "PASS"
    /\ start[s].automation = "manual" => start[s].author \in {"strict", "human"}
    /\ start[s].automation = "safe-auto" => start[s].author # "strict"
=============================================================================
