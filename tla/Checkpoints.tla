----------------------------- MODULE Checkpoints -----------------------------
(***************************************************************************)
(* What recovery says of checkpoints (orchestrator/recovery.py).  Training *)
(* writes them in place, two files by name, and is killed; meanwhile       *)
(* somebody asks which file of the directory is good, which looks at one   *)
(* after the other, or whether one file is, and later resumes training     *)
(* from the answer.                                                        *)
(*                                                                         *)
(* Nothing of the repository calls these functions but the summary, and    *)
(* the rows it hands over name no checkpoint.  The command line that goes  *)
(* with an answer is left out, and files that go away.                     *)
(***************************************************************************)
EXTENDS Naturals

CONSTANT MaxSaves      \* bound on the writes after which no further save begins

ASSUME CheckpointsAssumption == MaxSaves \in Nat

VARIABLES
  torch,        \* is PyTorch installed where recovery runs?
  ckptFile,     \* name -> what the file is, its size, the time of its last write
  clock,        \* how many writes there were
  trainer,      \* "off", or the name of the file it is writing
  search,       \* the question about the directory: the files left, the times it sorted by
  advice,       \* the last answer: what was asked, and the file to resume from
  savedSince,   \* history: the files written to since the question last looked at them
  resumed       \* what training was resumed from

ckptVars == <<torch, ckptFile, clock, trainer, search, advice, savedSince, resumed>>

CkptName == {"best", "last"}
NoCkpt == [is |-> "absent", size |-> "tiny", written |-> 0]
NoSearch == [is |-> "off", left |-> {}, written |-> [n \in CkptName |-> 0]]
NoAdvice == [asked |-> "nothing", file |-> "none"]

CkptInit ==
  /\ torch \in {"yes", "no"} /\ ckptFile = [n \in CkptName |-> NoCkpt] /\ clock = 0
  /\ trainer = "off" /\ search = NoSearch /\ advice = NoAdvice /\ savedSince = {} /\ resumed = "not yet"

-----------------------------------------------------------------------------
(* Training *)

\* A whole file is a checkpoint, or another object: it loads, but is no dictionary one can
\* look for an epoch in, and holds more than weights.
Whole == {"checkpoint", "object"}

Saves(n, is, size, next) ==
  /\ ckptFile' = [ckptFile EXCEPT ![n] = [is |-> is, size |-> size, written |-> clock + 1]]
  /\ clock' = clock + 1 /\ trainer' = next /\ savedSince' = savedSince \cup {n}
  /\ UNCHANGED <<torch, search, advice, resumed>>

SaveBegins(n) == trainer = "off" /\ clock < MaxSaves /\ Saves(n, "torn", "tiny", n)
SaveGoesOn ==
  /\ trainer # "off" /\ ckptFile[trainer].size = "tiny"
  /\ \E size \in {"small", "big"} : Saves(trainer, "torn", size, trainer)
SaveEnds ==
  /\ trainer # "off"
  /\ \E is \in Whole, size \in {"small", "big"} : Saves(trainer, is, size, "off")
TrainingKilled ==
  /\ trainer # "off" /\ trainer' = "off"
  /\ UNCHANGED <<torch, ckptFile, clock, search, advice, savedSince, resumed>>

-----------------------------------------------------------------------------
(* recovery.py *)

\* From 100 bytes on, it loads as a checkpoint; where PyTorch is missing, 1000 bytes will do.
\* A dictionary need not have the keys of a checkpoint, they are only noted.
VerifyCheckpoint(f) ==
  f.size # "tiny" /\ (IF torch = "yes" THEN f.is = "checkpoint" ELSE f.size = "big")

Advises(asked, file) == advice' = [asked |-> asked, file |-> file] /\ resumed' = "not yet"
Looked(n) == savedSince' = savedSince \ {n}
Unsaved == UNCHANGED <<torch, ckptFile, clock, trainer>>

\* find_last_valid_checkpoint: the files there are, sorted by the time of their last write, ...
FindBegins ==
  /\ search.is = "off"
  /\ search' = [is |-> "on", left |-> {n \in CkptName : ckptFile[n].is # "absent"},
                written |-> [n \in CkptName |-> ckptFile[n].written]]
  /\ savedSince' = {} /\ advice' = NoAdvice /\ resumed' = "not yet" /\ Unsaved

\* ... are looked at one after the other, ...
IsNewest(n) == n \in search.left /\ \A m \in search.left : search.written[m] <= search.written[n]

\* Mutant of FindLooks: only the newest file is tried.
FindLooksOnce(n) ==
  /\ search.is = "on" /\ IsNewest(n) /\ Looked(n) /\ Unsaved
  /\ search' = NoSearch
  /\ Advises("directory", IF VerifyCheckpoint(ckptFile[n]) THEN n ELSE "none")

\* ... and the first that is valid is the answer.
FindLooks(n) ==
  /\ search.is = "on" /\ IsNewest(n) /\ Looked(n) /\ Unsaved
  /\ \/ /\ VerifyCheckpoint(ckptFile[n])
        /\ search' = NoSearch /\ Advises("directory", n)
     \/ /\ ~VerifyCheckpoint(ckptFile[n])
        /\ search' = [search EXCEPT !.left = @ \ {n}] /\ UNCHANGED <<advice, resumed>>

FindsNone ==
  /\ search.is = "on" /\ search.left = {} /\ search' = NoSearch
  /\ Advises("directory", "none") /\ UNCHANGED savedSince /\ Unsaved

\* get_recovery_info, of a task that names a checkpoint: this file and no other.
RecoveryInfo(n) ==
  /\ search.is = "off" /\ Looked(n) /\ UNCHANGED search /\ Unsaved
  /\ \/ VerifyCheckpoint(ckptFile[n]) /\ Advises(n, n)
     \/ ~VerifyCheckpoint(ckptFile[n]) /\ Advises(n, "none")

\* Later, the file is loaded as it is then.
Resume ==
  /\ search.is = "off" /\ advice.file # "none" /\ resumed = "not yet"
  /\ resumed' = ckptFile[advice.file].is
  /\ UNCHANGED <<torch, ckptFile, clock, trainer, search, advice, savedSince>>

CkptNext ==
  \/ \E n \in CkptName : SaveBegins(n) \/ FindLooks(n) \/ RecoveryInfo(n)
  \/ SaveGoesOn \/ SaveEnds \/ TrainingKilled \/ FindBegins \/ FindsNone \/ Resume

CkptSpec == CkptInit /\ [][CkptNext]_ckptVars

-----------------------------------------------------------------------------
(* Properties *)

\* Not written to since the question looked at the file, or began if it did not look.
AsSeen(n) == n \notin savedSince

\* Whoever resumes from an answer, where PyTorch is installed, finds a checkpoint, unless that
\* very file was written to after recovery looked at it.  When the answer is that there is
\* none, no file that is as it was seen is valid: torn files hide no whole one, although the
\* files change while they are looked at.  Nor is such a file valid if it is newer than the
\* file of the answer.
ResumesFromWhole ==
  /\ resumed \notin {"not yet", "checkpoint"} => torch = "no" \/ ~AsSeen(advice.file)
  /\ advice.file = "none" =>
       \A n \in CkptName : advice.asked \in {"directory", n} /\ AsSeen(n)
                             => ~VerifyCheckpoint(ckptFile[n])
  /\ advice.asked = "directory" /\ advice.file # "none" =>
       \A n \in CkptName : AsSeen(n) /\ ckptFile[n].written > ckptFile[advice.file].written
                             => ~VerifyCheckpoint(ckptFile[n])
=============================================================================
