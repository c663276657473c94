------------------------------ MODULE Storage -------------------------------
(***************************************************************************)
(* `storage plan-cleanup` and `storage cleanup --approved-plan`, beside a  *)
(* training that goes on saving checkpoints.  Files are numbered in the    *)
(* order they are first written; an age is a number of whole days, so the  *)
(* order of files of the same day is whatever the directory gives.         *)
(*                                                                         *)
(* `storage status` and `apply` only report, and are left out.             *)
(***************************************************************************)
EXTENDS Naturals, FiniteSets

CONSTANTS
  File,         \* the files, numbered
  Special,      \* those called best, last or final, which training writes again
  Cache,        \* those below a cache directory; the others are checkpoints
  Keep,         \* 2 + intermediate_checkpoints of the policy, 5 by default
  MaxDay        \* bound on the days

ASSUME StorageAssumption ==
  File \subseteq Nat /\ Special \subseteq File /\ Cache \subseteq File \ Special
  /\ Keep \in Nat /\ MaxDay \in Nat

VARIABLES
  today,        \* the day
  saved,        \* File -> the day it was written last, 0 when it is not there
  planFile,     \* the saved output of plan-cleanup: the files it lists
  approved,     \* has a human approved it?
  cleaning,     \* cleanup: "none", "planned" (its own plan) or "approved" (the file's)
  toDelete,     \* what it has still to unlink
  unasked       \* history: the files a cleanup deleted that the approved plan does not list

storageVars == <<today, saved, planFile, approved, cleaning, toDelete, unasked>>

StorageTypeOK ==
  /\ today \in 1..MaxDay /\ saved \in [File -> 0..MaxDay] /\ approved \in BOOLEAN
  /\ cleaning \in {"none", "planned", "approved"}
  /\ planFile \subseteq File /\ toDelete \subseteq File /\ unasked \subseteq File

StorageInit ==
  /\ today = 1 /\ saved = [f \in File |-> 0] /\ planFile = {} /\ approved = FALSE
  /\ cleaning = "none" /\ toDelete = {} /\ unasked = {}

Checkpoints == {f \in File \ Cache : saved[f] # 0}

\* scan_checkpoints sorts by age, the oldest first, and plan_cleanup keeps the first
\* Keep of them: any choice no later file is preferred in.
KeptFirst(kept) ==
  /\ kept \subseteq Checkpoints /\ Cardinality(kept) = Keep
  /\ \A k \in kept, f \in Checkpoints \ kept : saved[k] <= saved[f]

\* plan_cleanup: the checkpoints beyond the kept ones but for the special ones, and
\* everything in the caches.
Plans ==
  LET cached == {f \in Cache : saved[f] # 0}
  IN  IF Cardinality(Checkpoints) <= Keep THEN {cached}
      ELSE {cached \cup (Checkpoints \ (kept \cup Special)) : kept \in {K \in SUBSET File : KeptFirst(K)}}

-----------------------------------------------------------------------------

WriteNew(f) ==
  /\ saved[f] = 0 /\ \A g \in File : g < f => saved[g] # 0
  /\ saved' = [saved EXCEPT ![f] = today]
  /\ UNCHANGED <<today, planFile, approved, cleaning, toDelete, unasked>>

WriteSpecial(f) ==
  /\ saved[f] # 0 /\ saved' = [saved EXCEPT ![f] = today]
  /\ UNCHANGED <<today, planFile, approved, cleaning, toDelete, unasked>>

NextDay ==
  /\ today < MaxDay /\ today' = today + 1
  /\ UNCHANGED <<saved, planFile, approved, cleaning, toDelete, unasked>>

\* `plan-cleanup` prints a plan; somebody saves it, reads it and approves it.
PlanCleanup ==
  /\ cleaning = "none" /\ planFile' \in Plans /\ approved' = FALSE
  /\ UNCHANGED <<today, saved, cleaning, toDelete, unasked>>

Approve ==
  /\ cleaning = "none" /\ ~approved /\ approved' = TRUE
  /\ UNCHANGED <<today, saved, planFile, cleaning, toDelete, unasked>>

\* `cleanup` first executes a plan of its own, made now, ...
CleanupStart ==
  /\ cleaning = "none" /\ approved
  /\ cleaning' = "planned" /\ toDelete' \in Plans
  /\ UNCHANGED <<today, saved, planFile, approved, unasked>>

\* One unlink; a file that is gone is counted and passed over.
Unlink(f) ==
  /\ f \in toDelete /\ toDelete' = toDelete \ {f}
  /\ saved' = [saved EXCEPT ![f] = 0]
  /\ unasked' = IF f \in planFile \/ saved[f] = 0 THEN unasked ELSE unasked \cup {f}
  /\ UNCHANGED <<today, planFile, approved, cleaning>>

\* ... and then the plan that was approved.
CleanupApproved ==
  /\ cleaning = "planned" /\ toDelete = {}
  /\ cleaning' = "approved" /\ toDelete' = planFile
  /\ UNCHANGED <<today, saved, planFile, approved, unasked>>

CleanupEnd ==
  /\ cleaning = "approved" /\ toDelete = {} /\ cleaning' = "none"
  /\ UNCHANGED <<today, saved, planFile, approved, toDelete, unasked>>

KillCleanup ==
  /\ cleaning # "none" /\ cleaning' = "none" /\ toDelete' = {}
  /\ UNCHANGED <<today, saved, planFile, approved, unasked>>

StorageNext ==
  \/ \E f \in File : WriteNew(f) \/ Unlink(f)
  \/ \E f \in Special : WriteSpecial(f)
  \/ NextDay \/ PlanCleanup \/ Approve
  \/ CleanupStart \/ CleanupApproved \/ CleanupEnd \/ KillCleanup

StorageSpec == StorageInit /\ [][StorageNext]_storageVars

-----------------------------------------------------------------------------
(* Properties *)

\* The note every plan carries: it is executed when it is approved, so a cleanup
\* deletes what the approved plan lists and nothing else.
OnlyApprovedDeleted == unasked = {}
=============================================================================
