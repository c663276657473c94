------------------------------- MODULE Backup -------------------------------
(***************************************************************************)
(* backup and restore of a project, beside a program that goes on writing  *)
(* its files.  A backup copies a fixed list of files one at a time, hashes *)
(* each from the original after it has copied it, and writes its manifest  *)
(* last; a restore checks every copy against the manifest before it puts   *)
(* the first one back.  A file is its version, 0 when it does not exist.   *)
(*                                                                         *)
(* The checkpoint and evidence indexes, which nothing restores, are left   *)
(* out; the snapshot is the latest one.                                    *)
(***************************************************************************)
EXTENDS Naturals, FiniteSets

CONSTANTS
  Place,        \* the files of the project that are looked at
  MaxWrites,    \* bound on the writes of the program
  MaxJobs       \* bound on the backups and restores

VARIABLES
  disk,         \* Place -> version
  copy,         \* the snapshot's copy of each file
  recorded,     \* the version each hash in the manifest stands for, 0 when it has none
  manifest,     \* has the manifest been written?
  job,          \* "none", "backup", "restore"
  at,           \* the file a backup has copied and not yet hashed, or "none"
  left,         \* the files the job has not come to
  restored,     \* the last job was a restore that succeeded
  touched,      \* history: written by the program since the last restore began
  writes, jobs  \* writes and jobs so far

backupVars == <<disk, copy, recorded, manifest, job, at, left, restored, touched, writes, jobs>>

\* core_patterns, and the run manifest.
Patterns == {"state.json", ".repro/state.sqlite3", "state.snapshot.json", "execution_state.json",
             ".execution/task_graph.yaml", "config.yaml", "repro.yaml", "run_manifest.json"}

\* Where restore_project puts a file back: by its base name.
Dest(f) == CASE f = ".repro/state.sqlite3" -> ".repro/execution/state.sqlite3"
             [] f = ".execution/task_graph.yaml" -> ".repro/task_graph.yaml"
             [] f = "repro.yaml" -> ".repro/repro.yaml"
             [] OTHER -> f

\* What is looked at includes where it is put back.
ASSUME BackupAssumption ==
  /\ MaxWrites \in Nat /\ MaxJobs \in Nat
  /\ \A f \in Patterns \cap Place : Dest(f) \in Place

BackupTypeOK ==
  /\ disk \in [Place -> 0..MaxWrites + 1] /\ copy \in [Place -> 0..MaxWrites + 1]
  /\ recorded \in [Place -> 0..MaxWrites + 1] /\ manifest \in BOOLEAN /\ restored \in BOOLEAN
  /\ job \in {"none", "backup", "restore"} /\ at \in Place \cup {"none"}
  /\ left \subseteq Patterns \cap Place /\ touched \subseteq Place
  /\ job = "none" => left = {} /\ at = "none"
  /\ at # "none" => job = "backup" /\ copy[at] # 0
  /\ writes \in 0..MaxWrites /\ jobs \in 0..MaxJobs

BackupInit ==
  /\ disk = [f \in Place |-> 1]
  /\ copy = [f \in Place |-> 0] /\ recorded = copy /\ manifest = FALSE
  /\ job = "none" /\ at = "none" /\ left = {} /\ restored = FALSE /\ touched = {}
  /\ writes = 0 /\ jobs = 0

\* The program writes one of its files, at any moment.
WriteFile(f) ==
  /\ writes < MaxWrites
  /\ disk' = [disk EXCEPT ![f] = writes + 2] /\ writes' = writes + 1
  /\ touched' = touched \cup {f}
  /\ UNCHANGED <<copy, recorded, manifest, job, at, left, restored, jobs>>

-----------------------------------------------------------------------------
(* backup_project *)

BackupStart ==
  /\ job = "none" /\ jobs < MaxJobs
  /\ job' = "backup" /\ left' = {f \in Patterns \cap Place : disk[f] # 0}
  /\ copy' = [f \in Place |-> 0] /\ recorded' = copy' /\ manifest' = FALSE
  /\ restored' = FALSE /\ jobs' = jobs + 1
  /\ UNCHANGED <<disk, at, touched, writes>>

CopyFile(f) ==
  /\ job = "backup" /\ at = "none" /\ f \in left
  /\ copy' = [copy EXCEPT ![f] = disk[f]] /\ at' = f /\ left' = left \ {f}
  /\ UNCHANGED <<disk, recorded, manifest, job, restored, touched, writes, jobs>>

\* The hash is of the original, read once more.
HashFile ==
  /\ at # "none"
  /\ recorded' = [recorded EXCEPT ![at] = disk[at]] /\ at' = "none"
  /\ UNCHANGED <<disk, copy, manifest, job, left, restored, touched, writes, jobs>>

WriteManifest ==
  /\ job = "backup" /\ left = {} /\ at = "none"
  /\ manifest' = TRUE /\ job' = "none"
  /\ UNCHANGED <<disk, copy, recorded, at, left, restored, touched, writes, jobs>>

-----------------------------------------------------------------------------
(* restore_project *)

\* Mutant of Verified: a copy that exists is good.
VerifiedExists == \A f \in Place : recorded[f] # 0 => copy[f] # 0

Verified == \A f \in Place : recorded[f] # 0 => copy[f] = recorded[f]

\* Without a manifest, or with one wrong copy, nothing is touched.
RestoreStart ==
  /\ job = "none" /\ jobs < MaxJobs
  /\ jobs' = jobs + 1 /\ restored' = FALSE /\ touched' = {}
  /\ IF manifest /\ Verified
     THEN job' = "restore" /\ left' = {f \in Place : recorded[f] # 0}
     ELSE UNCHANGED <<job, left>>
  /\ UNCHANGED <<disk, copy, recorded, manifest, at, writes>>

RestoreFile(f) ==
  /\ job = "restore" /\ f \in left
  /\ disk' = [disk EXCEPT ![Dest(f)] = copy[f]] /\ left' = left \ {f}
  /\ UNCHANGED <<copy, recorded, manifest, job, at, restored, touched, writes, jobs>>

RestoreDone ==
  /\ job = "restore" /\ left = {}
  /\ job' = "none" /\ restored' = TRUE
  /\ UNCHANGED <<disk, copy, recorded, manifest, at, left, touched, writes, jobs>>

KillJob ==
  /\ job # "none"
  /\ job' = "none" /\ left' = {} /\ at' = "none"
  /\ UNCHANGED <<disk, copy, recorded, manifest, restored, touched, writes, jobs>>

BackupNext ==
  \/ \E f \in Place : WriteFile(f) \/ CopyFile(f) \/ RestoreFile(f)
  \/ BackupStart \/ HashFile \/ WriteManifest
  \/ RestoreStart \/ RestoreDone \/ KillJob

BackupSpec == BackupInit /\ [][BackupNext]_backupVars

-----------------------------------------------------------------------------
(* Properties *)

\* A restore that reports success has put back, for every file the program did not
\* write meanwhile, exactly the content its hash was taken from: a file that changed
\* between being copied and being hashed makes the snapshot unusable, not wrong.
RestoredMatchesManifest ==
  restored => \A f \in Place :
    recorded[f] # 0 /\ Dest(f) \notin touched => disk[Dest(f)] = recorded[f]
=============================================================================
