--------------------------------- MODULE Cvo ---------------------------------
(***************************************************************************)
(* Continuous verification: the registry of validation nodes, the files    *)
(* .repro/audit/nodes/<id>.json, the lock file gpu.lock, and the commands  *)
(* `audit init`, `run-next`, `run-node`, `run-stage` and `retry`, each a   *)
(* process of its own, as many at once as there are.  `run-stage` is a     *)
(* `run-node` after the other, and `retry` is a `run-node` with force.     *)
(*                                                                         *)
(* Every step is one operation on one file.  A node file is written beside *)
(* its place, in <id>.tmp, and moved there; all commands on a node share   *)
(* that name.  The lock and, by init, VAL-000.json are written in place.   *)
(* Who has a file open keeps it when it is moved or removed meanwhile, and *)
(* who writes over a text that is there may leave its end behind.          *)
(*                                                                         *)
(* What a node's callable does is left open: of the modules the registry   *)
(* names none is in the repository, whoever adds one decides.  Every node  *)
(* names one, so no node is run as a script.  The heartbeat thread writes  *)
(* a file nobody reads, so no node is ever found stale.  A node outside    *)
(* the instance counts as passed.                                          *)
(***************************************************************************)
EXTENDS Naturals, FiniteSets

CONSTANTS
  CvoNode,      \* the nodes of the instance, by number; 411 to 417 are 410-BS10 to BS40
  Runner        \* the commands, each a process, started in increasing order

\* The registry: what a node depends on, and the ones that need the GPU.
DependsOn(n) ==
  CASE n = 0 -> {}
    [] n \in {10, 20} -> {0}
    [] n \in {100, 110, 120, 130, 140, 160, 170, 180, 240} -> {10}
    [] n = 150 -> {20}
    [] n = 200 -> {100, 110, 120}
    [] n = 210 -> {120}
    [] n \in {220, 230} -> {130, 160, 170}
    [] n = 300 -> {110, 200}
    [] n = 310 -> {300}
    [] n \in {320, 330} -> {310}
    [] n = 340 -> {320, 330}
    [] n = 350 -> {340}
    [] n \in {351, 352} -> {n - 1}
    [] n = 400 -> {320}
    [] n \in 411..417 -> {400}
    [] n = 420 -> 411..417
    [] n = 500 -> {100, 110, 120, 130, 140, 150, 160, 170, 180, 200, 210, 220, 230, 240,
                   300, 310, 320, 330, 340, 350, 351, 352, 400, 420}
    [] n \in {510, 520, 530} -> {n - 10}
Gpu(n) == n \in 300..417

ASSUME CvoAssumption == CvoNode \subseteq Nat /\ 0 \in CvoNode /\ Runner \subseteq Nat \ {0}

VARIABLES
  nodeFile,     \* CvoNode -> the status in <id>.json, or why there is none to read
  tmpFile,      \* CvoNode -> the status in <id>.tmp
  gpuLock,      \* gpu.lock: its state, the node and the process it names
  actor,        \* Runner -> the command: how far, its node, its job, what it writes
  handle,       \* Runner -> where the file is that the command has open
  gpuSlip,      \* history: a lock expired under its command, or was removed or written
                \* over by a command that had looked before it was there
  killedOn,     \* history: the nodes whose command was killed, or made to exit
  met           \* history: the nodes whose file two commands were writing at once

cvoVars == <<nodeFile, tmpFile, gpuLock, actor, handle, gpuSlip, killedOn, met>>

NodeStatus == {"PENDING", "RUNNING", "PASSED", "PARTIAL", "FAILED"}
\* A file: not there, emptied, neither one text nor the other, or a status.
Text == {"absent", "empty", "torn"} \cup NodeStatus
Unreadable == {"empty", "torn"}

Acquiring == {"check", "read", "unlink", "take", "fill"}
FileWrite == {"tmp", "write", "put"}
RunnerAt == {"new", "scan", "begin", "mark", "run", "unlock", "drop", "boot", "init", "down"}
              \cup Acquiring \cup FileWrite
CvoJob == {"node", "next", "init"}
CvoCommand == [at : RunnerAt, node : CvoNode, job : CvoJob, picks : BOOLEAN, word : NodeStatus]
\* The file is there with a text of less than 120 seconds, or of more.
GpuLock == [file : {"absent", "empty", "torn", "young", "old"}, node : CvoNode, by : Runner \cup {0}]
NoLock == [file |-> "absent", node |-> 0, by |-> 0]

Waiting == [at |-> "new", node |-> 0, job |-> "node", picks |-> FALSE, word |-> "PENDING"]
Ended == [Waiting EXCEPT !.at = "down"]

CvoTypeOK ==
  /\ nodeFile \in [CvoNode -> Text] /\ tmpFile \in [CvoNode -> Text]
  /\ gpuLock \in GpuLock /\ actor \in [Runner -> CvoCommand]
  /\ handle \in [Runner -> {"none", "tmp", "node", "lock", "gone"}]
  /\ gpuSlip \in BOOLEAN /\ killedOn \subseteq CvoNode /\ met \subseteq CvoNode

\* An earlier command may have left a lock that is old by now.
CvoInit ==
  /\ nodeFile = [n \in CvoNode |-> "absent"] /\ tmpFile = nodeFile
  /\ gpuLock \in {NoLock} \cup {[file |-> "old", node |-> n, by |-> 0] : n \in {m \in CvoNode : Gpu(m)}}
  /\ actor = [r \in Runner |-> Waiting] /\ handle = [r \in Runner |-> "none"]
  /\ gpuSlip = FALSE /\ killedOn = {} /\ met = {}

Passed(n) == n \in CvoNode => nodeFile[n] = "PASSED"
At(r, where) == actor[r].at = where
NodeOf(r) == actor[r].node
Becomes(r, command) == actor' = [actor EXCEPT ![r] = IF command.at = "down" THEN Ended ELSE command]
GoTo(r, where) == Becomes(r, [actor[r] EXCEPT !.at = where])
NewRunner(r) == At(r, "new") /\ \A q \in Runner : q < r => ~At(q, "new")
AliveRunner(r) == actor[r].at \notin {"new", "down"}

\* What a command does to the files, and what it leaves alone.
Reads == UNCHANGED <<nodeFile, tmpFile, gpuLock, handle, gpuSlip, killedOn, met>>
OnlyLock == UNCHANGED <<nodeFile, tmpFile, killedOn, met>>

\* What a text becomes that is written over another.
Over(old, new) == IF old = "empty" THEN {new} ELSE {new, "torn"}

-----------------------------------------------------------------------------
(* Which node, and whether to run it *)

\* Nodes run-next passes over for what the files say of them.
Skipped(n) ==
  \/ nodeFile[n] \in {"PASSED", "RUNNING"}
  \/ \E d \in DependsOn(n) : ~Passed(d)

\* The nodes a scan has still to look at; it ends behind the last one.
Onwards(r, from) ==
  IF \A n \in CvoNode : n < from THEN GoTo(r, "down")
  ELSE \E n \in CvoNode :
    /\ n >= from /\ \A m \in CvoNode : m >= from => n <= m
    /\ Becomes(r, [actor[r] EXCEPT !.at = "scan", !.job = "next", !.node = n])

\* `run-next` first lists all nodes.  It crashes on a file it cannot read, and on any node
\* that is RUNNING: the default it names for an unknown node lacks an argument.
RunNext(r) ==
  /\ NewRunner(r) /\ Reads
  /\ IF \E n \in CvoNode : nodeFile[n] \in Unreadable \cup {"RUNNING"} THEN GoTo(r, "down")
     ELSE Onwards(r, 0)

\* It takes the first node it does not skip; for one that needs the GPU it goes for the
\* lock, unless another node has it.
Scan(r) ==
  /\ At(r, "scan") /\ Reads
  /\ LET n == NodeOf(r)
         gpu == Gpu(n) /\ ~Skipped(n)
     IN IF \/ \E m \in {n} \cup (CvoNode \cap DependsOn(n)) : nodeFile[m] \in Unreadable
           \/ gpu /\ gpuLock.file \in Unreadable
        THEN GoTo(r, "down")
        ELSE IF Skipped(n) \/ (gpu /\ gpuLock.file = "young" /\ gpuLock.node # n) THEN Onwards(r, n + 1)
        ELSE Becomes(r, [actor[r] EXCEPT !.at = IF gpu THEN "check" ELSE "begin", !.picks = gpu])

\* Where a run goes whose node has not passed.
ToRun(n) == IF Gpu(n) THEN "check" ELSE "mark"

\* Mutant of RunNode: a node that needs the GPU is run without its lock.
RunNodeUnlocked(r, n, force) ==
  /\ NewRunner(r) /\ Reads
  /\ Becomes(r, [actor[r] EXCEPT !.node = n, !.job = "node",
       !.at = IF nodeFile[n] \in Unreadable \/ (nodeFile[n] = "PASSED" /\ ~force) THEN "down" ELSE "mark"])

\* `run-node` asks neither for dependencies nor whether the node is running.
RunNode(r, n, force) ==
  /\ NewRunner(r) /\ Reads
  /\ Becomes(r, [actor[r] EXCEPT !.node = n, !.job = "node",
       !.at = IF nodeFile[n] \in Unreadable \/ (nodeFile[n] = "PASSED" /\ ~force) THEN "down" ELSE ToRun(n)])

\* run-next runs what it found the way run-node does, and takes the lock once more.
Begin(r) ==
  /\ At(r, "begin") /\ Reads
  /\ Becomes(r, [actor[r] EXCEPT !.picks = FALSE,
       !.at = IF nodeFile[NodeOf(r)] \in Unreadable \cup {"PASSED"} THEN "down" ELSE ToRun(NodeOf(r))])

-----------------------------------------------------------------------------
(* The lock *)

CheckLock(r) ==
  /\ At(r, "check") /\ Reads
  /\ GoTo(r, IF gpuLock.file = "absent" THEN "take" ELSE "read")

\* What is gone by now or no text cannot be read, and the command crashes.  A young lock
\* blocks it, whoever wrote it, itself included; run-next goes on to the next node.
ReadLock(r) ==
  /\ At(r, "read") /\ Reads
  /\ IF gpuLock.file = "old" THEN GoTo(r, "unlink")
     ELSE IF gpuLock.file = "young" /\ actor[r].picks
     THEN Onwards(r, NodeOf(r) + 1)
     ELSE GoTo(r, "down")

\* What is removed is what is there, not what was read.
Unlinked ==
  /\ gpuLock' = NoLock
  /\ handle' = [q \in Runner |-> IF handle[q] = "lock" THEN "gone" ELSE handle[q]]
UnlinkLock(r) ==
  /\ At(r, "unlink") /\ GoTo(r, "take") /\ OnlyLock /\ Unlinked
  /\ gpuSlip' = (gpuSlip \/ gpuLock.file \in {"empty", "torn", "young"})

\* The file is opened, which empties it, and filled.
OpenLock(r) ==
  /\ At(r, "take") /\ GoTo(r, "fill") /\ OnlyLock
  /\ gpuLock' = [file |-> "empty", node |-> NodeOf(r), by |-> r]
  /\ handle' = [handle EXCEPT ![r] = "lock"]
  /\ gpuSlip' = (gpuSlip \/ gpuLock.file \in {"empty", "torn", "young"})
FillLock(r) ==
  /\ At(r, "fill") /\ GoTo(r, IF actor[r].picks THEN "begin" ELSE "mark") /\ OnlyLock
  /\ IF handle[r] = "gone" THEN UNCHANGED gpuLock
     ELSE \E file \in Over(gpuLock.file, "young") :
            gpuLock' = [file |-> file, node |-> NodeOf(r), by |-> r]
  /\ handle' = [handle EXCEPT ![r] = "none"] /\ UNCHANGED gpuSlip

\* The lock is removed when it names the node, even if another command wrote it.
Unlock(r) ==
  /\ At(r, "unlock") /\ Reads
  /\ GoTo(r, IF gpuLock.file \in {"young", "old"} /\ gpuLock.node = NodeOf(r) THEN "drop" ELSE "down")
DropLock(r) ==
  /\ At(r, "drop") /\ GoTo(r, "down") /\ OnlyLock /\ Unlinked /\ UNCHANGED gpuSlip

\* 120 seconds pass: nothing renews a lock while its node runs.
LockAges ==
  /\ gpuLock.file = "young" /\ gpuLock' = [gpuLock EXCEPT !.file = "old"]
  /\ gpuSlip' = (gpuSlip \/ \E r \in Runner : AliveRunner(r) /\ r = gpuLock.by)
  /\ OnlyLock /\ UNCHANGED <<actor, handle>>

-----------------------------------------------------------------------------
(* The status of a node *)

\* What follows the run of a node, however it ended.
AfterRun(n) == IF Gpu(n) THEN "unlock" ELSE "down"

\* The writing of the file of a node begins with a look at it.
Meets(r, n) ==
  met' = IF \E q \in Runner \ {r} : actor[q].at \in FileWrite /\ actor[q].node = n
         THEN met \cup {n} ELSE met
Looks == UNCHANGED <<nodeFile, tmpFile, gpuLock, handle, gpuSlip, killedOn>>

\* set_status reads the file, to keep the rest of it.
SetStatus(r, status) ==
  /\ Looks
  /\ IF nodeFile[NodeOf(r)] \in Unreadable THEN GoTo(r, AfterRun(NodeOf(r))) /\ UNCHANGED met
     ELSE Becomes(r, [actor[r] EXCEPT !.at = "tmp", !.word = status]) /\ Meets(r, NodeOf(r))

OnlyNode == UNCHANGED <<gpuLock, gpuSlip, killedOn, met>>
EmptyTmp(r) ==
  /\ At(r, "tmp") /\ GoTo(r, "write") /\ OnlyNode
  /\ tmpFile' = [tmpFile EXCEPT ![NodeOf(r)] = "empty"]
  /\ handle' = [handle EXCEPT ![r] = "tmp"] /\ UNCHANGED nodeFile

\* What is written goes where the file is by now that was opened.
FillTmp(r) ==
  /\ At(r, "write") /\ GoTo(r, "put") /\ OnlyNode
  /\ handle' = [handle EXCEPT ![r] = "none"]
  /\ LET n == NodeOf(r)
         into(file) == \E text \in Over(file[n], actor[r].word) : file' = [file EXCEPT ![n] = text]
     IN /\ IF handle[r] = "tmp" THEN into(tmpFile) ELSE UNCHANGED tmpFile
        /\ IF handle[r] = "node" THEN into(nodeFile) ELSE UNCHANGED nodeFile

\* Where a command goes on that has written a node's file, or failed to.
AfterPut(r) ==
  IF actor[r].job = "init" THEN "init"
  ELSE IF actor[r].word = "RUNNING" THEN "run"
  ELSE AfterRun(NodeOf(r))
AfterFailedPut(r) == IF actor[r].job = "init" THEN "down" ELSE AfterRun(NodeOf(r))

\* The file may have been moved by another command already, and then this one crashes.
PutTmp(r) ==
  /\ At(r, "put") /\ OnlyNode
  /\ LET n == NodeOf(r)
         moved(q) == IF NodeOf(q) # n \/ q = r THEN handle[q]
                     ELSE IF handle[q] = "tmp" THEN "node"
                     ELSE IF handle[q] = "node" THEN "gone"
                     ELSE handle[q]
     IN IF tmpFile[n] = "absent" THEN GoTo(r, AfterFailedPut(r)) /\ UNCHANGED <<nodeFile, tmpFile, handle>>
        ELSE /\ nodeFile' = [nodeFile EXCEPT ![n] = tmpFile[n]]
             /\ tmpFile' = [tmpFile EXCEPT ![n] = "absent"]
             /\ handle' = [q \in Runner |-> moved(q)]
             /\ GoTo(r, AfterPut(r))

-----------------------------------------------------------------------------
(* The run of a node *)

MarkRunning(r) == At(r, "mark") /\ SetStatus(r, "RUNNING")

\* Mutant of FinishNode: a result that is neither is written as it came.
FinishNodePlain(r) == At(r, "run") /\ \E s \in {"PASSED", "RUNNING", "FAILED"} : SetStatus(r, s)

\* How a callable may end: it is not found, it raises, it returns a dictionary with one
\* of these statuses or without any, or it returns something else, which passes.
CallableEnd == {"missing", "raises", "PASSED", "PARTIAL", "FAILED", "none", "other"}
RunCallable(end) ==
  CASE end \in {"missing", "raises"} -> "FAILED"
    [] end = "other" -> "PASSED"
    [] OTHER -> end

\* Only PASSED and PARTIAL stay what they are.  A dry run passes without a call.
Written(end) == IF RunCallable(end) \in {"PASSED", "PARTIAL"} THEN RunCallable(end) ELSE "FAILED"

FinishNode(r) == At(r, "run") /\ \E end \in CallableEnd : SetStatus(r, Written(end))

-----------------------------------------------------------------------------
(* `audit init` *)

\* It runs VAL-000 first, which writes its own file in place, PASSED whatever it found and
\* whatever the file said.
Bootstrap(r) ==
  /\ NewRunner(r)
  /\ Becomes(r, [actor[r] EXCEPT !.at = "boot", !.job = "init"])
  /\ nodeFile' = [nodeFile EXCEPT ![0] = "empty"] /\ handle' = [handle EXCEPT ![r] = "node"]
  /\ UNCHANGED tmpFile /\ OnlyNode
FillBoot(r) ==
  /\ At(r, "boot") /\ GoTo(r, "init") /\ OnlyNode /\ UNCHANGED tmpFile
  /\ IF handle[r] = "gone" THEN UNCHANGED nodeFile
     ELSE \E text \in Over(nodeFile[0], "PASSED") : nodeFile' = [nodeFile EXCEPT ![0] = text]
  /\ handle' = [handle EXCEPT ![r] = "none"]

\* Of the other nodes, one after the other, only a missing file is written.
InitNode(r) ==
  /\ At(r, "init") /\ Looks
  /\ IF \A n \in CvoNode : n > NodeOf(r) => nodeFile[n] # "absent" THEN GoTo(r, "down") /\ UNCHANGED met
     ELSE \E n \in CvoNode :
       /\ n > NodeOf(r) /\ nodeFile[n] = "absent"
       /\ \A m \in CvoNode : NodeOf(r) < m /\ m < n => nodeFile[m] # "absent"
       /\ Becomes(r, [actor[r] EXCEPT !.at = "tmp", !.node = n, !.word = "PENDING"])
       /\ Meets(r, n)

-----------------------------------------------------------------------------
(* Commands that are cut off *)

\* From the first look at the node's file to the last.
InTry(r) == actor[r].at \in {"mark", "run"} \cup FileWrite /\ actor[r].job # "init"
Cuts(r) ==
  /\ killedOn' = IF InTry(r) THEN killedOn \cup {NodeOf(r)} ELSE killedOn
  /\ handle' = [handle EXCEPT ![r] = "none"]
  /\ UNCHANGED <<nodeFile, tmpFile, gpuLock, gpuSlip, met>>

\* A callable that exits, or Ctrl-C, passes through every handler: the lock is given
\* back and the node stays what it was.
NodeExits(r) == InTry(r) /\ GoTo(r, AfterRun(NodeOf(r))) /\ Cuts(r)

KillRunner(r) == AliveRunner(r) /\ GoTo(r, "down") /\ Cuts(r)

CvoNext ==
  \/ \E r \in Runner :
       \/ RunNext(r) \/ Scan(r) \/ Begin(r)
       \/ \E n \in CvoNode, force \in BOOLEAN : RunNode(r, n, force)
       \/ CheckLock(r) \/ ReadLock(r) \/ UnlinkLock(r) \/ OpenLock(r) \/ FillLock(r)
       \/ MarkRunning(r) \/ FinishNode(r) \/ EmptyTmp(r) \/ FillTmp(r) \/ PutTmp(r)
       \/ Bootstrap(r) \/ FillBoot(r) \/ InitNode(r)
       \/ Unlock(r) \/ DropLock(r) \/ NodeExits(r) \/ KillRunner(r)
  \/ LockAges

CvoSpec == CvoInit /\ [][CvoNext]_cvoVars

-----------------------------------------------------------------------------
(* Properties *)

\* Two GPU nodes run at the same time only after a lock expired under the command that
\* holds it, or a command that had looked before the lock was there removed it or wrote
\* over it; a kill alone, a blocked command, an exception in set_status, the takeover of
\* an old lock or the release of a lock by node name is not enough.
GpuExclusive ==
  ~gpuSlip => Cardinality({r \in Runner : At(r, "run") /\ Gpu(NodeOf(r))}) <= 1

\* run-next never gets a GPU node to run: run_node finds the lock its own command took.
RunNextBlocksItself ==
  ~gpuSlip => \A r \in Runner : actor[r].job = "next" /\ Gpu(NodeOf(r)) => ~InTry(r)

\* A command that has marked its node RUNNING and not yet written how it ended.
Executes(r, n) ==
  /\ NodeOf(r) = n /\ actor[r].job # "init"
  /\ At(r, "run") \/ (actor[r].at \in FileWrite /\ actor[r].word # "RUNNING")

\* A file says RUNNING without a command running the node only if one was killed or made
\* to exit in it, or two were writing the file at once, which they do under one temporary
\* name; not because several commands run one node and end one after the other, because
\* init rewrites it in place, or because a command crashes on a file it cannot read.
RunningHasRunner ==
  \A n \in CvoNode : nodeFile[n] = "RUNNING" =>
    n \in killedOn \cup met \/ \E r \in Runner : Executes(r, n)
=============================================================================
