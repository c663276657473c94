---------------------------- MODULE Startup_proofs ----------------------------
(***************************************************************************)
(* The startup command line for every set of plans, of verdicts on them    *)
(* and of processes.  Whether commands may overlap is part of a theorem's  *)
(* hypotheses only where it matters: what is recorded belongs to one plan, *)
(* and files are torn by kills alone, in either case.                      *)
(***************************************************************************)
EXTENDS Startup, TLAPS

-----------------------------------------------------------------------------
(* Types *)

ClaimPlaces == {"claim", "graph", "create", "fill", "pick", "write", "finish"}
LockPlaces == {"lock", "clear", "tmp", "replace"}
StopPlaces == {"save", "keep", "refill", "unlock", "cleared"}

\* A process is at a place its subcommand leads to, and holds a plan where it needs one.
PostedAt(place, c, v) ==
  /\ place \in StopPlaces => c = "stop"
  /\ place \in LockPlaces => c \in {"start", "resume"}
  /\ place \in {"open", "recover"} => c = "resume"
  /\ place \in ClaimPlaces => c \in {"start", "dry", "resume"}
  /\ place \in {"graph", "create", "fill", "pick", "write"} => v.hash \in Plan
Posted(p) == PostedAt(pc[p], cmd[p], view[p])

\* What is not whole names no plan and no task.
Blank ==
  /\ \A f \in {es, ckpt} : f.file # "whole" => f.hash = NoPlan
  /\ IF graph.file = "whole" THEN graph.hash \in Plan ELSE graph.ready = NoTask

StartupTyped == StartupTypeOK /\ Blank /\ \A p \in Proc : Posted(p)

\* The variables of a process, one by one; the moves of a command are steps of this form.
Move(p, place, c, v) ==
  /\ pc' = [pc EXCEPT ![p] = place]
  /\ cmd' = [cmd EXCEPT ![p] = c] /\ view' = [view EXCEPT ![p] = v]

LEMMA EveryMove ==
  ASSUME StartupTypeOK, NEW p \in Proc
  PROVE  /\ \A place : Goto(p, place) => Move(p, place, cmd[p], view[p]) /\ UNCHANGED <<exit, killed>>
         /\ \A place, v : Look(p, place, v) => Move(p, place, cmd[p], v) /\ UNCHANGED <<exit, killed>>
         /\ Forget(p) => Move(p, "done", "start", Nothing)
         /\ \A code : Exit(p, code) =>
              Move(p, "done", "start", Nothing) /\ exit' = code /\ UNCHANGED killed
<1> USE DEF StartupTypeOK, Move
<1>1. ASSUME NEW place, Goto(p, place) PROVE Move(p, place, cmd[p], view[p]) /\ UNCHANGED <<exit, killed>>
  BY <1>1 DEF Goto
<1>2. ASSUME NEW place, NEW v, Look(p, place, v)
      PROVE  Move(p, place, cmd[p], v) /\ UNCHANGED <<exit, killed>>
  BY <1>2 DEF Look
<1>3. Forget(p) => Move(p, "done", "start", Nothing)
  BY DEF Forget
<1> QED BY <1>1, <1>2, <1>3 DEF Exit

\* A moved process leaves the others where they are.
LEMMA OthersStay ==
  ASSUME StartupTypeOK, NEW p \in Proc, NEW place \in Places, NEW c \in Commands, NEW v \in View,
         Move(p, place, c, v)
  PROVE  /\ pc' \in [Proc -> Places] /\ cmd' \in [Proc -> Commands] /\ view' \in [Proc -> View]
         /\ pc'[p] = place /\ cmd'[p] = c /\ view'[p] = v
         /\ \A q \in Proc \ {p} : pc'[q] = pc[q] /\ cmd'[q] = cmd[q] /\ view'[q] = view[q]
BY DEF StartupTypeOK, Move

\* What there is to show of a move: the files it writes, and where it goes.
LEMMA TypedMove ==
  ASSUME StartupTyped, NEW p \in Proc, NEW place \in Places, NEW c \in Commands, NEW v \in View,
         Move(p, place, c, v),
         plan' \in Plan, es' \in StateFile, ckpt' \in StateFile, graph' \in GraphFile,
         lock' \in Proc \cup {0}, tmp' \in Proc \cup {0}, started' \in BOOLEAN, edits' \in 0..MaxEdits,
         exit' \in ExitCodes, killed' \subseteq {"stop", "claim"}, Blank', PostedAt(place, c, v)
  PROVE  StartupTyped'
<1>1. \A q \in Proc : Posted(q)'
  <2>1. ASSUME NEW q \in Proc \ {p} PROVE Posted(q)'
    BY OthersStay DEF StartupTyped, Posted
  <2>2. Posted(p)'
    BY OthersStay DEF StartupTyped, Posted
  <2> QED BY <2>1, <2>2
<1> QED BY <1>1, OthersStay DEF StartupTyped, StartupTypeOK

\* A move that writes no file.
LEMMA TypedLook ==
  ASSUME StartupTyped, NEW p \in Proc, NEW place \in Places, NEW c \in Commands, NEW v \in View,
         Move(p, place, c, v), UNCHANGED fileVars,
         exit' \in ExitCodes, killed' \subseteq {"stop", "claim"}, PostedAt(place, c, v)
  PROVE  StartupTyped'
BY TypedMove DEF StartupTyped, StartupTypeOK, Blank, fileVars

\* A process that ends.
LEMMA TypedEnd ==
  ASSUME StartupTyped, NEW p \in Proc, Move(p, "done", "start", Nothing), UNCHANGED fileVars,
         exit' \in ExitCodes, killed' \subseteq {"stop", "claim"}
  PROVE  StartupTyped'
<1>1. "done" \in Places /\ "start" \in Commands /\ Nothing \in View
  BY DEF Places, Commands, View, Nothing, Absent, StateFile
<1>2. PostedAt("done", "start", Nothing)
  BY DEF PostedAt, StopPlaces, LockPlaces, ClaimPlaces
<1> QED BY <1>1, <1>2, TypedLook


LEMMA TypedStep == ASSUME StartupTyped, NEW p \in Proc, Step(p) PROVE StartupTyped'
<1>1. /\ pc[p] \in Places /\ cmd[p] \in Commands /\ view[p] \in View /\ Posted(p) /\ StartupTypeOK
      /\ exit \in ExitCodes /\ killed \subseteq {"stop", "claim"} /\ Blank
  BY DEF StartupTyped, StartupTypeOK
<1>2. ASSUME NEW code \in ExitCodes, Exit(p, code), UNCHANGED fileVars PROVE StartupTyped'
  BY <1>1, <1>2, EveryMove, TypedEnd
<1>3. ASSUME NEW place \in Places, Goto(p, place), UNCHANGED fileVars, PostedAt(place, cmd[p], view[p])
      PROVE  StartupTyped'
  BY <1>1, <1>3, EveryMove, TypedLook
<1>4. ASSUME NEW place \in Places, NEW v \in View, Look(p, place, v), UNCHANGED fileVars,
             PostedAt(place, cmd[p], v)
      PROVE  StartupTyped'
  BY <1>1, <1>4, EveryMove, TypedLook
<1> USE DEF PostedAt, StopPlaces, LockPlaces, ClaimPlaces, Places, ExitCodes
<1>5. CASE StartCheck(p)
  BY <1>1, <1>2, <1>3, <1>5 DEF StartCheck
<1>6. CASE SelfTest(p) \/ Doctor(p) \/ Verify(p) \/ StopCheck(p)
  BY <1>2, <1>6 DEF SelfTest, Doctor, Verify, StopCheck
<1>7. CASE LockRead(p)
  BY <1>1, <1>2, <1>3, <1>7 DEF LockRead, Posted
<1>8. CASE ClaimRead(p)
  BY <1>1, <1>2, <1>4, <1>8 DEF ClaimRead, Posted, View, Nothing, StartupTypeOK
<1>9. CASE GraphLoad(p)
  BY <1>1, <1>2, <1>3, <1>9 DEF GraphLoad, Posted
<1>10. CASE Pick(p)
  BY <1>1, <1>3, <1>4, <1>10 DEF Pick, Posted, View, Blank, StartupTypeOK, GraphFile
<1>11. CASE ResumeOpen(p) \/ Recover(p)
  BY <1>1, <1>2, <1>3, <1>11 DEF ResumeOpen, Recover, Posted
<1>12. ASSUME NEW place \in Places, Goto(p, place), PostedAt(place, cmd[p], view[p]),
              plan' = plan, started' = started, edits' = edits, es' \in StateFile, ckpt' \in StateFile,
              graph' \in GraphFile, lock' \in Proc \cup {0}, tmp' \in Proc \cup {0}, Blank'
       PROVE  StartupTyped'
  <2>1. Move(p, place, cmd[p], view[p]) /\ UNCHANGED <<exit, killed>>
    BY <1>1, <1>12, EveryMove
  <2>2. plan' \in Plan /\ started' \in BOOLEAN /\ edits' \in 0..MaxEdits
    BY <1>1, <1>12 DEF StartupTypeOK
  <2> QED BY <1>1, <1>12, <2>1, <2>2, TypedMove
<1>13. CASE LockClear(p) \/ LockTmp(p) \/ StopUnlock(p)
  BY <1>1, <1>12, <1>13 DEF LockClear, LockTmp, StopUnlock, Posted, Blank, StartupTypeOK
<1>14. CASE LockReplace(p)
  <2>1. Blank'
    BY <1>1, <1>14 DEF LockReplace, Blank
  <2>2. CASE tmp = 0
    BY <1>1, <1>2, <1>14, <2>2 DEF LockReplace, fileVars
  <2>3. CASE tmp # 0
    BY <1>1, <1>12, <1>14, <2>1, <2>3 DEF LockReplace, Posted, StartupTypeOK
  <2> QED BY <2>2, <2>3
<1>15. CASE GraphCreate(p) \/ GraphFill(p)
  <2>1. graph' \in GraphFile /\ Blank'
    BY <1>1, <1>15, StartupAssumption
    DEF GraphCreate, GraphFill, Posted, Blank, NoGraph, GraphFile, StartupTypeOK, Places
  <2> QED BY <1>1, <1>12, <1>15, <2>1 DEF GraphCreate, GraphFill, Posted, StartupTypeOK
<1>16. CASE ClaimWrite(p)
  <2>1. es' \in StateFile /\ es'.file = "whole"
    BY <1>1, <1>16 DEF ClaimWrite, ClaimedState, View, StateFile, Posted
  <2>2. Blank'
    BY <1>1, <1>16, <2>1 DEF ClaimWrite, Blank
  <2> QED BY <1>1, <1>12, <1>16, <2>1, <2>2 DEF ClaimWrite, Posted, StartupTypeOK
<1>17. CASE Finish(p)
  <2>1. Move(p, "done", "start", Nothing) /\ UNCHANGED killed /\ exit' = 0
    BY <1>1, <1>17, EveryMove DEF Finish
  <2>2. "done" \in Places /\ "start" \in Commands /\ Nothing \in View
    BY DEF Places, Commands, View, Nothing, Absent, StateFile
  <2> QED BY <1>1, <1>17, <2>1, <2>2, TypedMove DEF Finish, StartupTypeOK, Blank
<1>18. CASE StopRead(p)
  <2> DEFINE v == [Nothing EXCEPT !.es = es]
  <2>1. Move(p, "keep", cmd[p], v) /\ UNCHANGED <<exit, killed>> /\ v \in View
    BY <1>1, <1>18, EveryMove DEF StopRead, Nothing, View, StartupTypeOK
  <2>2. ckpt' \in StateFile /\ Blank'
    BY <1>1, <1>18 DEF StopRead, Blank, Emptied, Absent, StateFile, StartupTypeOK
  <2> HIDE DEF v
  <2> QED BY <1>1, <1>18, <2>1, <2>2, TypedMove DEF StopRead, Posted, StartupTypeOK
<1>19. CASE StopSave(p) \/ StopFill(p)
  <2>1. es' \in StateFile /\ ckpt' \in StateFile /\ Blank'
    <3>1. view[p].es \in StateFile /\ es \in StateFile /\ ckpt \in StateFile
      BY <1>1 DEF View, StartupTypeOK
    <3>2. CASE StopSave(p)
      BY <1>1, <3>1, <3>2 DEF StopSave, Blank, Emptied, Absent, StateFile
    <3>3. CASE StopFill(p)
      BY <1>1, <3>1, <3>3 DEF StopFill, Blank, StateFile
    <3> QED BY <1>19, <3>2, <3>3
  <2> QED BY <1>1, <1>12, <1>19, <2>1 DEF StopSave, StopFill, Posted, StartupTypeOK
<1> QED
  BY <1>5, <1>6, <1>7, <1>8, <1>9, <1>10, <1>11, <1>13, <1>14, <1>15, <1>16, <1>17, <1>18, <1>19 DEF Step

\* Every command starts at a place that suits it.
LEMMA FirstPlaces ==
  \A c \in Commands :
    /\ FirstPlace(c) \in {"check", "open", "save"}
    /\ FirstPlace(c) = "open" => c = "resume"
    /\ FirstPlace(c) = "save" => c = "stop"
BY DEF FirstPlace, Commands

LEMMA TypedInductive == StartupTyped /\ [StartupNext]_vars => StartupTyped'
<1> SUFFICES ASSUME StartupTyped, [StartupNext]_vars PROVE StartupTyped'
  OBVIOUS
<1>1. ASSUME NEW p \in Proc, Kill(p) PROVE StartupTyped'
  <2>1. Move(p, "done", "start", Nothing) /\ UNCHANGED <<fileVars, exit>> /\ killed' \subseteq {"stop", "claim"}
    BY <1>1, EveryMove DEF Kill, StartupTyped, StartupTypeOK
  <2> QED BY <2>1, TypedEnd DEF StartupTyped, StartupTypeOK
<1>2. ASSUME NEW p \in Proc, NEW c \in Commands, Launch(p, c) PROVE StartupTyped'
  <2>1. Move(p, FirstPlace(c), c, view[p]) /\ UNCHANGED <<fileVars, killed>> /\ exit' = 0
    BY <1>2 DEF Launch, Move, StartupTyped, StartupTypeOK
  <2>2. FirstPlace(c) \in Places /\ PostedAt(FirstPlace(c), c, view[p])
    BY FirstPlaces DEF Places, PostedAt, StopPlaces, LockPlaces, ClaimPlaces
  <2>3. view[p] \in View /\ 0 \in ExitCodes /\ killed \subseteq {"stop", "claim"}
    BY DEF StartupTyped, StartupTypeOK, ExitCodes
  <2> QED BY <2>1, <2>2, <2>3, TypedLook
<1>3. ASSUME NEW d \in Plan, EditPlan(d) PROVE StartupTyped'
  BY <1>3, StartupAssumption DEF EditPlan, Edit, StartupTyped, StartupTypeOK, Blank, Posted, PostedAt
<1>4. ASSUME NEW t \in Task \cup {NoTask}, EditGraph(t) PROVE StartupTyped'
  BY <1>4, StartupAssumption
  DEF EditGraph, Edit, StartupTyped, StartupTypeOK, Blank, Posted, PostedAt, GraphFile
<1>5. ASSUME NEW f \in {Absent, ckpt}, RepairState(f) PROVE StartupTyped'
  <2>1. es' \in StateFile /\ (es'.file # "whole" => es'.hash = NoPlan)
    <3>1. Absent \in StateFile /\ Absent.hash = NoPlan
      BY DEF Absent, StateFile
    <3>2. ckpt \in StateFile /\ (ckpt.file # "whole" => ckpt.hash = NoPlan)
      BY DEF StartupTyped, StartupTypeOK, Blank
    <3> QED BY <1>5, <3>1, <3>2 DEF RepairState
  <2>3. edits' \in 0..MaxEdits
    BY <1>5, StartupAssumption DEF RepairState, Edit, StartupTyped, StartupTypeOK
  <2>2. UNCHANGED <<plan, ckpt, graph, lock, tmp, started, pc, cmd, view, exit, killed>>
    BY <1>5 DEF RepairState
  <2> QED BY <2>1, <2>2, <2>3 DEF StartupTyped, StartupTypeOK, Blank, Posted, PostedAt
<1>6. CASE UNCHANGED vars
  BY <1>6 DEF vars, StartupTyped, StartupTypeOK, Blank, Posted, PostedAt
<1> QED BY <1>1, <1>2, <1>3, <1>4, <1>5, <1>6, TypedStep DEF StartupNext


LEMMA StartupStartsTyped == StartupInit => StartupTyped
<1> SUFFICES ASSUME StartupInit PROVE StartupTyped
  OBVIOUS
<1>1. Absent \in StateFile /\ Nothing \in View /\ NoGraph \in GraphFile
  BY DEF Absent, StateFile, Nothing, View, NoGraph, GraphFile
<1>2. StartupTypeOK
  <2>1. pc \in [Proc -> Places] /\ cmd \in [Proc -> Commands] /\ view \in [Proc -> View]
    BY <1>1 DEF StartupInit, Places, Commands
  <2>2. edits \in 0..MaxEdits /\ exit \in ExitCodes
    BY StartupAssumption DEF StartupInit, ExitCodes
  <2> QED BY <1>1, <2>1, <2>2 DEF StartupInit, StartupTypeOK
<1>3. Blank /\ \A p \in Proc : Posted(p)
  BY DEF StartupInit, Blank, Posted, PostedAt, Absent, NoGraph, StopPlaces, LockPlaces, ClaimPlaces
<1> QED BY <1>2, <1>3 DEF StartupTyped

\* The files, the processes and what they have read keep their types, for every set of
\* plans and verdicts (models.py, state_machine.py, lock.py).
THEOREM StartupTypeCorrect == StartupSpec => []StartupTyped
BY StartupStartsTyped, TypedInductive, PTL DEF StartupSpec


-----------------------------------------------------------------------------
(* Recorded tasks are of the recorded plan *)

\* A hash that is on record somewhere is that of the graph, which is not built again but by
\* commands that have all validated this one plan: plans change between commands only.
Follows(h) ==
  h # NoPlan =>
    /\ graph.file # "absent" /\ (graph.file = "whole" => graph.hash = h)
    /\ \A p \in Proc : pc[p] \in {"create", "fill"} => plan = h

\* So a task on record is of the plan on record.
OfItsPlan(f) == f.hash # NoPlan /\ f.task # NoTask => f.task \in TasksOf[f.hash]
Kept(f) == Follows(f.hash) /\ OfItsPlan(f)

\* What a process has read, and what it is about to write of it.
HoldsAt(place, v) ==
  /\ Kept(v.es)
  /\ place \in {"graph", "create", "fill", "pick"} => v.hash = plan /\ v.es.hash \in {NoPlan, plan}
  /\ place = "write" => /\ Follows(v.hash) /\ v.task \in TasksOf[v.hash]
                        /\ v.es.hash \in {NoPlan, v.hash}
Holds(p) == HoldsAt(pc[p], view[p])

GraphSound ==
  graph.file = "whole" => Follows(graph.hash) /\ graph.ready \in TasksOf[graph.hash] \cup {NoTask}

PlansInv == StartupTyped /\ Kept(es) /\ Kept(ckpt) /\ GraphSound /\ \A p \in Proc : Holds(p)

\* A hash is followed on over the moves of every command.
LEMMA StillFollows ==
  ASSUME StartupTyped, NEW p \in Proc, NEW place \in Places, NEW c \in Commands, NEW v \in View,
         Move(p, place, c, v), plan' = plan,
         \/ graph' = graph /\ place \notin {"create", "fill"}
         \/ graph' = graph /\ graph.file = "absent"
         \/ pc[p] = "create" /\ graph'.file = "empty"
         \/ pc[p] = "fill" /\ graph'.file = "whole" /\ graph'.hash = plan,
         NEW h, Follows(h)
  PROVE  Follows(h)'
<1>1. \A q \in Proc : q # p => pc'[q] = pc[q]
  BY OthersStay DEF StartupTyped
<1>2. pc'[p] = place
  BY OthersStay DEF StartupTyped
<1> QED BY <1>1, <1>2 DEF Follows


\* What there is to show of a move: the states it writes, and where it goes.
LEMMA PlansMove ==
  ASSUME PlansInv, StartupTyped', NEW p \in Proc, NEW place \in Places, NEW c \in Commands, NEW v \in View,
         Move(p, place, c, v), plan' = plan,
         \A h : Follows(h) => Follows(h)',
         Kept(es'), Kept(ckpt'), GraphSound', HoldsAt(place, v)
  PROVE  PlansInv'
<1>2. Kept(es)' /\ Kept(ckpt)'
  BY DEF Kept, OfItsPlan
<1>3. ASSUME NEW w, NEW at, HoldsAt(at, w) PROVE HoldsAt(at, w)'
  BY <1>3 DEF HoldsAt, Kept, OfItsPlan
<1>4. \A q \in Proc : Holds(q)'
  <2>1. ASSUME NEW q \in Proc \ {p} PROVE Holds(q)'
    <3>1. pc'[q] = pc[q] /\ view'[q] = view[q]
      BY OthersStay DEF PlansInv, StartupTyped
    <3>2. HoldsAt(pc[q], view[q])
      BY DEF PlansInv, Holds
    <3> QED BY <1>3, <3>1, <3>2 DEF Holds
  <2>2. Holds(p)'
    <3>1. pc'[p] = place /\ view'[p] = v
      BY OthersStay DEF PlansInv, StartupTyped
    <3> QED BY <1>3, <3>1 DEF Holds
  <2> QED BY <2>1, <2>2
<1> QED BY <1>2, <1>4 DEF PlansInv


\* A move that writes neither the states nor the graph.
LEMMA PlansLook ==
  ASSUME PlansInv, StartupTyped', NEW p \in Proc, NEW place \in Places, NEW c \in Commands, NEW v \in View,
         Move(p, place, c, v), UNCHANGED <<plan, es, ckpt, graph>>,
         place \notin {"create", "fill"} \/ graph.file = "absent", HoldsAt(place, v)
  PROVE  PlansInv'
<1>1. \A h : Follows(h) => Follows(h)'
  BY StillFollows DEF PlansInv
<1>2. GraphSound' /\ Kept(es') /\ Kept(ckpt')
  BY <1>1 DEF PlansInv, GraphSound
<1> QED BY <1>1, <1>2, PlansMove

LEMMA NothingHeld == Nothing \in View /\ Kept(Absent) /\ \A place \in {"done", "check", "open", "save"} : HoldsAt(place, Nothing)
BY DEF View, StateFile, HoldsAt, Kept, Follows, OfItsPlan, Nothing, Absent

LEMMA PlansStep == ASSUME PlansInv, StartupTyped', NEW p \in Proc, Step(p) PROVE PlansInv'
<1>1. /\ pc[p] \in Places /\ cmd[p] \in Commands /\ view[p] \in View /\ Posted(p) /\ StartupTypeOK
      /\ Blank /\ Holds(p) /\ GraphSound /\ Kept(es) /\ Kept(ckpt)
  BY DEF PlansInv, StartupTyped, StartupTypeOK
<1> DEFINE Unwritten == UNCHANGED <<plan, es, ckpt, graph>>
<1>2. ASSUME NEW code, Exit(p, code), Unwritten PROVE PlansInv'
  <2>1. Move(p, "done", "start", Nothing) /\ "done" \in Places /\ "start" \in Commands
    BY <1>1, <1>2, EveryMove DEF Places, Commands
  <2> QED BY <1>2, <2>1, NothingHeld, PlansLook
<1>3. ASSUME NEW place \in Places, Goto(p, place), Unwritten, HoldsAt(place, view[p]),
             place \notin {"create", "fill"} \/ graph.file = "absent"
      PROVE  PlansInv'
  BY <1>1, <1>3, EveryMove, PlansLook
<1>4. ASSUME NEW place \in Places, NEW v \in View, Look(p, place, v), Unwritten, HoldsAt(place, v),
             place \notin {"create", "fill"}
      PROVE  PlansInv'
  BY <1>1, <1>4, EveryMove, PlansLook
<1>5. CASE StartCheck(p) \/ SelfTest(p) \/ Doctor(p) \/ Verify(p) \/ LockRead(p) \/ ResumeOpen(p) \/ Recover(p) \/ StopCheck(p)
  <2>1. Unwritten
    BY <1>5 DEF StartCheck, SelfTest, Doctor, Verify, LockRead, ResumeOpen, Recover, StopCheck, fileVars
  <2>2. (\E code : Exit(p, code)) \/ \E place \in {"claim", "lock", "clear", "tmp"} : Goto(p, place)
    BY <1>5 DEF StartCheck, SelfTest, Doctor, Verify, LockRead, ResumeOpen, Recover, StopCheck
  <2>3. \A place \in {"claim", "lock", "clear", "tmp"} : place \in Places /\ HoldsAt(place, view[p])
    BY <1>1 DEF Holds, HoldsAt, Places
  <2> QED BY <1>2, <1>3, <2>1, <2>2, <2>3
<1>6. CASE LockClear(p) \/ LockTmp(p) \/ LockReplace(p) \/ StopUnlock(p) \/ Finish(p)
  <2>1. Unwritten
    BY <1>6 DEF LockClear, LockTmp, LockReplace, StopUnlock, Finish
  <2>2. (\E code : Exit(p, code)) \/ \E place \in {"tmp", "replace", "recover", "claim", "cleared"} : Goto(p, place)
    BY <1>6 DEF LockClear, LockTmp, LockReplace, StopUnlock, Finish
  <2>3. \A place \in {"tmp", "replace", "recover", "claim", "cleared"} : place \in Places /\ HoldsAt(place, view[p])
    BY <1>1 DEF Holds, HoldsAt, Places
  <2> QED BY <1>2, <1>3, <2>1, <2>2, <2>3
<1>7. CASE ClaimRead(p)
  <2>1. Unwritten
    BY <1>7 DEF ClaimRead, fileVars
  <2> DEFINE v == [Nothing EXCEPT !.es = es, !.hash = plan]
  <2>2. (\E code : Exit(p, code)) \/ (Look(p, "graph", v) /\ es.hash \in {NoPlan, plan})
    BY <1>7 DEF ClaimRead
  <2>3. v \in View /\ v.es = es /\ v.hash = plan
    BY <1>1 DEF Nothing, View, StartupTypeOK
  <2> HIDE DEF v
  <2>4. es.hash \in {NoPlan, plan} => HoldsAt("graph", v)
    BY <1>1, <2>3 DEF HoldsAt
  <2> QED BY <1>2, <1>4, <2>1, <2>2, <2>3, <2>4 DEF Places
<1>8. CASE GraphLoad(p)
  <2>1. Unwritten /\ pc[p] = "graph"
    BY <1>8 DEF GraphLoad, fileVars
  <2>2. HoldsAt("create", view[p]) /\ HoldsAt("pick", view[p])
    BY <1>1, <2>1 DEF Holds, HoldsAt
  <2> QED BY <1>2, <1>3, <1>8, <2>1, <2>2 DEF GraphLoad, Places
<1>9. CASE Pick(p)
  <2>1. Unwritten /\ pc[p] = "pick"
    BY <1>9 DEF Pick, fileVars
  <2>2. HoldsAt("finish", view[p])
    BY <1>1, <2>1 DEF Holds, HoldsAt
  <2> DEFINE v == [view[p] EXCEPT !.hash = graph.hash, !.task = graph.ready]
  <2>3. v \in View /\ v.es = view[p].es /\ v.hash = graph.hash /\ v.task = graph.ready
    BY <1>1 DEF View, StartupTypeOK, GraphFile
  <2> HIDE DEF v
  <2>4. ASSUME graph.ready # NoTask PROVE HoldsAt("write", v)
    <3>1. graph.file = "whole" /\ graph.hash \in Plan /\ Follows(graph.hash) /\ graph.ready \in TasksOf[graph.hash]
      BY <1>1, <2>4 DEF Blank, GraphSound
    <3>2. Kept(view[p].es) /\ view[p].es.hash \in {NoPlan, graph.hash}
      BY <1>1, <2>1, <3>1 DEF Holds, HoldsAt, Kept, Follows
    <3> QED BY <2>3, <3>1, <3>2 DEF HoldsAt
  <2> QED BY <1>3, <1>4, <1>9, <2>1, <2>2, <2>3, <2>4 DEF Pick, Places, v
<1>10. CASE GraphCreate(p) \/ GraphFill(p)
  <2> DEFINE place == IF pc[p] = "create" THEN "fill" ELSE "pick"
  <2>1. Move(p, place, cmd[p], view[p]) /\ UNCHANGED <<plan, es, ckpt>> /\ place \in Places
    BY <1>1, <1>10, EveryMove DEF GraphCreate, GraphFill, Places
  <2>2. \/ pc[p] = "create" /\ graph'.file = "empty"
        \/ pc[p] = "fill" /\ graph'.file = "whole" /\ graph'.hash = plan
    BY <1>1, <1>10 DEF GraphCreate, GraphFill, NoGraph, Holds, HoldsAt
  <2>3. HoldsAt(place, view[p])
    BY <1>1, <2>2 DEF Holds, HoldsAt
  <2>6. \A h : Follows(h) => Follows(h)'
    BY <1>1, <2>1, <2>2, StillFollows DEF PlansInv
  <2>4. GraphSound'
    <3>1. CASE GraphCreate(p)
      BY <3>1 DEF GraphCreate, NoGraph, GraphSound
    <3>2. CASE GraphFill(p)
      <4>1. graph'.hash = plan /\ graph'.ready = FirstReady[plan] /\ plan \in Plan
        BY <1>1, <3>2 DEF GraphFill, Holds, HoldsAt, StartupTypeOK
      <4>2. graph'.file = "whole"
        BY <3>2 DEF GraphFill
      <4>3. \A q \in Proc : pc'[q] \in {"create", "fill"} => plan' = plan
        BY <2>1
      <4> QED BY <2>1, <4>1, <4>2, <4>3, StartupAssumption DEF GraphSound, Follows
    <3> QED BY <1>10, <3>1, <3>2
  <2>5. Kept(es') /\ Kept(ckpt')
    BY <1>1, <2>1
  <2> HIDE DEF place
  <2> QED BY <1>1, <2>1, <2>3, <2>4, <2>5, <2>6, PlansMove
<1>11. ASSUME NEW place \in Places \ {"create", "fill"}, NEW v \in View, Move(p, place, cmd[p], v),
              UNCHANGED <<plan, graph>>, Kept(es'), Kept(ckpt'), HoldsAt(place, v)
       PROVE  PlansInv'
  <2>1. \A h : Follows(h) => Follows(h)'
    BY <1>1, <1>11, StillFollows DEF PlansInv
  <2>2. GraphSound'
    BY <1>1, <1>11, <2>1 DEF GraphSound
  <2> QED BY <1>1, <1>11, <2>1, <2>2, PlansMove
<1>12. CASE ClaimWrite(p)
  <2>1. /\ Move(p, "finish", cmd[p], view[p]) /\ UNCHANGED <<plan, graph, ckpt>> /\ pc[p] = "write"
        /\ es' = ClaimedState(view[p])
    BY <1>1, <1>12, EveryMove DEF ClaimWrite
  <2>2. HoldsAt("write", view[p])
    BY <1>1, <2>1 DEF Holds
  <2>3. HoldsAt("finish", view[p])
    BY <2>2 DEF HoldsAt
  <2>4. Kept(es')
    <3>1. CASE view[p].es.file = "whole"
      <4>1. es'.hash = view[p].es.hash /\ es'.task = view[p].task
        BY <1>1, <2>1, <3>1 DEF ClaimedState, View, StateFile
      <4> QED BY <2>2, <4>1 DEF HoldsAt, Kept, OfItsPlan
    <3>2. CASE view[p].es.file # "whole"
      <4>1. es'.hash = view[p].hash /\ es'.task = view[p].task
        BY <2>1, <3>2 DEF ClaimedState
      <4> QED BY <2>2, <4>1 DEF HoldsAt, Kept, OfItsPlan
    <3> QED BY <3>1, <3>2
  <2> QED BY <1>1, <1>11, <2>1, <2>3, <2>4 DEF Places
<1>13. CASE StopRead(p)
  <2> DEFINE v == [Nothing EXCEPT !.es = es]
  <2>1. Move(p, "keep", cmd[p], v) /\ UNCHANGED <<plan, graph, es>> /\ v \in View
    BY <1>1, <1>13, EveryMove DEF StopRead, Nothing, View, StartupTypeOK
  <2>2. v.es = es
    BY DEF Nothing
  <2>3. Kept(Emptied)
    BY DEF Emptied, Absent, Kept, Follows, OfItsPlan
  <2> HIDE DEF v
  <2>4. Kept(ckpt') /\ HoldsAt("keep", v)
    BY <1>1, <1>13, <2>2, <2>3 DEF StopRead, HoldsAt
  <2> QED BY <1>1, <1>11, <2>1, <2>4 DEF Places
<1>14. CASE StopSave(p)
  <2>1. Move(p, "refill", cmd[p], view[p]) /\ UNCHANGED <<plan, graph>> /\ HoldsAt("refill", view[p]) /\ Kept(view[p].es)
    BY <1>1, <1>14, EveryMove DEF StopSave, Holds, HoldsAt
  <2>2. Kept(Emptied)
    BY DEF Emptied, Absent, Kept, Follows, OfItsPlan
  <2>3. Kept(es') /\ Kept(ckpt')
    BY <1>1, <1>14, <2>1, <2>2 DEF StopSave
  <2> QED BY <1>1, <1>11, <2>1, <2>3 DEF Places
<1>15. CASE StopFill(p)
  <2>1. Move(p, "unlock", cmd[p], view[p]) /\ UNCHANGED <<plan, graph, ckpt>> /\ HoldsAt("unlock", view[p]) /\ Kept(view[p].es)
    BY <1>1, <1>15, EveryMove DEF StopFill, Holds, HoldsAt
  <2>2. es'.hash = view[p].es.hash /\ es'.task = NoTask
    BY <1>1, <1>15 DEF StopFill, View, StateFile
  <2>3. Kept(es') /\ Kept(ckpt')
    BY <1>1, <2>1, <2>2 DEF Kept, OfItsPlan
  <2> QED BY <1>1, <1>11, <2>1, <2>3 DEF Places
<1> QED
  BY <1>5, <1>6, <1>7, <1>8, <1>9, <1>10, <1>12, <1>13, <1>14, <1>15 DEF Step

LEMMA PlansInductive == PlansInv /\ [StartupNext]_vars => PlansInv'
<1> SUFFICES ASSUME PlansInv, [StartupNext]_vars PROVE PlansInv'
  OBVIOUS
<1>1. StartupTyped'
  BY TypedInductive DEF PlansInv
<1>2. /\ StartupTypeOK /\ Kept(es) /\ Kept(ckpt) /\ GraphSound /\ \A p \in Proc : Holds(p)
  BY DEF PlansInv, StartupTyped
<1>3. ASSUME NEW p \in Proc, Kill(p) PROVE PlansInv'
  <2>1. Move(p, "done", "start", Nothing) /\ UNCHANGED <<plan, es, ckpt, graph>>
    BY <1>2, <1>3, EveryMove DEF Kill, fileVars
  <2> QED BY <1>1, <2>1, NothingHeld, PlansLook DEF Places, Commands
<1>4. ASSUME NEW p \in Proc, NEW c \in Commands, Launch(p, c) PROVE PlansInv'
  <2>1. Move(p, FirstPlace(c), c, view[p]) /\ UNCHANGED <<plan, es, ckpt, graph>>
    BY <1>2, <1>4 DEF Launch, Move, fileVars, StartupTypeOK
  <2>2. FirstPlace(c) \in {"check", "open", "save"} /\ HoldsAt(FirstPlace(c), view[p])
    BY <1>2, FirstPlaces DEF Holds, HoldsAt
  <2>3. view[p] \in View
    BY <1>2 DEF StartupTypeOK
  <2> QED BY <1>1, <2>1, <2>2, <2>3, PlansLook DEF Places
<1>5. Quiet => \A p \in Proc : pc[p] \in {"idle", "done"}
  BY DEF Quiet, Alive
<1>6. ASSUME Quiet, UNCHANGED <<pc, view>>, graph'.file = graph.file, graph'.hash = graph.hash,
             Kept(es'), Kept(ckpt'), graph'.ready \in {graph.ready, NoTask} \cup TasksOf[graph.hash]
      PROVE  PlansInv'
  <2>1. \A h : Follows(h) => Follows(h)'
    BY <1>5, <1>6 DEF Follows
  <2>2. ASSUME NEW f, Kept(f) PROVE Follows(f.hash)' /\ OfItsPlan(f)
    BY <2>1, <2>2 DEF Kept
  <2>3. \A p \in Proc : Holds(p)'
    BY <1>2, <1>5, <1>6, <2>2 DEF Holds, HoldsAt, Kept, OfItsPlan
  <2>4. GraphSound'
    BY <1>2, <1>6, <2>1 DEF GraphSound
  <2>5. Kept(es)' /\ Kept(ckpt)'
    BY <1>6, <2>2 DEF Kept, OfItsPlan
  <2> QED BY <1>1, <2>3, <2>4, <2>5 DEF PlansInv
<1>7. ASSUME NEW d \in Plan, EditPlan(d) PROVE PlansInv'
  BY <1>2, <1>6, <1>7 DEF EditPlan, Edit
<1>8. ASSUME NEW t \in Task \cup {NoTask}, EditGraph(t) PROVE PlansInv'
  BY <1>2, <1>6, <1>8 DEF EditGraph, Edit, StartupTypeOK, GraphFile
<1>9. ASSUME NEW f \in {Absent, ckpt}, RepairState(f) PROVE PlansInv'
  BY <1>2, <1>6, <1>9, NothingHeld DEF RepairState, Edit
<1>10. CASE UNCHANGED vars
  BY <1>1, <1>2, <1>10 DEF vars, PlansInv, Kept, Follows, OfItsPlan, Holds, HoldsAt, GraphSound
<1> QED BY <1>1, <1>3, <1>4, <1>7, <1>8, <1>9, <1>10, PlansStep DEF StartupNext

LEMMA StartsSound == StartupInit => PlansInv
<1> SUFFICES ASSUME StartupInit PROVE PlansInv
  OBVIOUS
<1>1. \A p \in Proc : pc[p] = "idle" /\ view[p] = Nothing
  BY DEF StartupInit
<1>2. es = Absent /\ ckpt = Absent /\ graph.file = "absent"
  BY DEF StartupInit, NoGraph
<1> QED BY <1>1, <1>2, StartupStartsTyped, NothingHeld DEF PlansInv, Holds, HoldsAt, GraphSound, Nothing

\* For every set of plans, and whether or not commands overlap: a task recorded under the
\* hash of a plan is a task of that plan (claim_one, _ensure_task_graph, stop.run).
THEOREM ClaimAlwaysFromRecordedPlan == StartupSpec => []ClaimFromRecordedPlan
<1>1. PlansInv => ClaimFromRecordedPlan
  BY DEF PlansInv, Kept, OfItsPlan, ClaimFromRecordedPlan
<1> QED BY <1>1, StartsSound, PlansInductive, PTL DEF StartupSpec

-----------------------------------------------------------------------------
(* Torn files *)

\* A file that is empty is being filled, or was left to a kill.
EmptyFor(file, place, doer) == file = "empty" => doer \in killed \/ \E p \in Proc : pc[p] = place
Torn == EmptyFor(es.file, "refill", "stop") /\ EmptyFor(graph.file, "fill", "claim")

TornInv == StartupTyped /\ Torn

\* A step is one process's.
LEMMA OneMoves ==
  ASSUME StartupTypeOK, NEW p \in Proc, Step(p)
  PROVE  UNCHANGED killed /\ \A q \in Proc : q # p => pc'[q] = pc[q] /\ cmd'[q] = cmd[q] /\ view'[q] = view[q]
<1> DEFINE Others == UNCHANGED killed /\ \A q \in Proc : q # p => pc'[q] = pc[q] /\ cmd'[q] = cmd[q] /\ view'[q] = view[q]
<1>1. ASSUME NEW place, Goto(p, place) PROVE Others
  BY <1>1 DEF Goto, StartupTypeOK
<1>2. ASSUME NEW place, NEW v, Look(p, place, v) PROVE Others
  BY <1>2 DEF Look, StartupTypeOK
<1>3. ASSUME NEW code, Exit(p, code) PROVE Others
  BY <1>3 DEF Exit, Forget, StartupTypeOK
<1>4. \/ \E place : Goto(p, place)
      \/ \E place, v : Look(p, place, v)
      \/ \E code : Exit(p, code)
  <2>1. CASE StartCheck(p) \/ SelfTest(p) \/ Doctor(p) \/ Verify(p)
    BY <2>1 DEF StartCheck, SelfTest, Doctor, Verify
  <2>2. CASE LockRead(p) \/ LockClear(p) \/ LockTmp(p) \/ LockReplace(p)
    BY <2>2 DEF LockRead, LockClear, LockTmp, LockReplace
  <2>3. CASE ClaimRead(p) \/ GraphLoad(p) \/ GraphCreate(p) \/ GraphFill(p)
    BY <2>3 DEF ClaimRead, GraphLoad, GraphCreate, GraphFill
  <2>4. CASE Pick(p) \/ ClaimWrite(p) \/ Finish(p) \/ ResumeOpen(p) \/ Recover(p)
    BY <2>4 DEF Pick, ClaimWrite, Finish, ResumeOpen, Recover
  <2>5. CASE StopRead(p) \/ StopSave(p) \/ StopFill(p) \/ StopUnlock(p) \/ StopCheck(p)
    BY <2>5 DEF StopRead, StopSave, StopFill, StopUnlock, StopCheck
  <2> QED BY <2>1, <2>2, <2>3, <2>4, <2>5 DEF Step
<1> QED BY <1>1, <1>2, <1>3, <1>4 DEF Others

\* A move that leaves a file empty leaves somebody to fill it.
LEMMA TornMove ==
  ASSUME TornInv, StartupTyped', NEW p \in Proc, \A q \in Proc : q # p => pc'[q] = pc[q],
         killed \subseteq killed',
         es'.file # "empty" \/ pc'[p] = "refill"
           \/ (es' = es /\ (pc[p] # "refill" \/ "stop" \in killed')),
         graph'.file # "empty" \/ pc'[p] = "fill"
           \/ (graph' = graph /\ (pc[p] # "fill" \/ "claim" \in killed'))
  PROVE  TornInv'
<1>1. EmptyFor(es.file, "refill", "stop")'
  BY DEF TornInv, Torn, EmptyFor
<1>2. EmptyFor(graph.file, "fill", "claim")'
  BY DEF TornInv, Torn, EmptyFor
<1> QED BY <1>1, <1>2 DEF TornInv, Torn

LEMMA TornStep == ASSUME TornInv, StartupTyped', NEW p \in Proc, Step(p) PROVE TornInv'
<1>1. StartupTypeOK
  BY DEF TornInv, StartupTyped
<1>2. UNCHANGED killed /\ \A q \in Proc : q # p => pc'[q] = pc[q]
  BY <1>1, OneMoves
<1>3. ASSUME NEW place, Goto(p, place) PROVE pc'[p] = place
  BY <1>1, <1>3 DEF Goto, StartupTypeOK
<1>4. CASE UNCHANGED <<es, graph>> /\ pc[p] \notin {"refill", "fill"}
  BY <1>2, <1>4, TornMove
<1>5. CASE StopSave(p)
  BY <1>2, <1>3, <1>5, TornMove DEF StopSave
<1>6. CASE StopFill(p)
  <2>1. es'.file = "whole" /\ graph' = graph /\ pc[p] = "refill"
    BY <1>1, <1>6 DEF StopFill, StartupTypeOK, View, StateFile
  <2> QED BY <1>2, <2>1, TornMove
<1>7. CASE GraphCreate(p)
  BY <1>2, <1>3, <1>7, TornMove DEF GraphCreate
<1>8. CASE GraphFill(p)
  BY <1>2, <1>8, TornMove DEF GraphFill
<1>9. CASE ClaimWrite(p)
  <2>1. es'.file = "whole" /\ graph' = graph /\ pc[p] = "write"
    BY <1>1, <1>9 DEF ClaimWrite, ClaimedState, StartupTypeOK, View, StateFile
  <2> QED BY <1>2, <2>1, TornMove
<1> QED
  BY <1>4, <1>5, <1>6, <1>7, <1>8, <1>9
  DEF Step, StartCheck, SelfTest, Doctor, Verify, LockRead, LockClear, LockTmp, LockReplace, ClaimRead,
      GraphLoad, Pick, Finish, ResumeOpen, Recover, StopRead, StopUnlock, StopCheck, fileVars

LEMMA TornInductive == TornInv /\ [StartupNext]_vars => TornInv'
<1> SUFFICES ASSUME TornInv, [StartupNext]_vars PROVE TornInv'
  OBVIOUS
<1>1. StartupTyped' /\ StartupTypeOK
  BY TypedInductive DEF TornInv, StartupTyped
<1>2. ASSUME NEW p \in Proc, Kill(p) PROVE TornInv'
  <2>1. /\ \A q \in Proc : q # p => pc'[q] = pc[q]
        /\ UNCHANGED <<es, graph>> /\ killed \subseteq killed'
    BY <1>1, <1>2 DEF Kill, Forget, fileVars, StartupTypeOK
  <2>2. pc[p] = "refill" => "stop" \in killed'
    BY <1>2 DEF Kill, TornInv, StartupTyped, Posted, PostedAt, StopPlaces
  <2>3. pc[p] = "fill" => "claim" \in killed'
    BY <1>2 DEF Kill, TornInv, StartupTyped, Posted, PostedAt, ClaimPlaces
  <2> QED BY <1>1, <2>1, <2>2, <2>3, TornMove
<1>3. ASSUME NEW p \in Proc, NEW c \in Commands, Launch(p, c) PROVE TornInv'
  <2>1. /\ \A q \in Proc : q # p => pc'[q] = pc[q]
        /\ UNCHANGED <<es, graph, killed>> /\ pc[p] = "idle"
    BY <1>1, <1>3 DEF Launch, fileVars, StartupTypeOK
  <2> QED BY <1>1, <2>1, TornMove
<1>4. (\E d \in Plan : EditPlan(d)) => TornInv'
  BY <1>1 DEF EditPlan, TornInv, Torn, EmptyFor
<1>5. (\E t \in Task \cup {NoTask} : EditGraph(t)) => TornInv'
  BY <1>1 DEF EditGraph, TornInv, Torn, EmptyFor, StartupTypeOK, GraphFile
<1>6. (\E f \in {Absent, ckpt} : RepairState(f)) => TornInv'
  BY <1>1 DEF RepairState, Edit, TornInv, Torn, EmptyFor
<1>7. CASE UNCHANGED vars
  BY <1>1, <1>7 DEF vars, TornInv, Torn, EmptyFor
<1> QED BY <1>1, <1>2, <1>3, <1>4, <1>5, <1>6, <1>7, TornStep DEF StartupNext

\* A state or a graph found empty was left so by a killed `stop` or a killed claim, also
\* when commands overlap: no refusal, no retry and no second writer tears a file for good
\* (io_utils.write_json, stop.run, _ensure_task_graph).
THEOREM TornAlwaysByKill == StartupSpec => []TornOnlyByKill
<1>1. StartupInit => TornInv
  BY StartupStartsTyped DEF StartupInit, TornInv, Torn, EmptyFor, Absent, NoGraph
<1>2. TornInv => TornOnlyByKill
  BY DEF TornInv, Torn, EmptyFor, TornOnlyByKill, Quiet, Alive
<1> QED BY <1>1, <1>2, TornInductive, PTL DEF StartupSpec

-----------------------------------------------------------------------------
(* One command after the other *)

\* Commands do not overlap: at most one process is alive; a lock on file, or in the making,
\* is of a process that is past taking it; the state a claim has read is the state on file
\* until it is written; and nobody has been refused.
Claims == {"graph", "create", "fill", "pick", "write"}
BeforeLock == {"idle", "check", "open", "lock", "clear", "tmp"}

AloneInv ==
  /\ PlansInv
  /\ \A p, q \in Proc : Alive(p) /\ Alive(q) => p = q
  /\ \A p \in Proc : p \in {lock, tmp} => pc[p] \notin BeforeLock
  /\ \A p \in Proc : pc[p] \in Claims => view[p].es = es /\ es.hash \in {NoPlan, plan}
  /\ exit # 4

\* What there is to show of a step: what it does to the locks, the state and the exit code.
LEMMA AloneMove ==
  ASSUME AloneInv, PlansInv', NEW p \in Proc, \A q \in Proc : q # p => pc'[q] = pc[q],
         \A q \in Proc : q # p => ~Alive(q),
         \A q \in Proc : q \in {lock', tmp'} => q \in {lock, tmp} \/ (q = p /\ pc'[p] \notin BeforeLock),
         p \in {lock', tmp'} => pc'[p] \notin BeforeLock,
         pc'[p] \in Claims => view'[p].es = es' /\ es'.hash \in {NoPlan, plan'},
         exit' # 4
  PROVE  AloneInv'
<1>1. \A q, r \in Proc : Alive(q)' /\ Alive(r)' => q = r
  BY DEF Alive
<1>2. \A q \in Proc : q \in {lock', tmp'} => pc'[q] \notin BeforeLock
  BY DEF AloneInv
<1>3. \A q \in Proc : pc'[q] \in Claims => view'[q].es = es' /\ es'.hash \in {NoPlan, plan'}
  BY DEF Alive, Claims
<1> QED BY <1>1, <1>2, <1>3 DEF AloneInv

LEMMA AloneStep == ASSUME AloneInv, PlansInv', NEW p \in Proc, Step(p) PROVE AloneInv'
<1>1. StartupTypeOK /\ Holds(p) /\ cmd[p] \in Commands
  BY DEF AloneInv, PlansInv, StartupTyped, StartupTypeOK
<1>2. \A q \in Proc : q # p => pc'[q] = pc[q]
  BY <1>1, OneMoves
<1>3. pc[p] \notin {"idle", "done"}
  BY DEF Step, StartCheck, SelfTest, Doctor, Verify, LockRead, LockClear, LockTmp, LockReplace, ClaimRead,
         GraphLoad, GraphCreate, GraphFill, Pick, ClaimWrite, Finish, ResumeOpen, Recover, StopRead, StopSave,
         StopFill, StopUnlock, StopCheck
<1>4. \A q \in Proc : q # p => ~Alive(q)
  BY <1>3 DEF AloneInv, Alive
<1>5. p \in {lock, tmp} => pc[p] \notin BeforeLock
  BY DEF AloneInv
<1>6. pc[p] \in Claims => view[p].es = es /\ es.hash \in {NoPlan, plan}
  BY DEF AloneInv
<1>7. ASSUME NEW code, Exit(p, code), code # 4, UNCHANGED <<lock, tmp>>
      PROVE  AloneInv'
  <2>1. pc'[p] = "done" /\ exit' = code
    BY <1>1, <1>7 DEF Exit, Forget, StartupTypeOK
  <2>2. \A q \in Proc : q \in {lock', tmp'} => q \in {lock, tmp} \/ q = p
    BY <1>7, StartupAssumption
  <2> QED BY <1>2, <1>4, <1>7, <2>1, <2>2, AloneMove DEF BeforeLock, Claims
<1>8. ASSUME NEW place, Goto(p, place), place \notin Claims, UNCHANGED <<lock, tmp>>,
             place \notin BeforeLock \/ pc[p] \in BeforeLock
      PROVE  AloneInv'
  <2>1. pc'[p] = place /\ exit' = exit
    BY <1>1, <1>8 DEF Goto, StartupTypeOK
  <2> QED BY <1>2, <1>4, <1>5, <1>8, <2>1, AloneMove DEF AloneInv
<1>9. ASSUME NEW place, Goto(p, place), pc[p] \in Claims, place \in Claims, UNCHANGED <<lock, tmp, es, plan>>
      PROVE  AloneInv'
  <2>1. pc'[p] = place /\ exit' = exit /\ view' = view /\ place \notin BeforeLock
    BY <1>1, <1>9 DEF Goto, StartupTypeOK, Claims, BeforeLock
  <2> QED BY <1>2, <1>4, <1>6, <1>9, <2>1, AloneMove DEF AloneInv
<1>10. ASSUME NEW place, NEW v, Look(p, place, v), place \notin BeforeLock, UNCHANGED <<lock, tmp>>,
              place \in Claims => v.es = es' /\ es'.hash \in {NoPlan, plan'}
       PROVE  AloneInv'
  <2>1. pc'[p] = place /\ exit' = exit /\ view'[p] = v
    BY <1>1, <1>10 DEF Look, StartupTypeOK
  <2> QED BY <1>2, <1>4, <1>10, <2>1, AloneMove DEF AloneInv
<1>11. CASE StartCheck(p) \/ SelfTest(p) \/ Doctor(p) \/ Verify(p) \/ StopCheck(p)
  <2>1. UNCHANGED <<lock, tmp>>
    BY <1>11 DEF StartCheck, SelfTest, Doctor, Verify, StopCheck, fileVars
  <2>2. \/ \E code : code # 4 /\ Exit(p, code)
        \/ pc[p] = "check" /\ \E place \in {"claim", "lock"} : Goto(p, place)
    BY <1>11 DEF StartCheck, SelfTest, Doctor, Verify, StopCheck
  <2> QED BY <1>7, <1>8, <2>1, <2>2 DEF Claims, BeforeLock
<1>13. CASE LockRead(p)
  <2>1. lock # 0 => Stale(lock)
    BY <1>1, <1>4, <1>5, <1>13 DEF LockRead, BeforeLock, Stale, StartupTypeOK
  <2> QED BY <1>7, <1>8, <1>13, <2>1 DEF LockRead, fileVars, Claims, BeforeLock
<1>14. ASSUME NEW place \in {"tmp", "replace", "recover", "claim", "cleared"}, Goto(p, place),
              place = "tmp" => pc[p] \in BeforeLock,
              lock' \in {0, lock, tmp}, tmp' \in {0, tmp} \/ (tmp' = p /\ place = "replace")
       PROVE  AloneInv'
  <2>1. pc'[p] = place /\ exit' = exit
    BY <1>1, <1>14 DEF Goto, StartupTypeOK
  <2>2. pc'[p] \notin Claims /\ (pc'[p] \in BeforeLock => pc[p] \in BeforeLock)
    BY <1>14, <2>1 DEF Claims, BeforeLock
  <2>3. \A q \in Proc : q \in {lock', tmp'} => q \in {lock, tmp} \/ (q = p /\ pc'[p] \notin BeforeLock)
    BY <1>14, <2>1, StartupAssumption DEF BeforeLock
  <2>4. p \in {lock', tmp'} => pc'[p] \notin BeforeLock
    BY <1>5, <2>2, <2>3
  <2> QED BY <1>2, <1>4, <2>1, <2>2, <2>3, <2>4, AloneMove DEF AloneInv
<1>15. CASE LockClear(p) \/ LockTmp(p) \/ StopUnlock(p)
  <2>1. CASE LockClear(p)
    <3>1. Goto(p, "tmp") /\ pc[p] \in BeforeLock /\ lock' = 0 /\ tmp' = tmp
      BY <2>1 DEF LockClear, BeforeLock
    <3> QED BY <1>14, <3>1
  <2>2. CASE LockTmp(p)
    <3>1. Goto(p, "replace") /\ lock' = lock /\ tmp' = p
      BY <2>2 DEF LockTmp
    <3> QED BY <1>14, <3>1
  <2>3. CASE StopUnlock(p)
    <3>1. Goto(p, "cleared") /\ lock' = 0 /\ tmp' = tmp
      BY <2>3 DEF StopUnlock
    <3> QED BY <1>14, <3>1
  <2> QED BY <1>15, <2>1, <2>2, <2>3
<1>16. CASE LockReplace(p)
  <2>1. CASE tmp = 0
    <3>1. Exit(p, 1) /\ UNCHANGED <<lock, tmp>>
      BY <1>16, <2>1 DEF LockReplace
    <3> QED BY <1>7, <3>1
  <2>2. CASE tmp # 0
    <3>1. lock' = tmp /\ tmp' = 0 /\ \E place \in {"recover", "claim"} : Goto(p, place)
      BY <1>16, <2>2 DEF LockReplace
    <3> QED BY <1>14, <3>1
  <2> QED BY <2>1, <2>2
<1>17. CASE ClaimRead(p)
  <2> DEFINE v == [Nothing EXCEPT !.es = es, !.hash = plan]
  <2>1. UNCHANGED <<lock, tmp, es, plan>> /\ v.es = es
    BY <1>17 DEF ClaimRead, Nothing, fileVars
  <2>2. (\E code : code # 4 /\ Exit(p, code)) \/ (Look(p, "graph", v) /\ es.hash \in {NoPlan, plan})
    BY <1>17 DEF ClaimRead
  <2> HIDE DEF v
  <2> QED BY <1>7, <1>10, <2>1, <2>2 DEF Claims, BeforeLock
<1>18. CASE GraphLoad(p) \/ GraphCreate(p) \/ GraphFill(p)
  <2>1. UNCHANGED <<lock, tmp, es, plan>> /\ pc[p] \in Claims
    BY <1>18 DEF GraphLoad, GraphCreate, GraphFill, Claims, fileVars
  <2>2. (\E code : code # 4 /\ Exit(p, code)) \/ \E place \in {"create", "fill", "pick"} : Goto(p, place)
    BY <1>18 DEF GraphLoad, GraphCreate, GraphFill
  <2> QED BY <1>7, <1>9, <2>1, <2>2 DEF Claims
<1>19. CASE Pick(p)
  <2> DEFINE v == [view[p] EXCEPT !.hash = graph.hash, !.task = graph.ready]
  <2>1. UNCHANGED <<lock, tmp, es, plan>> /\ pc[p] = "pick"
    BY <1>19 DEF Pick, fileVars
  <2>2. v.es = es /\ es.hash \in {NoPlan, plan}
    BY <1>1, <1>6, <2>1 DEF StartupTypeOK, View, Claims
  <2>3. Goto(p, "finish") \/ Look(p, "write", v)
    BY <1>19 DEF Pick
  <2> HIDE DEF v
  <2> QED BY <1>8, <1>10, <2>1, <2>2, <2>3 DEF Claims, BeforeLock
<1>20. CASE ClaimWrite(p) \/ StopSave(p) \/ StopFill(p)
  <2>1. UNCHANGED <<lock, tmp>> /\ \E place \in {"finish", "refill", "unlock"} : Goto(p, place)
    BY <1>20 DEF ClaimWrite, StopSave, StopFill
  <2> QED BY <1>8, <2>1 DEF Claims, BeforeLock
<1>21. CASE StopRead(p)
  BY <1>10, <1>21 DEF StopRead, Claims, BeforeLock
<1>22. CASE Finish(p) \/ ResumeOpen(p) \/ Recover(p)
  <2>1. UNCHANGED <<lock, tmp>>
    BY <1>22 DEF Finish, ResumeOpen, Recover, fileVars
  <2>2. \/ \E code : code # 4 /\ Exit(p, code)
        \/ pc[p] = "open" /\ Goto(p, "lock")
        \/ Goto(p, "claim")
    BY <1>22 DEF Finish, ResumeOpen, Recover
  <2> QED BY <1>7, <1>8, <2>1, <2>2 DEF Claims, BeforeLock
<1> QED
  BY <1>11, <1>13, <1>15, <1>16, <1>17, <1>18, <1>19, <1>20, <1>21, <1>22 DEF Step

LEMMA AloneInductive == AloneInv /\ ~Concurrent /\ [StartupNext]_vars => AloneInv'
<1> SUFFICES ASSUME AloneInv, ~Concurrent, [StartupNext]_vars PROVE AloneInv'
  OBVIOUS
<1>1. PlansInv' /\ StartupTypeOK
  BY PlansInductive DEF AloneInv, PlansInv, StartupTyped
<1>2. ASSUME NEW p \in Proc, Kill(p) PROVE AloneInv'
  <2>1. /\ pc'[p] = "done" /\ UNCHANGED <<lock, tmp, exit>> /\ Alive(p)
        /\ \A q \in Proc : q # p => pc'[q] = pc[q]
    BY <1>1, <1>2 DEF Kill, Forget, fileVars, StartupTypeOK
  <2>2. \A q \in Proc : q # p => ~Alive(q)
    BY <2>1 DEF AloneInv
  <2> QED BY <1>1, <2>1, <2>2, AloneMove DEF AloneInv, BeforeLock, Claims
<1>3. ASSUME NEW p \in Proc, NEW c \in Commands, Launch(p, c) PROVE AloneInv'
  <2>1. /\ pc'[p] = FirstPlace(c) /\ UNCHANGED <<lock, tmp>> /\ exit' = 0 /\ Quiet /\ pc[p] = "idle"
        /\ \A q \in Proc : q # p => pc'[q] = pc[q]
    BY <1>1, <1>3 DEF Launch, fileVars, StartupTypeOK
  <2>2. p \notin {lock', tmp'} /\ FirstPlace(c) \notin Claims
    BY <2>1, FirstPlaces DEF AloneInv, BeforeLock, Claims
  <2> QED BY <1>1, <2>1, <2>2, AloneMove DEF Quiet
<1>4. ASSUME Quiet, UNCHANGED <<lock, tmp, pc, exit>> PROVE AloneInv'
  BY <1>1, <1>4 DEF AloneInv, Quiet, Alive, Claims
<1>5. (\E d \in Plan : EditPlan(d)) => AloneInv'
  BY <1>4 DEF EditPlan, Edit
<1>6. (\E t \in Task \cup {NoTask} : EditGraph(t)) => AloneInv'
  BY <1>4 DEF EditGraph, Edit
<1>7. (\E f \in {Absent, ckpt} : RepairState(f)) => AloneInv'
  BY <1>4 DEF RepairState, Edit
<1>8. CASE UNCHANGED vars
  BY <1>1, <1>8 DEF vars, AloneInv, Alive
<1> QED BY <1>1, <1>2, <1>3, <1>5, <1>6, <1>7, <1>8, AloneStep DEF StartupNext

LEMMA StartsAlone == StartupInit => AloneInv
<1> SUFFICES ASSUME StartupInit PROVE AloneInv
  OBVIOUS
<1>1. PlansInv
  BY StartsSound
<1>2. \A p \in Proc : pc[p] = "idle" /\ p # lock /\ p # tmp
  BY StartupAssumption DEF StartupInit
<1> QED BY <1>1, <1>2 DEF AloneInv, Alive, Claims, StartupInit

\* Commands that run one after the other are never locked out, by whatever a finished or
\* killed command has left of its lock, for every sequence of commands (lock.acquire,
\* _is_stale): only a live process counts, and the lock is never the asker's own.
THEOREM NeverLockedOutAlone == ASSUME ~Concurrent PROVE StartupSpec => []NeverLockedOut
<1>1. AloneInv /\ [StartupNext]_vars => AloneInv'
  BY AloneInductive
<1>2. AloneInv => NeverLockedOut
  BY DEF AloneInv, NeverLockedOut
<1> QED BY <1>1, <1>2, StartsAlone, PTL DEF StartupSpec

\* A step that writes the state while the recorded plan is not the plan on file does not
\* claim: it stops, or restores.
LEMMA NoSwitchStep ==
  ASSUME AloneInv, [StartupNext]_vars, es.hash \notin {NoPlan, plan}, es'.file = "whole"
  PROVE  es'.task \in {es.task, NoTask}
<1>1. StartupTypeOK /\ Blank /\ es.file = "whole"
  BY DEF AloneInv, PlansInv, StartupTyped, Blank
<1>2. ASSUME NEW p \in Proc, Step(p) PROVE es' = es \/ es'.task = NoTask \/ es'.file # "whole"
  <2>1. ~ClaimWrite(p)
    BY DEF ClaimWrite, AloneInv, Claims
  <2>2. StopSave(p) => es'.file # "whole"
    BY DEF StopSave, Emptied, Absent
  <2>3. StopFill(p) => es'.task = NoTask
    BY <1>1 DEF StopFill, StartupTypeOK, View, StateFile
  <2> QED
    BY <1>2, <2>1, <2>2, <2>3
    DEF Step, StartCheck, SelfTest, Doctor, Verify, LockRead, LockClear, LockTmp, LockReplace, ClaimRead,
        GraphLoad, GraphCreate, GraphFill, Pick, Finish, ResumeOpen, Recover, StopRead, StopUnlock,
        StopCheck, fileVars
<1>3. (\E p \in Proc : Kill(p) \/ \E c \in Commands : Launch(p, c)) => es' = es
  BY DEF Kill, Launch, fileVars
<1>4. (\E d \in Plan : EditPlan(d)) \/ (\E t \in Task \cup {NoTask} : EditGraph(t)) => es' = es
  BY DEF EditPlan, EditGraph
<1>5. ~\E f \in {Absent, ckpt} : RepairState(f)
  BY <1>1 DEF RepairState
<1>6. UNCHANGED vars => es' = es
  BY DEF vars
<1> QED BY <1>2, <1>3, <1>4, <1>5, <1>6 DEF StartupNext

\* Nor does one of them claim a task while the plan file differs from the recorded plan
\* (claim_one's comparison of the hashes), whatever is edited, killed or restored between.
THEOREM NoSilentSwitchAlone == ASSUME ~Concurrent PROVE StartupSpec => NoSilentSwitch
<1>1. AloneInv /\ [StartupNext]_vars => AloneInv'
  BY AloneInductive
<1>2. AloneInv /\ [StartupNext]_vars =>
        [es.hash \notin {NoPlan, plan} /\ es'.file = "whole" => es'.task \in {es.task, NoTask}]_vars
  BY NoSwitchStep
<1> QED BY <1>1, <1>2, StartsAlone, PTL DEF StartupSpec, NoSilentSwitch

=============================================================================
