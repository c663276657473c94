--------------------------- MODULE Commands_proofs ---------------------------
(***************************************************************************)
(* The commands that share files with each other and with the processes    *)
(* they start: the soak's, the daemons', the gate ledger and the tracker   *)
(* of reproctl, the plan and contract records of the store, and continuous *)
(* verification, where it is who has the GPU and whose node is running, for*)
(* every value of their constants.  Each proof is an inductive invariant and*)
(* what follows from it.                                                   *)
(***************************************************************************)
EXTENDS Soak, Daemons, Reproctl, Authorization, Cvo, FiniteSetTheorems, TLAPS

\* A set all of whose members are one has one member at most.
LEMMA AtMostOne ==
  ASSUME NEW S, NEW x, \A y \in S : y = x
  PROVE  Cardinality(S) <= 1
<1>1. CASE S = {}
  BY <1>1, FS_EmptySet
<1>2. CASE S # {}
  <2>1. S = {x}
    BY <1>2
  <2> QED BY <2>1, FS_Singleton
<1> QED BY <1>1, <1>2

-----------------------------------------------------------------------------
(* The soak: one daemon *)

SoakIn(c) == soakCall[c].name \in SoakStarting
SoakDaemon(p) == EngineAlive(p) /\ engine[p].how = "daemon"

\* Every pid on file or in a command's hands is of an engine that was started.
SoakKnown ==
  /\ soakPid \in Engine => engine[soakPid].stage # "free"
  /\ \A c \in SoakCaller :
       /\ soakCall[c].pid \in Engine => engine[soakCall[c].pid].stage # "free"
       /\ soakCall[c].name \in {"record", "refill"} => soakCall[c].pid \in Engine
       /\ soakCall[c].name \in {"strike", "zero"} => ~EngineAlive(soakCall[c].pid)

\* Until commands got in each other's way: one start at a time, no daemon beside its
\* child while it lasts, and the daemon on file otherwise.
SoakAlone ==
  ~soakSlip =>
    /\ \A c, d \in SoakCaller : SoakIn(c) /\ SoakIn(d) => c = d
    /\ \A c \in SoakCaller : SoakIn(c) =>
         \A p \in Engine : SoakDaemon(p) => soakCall[c].name # "fork" /\ p = soakCall[c].pid
    /\ \A c \in SoakCaller : SoakAt(c, "refill") => soakPid = 0
    /\ (\A c \in SoakCaller : ~SoakIn(c)) => \A p \in Engine : SoakDaemon(p) => p = soakPid

SoakInv == SoakTypeOK /\ SoakKnown /\ SoakAlone

SoakName == {"fork", "record", "refill", "none", "pause", "resume", "term", "wait", "strike", "zero"}

\* What a step of a command does to the commands.
LEMMA SoakCalls ==
  ASSUME SoakTypeOK, NEW c \in SoakCaller, NEW n \in SoakName, NEW p \in Engine \cup {0, Stranger},
         SoakGoes(c, n, p)
  PROVE  /\ soakCall' \in [SoakCaller -> SoakStep]
         /\ \A d \in SoakCaller : soakCall'[d] = IF d = c THEN [name |-> n, pid |-> p] ELSE soakCall[d]
<1> DEFINE r == [name |-> n, pid |-> p]
<1>1. r \in SoakStep
  BY DEF SoakStep, SoakName, SoakStarting
<1>2. soakCall' = [soakCall EXCEPT ![c] = r] /\ soakCall \in [SoakCaller -> SoakStep]
  BY DEF SoakGoes, SoakTypeOK
<1> HIDE DEF r
<1>3. soakCall' \in [SoakCaller -> SoakStep] /\ \A d \in SoakCaller : soakCall'[d] = IF d = c THEN r ELSE soakCall[d]
  BY <1>1, <1>2
<1> QED BY <1>3 DEF r

LEMMA SoakEnds ==
  ASSUME NEW c \in SoakCaller, SoakDone(c)
  PROVE  SoakGoes(c, "none", 0)
BY DEF SoakDone, SoakGoes, SoakIdle

\* What a step of an engine does to the engines.
LEMMA EnginesMove ==
  ASSUME SoakTypeOK, NEW p \in Engine, NEW e \in EngineRec, EngineIs(p, e)
  PROVE  engine' \in [Engine -> EngineRec] /\ \A q \in Engine : engine'[q] = IF q = p THEN e ELSE engine[q]
BY DEF EngineIs, SoakTypeOK

LEMMA StagesMove ==
  ASSUME SoakTypeOK, NEW p \in Engine, NEW s \in EngineStage, EngineAt(p, s)
  PROVE  /\ engine' \in [Engine -> EngineRec]
         /\ \A q \in Engine : /\ engine'[q].how = engine[q].how
                              /\ engine'[q].stage = IF q = p THEN s ELSE engine[q].stage
<1> DEFINE e == [engine[p] EXCEPT !.stage = s]
<1>1. engine[p] \in EngineRec
  BY DEF SoakTypeOK
<1>2. e \in EngineRec /\ e.how = engine[p].how /\ e.stage = s
  BY <1>1 DEF EngineRec
<1>3. EngineIs(p, e)
  BY DEF EngineAt
<1> HIDE DEF e
<1> QED BY <1>2, <1>3, EnginesMove

\* Nobody rises again: what an engine does, or a signal to one, makes no daemon and frees
\* no pid.
Fading ==
  /\ engine' \in [Engine -> EngineRec]
  /\ \A q \in Engine : /\ engine'[q].how = engine[q].how
                       /\ engine'[q].stage = "free" <=> engine[q].stage = "free"
                       /\ engine[q].stage = "down" => engine'[q].stage = "down"

LEMMA FadingKeeps ==
  ASSUME SoakInv, Fading, UNCHANGED <<soakPid, soakCall, soakSlip, signals>>
  PROVE  SoakInv'
<1>1. SoakTypeOK'
  BY DEF SoakInv, SoakTypeOK, Fading
<1>2. \A q \in Engine : EngineAlive(q)' => EngineAlive(q)
  BY DEF Fading, EngineAlive
<1>3. SoakKnown'
  BY <1>2 DEF SoakInv, SoakKnown, Fading, EngineAlive
<1>4. \A q \in Engine : SoakDaemon(q)' => SoakDaemon(q)
  BY <1>2 DEF Fading, SoakDaemon
<1>5. SoakAlone'
  BY <1>4 DEF SoakInv, SoakAlone, SoakIn, SoakAt
<1> QED BY <1>1, <1>3, <1>5 DEF SoakInv

LEMMA MovesFade ==
  ASSUME SoakInv, NEW p \in Engine, NEW s \in EngineStage \ {"free"}, EngineAlive(p), EngineAt(p, s)
  PROVE  Fading
<1>1. SoakTypeOK
  BY DEF SoakInv
<1> QED BY <1>1, StagesMove DEF Fading, EngineAlive

\* A signal changes neither who the engine is nor that it is gone.
LEMMA SignalsFade ==
  ASSUME SoakInv, NEW p \in Engine, EngineAlive(p), NEW n, EngineIs(p, Delivered(n, engine[p]))
  PROVE  Fading
<1>0. SoakTypeOK /\ engine[p] \in EngineRec /\ engine[p].stage # "free"
  BY DEF SoakInv, SoakTypeOK, EngineAlive
<1>1. \A e \in EngineRec : e.stage # "free" =>
        Terminated(e) \in EngineRec /\ Terminated(e).how = e.how /\ Terminated(e).stage \in {e.stage, "down"}
  <2> TAKE e \in EngineRec
  <2>1. [e EXCEPT !.pending = TRUE] \in EngineRec /\ [e EXCEPT !.stop = TRUE] \in EngineRec
    BY DEF EngineRec
  <2>2. [e EXCEPT !.stage = "down"] \in EngineRec
    BY DEF EngineRec, EngineStage
  <2> QED BY <2>1, <2>2 DEF Terminated, EngineRec
<1> DEFINE f == [engine[p] EXCEPT !.paused = FALSE, !.pending = FALSE]
           g == [engine[p] EXCEPT !.paused = TRUE]
           d == Delivered(n, engine[p])
<1>2. f \in EngineRec /\ f.how = engine[p].how /\ f.stage = engine[p].stage
  BY <1>0 DEF EngineRec
<1>3. g \in EngineRec /\ g.how = engine[p].how /\ g.stage = engine[p].stage
  BY <1>0 DEF EngineRec
<1>4. d \in {g, f, Terminated(f), Terminated(engine[p])}
  BY DEF Delivered, Continued
<1> HIDE DEF f, g, d
<1>5. d \in EngineRec /\ d.how = engine[p].how /\ d.stage \in {engine[p].stage, "down"}
  BY <1>0, <1>1, <1>2, <1>3, <1>4
<1>6. EngineIs(p, d)
  BY DEF d
<1>7. engine' \in [Engine -> EngineRec] /\ \A q \in Engine : engine'[q] = IF q = p THEN d ELSE engine[q]
  BY <1>0, <1>5, <1>6, EnginesMove
<1> QED BY <1>0, <1>5, <1>7 DEF Fading, EngineAlive

\* A step of a command that starts nobody and leaves the pid file alone.
LEMMA SoakCallMoves ==
  ASSUME SoakInv, NEW c \in SoakCaller, NEW n \in SoakName \ SoakStarting, NEW p \in Engine \cup {0, Stranger},
         ~SoakIn(c), SoakGoes(c, n, p), p \in Engine => engine[p].stage # "free",
         n \in {"strike", "zero"} => ~EngineAlive(p),
         UNCHANGED <<soakPid, engine, soakSlip>>, signals' \in 0..MaxSignals
  PROVE  SoakInv'
<1>1. /\ soakCall' \in [SoakCaller -> SoakStep]
      /\ \A d \in SoakCaller : soakCall'[d] = IF d = c THEN [name |-> n, pid |-> p] ELSE soakCall[d]
  BY SoakCalls DEF SoakInv
<1>2. SoakTypeOK'
  BY <1>1 DEF SoakInv, SoakTypeOK
<1>3. SoakKnown'
  BY <1>1 DEF SoakInv, SoakKnown, EngineAlive, SoakStarting
<1>4. SoakAlone'
  BY <1>1 DEF SoakInv, SoakAlone, SoakIn, SoakAt, SoakDaemon, EngineAlive, SoakStarting
<1> QED BY <1>2, <1>3, <1>4 DEF SoakInv

LEMMA SoakInductive == SoakInv /\ [SoakNext]_soakVars => SoakInv'
<1> SUFFICES ASSUME SoakInv, [SoakNext]_soakVars PROVE SoakInv'
  OBVIOUS
<1>0. /\ SoakTypeOK /\ SoakKnown /\ SoakAlone
      /\ engine \in [Engine -> EngineRec] /\ soakCall \in [SoakCaller -> SoakStep] /\ soakSlip \in BOOLEAN
      /\ soakPid \in Engine \cup {0, Stranger} /\ signals \in 0..MaxSignals
      /\ 0 \notin Engine /\ Stranger \notin Engine /\ MaxSignals \in Nat
  BY SoakAssumption DEF SoakInv, SoakTypeOK, Stranger
\* The start.
<1>1. ASSUME NEW c \in SoakCaller, SoakStart(c) PROVE SoakInv'
  <2>1. /\ soakCall[c].name = "none" /\ ~EngineAlive(soakPid) /\ SoakGoes(c, "fork", 0)
        /\ soakSlip' = (soakSlip \/ \E d \in SoakCaller : SoakIn(d))
        /\ UNCHANGED <<soakPid, engine, signals>>
    BY <1>1 DEF SoakStart, SoakAt, FindsNoSoak, SoakSlips, SoakIn
  <2>2. /\ soakCall' \in [SoakCaller -> SoakStep]
        /\ \A d \in SoakCaller : soakCall'[d] = IF d = c THEN [name |-> "fork", pid |-> 0] ELSE soakCall[d]
    BY <1>0, <2>1, SoakCalls DEF SoakName
  <2>3. SoakTypeOK'
    BY <1>0, <2>1, <2>2 DEF SoakTypeOK
  <2>4. SoakKnown'
    BY <1>0, <2>1, <2>2 DEF SoakKnown, EngineAlive
  <2>5. SoakAlone'
    <3> SUFFICES ASSUME ~soakSlip' PROVE SoakAlone'
      BY DEF SoakAlone
    <3>1. ~soakSlip /\ \A d \in SoakCaller : ~SoakIn(d)
      BY <1>0, <2>1
    <3>2. \A p \in Engine : ~SoakDaemon(p)
      BY <1>0, <2>1, <3>1 DEF SoakAlone, SoakDaemon
    <3>3. \A p \in Engine : ~SoakDaemon(p)'
      BY <2>1, <3>2 DEF SoakDaemon, EngineAlive
    <3> QED BY <2>2, <3>1, <3>3 DEF SoakAlone, SoakIn, SoakAt, SoakStarting
  <2> QED BY <2>3, <2>4, <2>5 DEF SoakInv
<1>2. ASSUME NEW c \in SoakCaller, NEW p \in Engine, Fork(c, p) PROVE SoakInv'
  <2>1. /\ soakCall[c].name = "fork" /\ engine[p].stage = "free"
        /\ EngineAt(p, "forked") /\ SoakGoes(c, "record", p)
        /\ UNCHANGED <<soakPid, soakSlip, signals>>
    BY <1>2 DEF Fork, SoakAt, NextEngine
  <2>2. /\ soakCall' \in [SoakCaller -> SoakStep]
        /\ \A d \in SoakCaller : soakCall'[d] = IF d = c THEN [name |-> "record", pid |-> p] ELSE soakCall[d]
    BY <1>0, <2>1, SoakCalls DEF SoakName
  <2>3. /\ engine' \in [Engine -> EngineRec]
        /\ \A q \in Engine : /\ engine'[q].how = engine[q].how
                             /\ engine'[q].stage = IF q = p THEN "forked" ELSE engine[q].stage
    BY <1>0, <2>1, StagesMove DEF EngineStage
  <2>4. SoakTypeOK'
    BY <1>0, <2>1, <2>2, <2>3 DEF SoakTypeOK
  <2>5. SoakKnown'
    BY <1>0, <2>1, <2>2, <2>3 DEF SoakKnown, EngineAlive
  <2>6. SoakAlone'
    <3> SUFFICES ASSUME ~soakSlip PROVE SoakAlone'
      BY <2>1 DEF SoakAlone
    <3>1. SoakIn(c) /\ \A d \in SoakCaller : SoakIn(d) => d = c
      BY <1>0, <2>1 DEF SoakAlone, SoakIn, SoakStarting
    <3>2. \A q \in Engine : ~SoakDaemon(q)
      BY <1>0, <2>1, <3>1 DEF SoakAlone
    <3>3. \A q \in Engine : SoakDaemon(q)' => q = p
      BY <2>3, <3>2 DEF SoakDaemon, EngineAlive
    <3> QED BY <2>1, <2>2, <3>1, <3>3 DEF SoakAlone, SoakIn, SoakAt, SoakStarting
  <2> QED BY <2>4, <2>5, <2>6 DEF SoakInv
<1>3. ASSUME NEW c \in SoakCaller, EmptySoakPid(c) PROVE SoakInv'
  <2>1. /\ soakCall[c].name = "record" /\ soakPid' = 0 /\ SoakGoes(c, "refill", soakCall[c].pid)
        /\ soakCall[c].pid \in Engine /\ UNCHANGED <<engine, soakSlip, signals>>
    BY <1>0, <1>3 DEF EmptySoakPid, SoakAt, SoakKnown
  <2>2. /\ soakCall' \in [SoakCaller -> SoakStep]
        /\ \A d \in SoakCaller :
             soakCall'[d] = IF d = c THEN [name |-> "refill", pid |-> soakCall[c].pid] ELSE soakCall[d]
    BY <1>0, <2>1, SoakCalls DEF SoakName
  <2>3. SoakTypeOK'
    BY <1>0, <2>1, <2>2 DEF SoakTypeOK
  <2>4. SoakKnown'
    BY <1>0, <2>1, <2>2 DEF SoakKnown, EngineAlive
  <2>5. SoakAlone'
    BY <1>0, <2>1, <2>2 DEF SoakAlone, SoakIn, SoakAt, SoakDaemon, EngineAlive, SoakStarting
  <2> QED BY <2>3, <2>4, <2>5 DEF SoakInv
<1>4. ASSUME NEW c \in SoakCaller, RecordPid(c) PROVE SoakInv'
  <2>1. /\ soakCall[c].name = "refill" /\ SoakGoes(c, "none", 0) /\ soakCall[c].pid \in Engine
        /\ UNCHANGED <<engine, soakSlip, signals>>
    BY <1>0, <1>4, SoakEnds DEF RecordPid, SoakAt, SoakKnown
  <2>2. soakPid' \in {soakCall[c].pid, Stranger} /\ (soakPid = 0 => soakPid' = soakCall[c].pid)
    BY <1>4 DEF RecordPid, SoakText
  <2>3. /\ soakCall' \in [SoakCaller -> SoakStep]
        /\ \A d \in SoakCaller : soakCall'[d] = IF d = c THEN [name |-> "none", pid |-> 0] ELSE soakCall[d]
    BY <1>0, <2>1, SoakCalls DEF SoakName
  <2>4. SoakTypeOK'
    BY <1>0, <2>1, <2>2, <2>3 DEF SoakTypeOK
  <2>5. SoakKnown'
    BY <1>0, <2>1, <2>2, <2>3 DEF SoakKnown, EngineAlive
  <2>6. SoakAlone'
    <3> SUFFICES ASSUME ~soakSlip PROVE SoakAlone'
      BY <2>1 DEF SoakAlone
    <3>1. SoakIn(c) /\ soakPid = 0 /\ soakPid' = soakCall[c].pid
      BY <1>0, <2>1, <2>2 DEF SoakAlone, SoakIn, SoakAt, SoakStarting
    <3>2. \A d \in SoakCaller : ~SoakIn(d)'
      BY <1>0, <2>3, <3>1 DEF SoakAlone, SoakIn, SoakStarting
    <3>3. \A q \in Engine : SoakDaemon(q)' => q = soakCall[c].pid
      BY <1>0, <2>1, <3>1 DEF SoakAlone, SoakDaemon, EngineAlive
    <3> QED BY <3>1, <3>2, <3>3 DEF SoakAlone, SoakIn, SoakAt, SoakStarting
  <2> QED BY <2>4, <2>5, <2>6 DEF SoakInv
\* The engines.
<1>5. ASSUME NEW p \in Engine, NEW how \in {"dry", "plan"}, RunInFront(p, how) PROVE SoakInv'
  <2> DEFINE e == [Unstarted EXCEPT !.stage = "forked", !.how = how]
  <2>1. engine[p].stage = "free" /\ EngineIs(p, e) /\ UNCHANGED <<soakPid, soakCall, soakSlip, signals>>
    BY <1>5 DEF RunInFront, NextEngine
  <2>2. e \in EngineRec /\ e.how # "daemon" /\ e.stage = "forked"
    BY <1>5 DEF EngineRec, EngineStage, Unstarted
  <2> HIDE DEF e
  <2>3. engine' \in [Engine -> EngineRec] /\ \A q \in Engine : engine'[q] = IF q = p THEN e ELSE engine[q]
    BY <1>0, <2>1, <2>2, EnginesMove
  <2>4. SoakTypeOK'
    BY <1>0, <2>1, <2>3 DEF SoakTypeOK
  <2>5. SoakKnown'
    BY <1>0, <2>1, <2>2, <2>3 DEF SoakKnown, EngineAlive
  <2>6. \A q \in Engine : SoakDaemon(q)' => SoakDaemon(q)
    BY <2>2, <2>3 DEF SoakDaemon, EngineAlive
  <2>7. SoakAlone'
    BY <1>0, <2>1, <2>6 DEF SoakAlone, SoakIn, SoakAt
  <2> QED BY <2>4, <2>5, <2>7 DEF SoakInv
<1>6. ASSUME NEW p \in Engine, \/ Construct(p) \/ RunGuard(p) \/ Rehearse(p) \/ StartRun(p)
                               \/ LoopOnce(p) \/ LeaveLoop(p) \/ EngineDies(p)
      PROVE  SoakInv'
  <2>1. /\ \E s \in EngineStage \ {"free"} : EngineAt(p, s)
        /\ EngineAlive(p) /\ UNCHANGED <<soakPid, soakCall, soakSlip, signals>>
    BY <1>6 DEF Construct, RunGuard, Rehearse, StartRun, LoopOnce, LeaveLoop, EngineDies, EngineMoves, Works, EngineAlive,
                EngineStage
  <2> QED BY <2>1, MovesFade, FadingKeeps
\* The signals.
<1>7. ASSUME NEW c \in SoakCaller, SoakPause(c) \/ SoakResume(c) \/ SoakStop(c) PROVE SoakInv'
  <2>1. PICK n \in {"pause", "resume", "term", "strike"} :
          Signal(c, n) /\ (n = "strike" => ~EngineAlive(soakPid))
    BY <1>7 DEF SoakPause, SoakResume, SoakStop
  <2>2. /\ soakCall[c].name = "none" /\ SoakGoes(c, n, soakPid) /\ signals' \in 0..MaxSignals
        /\ UNCHANGED <<soakPid, engine, soakSlip>>
    BY <1>0, <2>1 DEF Signal, SoakAt
  <2>3. ~SoakIn(c) /\ n \in SoakName \ SoakStarting
    BY <2>1, <2>2 DEF SoakIn, SoakName, SoakStarting
  <2>4. soakPid \in Engine => engine[soakPid].stage # "free"
    BY <1>0 DEF SoakKnown
  <2> QED BY <1>0, <2>1, <2>2, <2>3, <2>4, SoakCallMoves
\* A signal that reaches its engine, and SIGKILL, are steps of the engine and of the command.
<1>8. ASSUME NEW c \in SoakCaller, NEW n \in SoakName \ SoakStarting, NEW p \in Engine \cup {0, Stranger},
             ~SoakIn(c), SoakGoes(c, n, p), p \in Engine => engine[p].stage # "free",
             n \in {"strike", "zero"} => ~EngineAlive(p)', Fading, UNCHANGED <<soakPid, soakSlip, signals>>
      PROVE  SoakInv'
  <2>2. /\ soakCall' \in [SoakCaller -> SoakStep]
        /\ \A d \in SoakCaller : soakCall'[d] = IF d = c THEN [name |-> n, pid |-> p] ELSE soakCall[d]
    BY <1>0, <1>8, SoakCalls
  <2>3. SoakTypeOK'
    BY <1>0, <1>8, <2>2 DEF SoakTypeOK, Fading
  <2>4. \A q \in Engine : EngineAlive(q)' => EngineAlive(q)
    BY <1>8 DEF Fading, EngineAlive
  <2>5. SoakKnown'
    <3>1. soakPid' \in Engine => engine'[soakPid'].stage # "free"
      BY <1>0, <1>8 DEF SoakKnown, Fading
    <3>2. \A d \in SoakCaller \ {c} :
            /\ soakCall'[d].pid \in Engine => engine'[soakCall'[d].pid].stage # "free"
            /\ soakCall'[d].name \in {"record", "refill"} => soakCall'[d].pid \in Engine
            /\ soakCall'[d].name \in {"strike", "zero"} => ~EngineAlive(soakCall[d].pid)'
      BY <1>0, <1>8, <2>2, <2>4 DEF SoakKnown, Fading, EngineAlive
    <3>3. /\ soakCall'[c].pid \in Engine => engine'[soakCall'[c].pid].stage # "free"
          /\ soakCall'[c].name \notin {"record", "refill"}
          /\ soakCall'[c].name \in {"strike", "zero"} => ~EngineAlive(p)'
      BY <1>8, <2>2 DEF Fading, SoakStarting
    <3> QED BY <2>2, <3>1, <3>2, <3>3 DEF SoakKnown, EngineAlive
  <2>6. \A q \in Engine : SoakDaemon(q)' => SoakDaemon(q)
    BY <1>8, <2>4 DEF Fading, SoakDaemon
  <2>7. SoakAlone'
    BY <1>0, <1>8, <2>2, <2>6 DEF SoakAlone, SoakIn, SoakAt, SoakStarting
  <2> QED BY <2>3, <2>5, <2>7 DEF SoakInv
<1>9. ASSUME NEW c \in SoakCaller, Deliver(c) PROVE SoakInv'
  <2> DEFINE p == soakCall[c].pid
  <2>1. /\ soakCall[c].name \in {"pause", "resume", "term"} /\ EngineAlive(p)
        /\ EngineIs(p, Delivered(soakCall[c].name, engine[p]))
        /\ UNCHANGED <<soakPid, soakSlip, signals>>
    BY <1>9 DEF Deliver
  <2>2. p \in Engine /\ engine[p].stage # "free" /\ Fading
    BY <2>1, SignalsFade DEF EngineAlive
  <2>3. ~SoakIn(c)
    BY <2>1 DEF SoakIn, SoakStarting
  <2>4. CASE SoakAt(c, "term")
    <3>1. SoakGoes(c, "wait", p) /\ "wait" \in SoakName \ SoakStarting
      BY <1>9, <2>4 DEF Deliver, SoakName, SoakStarting
    <3> QED BY <1>8, <2>1, <2>2, <2>3, <3>1
  <2>5. CASE ~SoakAt(c, "term")
    <3>1. SoakGoes(c, "none", 0) /\ "none" \in SoakName \ SoakStarting
      BY <1>9, <2>5, SoakEnds DEF Deliver, SoakName, SoakStarting
    <3> QED BY <1>0, <1>8, <2>1, <2>2, <2>3, <3>1
  <2> QED BY <2>4, <2>5
<1>10. ASSUME NEW c \in SoakCaller, StopWaited(c) PROVE SoakInv'
  <2>1. PICK p \in Engine \cup {0, Stranger} : p = soakCall[c].pid
    BY <1>0 DEF SoakStep
  <2>2. /\ soakCall[c].name = "wait" /\ SoakGoes(c, "strike", p)
        /\ "strike" \in SoakName \ SoakStarting
        /\ IF EngineAlive(p) THEN EngineAt(p, "down") ELSE UNCHANGED engine
        /\ UNCHANGED <<soakPid, soakSlip, signals>>
    BY <1>10, <2>1 DEF StopWaited, SoakAt, SoakName, SoakStarting
  <2>3. ~SoakIn(c) /\ (p \in Engine => engine[p].stage # "free")
    BY <1>0, <2>1, <2>2 DEF SoakIn, SoakStarting, SoakKnown
  <2>4. Fading /\ ~EngineAlive(p)'
    <3>1. CASE EngineAlive(p)
      <4>1. EngineAt(p, "down") /\ p \in Engine /\ "down" \in EngineStage \ {"free"}
        BY <2>2, <3>1 DEF EngineAlive, EngineStage
      <4>2. Fading
        BY <3>1, <4>1, MovesFade
      <4>3. engine'[p].stage = "down"
        BY <1>0, <4>1, StagesMove
      <4> QED BY <4>2, <4>3 DEF EngineAlive
    <3>2. CASE ~EngineAlive(p)
      <4>1. UNCHANGED engine
        BY <2>2, <3>2
      <4> QED BY <1>0, <3>2, <4>1 DEF EngineAlive, Fading
    <3> QED BY <3>1, <3>2
  <2> QED BY <1>8, <2>2, <2>3, <2>4
<1>11. ASSUME NEW c \in SoakCaller, StopEmpties(c) \/ StopZero(c) PROVE SoakInv'
  <2>1. /\ soakCall[c].name \in {"strike", "zero"} /\ ~EngineAlive(soakCall[c].pid)
        /\ soakSlip' = (soakSlip \/ (EngineAlive(soakPid) /\ soakPid # soakCall[c].pid))
        /\ UNCHANGED <<engine, signals>>
    BY <1>0, <1>11 DEF StopEmpties, StopZero, StrikesOff, SoakSlips, SoakAt, SoakKnown
  <2>2. PICK n \in {"zero", "none"}, p \in {0, soakCall[c].pid} : SoakGoes(c, n, p) /\ ~EngineAlive(p)
    BY <1>0, <1>11, <2>1, SoakEnds DEF StopEmpties, StopZero, EngineAlive
  <2>3. p \in Engine \cup {0, Stranger} /\ (p \in Engine => engine[p].stage # "free")
    BY <1>0 DEF SoakStep, SoakKnown
  <2>4. /\ soakCall' \in [SoakCaller -> SoakStep]
        /\ \A d \in SoakCaller : soakCall'[d] = IF d = c THEN [name |-> n, pid |-> p] ELSE soakCall[d]
    BY <1>0, <2>2, <2>3, SoakCalls DEF SoakName
  <2>5. soakPid' \in {0, Stranger} /\ (soakPid = 0 => soakPid' = 0)
    BY <1>0, <1>11 DEF StopEmpties, StopZero
  <2>6. SoakTypeOK'
    BY <1>0, <2>1, <2>4, <2>5 DEF SoakTypeOK
  <2>7. SoakKnown'
    BY <1>0, <2>1, <2>2, <2>3, <2>4, <2>5 DEF SoakKnown, EngineAlive
  <2>8. SoakAlone'
    <3> SUFFICES ASSUME ~soakSlip' PROVE SoakAlone'
      BY DEF SoakAlone
    <3>1. ~soakSlip /\ ~EngineAlive(soakPid)
      BY <1>0, <2>1
    <3>2. \A d \in SoakCaller : (SoakIn(d)' <=> SoakIn(d)) /\ (SoakIn(d) => soakCall'[d] = soakCall[d])
      BY <2>1, <2>2, <2>4 DEF SoakIn, SoakStarting
    <3>3. \A q \in Engine : SoakDaemon(q)' <=> SoakDaemon(q)
      BY <2>1 DEF SoakDaemon, EngineAlive
    <3>4. (\A d \in SoakCaller : ~SoakIn(d)) => \A q \in Engine : ~SoakDaemon(q)
      BY <1>0, <3>1 DEF SoakAlone, SoakDaemon
    <3>5. \A d \in SoakCaller : SoakAt(d, "refill")' => SoakAt(d, "refill")
      BY <2>2, <2>4 DEF SoakAt
    <3> QED BY <1>0, <2>5, <3>1, <3>2, <3>3, <3>4, <3>5 DEF SoakAlone
  <2> QED BY <2>6, <2>7, <2>8 DEF SoakInv
<1>12. ASSUME NEW c \in SoakCaller, KillSoakCall(c) PROVE SoakInv'
  <2>1. /\ SoakGoes(c, "none", 0) /\ UNCHANGED <<soakPid, engine, signals>>
        /\ soakSlip' = (soakSlip \/ (soakCall[c].name \in {"record", "refill"} /\ EngineAlive(soakCall[c].pid)))
    BY <1>12, SoakEnds DEF KillSoakCall, SoakSlips
  <2>2. /\ soakCall' \in [SoakCaller -> SoakStep]
        /\ \A d \in SoakCaller : soakCall'[d] = IF d = c THEN [name |-> "none", pid |-> 0] ELSE soakCall[d]
    BY <1>0, <2>1, SoakCalls DEF SoakName
  <2>3. SoakTypeOK'
    BY <1>0, <2>1, <2>2 DEF SoakTypeOK
  <2>4. SoakKnown'
    BY <1>0, <2>1, <2>2 DEF SoakKnown, EngineAlive
  <2>5. SoakAlone'
    <3> SUFFICES ASSUME ~soakSlip' PROVE SoakAlone'
      BY DEF SoakAlone
    <3>1. ~soakSlip /\ (soakCall[c].name \in {"record", "refill"} => ~EngineAlive(soakCall[c].pid))
      BY <1>0, <2>1
    <3>2. \A q \in Engine : SoakDaemon(q)' <=> SoakDaemon(q)
      BY <2>1 DEF SoakDaemon, EngineAlive
    <3>3. \A d \in SoakCaller : SoakIn(d)' <=> SoakIn(d) /\ d # c
      BY <2>2 DEF SoakIn, SoakStarting
    <3>4. CASE SoakIn(c)
      <4>1. \A q \in Engine : ~SoakDaemon(q)
        BY <1>0, <3>1, <3>4 DEF SoakAlone, SoakDaemon, SoakIn, SoakStarting
      <4>2. \A d \in SoakCaller : ~SoakIn(d)'
        BY <1>0, <3>1, <3>3, <3>4 DEF SoakAlone
      <4> QED BY <3>2, <4>1, <4>2 DEF SoakAlone, SoakIn, SoakAt, SoakStarting
    <3>5. CASE ~SoakIn(c)
      BY <1>0, <2>1, <2>2, <3>1, <3>2, <3>3, <3>5 DEF SoakAlone, SoakAt
    <3> QED BY <3>4, <3>5
  <2> QED BY <2>3, <2>4, <2>5 DEF SoakInv
<1>13. CASE UNCHANGED soakVars
  BY <1>0, <1>13 DEF soakVars, SoakInv, SoakTypeOK, SoakKnown, SoakAlone, SoakIn, SoakAt, SoakDaemon, EngineAlive
<1> QED BY <1>1, <1>2, <1>3, <1>4, <1>5, <1>6, <1>7, <1>9, <1>10, <1>11, <1>12, <1>13 DEF SoakNext

LEMMA SoakInitially == SoakInit => SoakInv
<1> SUFFICES ASSUME SoakInit PROVE SoakInv
  OBVIOUS
<1>1. Unstarted \in EngineRec /\ Unstarted.stage = "free" /\ SoakIdle \in SoakStep
  BY DEF Unstarted, EngineRec, EngineStage, SoakIdle, SoakStep
<1>2. /\ engine \in [Engine -> EngineRec] /\ \A p \in Engine : engine[p].stage = "free"
      /\ soakCall \in [SoakCaller -> SoakStep] /\ \A c \in SoakCaller : soakCall[c] = SoakIdle
  BY <1>1 DEF SoakInit
<1>3. SoakTypeOK
  <2>1. soakPid \in Engine \cup {0, Stranger} /\ signals \in 0..MaxSignals
    BY SoakAssumption DEF SoakInit
  <2>2. soakSlip \in BOOLEAN
    BY DEF SoakInit
  <2> QED BY <1>2, <2>1, <2>2 DEF SoakTypeOK
<1>4. SoakKnown /\ SoakAlone
  BY <1>2, SoakAssumption DEF SoakInit, SoakKnown, SoakAlone, SoakIn, SoakIdle, SoakStarting, SoakAt, SoakDaemon, EngineAlive
<1> QED BY <1>3, <1>4 DEF SoakInv

\* For any number of engines and commands at once: two soak daemons are alive together only
\* after two looks at the pid file overlapped, a start was killed behind its fork or a stop
\* struck off a newer daemon; and outside a start the daemon alive is the one on file.
THEOREM SoakIsOneDaemon == SoakSpec => []OneSoakDaemon
<1>1. SoakInv => OneSoakDaemon
  <2> SUFFICES ASSUME SoakInv, ~soakSlip
               PROVE  /\ Cardinality(SoakDaemons) <= 1
                      /\ (\A c \in SoakCaller : ~SoakIn(c)) => SoakDaemons \subseteq {soakPid}
    BY DEF OneSoakDaemon, SoakIn
  <2>1. \A p \in SoakDaemons : p \in Engine /\ SoakDaemon(p)
    BY DEF SoakDaemons, SoakDaemon
  <2>2. CASE \A c \in SoakCaller : ~SoakIn(c)
    <3>1. \A p \in SoakDaemons : p = soakPid
      BY <2>1, <2>2 DEF SoakInv, SoakAlone
    <3>2. Cardinality(SoakDaemons) <= 1
      BY <3>1, AtMostOne
    <3> QED BY <3>1, <3>2
  <2>3. CASE \E c \in SoakCaller : SoakIn(c)
    <3>1. PICK c \in SoakCaller : SoakIn(c)
      BY <2>3
    <3>2. SoakDaemons = {} \/ SoakDaemons = {soakCall[c].pid}
      BY <2>1, <3>1 DEF SoakInv, SoakAlone
    <3>3. Cardinality(SoakDaemons) = 0 \/ Cardinality(SoakDaemons) = 1
      BY <3>2, FS_EmptySet, FS_Singleton, Zenon
    <3>4. Cardinality(SoakDaemons) <= 1
      BY <3>3
    <3> QED BY <2>3, <3>4
  <2> QED BY <2>2, <2>3
<1> QED BY <1>1, SoakInitially, SoakInductive, PTL DEF SoakSpec

-----------------------------------------------------------------------------
(* The daemons: one controller of each kind *)

InStart(c, k) == step[c].name \in Starting /\ step[c].kind = k
Lives(p, k) == Living(p) /\ runner[p].kind = k
Coming(p) == runner[p].kind = "autopilot" /\ runner[p].stage \in {"checked", "claiming"}
Up(p) == runner[p].kind = "autopilot" /\ runner[p].stage = "up"

\* Which command and which kind of controller is where.
CallPlaces ==
  /\ \A c \in Caller :
       /\ step[c].name = "fork" => step[c].pid = 0
       /\ step[c].name \in {"open", "fill", "put", "confirm", "again", "clear"} => step[c].kind = "reproctl"
       /\ step[c].name \in {"check", "refill", "zero", "rezero"} => step[c].kind = "autopilot"
  /\ \A p \in Pid : runner[p].stage \in {"checked", "claiming", "leaving", "ending"} => runner[p].kind = "autopilot"

\* Who lives is on file, or is the child of the one start, which has nobody else beside it.
ReproKnown ==
  ~slip["reproctl"] =>
    /\ \A p \in Pid : Lives(p, "reproctl") =>
         \/ p = pidFile["reproctl"]
         \/ \E c \in Caller : InStart(c, "reproctl") /\ step[c].pid = p
    /\ \A c \in Caller : InStart(c, "reproctl") =>
         /\ \A p \in Pid : Lives(p, "reproctl") => p = step[c].pid
         /\ \A d \in Caller : InStart(d, "reproctl") => d = c
         /\ step[c].name = "fill" => step[c].at = "tmp" /\ pidTmp = Blank
         /\ step[c].name = "put" => pidTmp = step[c].pid

\* The one that is up is on file, or its start is about to write it there; one that has
\* looked at the file, and a start that has, have nobody else beside them.
AutoKnown ==
  ~slip["autopilot"] =>
    /\ \A p \in Pid : Up(p) =>
         \/ p = pidFile["autopilot"]
         \/ \E c \in Caller : step[c].name = "refill" /\ step[c].pid = p
    /\ \A p \in Pid : Coming(p) => \A q \in Pid : Up(q) \/ Coming(q) => q = p
    /\ \A c \in Caller : InStart(c, "autopilot") =>
         /\ \A p \in Pid : Up(p) \/ Coming(p) => p = step[c].pid
         /\ \A d \in Caller : InStart(d, "autopilot") => d = c
    /\ \A p \in Pid : runner[p].stage = "claiming" => pidFile["autopilot"] \in {Blank, 0, p}
    /\ \A c \in Caller : step[c].name = "refill" => pidFile["autopilot"] \in {Blank, 0, step[c].pid}

DaemonInv == DaemonTypeOK /\ CallPlaces /\ ReproKnown /\ AutoKnown

LEMMA PidsAreNumbers == 0 \notin Pid /\ Blank \notin Pid /\ NoTmp \notin Pid
BY DaemonAssumption DEF Blank, NoTmp

\* What the updates do, one point at a time.
LEMMA StepMoves ==
  ASSUME DaemonTypeOK, NEW c \in Caller, NEW r \in CallStep, step' = [step EXCEPT ![c] = r]
  PROVE  step' \in [Caller -> CallStep] /\ \A d \in Caller : step'[d] = IF d = c THEN r ELSE step[d]
BY DEF DaemonTypeOK

LEMMA ControllerMoves ==
  ASSUME DaemonTypeOK, NEW p \in Pid, NEW r \in Controller, runner' = [runner EXCEPT ![p] = r]
  PROVE  runner' \in [Pid -> Controller] /\ \A q \in Pid : runner'[q] = IF q = p THEN r ELSE runner[q]
BY DEF DaemonTypeOK

LEMMA FileMoves ==
  ASSUME DaemonTypeOK, NEW k \in Kind, NEW text \in Pid \cup {0, Blank}, OnFile(k, text)
  PROVE  /\ pidFile' \in [Kind -> Pid \cup {0, Blank}]
         /\ \A j \in Kind : pidFile'[j] = IF j = k THEN text ELSE pidFile[j]
BY DEF DaemonTypeOK, OnFile

LEMMA SlipMoves ==
  ASSUME DaemonTypeOK, NEW k \in Kind, NEW h \in BOOLEAN, Slips(k, h)
  PROVE  /\ slip' \in [Kind -> BOOLEAN]
         /\ \A j \in Kind : slip'[j] = IF j = k THEN slip[j] \/ h ELSE slip[j]
BY Zenon DEF DaemonTypeOK, Slips

LEMMA StrikeMoves ==
  ASSUME DaemonTypeOK, NEW k \in Kind, NEW self, NEW text \in {0, Blank}, Strikes(k, self, text)
  PROVE  /\ pidFile' \in [Kind -> Pid \cup {0, Blank}] /\ slip' \in [Kind -> BOOLEAN]
         /\ \A j \in Kind \ {k} : pidFile'[j] = pidFile[j] /\ slip'[j] = slip[j]
         /\ pidFile'[k] = text
         /\ ~slip'[k] => ~slip[k] /\ (Living(pidFile[k]) => pidFile[k] = self)
<1>1. (Living(pidFile[k]) /\ pidFile[k] # self) \in BOOLEAN
  OBVIOUS
<1>2. OnFile(k, text) /\ Slips(k, Living(pidFile[k]) /\ pidFile[k] # self)
  BY DEF Strikes
<1>3. /\ pidFile' \in [Kind -> Pid \cup {0, Blank}]
      /\ \A j \in Kind : pidFile'[j] = IF j = k THEN text ELSE pidFile[j]
  BY <1>2, FileMoves
<1> DEFINE h == Living(pidFile[k]) /\ pidFile[k] # self
<1>4. h \in BOOLEAN /\ Slips(k, h)
  BY <1>1, <1>2
<1> HIDE DEF h
<1>5. /\ slip' \in [Kind -> BOOLEAN]
      /\ \A j \in Kind : slip'[j] = IF j = k THEN slip[j] \/ h ELSE slip[j]
  BY <1>4, SlipMoves
<1>6. ~slip'[k] => ~slip[k] /\ ~h
  BY <1>5
<1> QED BY <1>3, <1>5, <1>6 DEF h

LEMMA GoneMoves ==
  ASSUME DaemonTypeOK, NEW p \in Pid, Gone(p)
  PROVE  /\ runner' \in [Pid -> Controller] /\ runner'[p].stage = "down"
         /\ \A q \in Pid : q # p => runner'[q] = runner[q]
<1> DEFINE r == [NoController EXCEPT !.stage = "down"]
<1>1. r \in Controller /\ r.stage = "down" /\ runner' = [runner EXCEPT ![p] = r]
  BY DEF Gone, NoController, Controller, Kind, Stage
<1> HIDE DEF r
<1> QED BY <1>1, ControllerMoves

LEMMA ControllerStages ==
  ASSUME DaemonTypeOK, NEW p \in Pid, NEW s \in Stage, StageTo(p, s)
  PROVE  /\ runner' \in [Pid -> Controller] /\ runner'[p].stage = s /\ runner'[p].kind = runner[p].kind
         /\ \A q \in Pid : q # p => runner'[q] = runner[q]
<1> DEFINE r == [runner[p] EXCEPT !.stage = s]
<1>1. runner[p] \in Controller /\ runner' = [runner EXCEPT ![p] = r]
  BY DEF DaemonTypeOK, StageTo
<1>2. r \in Controller /\ r.stage = s /\ r.kind = runner[p].kind
  BY <1>1 DEF Controller
<1> HIDE DEF r
<1> QED BY <1>1, <1>2, ControllerMoves

LEMMA EnterMoves ==
  ASSUME DaemonTypeOK, NEW c \in Caller, NEW name, NEW k \in Kind, NEW pid \in Pid \cup {0},
         name \in Starting \cup {"none", "confirm", "again", "kill", "clear", "zero", "rezero"},
         Enters(c, name, k, pid)
  PROVE  /\ step' \in [Caller -> CallStep]
         /\ step'[c].name = name /\ step'[c].kind = k /\ step'[c].pid = pid
         /\ \A d \in Caller \ {c} : step'[d] = step[d]
<1> DEFINE r == [name |-> name, kind |-> k, pid |-> pid, at |-> "none"]
<1>1. r \in CallStep /\ r.name = name /\ r.kind = k /\ r.pid = pid /\ step' = [step EXCEPT ![c] = r]
  BY DEF CallStep, Enters
<1> HIDE DEF r
<1> QED BY <1>1, StepMoves

LEMMA OntoMoves ==
  ASSUME DaemonTypeOK, NEW c \in Caller, NEW name, Onto(c, name),
         name \in Starting \cup {"none", "confirm", "again", "kill", "clear", "zero", "rezero"}
  PROVE  /\ step' \in [Caller -> CallStep]
         /\ step'[c].name = name /\ step'[c].kind = step[c].kind /\ step'[c].pid = step[c].pid
         /\ \A d \in Caller \ {c} : step'[d] = step[d]
<1> DEFINE r == [step[c] EXCEPT !.name = name]
<1>1. step[c] \in CallStep /\ step' = [step EXCEPT ![c] = r]
  BY DEF DaemonTypeOK, Onto
<1>2. r \in CallStep /\ r.name = name /\ r.kind = step[c].kind /\ r.pid = step[c].pid
  BY <1>1 DEF CallStep
<1> HIDE DEF r
<1> QED BY <1>1, <1>2, StepMoves

LEMMA FinishMoves ==
  ASSUME DaemonTypeOK, NEW c \in Caller, Finished(c)
  PROVE  /\ step' \in [Caller -> CallStep] /\ step'[c].name = "none"
         /\ \A d \in Caller \ {c} : step'[d] = step[d]
<1>1. NoStep \in CallStep /\ NoStep.name = "none"
  BY DEF NoStep, CallStep, Kind
<1> QED BY <1>1, StepMoves DEF Finished

LEMMA UnlinkMoves ==
  ASSUME DaemonTypeOK, NEW c \in Caller, Unlinks(c)
  PROVE  /\ step' \in [Caller -> CallStep] /\ step'[c].name = "none"
         /\ \A d \in Caller \ {c} : /\ step'[d].name = step[d].name /\ step'[d].kind = step[d].kind
                                    /\ step'[d].pid = step[d].pid
                                    /\ step[d].at # "file" => step'[d].at = step[d].at
<1>1. NoStep \in CallStep /\ NoStep.name = "none"
  BY DEF NoStep, CallStep, Kind
<1>2. \A d \in Caller : step[d] \in CallStep
  BY DEF DaemonTypeOK
<1>3. \A d \in Caller : step'[d] = IF d = c THEN NoStep
                                   ELSE [step[d] EXCEPT !.at = IF @ = "file" THEN "none" ELSE @]
  BY DEF Unlinks
<1>4. ASSUME NEW d \in Caller PROVE step'[d] \in CallStep
  <2>1. CASE d = c
    BY <1>1, <1>3, <2>1
  <2>2. CASE d # c
    <3> DEFINE at == IF step[d].at = "file" THEN "none" ELSE step[d].at
    <3>1. step'[d] = [step[d] EXCEPT !.at = at] /\ step[d] \in CallStep
      BY <1>2, <1>3, <2>2
    <3>2. at \in {"none", "tmp", "file"}
      BY <1>2 DEF CallStep
    <3> HIDE DEF at
    <3> QED BY <3>1, <3>2 DEF CallStep
  <2> QED BY <2>1, <2>2
<1>5. step' = [d \in Caller |-> step'[d]]
  BY DEF Unlinks
<1> QED BY <1>1, <1>2, <1>3, <1>4, <1>5 DEF CallStep

\* Where nothing starts and nothing comes up, what is known stays known.
LEMMA ReproStays ==
  ASSUME ReproKnown, pidTmp' = pidTmp, ~slip'["reproctl"] => ~slip["reproctl"],
         \A p \in Pid : Lives(p, "reproctl")' => Lives(p, "reproctl"),
         \A c \in Caller : InStart(c, "reproctl") \/ InStart(c, "reproctl")' =>
           /\ InStart(c, "reproctl") /\ InStart(c, "reproctl")'
           /\ step'[c].name = step[c].name /\ step'[c].pid = step[c].pid
           /\ step[c].at = "tmp" => step'[c].at = "tmp",
         ~slip'["reproctl"] => \A p \in Pid : Lives(p, "reproctl")' /\ p = pidFile["reproctl"] => p = pidFile'["reproctl"]
  PROVE  ReproKnown'
<1> SUFFICES ASSUME ~slip'["reproctl"]
             PROVE  /\ \A p \in Pid : Lives(p, "reproctl")' =>
                         \/ p = pidFile'["reproctl"]
                         \/ \E c \in Caller : InStart(c, "reproctl")' /\ step'[c].pid = p
                    /\ \A c \in Caller : InStart(c, "reproctl")' =>
                         /\ \A p \in Pid : Lives(p, "reproctl")' => p = step'[c].pid
                         /\ \A d \in Caller : InStart(d, "reproctl")' => d = c
                         /\ step'[c].name = "fill" => step'[c].at = "tmp" /\ pidTmp' = Blank
                         /\ step'[c].name = "put" => pidTmp' = step'[c].pid
  BY DEF ReproKnown, Blank
<1> QED BY DEF ReproKnown

LEMMA AutoStays ==
  ASSUME AutoKnown, ~slip'["autopilot"] => ~slip["autopilot"],
         \A p \in Pid : (Up(p)' => Up(p)) /\ (Coming(p)' => Coming(p)),
         \A p \in Pid : runner'[p].stage = "claiming" => runner[p].stage = "claiming",
         \A c \in Caller : InStart(c, "autopilot")' => InStart(c, "autopilot") /\ step'[c].pid = step[c].pid,
         \A c \in Caller : step'[c].name = "refill" \/ step[c].name = "refill" =>
           step'[c].name = "refill" /\ step[c].name = "refill" /\ step'[c].pid = step[c].pid,
         pidFile'["autopilot"] \in {pidFile["autopilot"], 0, Blank},
         ~slip'["autopilot"] => \A p \in Pid : Up(p)' /\ p = pidFile["autopilot"] => p = pidFile'["autopilot"]
  PROVE  AutoKnown'
<1> SUFFICES ASSUME ~slip'["autopilot"]
             PROVE  /\ \A p \in Pid : Up(p)' =>
                         \/ p = pidFile'["autopilot"]
                         \/ \E c \in Caller : step'[c].name = "refill" /\ step'[c].pid = p
                    /\ \A p \in Pid : Coming(p)' => \A q \in Pid : Up(q)' \/ Coming(q)' => q = p
                    /\ \A c \in Caller : InStart(c, "autopilot")' =>
                         /\ \A p \in Pid : Up(p)' \/ Coming(p)' => p = step'[c].pid
                         /\ \A d \in Caller : InStart(d, "autopilot")' => d = c
                    /\ \A p \in Pid : runner'[p].stage = "claiming" => pidFile'["autopilot"] \in {Blank, 0, p}
                    /\ \A c \in Caller : step'[c].name = "refill" => pidFile'["autopilot"] \in {Blank, 0, step'[c].pid}
  BY DEF AutoKnown, Blank
<1> QED BY DEF AutoKnown

LEMMA DaemonInductive == DaemonInv /\ [DaemonNext]_daemonVars => DaemonInv'
<1> SUFFICES ASSUME DaemonInv, [DaemonNext]_daemonVars PROVE DaemonInv'
  OBVIOUS
<1>0. /\ DaemonTypeOK /\ CallPlaces /\ ReproKnown /\ AutoKnown
      /\ pidFile \in [Kind -> Pid \cup {0, Blank}] /\ pidTmp \in Pid \cup {Blank, NoTmp}
      /\ runner \in [Pid -> Controller] /\ step \in [Caller -> CallStep] /\ slip \in [Kind -> BOOLEAN]
      /\ 0 \notin Pid /\ Blank \notin Pid /\ 0 # Blank /\ NoTmp # Blank /\ NoTmp \notin Pid
      /\ "reproctl" \in Kind /\ "autopilot" \in Kind /\ \A k \in Kind : k \in {"reproctl", "autopilot"}
      /\ \A c \in Caller : step[c].kind \in Kind /\ step[c].pid \in Pid \cup {0}
  BY PidsAreNumbers DEF DaemonInv, DaemonTypeOK, Kind, Blank, NoTmp, CallStep
\* A controller goes from one stage to another, and nothing else happens.
<1>1. ASSUME NEW p \in Pid, UNCHANGED <<pidFile, pidTmp, step, slip>>,
             runner' \in [Pid -> Controller], \A q \in Pid \ {p} : runner'[q] = runner[q],
             \/ runner'[p].stage = "down"
             \/ runner'[p].stage = "booting" /\ runner'[p].kind # "reproctl"
             \/ runner'[p].kind = runner[p].kind /\ Living(p) /\ runner'[p].stage # "claiming"
                /\ (runner'[p].stage \in {"checked", "leaving", "ending"} => runner[p].kind = "autopilot"),
             Coming(p)' => Coming(p), Up(p)' => Up(p)
      PROVE  DaemonInv'
  <2>1. DaemonTypeOK'
    BY <1>0, <1>1 DEF DaemonTypeOK
  <2>2. CallPlaces'
    BY <1>0, <1>1 DEF CallPlaces
  <2>3. ReproKnown'
    <3>1. \A q \in Pid : Lives(q, "reproctl")' => Lives(q, "reproctl")
      BY <1>1 DEF Lives, Living
    <3>2. \A c \in Caller : InStart(c, "reproctl")' <=> InStart(c, "reproctl")
      BY <1>1 DEF InStart
    <3> QED BY <1>0, <1>1, <3>1, <3>2, ReproStays
  <2>4. AutoKnown'
    <3>1. \A q \in Pid : (Up(q)' => Up(q)) /\ (Coming(q)' => Coming(q))
      BY <1>1 DEF Up, Coming
    <3>2. \A c \in Caller : InStart(c, "autopilot")' <=> InStart(c, "autopilot")
      BY <1>1 DEF InStart
    <3>3. \A q \in Pid : runner'[q].stage = "claiming" => runner[q].stage = "claiming"
      BY <1>1
    <3> QED BY <1>0, <1>1, <3>1, <3>2, <3>3, AutoStays
  <2> QED BY <2>1, <2>2, <2>3, <2>4 DEF DaemonInv
\* A command goes on, and starts nothing.
<1>2. ASSUME NEW c \in Caller, UNCHANGED <<pidFile, pidTmp, runner, slip>>, step' \in [Caller -> CallStep],
             \A d \in Caller \ {c} : step'[d] = step[d],
             step[c].name \notin Starting, step'[c].name \notin Starting,
             step'[c].name \in {"confirm", "again", "clear"} => step'[c].kind = "reproctl",
             step'[c].name \in {"zero", "rezero"} => step'[c].kind = "autopilot"
      PROVE  DaemonInv'
  <2>1. DaemonTypeOK'
    BY <1>0, <1>2 DEF DaemonTypeOK
  <2>2. CallPlaces'
    BY <1>0, <1>2 DEF CallPlaces, Starting
  <2>3. ReproKnown'
    <3>1. \A q \in Pid : Lives(q, "reproctl")' => Lives(q, "reproctl")
      BY <1>2 DEF Lives, Living
    <3>2. \A d \in Caller : /\ InStart(d, "reproctl")' <=> InStart(d, "reproctl")
                            /\ InStart(d, "reproctl") => step'[d] = step[d]
      BY <1>2 DEF InStart
    <3> QED BY <1>0, <1>2, <3>1, <3>2, ReproStays
  <2>4. AutoKnown'
    <3>1. \A q \in Pid : (Up(q)' <=> Up(q)) /\ (Coming(q)' <=> Coming(q))
      BY <1>2 DEF Up, Coming
    <3>2. \A d \in Caller : /\ InStart(d, "autopilot")' <=> InStart(d, "autopilot")
                            /\ InStart(d, "autopilot") => step'[d] = step[d]
                            /\ step'[d].name = "refill" \/ step[d].name = "refill" => step'[d] = step[d]
      BY <1>2 DEF InStart, Starting
    <3> QED BY <1>0, <1>2, <3>1, <3>2, AutoStays
  <2> QED BY <2>1, <2>2, <2>3, <2>4 DEF DaemonInv
\* 0, or nothing, is put in a file.
<1>3. ASSUME NEW k \in Kind, NEW self \in Pid \cup {0}, NEW text \in {0, Blank}, Strikes(k, self, text), UNCHANGED pidTmp,
             self \in Pid => k = "autopilot" /\ runner'[self].stage # "up",
             runner' \in [Pid -> Controller],
             \A q \in Pid : \/ runner'[q] = runner[q] \/ runner'[q].stage = "down"
                            \/ runner'[q].stage = "ending" /\ runner[q].stage = "leaving" /\ runner'[q].kind = runner[q].kind,
             step' \in [Caller -> CallStep],
             \A c \in Caller : \/ step[c].name \notin Starting /\ step'[c].name = "none"
                               \/ step[c].name = "zero" /\ step'[c].name = "rezero" /\ step'[c].kind = "autopilot"
                               \/ /\ step'[c].name = step[c].name /\ step'[c].kind = step[c].kind
                                  /\ step'[c].pid = step[c].pid
                                  /\ step[c].at = "tmp" => step'[c].at = "tmp"
      PROVE  DaemonInv'
  <2>1. /\ pidFile' \in [Kind -> Pid \cup {0, Blank}] /\ slip' \in [Kind -> BOOLEAN]
        /\ \A j \in Kind \ {k} : pidFile'[j] = pidFile[j] /\ slip'[j] = slip[j]
        /\ pidFile'[k] = text
        /\ ~slip'[k] => ~slip[k] /\ (Living(pidFile[k]) => pidFile[k] = self)
    BY <1>0, <1>3, StrikeMoves
  <2>2. DaemonTypeOK'
    BY <1>0, <1>3, <2>1 DEF DaemonTypeOK
  <2>3. CallPlaces'
    BY <1>0, <1>3 DEF CallPlaces, Starting
  <2>4. ReproKnown'
    <3>1. \A q \in Pid : Lives(q, "reproctl")' => Lives(q, "reproctl")
      BY <1>3 DEF Lives, Living
    <3>2. \A c \in Caller : InStart(c, "reproctl") \/ InStart(c, "reproctl")' =>
            /\ InStart(c, "reproctl") /\ InStart(c, "reproctl")'
            /\ step'[c].name = step[c].name /\ step'[c].pid = step[c].pid
            /\ step[c].at = "tmp" => step'[c].at = "tmp"
      BY <1>3 DEF InStart, Starting
    <3>3. ~slip'["reproctl"] => ~slip["reproctl"]
      BY <1>0, <2>1
    <3>4. ~slip'["reproctl"] => \A p \in Pid : Lives(p, "reproctl")' /\ p = pidFile["reproctl"] => p = pidFile'["reproctl"]
      <4> SUFFICES ASSUME ~slip'["reproctl"], NEW p \in Pid, Lives(p, "reproctl")', p = pidFile["reproctl"]
                   PROVE  p = pidFile'["reproctl"]
        OBVIOUS
      <4>1. Living(p)
        BY <3>1 DEF Lives
      <4>2. k = "autopilot"
        BY <1>0, <1>3, <2>1, <4>1
      <4> QED BY <1>0, <2>1, <4>2
    <3> QED BY <1>0, <1>3, <3>1, <3>2, <3>3, <3>4, ReproStays
  <2>5. AutoKnown'
    <3>1. \A q \in Pid : (Up(q)' => Up(q)) /\ (Coming(q)' => Coming(q))
      BY <1>3 DEF Up, Coming
    <3>2. \A q \in Pid : runner'[q].stage = "claiming" => runner[q].stage = "claiming"
      BY <1>3
    <3>3. \A c \in Caller : InStart(c, "autopilot")' => InStart(c, "autopilot") /\ step'[c].pid = step[c].pid
      BY <1>3 DEF InStart, Starting
    <3>4. \A c \in Caller : step'[c].name = "refill" \/ step[c].name = "refill" =>
            step'[c].name = "refill" /\ step[c].name = "refill" /\ step'[c].pid = step[c].pid
      BY <1>3 DEF Starting
    <3>5. ~slip'["autopilot"] => ~slip["autopilot"]
      BY <1>0, <2>1
    <3>6. pidFile'["autopilot"] \in {pidFile["autopilot"], 0, Blank}
      BY <1>0, <2>1
    <3>7. ~slip'["autopilot"] => \A p \in Pid : Up(p)' /\ p = pidFile["autopilot"] => p = pidFile'["autopilot"]
      <4> SUFFICES ASSUME ~slip'["autopilot"], NEW p \in Pid, Up(p)', p = pidFile["autopilot"]
                   PROVE  p = pidFile'["autopilot"]
        OBVIOUS
      <4>1. Living(p) /\ runner'[p].stage = "up"
        BY <3>1 DEF Up, Living
      <4>2. k = "reproctl"
        BY <1>0, <1>3, <2>1, <4>1
      <4> QED BY <1>0, <2>1, <4>2
    <3> QED BY <1>0, <3>1, <3>2, <3>3, <3>4, <3>5, <3>6, <3>7, AutoStays
  <2> QED BY <2>2, <2>3, <2>4, <2>5 DEF DaemonInv
\* daemon start
<1>4. ASSUME NEW c \in Caller, NEW k \in Kind, DaemonStart(c, k) PROVE DaemonInv'
  <2>1. /\ step' \in [Caller -> CallStep] /\ step[c].name = "none"
        /\ step'[c].name = "fork" /\ step'[c].kind = k /\ step'[c].pid = 0
        /\ \A d \in Caller \ {c} : step'[d] = step[d]
    BY <1>0, <1>4, EnterMoves DEF DaemonStart, Free, NoStep, Starting
  <2>2. ~Living(pidFile[k]) /\ Slips(k, Underway(k, Blank)) /\ Underway(k, Blank) \in BOOLEAN
        /\ UNCHANGED <<pidFile, pidTmp, runner>>
    BY <1>4 DEF DaemonStart, FindsNobody, Underway
  <2> DEFINE h == Underway(k, Blank)
  <2>21. h \in BOOLEAN /\ Slips(k, h)
    BY <2>2
  <2> HIDE DEF h
  <2>3. /\ slip' \in [Kind -> BOOLEAN] /\ \A j \in Kind : ~slip'[j] => ~slip[j]
        /\ ~slip'[k] => ~h
    BY <1>0, <2>21, SlipMoves
  <2>4. ~slip'[k] => /\ \A d \in Caller : ~InStart(d, k)
                     /\ \A q \in Pid : runner[q].kind = k => runner[q].stage \notin {"checked", "claiming"}
    BY <1>0, <2>3 DEF h, Underway, InStart
  <2>5. DaemonTypeOK' /\ CallPlaces'
    BY <1>0, <2>1, <2>2, <2>3 DEF DaemonTypeOK, CallPlaces
  <2>6. \A j \in Kind : j # k => \A d \in Caller : /\ InStart(d, j)' <=> InStart(d, j)
                                                   /\ InStart(d, j) => step'[d] = step[d]
    BY <2>1 DEF InStart, Starting
  <2>7. /\ \A q \in Pid : (Lives(q, "reproctl")' <=> Lives(q, "reproctl")) /\ (Up(q)' <=> Up(q)) /\ (Coming(q)' <=> Coming(q))
        /\ \A d \in Caller : step'[d].name = "refill" \/ step[d].name = "refill" => d # c
    BY <2>1, <2>2 DEF Lives, Living, Up, Coming
  <2>8. ReproKnown'
    <3>1. CASE k = "reproctl"
      <4> SUFFICES ASSUME ~slip'["reproctl"] PROVE ReproKnown'
        BY DEF ReproKnown
      <4>1. \A p \in Pid : ~Lives(p, "reproctl")'
        BY <1>0, <2>2, <2>3, <2>4, <2>7, <3>1 DEF ReproKnown, Lives
      <4>2. \A d \in Caller : InStart(d, "reproctl")' => d = c
        BY <2>1, <2>4, <3>1 DEF InStart
      <4> QED BY <2>1, <4>1, <4>2 DEF ReproKnown
    <3>2. CASE k = "autopilot"
      BY <1>0, <2>2, <2>3, <2>6, <2>7, <3>2, ReproStays
    <3> QED BY <1>0, <3>1, <3>2
  <2>9. AutoKnown'
    <3>1. CASE k = "autopilot"
      <4> SUFFICES ASSUME ~slip'["autopilot"] PROVE AutoKnown'
        BY DEF AutoKnown
      <4>0. \A d \in Caller : step[d].name # "refill" /\ step'[d].name # "refill"
        BY <1>0, <2>1, <2>4, <3>1 DEF InStart, CallPlaces, Starting
      <4>1. \A p \in Pid : ~Coming(p)' /\ ~Coming(p)
        BY <2>4, <2>7, <3>1 DEF Coming
      <4>2. \A p \in Pid : ~Up(p)'
        BY <1>0, <2>2, <2>3, <2>7, <3>1, <4>0 DEF AutoKnown, Up, Living
      <4>3. \A d \in Caller : InStart(d, "autopilot")' => d = c
        BY <2>1, <2>4, <3>1 DEF InStart
      <4>4. \A p \in Pid : runner'[p].stage # "claiming"
        BY <1>0, <2>2, <4>1 DEF Coming, CallPlaces
      <4> QED BY <4>0, <4>1, <4>2, <4>3, <4>4 DEF AutoKnown
    <3>2. CASE k = "reproctl"
      BY <1>0, <2>1, <2>2, <2>3, <2>6, <2>7, <3>2, AutoStays
    <3> QED BY <1>0, <3>1, <3>2
  <2> QED BY <2>5, <2>8, <2>9 DEF DaemonInv
<1>5. ASSUME NEW c \in Caller, NEW p \in Pid, Spawn(c, p) PROVE DaemonInv'
  <2> DEFINE k == step[c].kind
             r == [kind |-> k, stage |-> "booting", leads |-> TRUE]
             name == IF k = "reproctl" THEN "open" ELSE "check"
  <2>0. k \in Kind /\ name \in Starting /\ (k = "reproctl" => name = "open") /\ (k = "autopilot" => name = "check")
    BY <1>0 DEF Starting
  <2>1. r \in Controller /\ r.kind = k /\ r.stage = "booting"
    BY <1>0 DEF Controller, Stage
  <2>2. /\ step[c].name = "fork" /\ Enters(c, name, k, p) /\ runner' = [runner EXCEPT ![p] = r]
        /\ runner[p].stage = "free" /\ UNCHANGED <<pidFile, pidTmp, slip>>
    BY <1>5 DEF Spawn, Due, Begins, NextPid
  <2>3. PICK k0 \in Kind, n0 \in Starting, r0 \in Controller :
          /\ k0 = step[c].kind /\ r0.kind = k0 /\ r0.stage = "booting" /\ Enters(c, n0, k0, p)
          /\ (k0 = "reproctl" => n0 = "open") /\ (k0 = "autopilot" => n0 = "check")
          /\ runner' = [runner EXCEPT ![p] = r0]
    BY <2>0, <2>1, <2>2
  <2> HIDE DEF k, r, name
  <2>4. /\ step' \in [Caller -> CallStep] /\ step'[c].name = n0 /\ step'[c].kind = k0 /\ step'[c].pid = p
        /\ \A d \in Caller \ {c} : step'[d] = step[d]
    BY <1>0, <2>3, EnterMoves
  <2>5. runner' \in [Pid -> Controller] /\ \A q \in Pid : runner'[q] = IF q = p THEN r0 ELSE runner[q]
    BY <1>0, <2>3, ControllerMoves
  <2>6. step[c].pid = 0 /\ InStart(c, k0)
    BY <1>0, <2>2, <2>3 DEF CallPlaces, InStart, Starting
  <2>7. DaemonTypeOK' /\ CallPlaces'
    <3>1. CallPlaces'
      BY <1>0, <2>2, <2>3, <2>4, <2>5 DEF CallPlaces
    <3> QED BY <1>0, <2>2, <2>4, <2>5, <3>1 DEF DaemonTypeOK
  <2>8. /\ \A q \in Pid : (Up(q)' <=> Up(q)) /\ (Coming(q)' <=> Coming(q))
        /\ \A q \in Pid : runner'[q].stage = "claiming" => runner[q].stage = "claiming"
        /\ \A q \in Pid \ {p} : Lives(q, "reproctl")' <=> Lives(q, "reproctl")
        /\ k0 # "reproctl" => ~Lives(p, "reproctl")'
    BY <2>2, <2>3, <2>5 DEF Up, Coming, Lives, Living
  <2>9. \A j \in Kind : \A d \in Caller : /\ InStart(d, j)' <=> InStart(d, j)
                                          /\ d # c \/ j # k0 => (InStart(d, j) => step'[d] = step[d])
    BY <2>2, <2>3, <2>4 DEF InStart, Starting
  <2>10. ReproKnown'
    <3>1. CASE k0 = "reproctl"
      <4> SUFFICES ASSUME ~slip["reproctl"] PROVE ReproKnown'
        BY <2>2 DEF ReproKnown
      <4>1. \A q \in Pid : Lives(q, "reproctl")' => q = p
        BY <1>0, <2>6, <2>8, <3>1 DEF ReproKnown
      <4>2. \A d \in Caller : InStart(d, "reproctl")' => d = c
        BY <1>0, <2>6, <2>9, <3>1 DEF ReproKnown
      <4>3. InStart(c, "reproctl")' /\ step'[c].name = "open"
        BY <1>0, <2>3, <2>4, <2>6, <2>9, <3>1
      <4> QED BY <2>2, <2>4, <4>1, <4>2, <4>3 DEF ReproKnown
    <3>2. CASE k0 = "autopilot"
      BY <1>0, <2>2, <2>8, <2>9, <3>2, ReproStays
    <3> QED BY <1>0, <3>1, <3>2
  <2>11. AutoKnown'
    <3>0. \A d \in Caller : step'[d].name = "refill" \/ step[d].name = "refill" => step'[d] = step[d]
      BY <1>0, <2>2, <2>3, <2>4
    <3>1. CASE k0 = "autopilot"
      <4> SUFFICES ASSUME ~slip["autopilot"] PROVE AutoKnown'
        BY <2>2 DEF AutoKnown
      <4>1. \A q \in Pid : ~Up(q) /\ ~Coming(q) /\ ~Up(q)' /\ ~Coming(q)'
        BY <1>0, <2>6, <2>8, <3>1 DEF AutoKnown
      <4>2. \A d \in Caller : InStart(d, "autopilot")' => d = c
        BY <1>0, <2>6, <2>9, <3>1 DEF AutoKnown
      <4>3. \A q \in Pid : runner'[q].stage # "claiming"
        BY <1>0, <2>8, <4>1 DEF Coming, CallPlaces
      <4> QED BY <1>0, <2>2, <3>0, <4>1, <4>2, <4>3 DEF AutoKnown
    <3>2. CASE k0 = "reproctl"
      BY <1>0, <2>2, <2>8, <2>9, <3>0, <3>2, AutoStays
    <3> QED BY <1>0, <3>1, <3>2
  <2> QED BY <2>7, <2>10, <2>11 DEF DaemonInv
\* A start of reproctl goes on with its files; autopilot's does not see it.
<1>6. ASSUME NEW c \in Caller, UNCHANGED <<runner, slip>>, step[c].kind = "reproctl",
             pidFile' \in [Kind -> Pid \cup {0, Blank}], pidFile'["autopilot"] = pidFile["autopilot"],
             pidTmp' \in Pid \cup {Blank, NoTmp}, step' \in [Caller -> CallStep],
             step'[c].kind = "reproctl", step'[c].name \in {"fill", "put", "confirm"}, step[c].name \in {"open", "fill", "put"},
             \A d \in Caller \ {c} : /\ step'[d].name = step[d].name /\ step'[d].kind = step[d].kind
                                     /\ step'[d].pid = step[d].pid,
             ReproKnown'
      PROVE  DaemonInv'
  <2>1. DaemonTypeOK' /\ CallPlaces'
    BY <1>0, <1>6 DEF DaemonTypeOK, CallPlaces
  <2>2. \A p \in Pid : (Up(p)' <=> Up(p)) /\ (Coming(p)' <=> Coming(p))
    BY <1>6 DEF Up, Coming
  <2>3. \A d \in Caller : InStart(d, "autopilot")' => InStart(d, "autopilot") /\ step'[d].pid = step[d].pid
    BY <1>6 DEF InStart
  <2>4. \A d \in Caller : step'[d].name = "refill" \/ step[d].name = "refill" =>
          step'[d].name = "refill" /\ step[d].name = "refill" /\ step'[d].pid = step[d].pid
    BY <1>6
  <2>5. AutoKnown'
    BY <1>0, <1>6, <2>2, <2>3, <2>4, AutoStays
  <2> QED BY <1>6, <2>1, <2>5 DEF DaemonInv
<1>7. ASSUME NEW c \in Caller, OpenPidTmp(c) PROVE DaemonInv'
  <2> DEFINE r == [step[c] EXCEPT !.name = "fill", !.at = "tmp"]
  <2>1. /\ step[c] \in CallStep /\ step[c].name = "open" /\ pidTmp' = Blank /\ UNCHANGED <<pidFile, runner, slip>>
        /\ step' = [step EXCEPT ![c] = r]
    BY <1>0, <1>7 DEF OpenPidTmp, Due
  <2>2. r \in CallStep /\ r.name = "fill" /\ r.at = "tmp" /\ r.kind = step[c].kind /\ r.pid = step[c].pid
    BY <2>1 DEF CallStep, Starting
  <2>3. PICK r0 \in CallStep : r0.name = "fill" /\ r0.at = "tmp" /\ r0.kind = step[c].kind /\ r0.pid = step[c].pid
                               /\ step' = [step EXCEPT ![c] = r0]
    BY <2>1, <2>2
  <2> HIDE DEF r
  <2>4. step' \in [Caller -> CallStep] /\ \A d \in Caller : step'[d] = IF d = c THEN r0 ELSE step[d]
    BY <1>0, <2>3, StepMoves
  <2>5. step[c].kind = "reproctl"
    BY <1>0, <2>1 DEF CallPlaces
  <2>6. ReproKnown'
    <3>1. \A p \in Pid : Lives(p, "reproctl")' <=> Lives(p, "reproctl")
      BY <2>1 DEF Lives, Living
    <3>2. \A d \in Caller : (InStart(d, "reproctl")' <=> InStart(d, "reproctl")) /\ step'[d].pid = step[d].pid
      BY <2>1, <2>3, <2>4 DEF InStart, Starting
    <3>3. InStart(c, "reproctl")
      BY <2>1, <2>5 DEF InStart, Starting
    <3>4. \A d \in Caller : d # c => step'[d] = step[d]
      BY <2>4
    <3> QED BY <1>0, <2>1, <2>3, <2>4, <3>1, <3>2, <3>3, <3>4 DEF ReproKnown
  <2> QED BY <1>0, <1>6, <2>1, <2>3, <2>4, <2>5, <2>6
<1>8. ASSUME NEW c \in Caller, FillPidTmp(c) PROVE DaemonInv'
  <2> DEFINE r == [step[c] EXCEPT !.name = "put", !.at = "none"]
  <2>1. /\ step[c] \in CallStep /\ step[c].name = "fill" /\ UNCHANGED <<runner, slip>>
        /\ step' = [step EXCEPT ![c] = r] /\ step[c].at \in {"tmp", "file", "none"}
    BY <1>0, <1>8 DEF FillPidTmp, Due, CallStep
  <2>2. r \in CallStep /\ r.name = "put" /\ r.kind = step[c].kind /\ r.pid = step[c].pid
    BY <2>1 DEF CallStep, Starting
  <2>3. PICK r0 \in CallStep : r0.name = "put" /\ r0.kind = step[c].kind /\ r0.pid = step[c].pid
                               /\ step' = [step EXCEPT ![c] = r0]
    BY <2>1, <2>2
  <2> HIDE DEF r
  <2>4. step' \in [Caller -> CallStep] /\ \A d \in Caller : step'[d] = IF d = c THEN r0 ELSE step[d]
    BY <1>0, <2>3, StepMoves
  <2>5. step[c].kind = "reproctl" /\ step[c].pid \in Pid \cup {0}
    BY <1>0, <2>1 DEF CallPlaces
  <2>50. \A old : Overlaid(old, step[c].pid) \subseteq {step[c].pid, 0}
    BY DEF Overlaid
  <2>6. /\ pidFile' \in [Kind -> Pid \cup {0, Blank}] /\ pidFile'["autopilot"] = pidFile["autopilot"]
        /\ pidTmp' \in Pid \cup {0, Blank, NoTmp}
        /\ step[c].at = "tmp" => pidFile' = pidFile /\ pidTmp' \in Overlaid(pidTmp, step[c].pid) \ {0}
    <3>1. CASE step[c].at = "tmp"
      BY <1>0, <1>8, <2>5, <2>50, <3>1 DEF FillPidTmp
    <3>2. CASE step[c].at = "file"
      <4>1. UNCHANGED pidTmp /\ FillsFile("reproctl", step[c].pid)
        BY <1>8, <3>2 DEF FillPidTmp
      <4>2. PICK text \in Overlaid(pidFile["reproctl"], step[c].pid) : OnFile("reproctl", text)
        BY <4>1 DEF FillsFile
      <4>3. text \in Pid \cup {0, Blank}
        BY <2>5, <2>50, <4>2
      <4> QED BY <1>0, <3>2, <4>1, <4>2, <4>3, FileMoves
    <3>3. CASE step[c].at = "none"
      BY <1>0, <1>8, <3>3 DEF FillPidTmp
    <3> QED BY <2>1, <3>1, <3>2, <3>3
  <2>61. pidTmp' \in Pid \cup {Blank, NoTmp}
    <3>1. CASE step[c].at = "tmp"
      BY <2>5, <2>50, <2>6, <3>1
    <3>2. CASE step[c].at # "tmp"
      BY <1>0, <1>8, <2>1, <3>2 DEF FillPidTmp
    <3> QED BY <3>1, <3>2
  <2>7. ReproKnown'
    <3> SUFFICES ASSUME ~slip["reproctl"] PROVE ReproKnown'
      BY <2>1 DEF ReproKnown
    <3>0. InStart(c, "reproctl")
      BY <2>1, <2>5 DEF InStart, Starting
    <3>1. step[c].at = "tmp" /\ pidTmp = Blank
      BY <1>0, <2>1, <3>0 DEF ReproKnown
    <3>2. pidFile' = pidFile /\ pidTmp' = step[c].pid
      BY <1>0, <2>6, <3>1 DEF Overlaid
    <3>3. \A p \in Pid : Lives(p, "reproctl")' <=> Lives(p, "reproctl")
      BY <2>1 DEF Lives, Living
    <3>4. \A d \in Caller : (InStart(d, "reproctl")' <=> InStart(d, "reproctl")) /\ step'[d].pid = step[d].pid
      BY <2>1, <2>3, <2>4 DEF InStart, Starting
    <3>5. \A d \in Caller : d # c => step'[d] = step[d]
      BY <2>4
    <3> QED BY <1>0, <2>1, <2>3, <2>4, <3>0, <3>2, <3>3, <3>4, <3>5 DEF ReproKnown
  <2> QED BY <1>6, <2>1, <2>3, <2>4, <2>5, <2>6, <2>61, <2>7
<1>9. ASSUME NEW c \in Caller, PutPidTmp(c) PROVE DaemonInv'
  <2>1. /\ step[c].name = "put" /\ pidTmp # NoTmp /\ OnFile("reproctl", pidTmp) /\ pidTmp' = NoTmp /\ UNCHANGED <<runner, slip>>
        /\ \A d \in Caller : step'[d] = IF d = c THEN [step[d] EXCEPT !.name = "confirm"]
                                         ELSE [step[d] EXCEPT !.at = Moved(@)]
        /\ step' = [d \in Caller |-> step'[d]]
    BY <1>9 DEF PutPidTmp, Due
  <2>2. step[c].kind = "reproctl"
    BY <1>0, <2>1 DEF CallPlaces
  <2>3. /\ pidFile' \in [Kind -> Pid \cup {0, Blank}] /\ pidFile'["autopilot"] = pidFile["autopilot"]
        /\ pidFile'["reproctl"] = pidTmp
    BY <1>0, <2>1, FileMoves
  <2>4. ASSUME NEW d \in Caller
        PROVE  /\ step'[d] \in CallStep /\ step'[d].kind = step[d].kind /\ step'[d].pid = step[d].pid
               /\ step'[d].name = IF d = c THEN "confirm" ELSE step[d].name
    <3>0. step[d] \in CallStep
      BY <1>0
    <3>1. CASE d = c
      BY <2>1, <3>0, <3>1 DEF CallStep
    <3>2. CASE d # c
      <4> DEFINE at == Moved(step[d].at)
      <4>1. at \in {"none", "tmp", "file"} /\ step'[d] = [step[d] EXCEPT !.at = at]
        BY <2>1, <3>2 DEF Moved
      <4> HIDE DEF at
      <4> QED BY <3>0, <3>2, <4>1 DEF CallStep
    <3> QED BY <3>1, <3>2
  <2>5. step' \in [Caller -> CallStep]
    BY <2>1, <2>4
  <2>6. ReproKnown'
    <3> SUFFICES ASSUME ~slip["reproctl"] PROVE ReproKnown'
      BY <2>1 DEF ReproKnown
    <3>0. InStart(c, "reproctl")
      BY <2>1, <2>2 DEF InStart, Starting
    <3>1. pidTmp = step[c].pid
      BY <1>0, <2>1, <3>0 DEF ReproKnown
    <3>2. \A p \in Pid : Lives(p, "reproctl")' => p = step[c].pid
      BY <1>0, <2>1, <3>0 DEF ReproKnown, Lives, Living
    <3>3. \A d \in Caller : ~InStart(d, "reproctl")'
      BY <1>0, <2>4, <3>0 DEF ReproKnown, InStart, Starting
    <3> QED BY <2>3, <3>1, <3>2, <3>3 DEF ReproKnown
  <2> QED BY <1>0, <1>6, <2>1, <2>2, <2>3, <2>4, <2>5, <2>6
\* autopilot's start writes the pid, too.
<1>10. ASSUME NEW c \in Caller, CheckChild(c) PROVE DaemonInv'
  <2>1. step[c].name = "check" /\ step[c].kind = "autopilot" /\ UNCHANGED <<pidTmp, runner, slip>>
    BY <1>0, <1>10 DEF CheckChild, Due, CallPlaces
  <2>2. CASE ~Living(step[c].pid)
    <3>1. Finished(c) /\ pidFile' = pidFile
      BY <1>10, <2>2 DEF CheckChild
    <3>2. /\ step' \in [Caller -> CallStep] /\ step'[c].name = "none"
          /\ \A d \in Caller \ {c} : step'[d] = step[d]
      BY <1>0, <3>1, FinishMoves
    <3>3. DaemonTypeOK' /\ CallPlaces'
      BY <1>0, <2>1, <3>1, <3>2 DEF DaemonTypeOK, CallPlaces
    <3>4. /\ \A p \in Pid : /\ Lives(p, "reproctl")' <=> Lives(p, "reproctl")
                            /\ (Up(p)' <=> Up(p)) /\ (Coming(p)' <=> Coming(p))
          /\ \A d \in Caller : /\ InStart(d, "autopilot")' => InStart(d, "autopilot") /\ step'[d] = step[d]
                               /\ InStart(d, "reproctl")' <=> InStart(d, "reproctl")
                               /\ InStart(d, "reproctl") => step'[d] = step[d]
                               /\ step'[d].name = "refill" \/ step[d].name = "refill" => step'[d] = step[d]
      BY <2>1, <3>2 DEF Lives, Living, Up, Coming, InStart, Starting
    <3>5. ReproKnown'
      BY <1>0, <2>1, <3>1, <3>4, ReproStays
    <3>6. AutoKnown'
      BY <1>0, <2>1, <3>1, <3>4, AutoStays
    <3> QED BY <3>3, <3>5, <3>6 DEF DaemonInv
  <2>3. CASE Living(step[c].pid)
    <3>1. Onto(c, "refill") /\ OnFile("autopilot", Blank)
      BY <1>10, <2>3 DEF CheckChild
    <3>2. /\ step' \in [Caller -> CallStep] /\ step'[c].name = "refill" /\ step'[c].kind = "autopilot"
          /\ step'[c].pid = step[c].pid /\ \A d \in Caller \ {c} : step'[d] = step[d]
      BY <1>0, <2>1, <3>1, OntoMoves DEF Starting
    <3>3. /\ pidFile' \in [Kind -> Pid \cup {0, Blank}] /\ pidFile'["autopilot"] = Blank
          /\ pidFile'["reproctl"] = pidFile["reproctl"]
      BY <1>0, <3>1, FileMoves
    <3>4. DaemonTypeOK' /\ CallPlaces'
      BY <1>0, <2>1, <3>2, <3>3 DEF DaemonTypeOK, CallPlaces
    <3>5. /\ \A p \in Pid : /\ Lives(p, "reproctl")' <=> Lives(p, "reproctl")
                            /\ (Up(p)' <=> Up(p)) /\ (Coming(p)' <=> Coming(p))
          /\ \A d \in Caller : /\ InStart(d, "autopilot")' <=> InStart(d, "autopilot")
                               /\ step'[d].pid = step[d].pid
                               /\ InStart(d, "reproctl")' <=> InStart(d, "reproctl")
                               /\ InStart(d, "reproctl") => step'[d] = step[d]
          /\ InStart(c, "autopilot")
      BY <2>1, <3>2 DEF Lives, Living, Up, Coming, InStart, Starting
    <3>6. ReproKnown'
      BY <1>0, <2>1, <3>3, <3>5, ReproStays
    <3>7. AutoKnown'
      <4> SUFFICES ASSUME ~slip["autopilot"] PROVE AutoKnown'
        BY <2>1 DEF AutoKnown
      <4>1. \A p \in Pid : Up(p)' \/ Coming(p)' => p = step[c].pid
        BY <1>0, <3>5 DEF AutoKnown
      <4>2. \A d \in Caller : InStart(d, "autopilot")' => d = c
        BY <1>0, <3>5 DEF AutoKnown
      <4> QED BY <3>2, <3>3, <4>1, <4>2 DEF AutoKnown
    <3> QED BY <3>4, <3>6, <3>7 DEF DaemonInv
  <2> QED BY <2>2, <2>3
<1>11. ASSUME NEW c \in Caller, FillChild(c) PROVE DaemonInv'
  <2>1. step[c].name = "refill" /\ step[c].kind = "autopilot" /\ UNCHANGED <<pidTmp, runner, slip>>
        /\ FillsFile("autopilot", step[c].pid) /\ Finished(c)
    BY <1>0, <1>11 DEF FillChild, Due, CallPlaces
  <2>2. PICK text \in Overlaid(pidFile["autopilot"], step[c].pid) : OnFile("autopilot", text)
    BY <2>1 DEF FillsFile
  <2>3. /\ step' \in [Caller -> CallStep] /\ step'[c].name = "none"
        /\ \A d \in Caller \ {c} : step'[d] = step[d]
    BY <1>0, <2>1, FinishMoves
  <2>4. text \in {step[c].pid, 0} /\ text \in Pid \cup {0, Blank}
    BY <1>0, <2>2 DEF Overlaid
  <2>5. /\ pidFile' \in [Kind -> Pid \cup {0, Blank}] /\ pidFile'["autopilot"] = text
        /\ pidFile'["reproctl"] = pidFile["reproctl"]
    BY <1>0, <2>2, <2>4, FileMoves
  <2>6. DaemonTypeOK' /\ CallPlaces'
    BY <1>0, <2>1, <2>3, <2>5 DEF DaemonTypeOK, CallPlaces
  <2>7. /\ \A p \in Pid : /\ Lives(p, "reproctl")' <=> Lives(p, "reproctl")
                          /\ (Up(p)' <=> Up(p)) /\ (Coming(p)' <=> Coming(p))
        /\ \A d \in Caller : /\ InStart(d, "autopilot")' => InStart(d, "autopilot") /\ d # c
                             /\ InStart(d, "reproctl")' <=> InStart(d, "reproctl")
                             /\ InStart(d, "reproctl") => step'[d] = step[d]
        /\ InStart(c, "autopilot")
    BY <2>1, <2>3 DEF Lives, Living, Up, Coming, InStart, Starting
  <2>8. ReproKnown'
    BY <1>0, <2>1, <2>5, <2>7, ReproStays
  <2>9. AutoKnown'
    <3> SUFFICES ASSUME ~slip["autopilot"] PROVE AutoKnown'
      BY <2>1 DEF AutoKnown
    <3>1. \A p \in Pid : Up(p)' \/ Coming(p)' => p = step[c].pid
      BY <1>0, <2>7 DEF AutoKnown
    <3>2. \A d \in Caller : ~InStart(d, "autopilot")'
      BY <1>0, <2>7 DEF AutoKnown
    <3>3. pidFile["autopilot"] \in {Blank, 0, step[c].pid}
      BY <1>0, <2>1 DEF AutoKnown
    <3>4. pidFile'["autopilot"] = step[c].pid
      BY <1>0, <2>2, <2>5, <3>3 DEF Overlaid
    <3>5. \A d \in Caller : step'[d].name # "refill"
      BY <1>0, <2>6, <3>2 DEF InStart, CallPlaces, Starting
    <3>6. \A p \in Pid : runner'[p].stage = "claiming" => Coming(p)'
      BY <2>6 DEF Coming, CallPlaces
    <3> QED BY <3>1, <3>2, <3>4, <3>5, <3>6 DEF AutoKnown
  <2> QED BY <2>6, <2>8, <2>9 DEF DaemonInv
<1>12. ASSUME NEW c \in Caller, KillCaller(c) PROVE DaemonInv'
  <2> DEFINE h == step[c].name \in {"open", "fill", "put", "refill"} /\ Living(step[c].pid)
  <2>0. h \in BOOLEAN /\ Slips(step[c].kind, h) /\ Finished(c) /\ UNCHANGED <<pidFile, pidTmp, runner>>
        /\ step[c].kind \in Kind
    BY <1>0, <1>12 DEF KillCaller
  <2> HIDE DEF h
  <2>1. /\ step' \in [Caller -> CallStep] /\ step'[c].name = "none"
        /\ \A d \in Caller \ {c} : step'[d] = step[d]
    BY <1>0, <2>0, FinishMoves
  <2>2. /\ slip' \in [Kind -> BOOLEAN] /\ \A j \in Kind : ~slip'[j] => ~slip[j]
        /\ ~slip'[step[c].kind] => ~h
    BY <1>0, <2>0, SlipMoves
  <2>3. DaemonTypeOK' /\ CallPlaces'
    BY <1>0, <2>0, <2>1, <2>2 DEF DaemonTypeOK, CallPlaces
  <2>4. \A p \in Pid : /\ Lives(p, "reproctl")' <=> Lives(p, "reproctl")
                       /\ (Up(p)' <=> Up(p)) /\ (Coming(p)' <=> Coming(p)) /\ (Living(p)' <=> Living(p))
    BY <2>0 DEF Lives, Living, Up, Coming
  <2>5. \A k \in Kind : \A d \in Caller : InStart(d, k)' => InStart(d, k) /\ d # c
    BY <2>1 DEF InStart, Starting
  <2>6. ReproKnown'
    <3>1. CASE InStart(c, "reproctl")
      <4> SUFFICES ASSUME ~slip'["reproctl"] PROVE ReproKnown'
        BY DEF ReproKnown
      <4>1. step[c].name \in {"fork", "open", "fill", "put"} /\ step[c].kind = "reproctl"
        BY <1>0, <3>1 DEF InStart, Starting, CallPlaces
      <4>2. \A p \in Pid : ~(Lives(p, "reproctl") /\ p = step[c].pid)
        BY <1>0, <2>2, <4>1 DEF h, Lives, CallPlaces
      <4>3. \A p \in Pid : ~Lives(p, "reproctl")
        BY <1>0, <2>2, <3>1, <4>2 DEF ReproKnown
      <4>4. \A d \in Caller : ~InStart(d, "reproctl")'
        BY <1>0, <2>2, <2>5, <3>1 DEF ReproKnown
      <4> QED BY <2>4, <4>3, <4>4 DEF ReproKnown
    <3>2. CASE ~InStart(c, "reproctl")
      <4>1. \A d \in Caller : /\ InStart(d, "reproctl")' <=> InStart(d, "reproctl")
                              /\ InStart(d, "reproctl") => step'[d] = step[d]
        BY <1>0, <2>1, <3>2 DEF InStart, Starting
      <4> QED BY <1>0, <2>0, <2>2, <2>4, <4>1, ReproStays
    <3> QED BY <3>1, <3>2
  <2>7. AutoKnown'
    <3> SUFFICES ASSUME ~slip'["autopilot"] PROVE AutoKnown'
      BY DEF AutoKnown
    <3>1. \A p \in Pid : Up(p)' => p = pidFile'["autopilot"]
                                   \/ \E d \in Caller : step'[d].name = "refill" /\ step'[d].pid = p
      <4> SUFFICES ASSUME NEW p \in Pid, Up(p), p # pidFile["autopilot"]
                   PROVE  \E d \in Caller : step'[d].name = "refill" /\ step'[d].pid = p
        BY <2>0, <2>4
      <4>1. PICK d \in Caller : step[d].name = "refill" /\ step[d].pid = p
        BY <1>0, <2>2 DEF AutoKnown
      <4>2. step[d].kind = "autopilot" /\ Living(p)
        BY <1>0, <4>1 DEF CallPlaces, Up, Living
      <4>3. d # c
        BY <2>2, <4>1, <4>2 DEF h
      <4> QED BY <2>1, <4>1, <4>3
    <3>2. \A d \in Caller : step'[d].name = "refill" => step[d].name = "refill" /\ step'[d] = step[d]
      BY <2>1
    <3>3. \A d \in Caller : InStart(d, "autopilot")' => InStart(d, "autopilot") /\ step'[d] = step[d]
      BY <1>0, <2>1, <2>5
    <3> QED BY <1>0, <2>0, <2>2, <2>4, <3>1, <3>2, <3>3 DEF AutoKnown
  <2> QED BY <2>3, <2>6, <2>7 DEF DaemonInv
\* autopilot's run looks at the file, empties it and writes itself there.
<1>13. ASSUME NEW p \in Pid, CheckFile(p) PROVE DaemonInv'
  <2> DEFINE h == Underway("autopilot", p)
  <2>0. /\ h \in BOOLEAN /\ Slips("autopilot", h) /\ ~Living(pidFile["autopilot"])
        /\ runner[p].kind = "autopilot" /\ runner[p].stage = "booting"
        /\ StageTo(p, "checked") /\ UNCHANGED <<pidFile, pidTmp, step>>
    BY <1>13 DEF CheckFile, FindsNobody, Underway
  <2>1. ~h => /\ \A c \in Caller : InStart(c, "autopilot") => step[c].pid = p
              /\ \A q \in Pid \ {p} : ~Coming(q)
    BY DEF Underway, InStart, Coming
  <2> HIDE DEF h
  <2>2. /\ slip' \in [Kind -> BOOLEAN] /\ slip'["reproctl"] = slip["reproctl"]
        /\ ~slip'["autopilot"] => ~slip["autopilot"] /\ ~h
    BY <1>0, <2>0, SlipMoves
  <2>3. /\ runner' \in [Pid -> Controller] /\ runner'[p].stage = "checked" /\ runner'[p].kind = "autopilot"
        /\ \A q \in Pid : q # p => runner'[q] = runner[q]
    BY <1>0, <2>0, ControllerStages DEF Stage
  <2>4. DaemonTypeOK' /\ CallPlaces'
    BY <1>0, <2>0, <2>2, <2>3 DEF DaemonTypeOK, CallPlaces
  <2>5. /\ \A q \in Pid : Lives(q, "reproctl")' <=> Lives(q, "reproctl")
        /\ \A q \in Pid : (Up(q)' <=> Up(q)) /\ (Coming(q)' => q = p \/ Coming(q))
        /\ \A c \in Caller, k \in Kind : InStart(c, k)' <=> InStart(c, k)
    BY <2>0, <2>3 DEF Lives, Living, Up, Coming, InStart
  <2>6. ReproKnown'
    BY <1>0, <2>0, <2>2, <2>5, ReproStays
  <2>7. AutoKnown'
    <3> SUFFICES ASSUME ~slip'["autopilot"] PROVE AutoKnown'
      BY DEF AutoKnown
    <3>1. \A q \in Pid : Coming(q)' => q = p
      BY <2>1, <2>2, <2>5
    <3>2. \A q \in Pid : ~Up(q)
      <4> SUFFICES ASSUME NEW q \in Pid, Up(q) PROVE FALSE
        OBVIOUS
      <4>1. q # pidFile["autopilot"] /\ q # p
        BY <2>0 DEF Up, Living
      <4>2. PICK c \in Caller : step[c].name = "refill" /\ step[c].pid = q
        BY <1>0, <2>2, <4>1 DEF AutoKnown
      <4>3. InStart(c, "autopilot")
        BY <1>0, <4>2 DEF InStart, CallPlaces, Starting
      <4> QED BY <2>1, <2>2, <4>1, <4>2, <4>3
    <3>3. \A c \in Caller : InStart(c, "autopilot")' => step'[c].pid = p
      BY <1>0, <2>0, <2>1, <2>2, <2>5
    <3>4. \A q \in Pid : runner'[q].stage = "claiming" => runner[q].stage = "claiming"
      BY <2>3
    <3> QED BY <1>0, <2>0, <2>2, <2>5, <3>1, <3>2, <3>3, <3>4 DEF AutoKnown
  <2> QED BY <2>4, <2>6, <2>7 DEF DaemonInv
<1>14. ASSUME NEW p \in Pid, EmptyFile(p) PROVE DaemonInv'
  <2>1. /\ runner[p].stage = "checked" /\ runner[p].kind = "autopilot"
        /\ OnFile("autopilot", Blank) /\ StageTo(p, "claiming") /\ UNCHANGED <<pidTmp, step, slip>>
    BY <1>0, <1>14 DEF EmptyFile, CallPlaces
  <2>2. /\ pidFile' \in [Kind -> Pid \cup {0, Blank}] /\ pidFile'["autopilot"] = Blank
        /\ pidFile'["reproctl"] = pidFile["reproctl"]
    BY <1>0, <2>1, FileMoves
  <2>3. /\ runner' \in [Pid -> Controller] /\ runner'[p].stage = "claiming" /\ runner'[p].kind = "autopilot"
        /\ \A q \in Pid : q # p => runner'[q] = runner[q]
    BY <1>0, <2>1, ControllerStages DEF Stage
  <2>4. DaemonTypeOK' /\ CallPlaces'
    BY <1>0, <2>1, <2>2, <2>3 DEF DaemonTypeOK, CallPlaces
  <2>5. /\ \A q \in Pid : Lives(q, "reproctl")' <=> Lives(q, "reproctl")
        /\ \A q \in Pid : (Up(q)' <=> Up(q)) /\ (Coming(q)' <=> Coming(q))
        /\ \A c \in Caller, k \in Kind : InStart(c, k)' <=> InStart(c, k)
        /\ Coming(p)
    BY <2>1, <2>3 DEF Lives, Living, Up, Coming, InStart
  <2>6. ReproKnown'
    BY <1>0, <2>1, <2>2, <2>5, ReproStays
  <2>7. AutoKnown'
    <3> SUFFICES ASSUME ~slip["autopilot"] PROVE AutoKnown'
      BY <2>1 DEF AutoKnown
    <3>1. \A q \in Pid : ~Up(q)
      <4> SUFFICES ASSUME NEW q \in Pid, Up(q) PROVE FALSE
        OBVIOUS
      <4>1. q = p
        BY <1>0, <2>5 DEF AutoKnown
      <4> QED BY <2>1, <4>1 DEF Up
    <3> QED BY <1>0, <2>1, <2>2, <2>5, <3>1 DEF AutoKnown
  <2> QED BY <2>4, <2>6, <2>7 DEF DaemonInv
<1>15. ASSUME NEW p \in Pid, ClaimFile(p) PROVE DaemonInv'
  <2>1. /\ runner[p].stage = "claiming" /\ runner[p].kind = "autopilot"
        /\ FillsFile("autopilot", p) /\ StageTo(p, "up") /\ UNCHANGED <<pidTmp, step, slip>>
    BY <1>0, <1>15 DEF ClaimFile, CallPlaces
  <2>2. PICK text \in Overlaid(pidFile["autopilot"], p) : OnFile("autopilot", text)
    BY <2>1 DEF FillsFile
  <2>3. text \in {p, 0} /\ text \in Pid \cup {0, Blank}
    BY <1>0, <2>2 DEF Overlaid
  <2>4. /\ pidFile' \in [Kind -> Pid \cup {0, Blank}] /\ pidFile'["autopilot"] = text
        /\ pidFile'["reproctl"] = pidFile["reproctl"]
    BY <1>0, <2>2, <2>3, FileMoves
  <2>5. /\ runner' \in [Pid -> Controller] /\ runner'[p].stage = "up" /\ runner'[p].kind = "autopilot"
        /\ \A q \in Pid : q # p => runner'[q] = runner[q]
    BY <1>0, <2>1, ControllerStages DEF Stage
  <2>6. DaemonTypeOK' /\ CallPlaces'
    BY <1>0, <2>1, <2>4, <2>5 DEF DaemonTypeOK, CallPlaces
  <2>7. /\ \A q \in Pid : Lives(q, "reproctl")' <=> Lives(q, "reproctl")
        /\ \A q \in Pid : Up(q)' => Up(q) \/ q = p
        /\ \A q \in Pid : Coming(q)' => Coming(q) /\ q # p
        /\ \A c \in Caller, k \in Kind : InStart(c, k)' <=> InStart(c, k)
        /\ Coming(p)
    BY <2>1, <2>5 DEF Lives, Living, Up, Coming, InStart
  <2>8. ReproKnown'
    BY <1>0, <2>1, <2>4, <2>7, ReproStays
  <2>9. AutoKnown'
    <3> SUFFICES ASSUME ~slip["autopilot"] PROVE AutoKnown'
      BY <2>1 DEF AutoKnown
    <3>1. \A q \in Pid : (Up(q)' => q = p) /\ ~Coming(q)'
      BY <1>0, <2>7 DEF AutoKnown
    <3>2. pidFile["autopilot"] \in {Blank, 0, p}
      BY <1>0, <2>1 DEF AutoKnown
    <3>3. pidFile'["autopilot"] = p
      BY <1>0, <2>2, <2>4, <3>2 DEF Overlaid
    <3>4. \A c \in Caller : InStart(c, "autopilot") => step[c].pid = p
      BY <1>0, <2>7 DEF AutoKnown
    <3>5. \A c \in Caller : step[c].name = "refill" => InStart(c, "autopilot")
      BY <1>0 DEF InStart, CallPlaces, Starting
    <3>6. \A q \in Pid : runner'[q].stage # "claiming"
      BY <2>6, <3>1 DEF Coming, CallPlaces
    <3> QED BY <1>0, <2>1, <2>7, <3>1, <3>3, <3>4, <3>5, <3>6 DEF AutoKnown
  <2> QED BY <2>6, <2>8, <2>9 DEF DaemonInv
\* The steps that come under the first three.
<1>16. ASSUME NEW p \in Pid, NEW r \in Controller, Begins(p, r), r.kind # "reproctl", r.stage = "booting",
              UNCHANGED <<pidFile, pidTmp, step, slip>>
       PROVE  DaemonInv'
  <2>1. runner' \in [Pid -> Controller] /\ \A q \in Pid : runner'[q] = IF q = p THEN r ELSE runner[q]
    BY <1>0, <1>16, ControllerMoves DEF Begins
  <2>2. (Coming(p)' => Coming(p)) /\ (Up(p)' => Up(p))
    BY <1>16, <2>1 DEF Coming, Up
  <2> QED BY <1>1, <1>16, <2>1, <2>2
<1>17. ASSUME NEW p \in Pid, RunForeground(p) \/ RunAutopilot(p) PROVE DaemonInv'
  <2>1. \A k \in {"foreground", "autopilot"}, l \in BOOLEAN :
          LET r == [kind |-> k, stage |-> "booting", leads |-> l]
          IN  r \in Controller /\ r.kind # "reproctl" /\ r.stage = "booting"
    BY DEF Controller, Kind, Stage
  <2>2. PICK r \in Controller : Begins(p, r) /\ r.kind # "reproctl" /\ r.stage = "booting"
                                /\ UNCHANGED <<pidFile, pidTmp, step, slip>>
    BY <1>17, <2>1 DEF RunForeground, RunAutopilot
  <2> QED BY <1>16, <2>2
<1>18. ASSUME NEW p \in Pid, GiveUp(p) \/ EndController(p) \/ CrashController(p) PROVE DaemonInv'
  <2>1. Gone(p) /\ UNCHANGED <<pidFile, pidTmp, step, slip>>
    BY <1>18 DEF GiveUp, EndController, CrashController
  <2>2. /\ runner' \in [Pid -> Controller] /\ runner'[p].stage = "down"
        /\ \A q \in Pid : q # p => runner'[q] = runner[q]
    BY <1>0, <2>1, GoneMoves
  <2> QED BY <1>1, <2>1, <2>2 DEF Coming, Up
<1>19. ASSUME NEW p \in Pid, BootController(p) \/ EndAutopilot(p) PROVE DaemonInv'
  <2>1. PICK s \in {"up", "leaving"} : StageTo(p, s) /\ UNCHANGED <<pidFile, pidTmp, step, slip>> /\ Living(p)
            /\ (s = "leaving" => runner[p].kind = "autopilot") /\ (s = "up" => runner[p].kind # "autopilot")
    BY <1>19 DEF BootController, EndAutopilot, Living
  <2>2. /\ runner' \in [Pid -> Controller] /\ runner'[p].stage = s /\ runner'[p].kind = runner[p].kind
        /\ \A q \in Pid : q # p => runner'[q] = runner[q]
    BY <1>0, <2>1, ControllerStages DEF Stage
  <2> QED BY <1>1, <2>1, <2>2 DEF Coming, Up
<1>20. ASSUME NEW p \in Pid, EmptyOwn(p) PROVE DaemonInv'
  <2>1. runner[p].stage = "leaving" /\ StageTo(p, "ending") /\ Strikes("autopilot", p, Blank) /\ UNCHANGED <<pidTmp, step>>
    BY <1>20 DEF EmptyOwn
  <2>2. /\ runner' \in [Pid -> Controller] /\ runner'[p].stage = "ending" /\ runner'[p].kind = runner[p].kind
        /\ \A q \in Pid : q # p => runner'[q] = runner[q]
    BY <1>0, <2>1, ControllerStages DEF Stage
  <2> QED BY <1>0, <1>3, <2>1, <2>2
<1>21. ASSUME NEW p \in Pid, ZeroOwn(p) PROVE DaemonInv'
  <2>1. Gone(p) /\ Strikes("autopilot", p, 0) /\ UNCHANGED <<pidTmp, step>>
    BY <1>21 DEF ZeroOwn
  <2>2. /\ runner' \in [Pid -> Controller] /\ runner'[p].stage = "down"
        /\ \A q \in Pid : q # p => runner'[q] = runner[q]
    BY <1>0, <2>1, GoneMoves
  <2> QED BY <1>0, <1>3, <2>1, <2>2
<1>22. ASSUME NEW c \in Caller, ConfirmChild(c) PROVE DaemonInv'
  <2>1. step[c].name = "confirm" /\ step[c].kind = "reproctl" /\ UNCHANGED <<pidFile, pidTmp, runner, slip>>
        /\ (Onto(c, "again") \/ Finished(c))
    BY <1>0, <1>22 DEF ConfirmChild, Due, CallPlaces
  <2>2. /\ step' \in [Caller -> CallStep] /\ \A d \in Caller \ {c} : step'[d] = step[d]
        /\ step'[c].name = "none" \/ (step'[c].name = "again" /\ step'[c].kind = "reproctl")
    BY <1>0, <2>1, OntoMoves, FinishMoves
  <2> QED BY <1>2, <2>1, <2>2 DEF Starting
<1>23. ASSUME NEW c \in Caller, ConfirmAgain(c) PROVE DaemonInv'
  <2>1. step[c].name = "again" /\ UNCHANGED <<pidTmp, runner>>
    BY <1>23 DEF ConfirmAgain, Due
  <2>2. CASE Living(step[c].pid)
    <3>1. Finished(c) /\ UNCHANGED <<pidFile, slip>>
      BY <1>23, <2>2 DEF ConfirmAgain
    <3>2. /\ step' \in [Caller -> CallStep] /\ \A d \in Caller \ {c} : step'[d] = step[d]
          /\ step'[c].name = "none"
      BY <1>0, <3>1, FinishMoves
    <3> QED BY <1>2, <2>1, <3>1, <3>2 DEF Starting
  <2>3. CASE ~Living(step[c].pid)
    <3>1. Unlinks(c) /\ Strikes("reproctl", 0, Blank)
      BY <1>23, <2>3 DEF ConfirmAgain
    <3>2. /\ step' \in [Caller -> CallStep] /\ step'[c].name = "none"
          /\ \A d \in Caller \ {c} : /\ step'[d].name = step[d].name /\ step'[d].kind = step[d].kind
                                     /\ step'[d].pid = step[d].pid
                                     /\ step[d].at # "file" => step'[d].at = step[d].at
      BY <1>0, <3>1, UnlinkMoves
    <3> QED BY <1>0, <1>3, <2>1, <3>1, <3>2 DEF Starting
  <2> QED BY <2>2, <2>3
<1>24. ASSUME NEW c \in Caller, ClearFile(c) PROVE DaemonInv'
  <2>1. step[c].name = "clear" /\ UNCHANGED <<pidTmp, runner>> /\ Unlinks(c) /\ Strikes("reproctl", 0, Blank)
    BY <1>24 DEF ClearFile, Due
  <2>2. /\ step' \in [Caller -> CallStep] /\ step'[c].name = "none"
        /\ \A d \in Caller \ {c} : /\ step'[d].name = step[d].name /\ step'[d].kind = step[d].kind
                                   /\ step'[d].pid = step[d].pid
                                   /\ step[d].at # "file" => step'[d].at = step[d].at
    BY <1>0, <2>1, UnlinkMoves
  <2> QED BY <1>0, <1>3, <2>1, <2>2 DEF Starting
<1>25. ASSUME NEW c \in Caller, EmptyStopped(c) PROVE DaemonInv'
  <2>1. step[c].name = "zero" /\ step[c].kind = "autopilot" /\ UNCHANGED <<pidTmp, runner>>
        /\ Onto(c, "rezero") /\ Strikes("autopilot", 0, Blank)
    BY <1>0, <1>25 DEF EmptyStopped, Due, CallPlaces
  <2>2. /\ step' \in [Caller -> CallStep] /\ step'[c].name = "rezero" /\ step'[c].kind = "autopilot"
        /\ \A d \in Caller \ {c} : step'[d] = step[d]
    BY <1>0, <2>1, OntoMoves
  <2> QED BY <1>0, <1>3, <2>1, <2>2
<1>26. ASSUME NEW c \in Caller, ZeroStopped(c) PROVE DaemonInv'
  <2>1. step[c].name = "rezero" /\ UNCHANGED <<pidTmp, runner>> /\ Finished(c) /\ Strikes("autopilot", 0, 0)
    BY <1>26 DEF ZeroStopped, Due
  <2>2. /\ step' \in [Caller -> CallStep] /\ step'[c].name = "none"
        /\ \A d \in Caller \ {c} : step'[d] = step[d]
    BY <1>0, <2>1, FinishMoves
  <2> QED BY <1>0, <1>3, <2>1, <2>2 DEF Starting
<1>27. ASSUME NEW c \in Caller, StopAutopilot(c) PROVE DaemonInv'
  <2>1. step[c].name = "none" /\ UNCHANGED <<pidFile, pidTmp, runner, slip>> /\ Enters(c, "zero", "autopilot", 0)
    BY <1>27 DEF StopAutopilot, Free, NoStep
  <2>2. /\ step' \in [Caller -> CallStep] /\ \A d \in Caller \ {c} : step'[d] = step[d]
        /\ step'[c].name = "zero" /\ step'[c].kind = "autopilot"
    BY <1>0, <2>1, EnterMoves
  <2> QED BY <1>2, <2>1, <2>2 DEF Starting
<1>28. ASSUME NEW c \in Caller, NEW k \in Kind, DaemonStop(c, k) PROVE DaemonInv'
  <2>1. step[c].name = "none" /\ UNCHANGED <<pidFile, pidTmp, runner, slip>> /\ Enters(c, "kill", k, pidFile[k])
        /\ pidFile[k] \in Pid \cup {0}
    BY <1>0, <1>28 DEF DaemonStop, Free, NoStep
  <2>2. /\ step' \in [Caller -> CallStep] /\ \A d \in Caller \ {c} : step'[d] = step[d]
        /\ step'[c].name = "kill"
    BY <1>0, <2>1, EnterMoves
  <2> QED BY <1>2, <2>1, <2>2 DEF Starting
\* A stop kills, and goes on: the two are one step that the first two cover one after the
\* other.
<1>29. ASSUME NEW c \in Caller, KillDaemon(c) PROVE DaemonInv'
  <2> DEFINE name == IF step[c].kind = "reproctl" THEN "clear" ELSE "zero"
  <2>1. step[c].name = "kill" /\ UNCHANGED <<pidFile, pidTmp, slip>> /\ Enters(c, name, step[c].kind, 0)
        /\ ((Gone(step[c].pid) /\ Living(step[c].pid)) \/ UNCHANGED runner)
    BY <1>29 DEF KillDaemon, Due
  <2>2. /\ name \in {"clear", "zero"} /\ (name = "clear" <=> step[c].kind = "reproctl")
        /\ (name = "zero" => step[c].kind = "autopilot")
    BY <1>0
  <2>3. PICK n \in {"clear", "zero"} : /\ Enters(c, n, step[c].kind, 0) /\ (n = "clear" <=> step[c].kind = "reproctl")
                                       /\ (n = "zero" => step[c].kind = "autopilot")
    BY <2>1, <2>2
  <2> HIDE DEF name
  <2>4. /\ step' \in [Caller -> CallStep] /\ \A d \in Caller \ {c} : step'[d] = step[d]
        /\ step'[c].name = n /\ step'[c].kind = step[c].kind
    BY <1>0, <2>3, EnterMoves
  <2>5. /\ runner' \in [Pid -> Controller]
        /\ \A q \in Pid : runner'[q] = runner[q] \/ runner'[q].stage = "down"
    <3>1. CASE UNCHANGED runner
      BY <1>0, <3>1
    <3>2. CASE Gone(step[c].pid) /\ Living(step[c].pid)
      BY <3>2, <1>0, GoneMoves DEF Living
    <3> QED BY <2>1, <3>1, <3>2
  <2>6. DaemonTypeOK' /\ CallPlaces'
    BY <1>0, <2>1, <2>3, <2>4, <2>5 DEF DaemonTypeOK, CallPlaces
  <2>7. /\ \A q \in Pid : /\ Lives(q, "reproctl")' => Lives(q, "reproctl")
                          /\ (Up(q)' => Up(q)) /\ (Coming(q)' => Coming(q))
                          /\ runner'[q].stage = "claiming" => runner[q].stage = "claiming"
        /\ \A d \in Caller : /\ InStart(d, "reproctl")' <=> InStart(d, "reproctl")
                             /\ InStart(d, "autopilot")' <=> InStart(d, "autopilot")
                             /\ InStart(d, "reproctl") \/ InStart(d, "autopilot") => step'[d] = step[d]
                             /\ step'[d].name = "refill" \/ step[d].name = "refill" => step'[d] = step[d]
    BY <2>1, <2>3, <2>4, <2>5 DEF Lives, Living, Up, Coming, InStart, Starting
  <2>8. ReproKnown'
    BY <1>0, <2>1, <2>7, ReproStays
  <2>9. AutoKnown'
    BY <1>0, <2>1, <2>7, AutoStays
  <2> QED BY <2>6, <2>8, <2>9 DEF DaemonInv
<1>30. CASE UNCHANGED daemonVars
  <2>1. UNCHANGED <<pidFile, pidTmp, runner, step, slip>>
    BY <1>30 DEF daemonVars
  <2> QED BY <1>0, <2>1 DEF DaemonInv, DaemonTypeOK, CallPlaces, ReproKnown, AutoKnown, Lives, Living, Up, Coming, InStart
<1> QED BY <1>4, <1>5, <1>7, <1>8, <1>9, <1>10, <1>11, <1>12, <1>13, <1>14, <1>15, <1>17, <1>18, <1>19, <1>20, <1>21,
           <1>22, <1>23, <1>24, <1>25, <1>26, <1>27, <1>28, <1>29, <1>30 DEF DaemonNext

\* However many commands run at once and wherever they and the controllers are killed: two
\* controllers of a kind are at work together only where two looked at the pid file before
\* either had written it, a start was killed before its child was on file, or somebody
\* struck a living controller's pid off; otherwise status and recover know of the one at
\* work (cmd_daemon of reproctl and autopilot, cmd_run, cmd_recover).
THEOREM OneDaemonOnly == DaemonSpec => []OneDaemonPerKind
<1>1. DaemonInit => DaemonInv
  <2> SUFFICES ASSUME DaemonInit PROVE DaemonInv
    OBVIOUS
  <2>1. NoStep \in CallStep /\ NoStep.name = "none" /\ NoController \in Controller /\ NoController.stage = "free"
    BY DEF NoStep, CallStep, NoController, Controller, Kind, Stage
  <2>2. /\ \A c \in Caller : step[c] = NoStep
        /\ \A p \in Pid : runner[p] = NoController
    BY DEF DaemonInit
  <2>3. DaemonTypeOK
    BY <2>1 DEF DaemonInit, DaemonTypeOK
  <2>4. CallPlaces
    BY <2>1, <2>2 DEF CallPlaces
  <2>5. ReproKnown /\ AutoKnown
    BY <2>1, <2>2 DEF ReproKnown, AutoKnown, Lives, Living, InStart, Up, Coming, Starting
  <2> QED BY <2>3, <2>4, <2>5 DEF DaemonInv
<1>2. DaemonInv => OneDaemonPerKind
  <2> SUFFICES ASSUME DaemonInv PROVE OneDaemonPerKind
    OBVIOUS
  <2>0. DaemonTypeOK /\ CallPlaces /\ ReproKnown /\ AutoKnown /\ Blank \notin Pid
    BY PidsAreNumbers DEF DaemonInv
  <2>1. ASSUME NEW k \in Kind, ~slip[k], NEW p \in AtWork(k), NEW q \in AtWork(k) PROVE p = q
    <3>1. CASE k = "reproctl"
      <4>1. p \in Pid /\ q \in Pid /\ Lives(p, "reproctl") /\ Lives(q, "reproctl")
        BY <2>1, <3>1 DEF AtWork, Lives, Living
      <4> QED BY <2>0, <2>1, <3>1, <4>1 DEF ReproKnown
    <3>2. CASE k = "autopilot"
      <4>1. p \in Pid /\ q \in Pid /\ Up(p) /\ Up(q)
        BY <2>1, <3>2 DEF AtWork, Up
      <4>2. \A c \in Caller : step[c].name = "refill" => InStart(c, "autopilot")
        BY <2>0 DEF InStart, CallPlaces, Starting
      <4> QED BY <2>0, <2>1, <3>2, <4>1, <4>2 DEF AutoKnown
    <3> QED BY <3>1, <3>2 DEF Kind
  <2>2. ASSUME NEW k \in Kind, ~slip[k], NoStart(k), NEW p \in AtWork(k) PROVE DaemonStatus(k) = "RUNNING"
    <3>1. p \in Pid /\ Living(p) /\ runner[p].kind = k /\ runner[p].stage = "up"
      BY <2>2 DEF AtWork, Living
    <3>2. \A c \in Caller : ~InStart(c, k)
      BY <2>2 DEF NoStart, InStart
    <3>3. CASE k = "reproctl"
      <4>1. p = pidFile[k]
        BY <2>0, <2>2, <3>1, <3>2, <3>3 DEF ReproKnown, Lives
      <4> QED BY <2>0, <3>1, <4>1 DEF DaemonStatus
    <3>4. CASE k = "autopilot"
      <4>1. \A c \in Caller : step[c].name # "refill"
        BY <2>0, <3>2, <3>4 DEF InStart, CallPlaces, Starting
      <4>2. p = pidFile[k]
        BY <2>0, <2>2, <3>1, <3>4, <4>1 DEF AutoKnown, Up
      <4> QED BY <2>0, <3>1, <4>2 DEF DaemonStatus
    <3> QED BY <3>3, <3>4 DEF Kind
  <2>3. ASSUME NEW k \in Kind, ~slip[k] PROVE Cardinality(AtWork(k)) <= 1
    <3>1. CASE AtWork(k) = {}
      BY <3>1, FS_EmptySet
    <3>2. CASE AtWork(k) # {}
      <4>1. PICK p : p \in AtWork(k)
        BY <3>2
      <4> QED BY <2>1, <2>3, <4>1, AtMostOne
    <3> QED BY <3>1, <3>2
  <2>4. "autopilot" \in Kind
    BY DEF Kind
  <2> QED BY <2>2, <2>3, <2>4 DEF OneDaemonPerKind, RecoverAutopilot
<1> QED BY <1>1, <1>2, DaemonInductive, PTL DEF DaemonSpec

-----------------------------------------------------------------------------
(* reproctl: the tracker and the ledger *)

\* The rows are the experiments recorded, each once.
HoldsAll(filed) ==
  /\ filed \in Seq(Experiment) /\ IsFiniteSet(entered)
  /\ Cardinality(entered) = Len(filed) /\ ToSet(filed) = entered

\* Tracker commands have not met: there is one at most, and where it is tells what the
\* file and its hands hold.
TrackerHeld ==
  /\ \A c, d \in Tracking : c = d
  /\ trackerFile = "whole" => HoldsAll(tracker)
  /\ trackerFile = "emptied" => \E c \in Command : cpc[c] = "refill"
  /\ \A c \in Command :
       /\ cpc[c] = "record" =>
            trackerFile = "whole" /\ \E x \in Experiment \ ToSet(tracker) : crow[c] = <<x>>
       /\ cpc[c] = "rewrite" => trackerFile = "whole" /\ crow[c] = tracker
       /\ cpc[c] = "refill" => trackerFile = "emptied" /\ HoldsAll(crow[c])

TrackerInv == TrackerTypeOK /\ (~rewriteCut => TrackerHeld)

\* A step of the ledger's commands moves one that is not at the tracker, and does not go to.
LEMMA LedgerStep ==
  ASSUME TrackerInv, UNCHANGED trackerVars,
         \/ UNCHANGED cpc
         \/ \E c \in Command, place \in CommandPlace \ {"record", "rewrite", "refill"} :
              CommandAt(c, place) /\ cpc[c] \notin {"record", "rewrite", "refill"}
  PROVE  TrackerInv'
<1>1. cpc \in [Command -> CommandPlace] /\ TrackerTypeOK /\ (~rewriteCut => TrackerHeld)
  BY DEF TrackerInv, TrackerTypeOK
<1>2. /\ cpc' \in [Command -> CommandPlace]
      /\ \A d \in Command, at \in {"record", "rewrite", "refill"} : cpc'[d] = at <=> cpc[d] = at
  BY <1>1 DEF CommandAt
<1>3. TrackerTypeOK'
  BY <1>1, <1>2 DEF TrackerTypeOK, trackerVars
<1>4. Tracking' = Tracking
  BY <1>2 DEF Tracking
<1>5. ~rewriteCut' => TrackerHeld'
  BY <1>1, <1>2, <1>4 DEF TrackerHeld, HoldsAll, trackerVars
<1> QED BY <1>3, <1>5 DEF TrackerInv

\* A row that is appended is one more, of one more experiment.
LEMMA OneMoreRow ==
  ASSUME NEW s \in Seq(Experiment), NEW x \in Experiment
  PROVE  /\ s \o <<x>> \in Seq(Experiment) /\ Len(s \o <<x>>) = Len(s) + 1
         /\ ToSet(s \o <<x>>) = ToSet(s) \cup {x} /\ ToSet(<<x>>) = {x}
<1>1. ToSet(<<x>>) = {x}
  BY DEF ToSet
<1>2. s \o <<x>> \in Seq(Experiment) /\ Len(s \o <<x>>) = Len(s) + 1
  OBVIOUS
<1>3. \A i \in 1..Len(s) : (s \o <<x>>)[i] = s[i]
  OBVIOUS
<1>4. (s \o <<x>>)[Len(s) + 1] = x
  OBVIOUS
<1>5. DOMAIN (s \o <<x>>) = 1..Len(s) + 1 /\ DOMAIN s = 1..Len(s)
  BY <1>2
<1> DEFINE t == s \o <<x>>
<1>6. \A i \in DOMAIN t : t[i] \in ToSet(s) \cup {x}
  BY <1>3, <1>4, <1>5 DEF ToSet
<1>7. \A y \in ToSet(s) \cup {x} : \E i \in DOMAIN t : t[i] = y
  <2>1. ASSUME NEW i \in DOMAIN s PROVE i \in DOMAIN t /\ t[i] = s[i]
    BY <1>3, <1>5, <2>1
  <2>2. Len(s) + 1 \in DOMAIN t /\ t[Len(s) + 1] = x
    BY <1>4, <1>5
  <2> QED BY <2>1, <2>2 DEF ToSet
<1> HIDE DEF t
<1>8. ToSet(t) = ToSet(s) \cup {x}
  BY <1>6, <1>7 DEF ToSet
<1> QED BY <1>1, <1>2, <1>8 DEF t

LEMMA TrackerInductive == TrackerInv /\ [ReproNext]_reproVars => TrackerInv'
<1> SUFFICES ASSUME TrackerInv, [ReproNext]_reproVars PROVE TrackerInv'
  OBVIOUS
<1> DEFINE Place == CommandPlace
<1>0. /\ TrackerTypeOK /\ (~rewriteCut => TrackerHeld)
      /\ cpc \in [Command -> Place] /\ crow \in [Command -> Seq(Experiment)]
      /\ tracker \in Seq(Experiment) /\ entered \subseteq Experiment
  BY DEF TrackerInv, TrackerTypeOK
<1>00. rewriteCut \in BOOLEAN /\ trackerFile \in {"whole", "emptied"}
  BY <1>0 DEF TrackerTypeOK
<1>000. {"idle", "set", "launch", "train", "loop", "fill", "put", "done"}
          = CommandPlace \ {"record", "rewrite", "refill"}
  BY DEF CommandPlace
\* The ledger's commands.
<1>1. ASSUME NEW c \in Command,
             \/ InitProject(c) \/ SaveGate(c) \/ LaunchRecord(c) \/ LaunchEnd(c) \/ ShortLoopSave(c)
      PROVE  TrackerInv'
  <2>1. \E copy, keys : SaveState(c, copy, keys)
    BY <1>1 DEF InitProject, SaveGate, LaunchRecord, LaunchEnd, ShortLoopSave
  <2>2. UNCHANGED trackerVars /\ CommandAt(c, "fill")
    BY <2>1 DEF SaveState
  <2>3. cpc[c] \in {"idle", "set", "launch", "train", "loop"}
    BY <1>1 DEF InitProject, SaveGate, LaunchRecord, LaunchEnd, ShortLoopSave
  <2> QED BY <1>000, <2>2, <2>3, LedgerStep
<1>2. ASSUME NEW c \in Command,
             \/ \E g \in Gate, status \in {"passed", "failed", "pending"} : UpdateGate(c, g, status)
             \/ LaunchLoad(c) \/ ShortLoopLoad(c)
      PROVE  TrackerInv'
  <2>1. \E place \in {"set", "launch", "loop"} : \E keys, copy : Load(c, place, keys, copy)
    BY <1>2 DEF UpdateGate, LaunchLoad, ShortLoopLoad
  <2>2. UNCHANGED trackerVars /\ cpc[c] = "idle" /\ \E place \in {"set", "launch", "loop"} : CommandAt(c, place)
    BY <2>1 DEF Load
  <2> QED BY <1>000, <2>2, LedgerStep
<1>3. ASSUME NEW c \in Command, FillState(c) PROVE TrackerInv'
  BY <1>000, <1>3, LedgerStep DEF FillState
<1>4. ASSUME NEW c \in Command, PutState(c) PROVE TrackerInv'
  <2>1. UNCHANGED trackerVars /\ cpc[c] = "put" /\ \E place \in {"train", "done"} : CommandAt(c, place)
    BY <1>4 DEF PutState, Leave
  <2> QED BY <1>000, <2>1, LedgerStep
\* The tracker's.
<1>7. ASSUME NEW c \in Command, NEW place \in Place, CommandAt(c, place)
      PROVE  /\ cpc' \in [Command -> Place] /\ cpc'[c] = place
             /\ \A d \in Command : d # c => cpc'[d] = cpc[d]
  BY <1>0, <1>7 DEF CommandAt
<1>70. {"record", "rewrite", "refill", "done"} \subseteq Place
  BY DEF CommandPlace
<1>8. ASSUME NEW c \in Command, NEW row \in Seq(Experiment), crow' = [crow EXCEPT ![c] = row]
      PROVE  /\ crow' \in [Command -> Seq(Experiment)] /\ crow'[c] = row
             /\ \A d \in Command : d # c => crow'[d] = crow[d]
  BY <1>0, <1>8
\* One that begins has met nobody, or there is nothing to show.
<1>9. ASSUME NEW c \in Command, cpc[c] = "idle", UNCHANGED <<tracker, trackerFile, entered, ledgerVars>>,
             rewriteCut' = (rewriteCut \/ Tracking # {}),
             NEW place \in {"record", "rewrite", "done"}, CommandAt(c, place),
             NEW row \in Seq(Experiment), crow' = [crow EXCEPT ![c] = row],
             place = "record" => \E x \in Experiment \ ToSet(tracker) : row = <<x>>,
             place = "rewrite" => row = tracker
      PROVE  TrackerInv'
  <2>00. place \in Place
    BY <1>70, <1>9
  <2>01. /\ cpc' \in [Command -> Place] /\ cpc'[c] = place /\ \A d \in Command : d # c => cpc'[d] = cpc[d]
    BY <1>7, <1>9, <2>00
  <2>1. /\ cpc' \in [Command -> Place] /\ cpc'[c] = place /\ \A d \in Command : d # c => cpc'[d] = cpc[d]
        /\ crow' \in [Command -> Seq(Experiment)] /\ crow'[c] = row /\ \A d \in Command : d # c => crow'[d] = crow[d]
    BY <1>8, <1>9, <2>01
  <2>0. rewriteCut' \in BOOLEAN
    BY <1>00, <1>9
  <2>2. TrackerTypeOK'
    BY <1>0, <1>9, <2>0, <2>1 DEF TrackerTypeOK
  <2>3. ASSUME ~rewriteCut' PROVE TrackerHeld'
    <3>1. TrackerHeld /\ Tracking = {}
      BY <1>0, <1>9, <2>3
    <3>2. \A d \in Command : cpc[d] \notin {"record", "rewrite", "refill"}
      BY <3>1 DEF Tracking
    <3>3. trackerFile = "whole" /\ HoldsAll(tracker)
      BY <1>00, <3>1, <3>2 DEF TrackerHeld
    <3>4. HoldsAll(tracker)' /\ trackerFile' = "whole"
      BY <1>9, <3>3 DEF HoldsAll
    <3>5. \A d \in Tracking' : d = c
      BY <2>1, <3>2 DEF Tracking
    <3>6. \A d \in Command : cpc'[d] \in {"record", "rewrite", "refill"} => d = c /\ cpc'[d] = place
      BY <2>1, <3>2
    <3> QED BY <1>9, <2>1, <3>4, <3>5, <3>6 DEF TrackerHeld
  <2> QED BY <2>2, <2>3 DEF TrackerInv
<1>10. ASSUME NEW c \in Command, NEW x \in Experiment, RecordRead(c, x) PROVE TrackerInv'
  <2>1. CASE x \notin ToSet(tracker)
    <3>1. CommandAt(c, "record") /\ crow' = [crow EXCEPT ![c] = <<x>>] /\ <<x>> \in Seq(Experiment)
      BY <1>10, <2>1 DEF RecordRead
    <3> QED BY <1>9, <1>10, <2>1, <3>1 DEF RecordRead
  <2>2. CASE x \in ToSet(tracker)
    <3>1. CommandAt(c, "done") /\ crow' = [crow EXCEPT ![c] = <<>>] /\ <<>> \in Seq(Experiment)
      BY <1>10, <2>2 DEF RecordRead
    <3> QED BY <1>9, <1>10, <3>1 DEF RecordRead
  <2> QED BY <2>1, <2>2
<1>11. ASSUME NEW c \in Command, UpdateRead(c) PROVE TrackerInv'
  <2>1. CommandAt(c, "rewrite") /\ crow' = [crow EXCEPT ![c] = tracker]
    BY <1>11 DEF UpdateRead
  <2> QED BY <1>0, <1>9, <1>11, <2>1 DEF UpdateRead
\* One that goes on is the only one.
<1>12. ASSUME NEW c \in Command, RecordAppend(c) PROVE TrackerInv'
  <2>1. /\ cpc[c] = "record" /\ tracker' = tracker \o crow[c] /\ CommandAt(c, "done")
        /\ crow' = [crow EXCEPT ![c] = <<>>] /\ entered' = entered \cup ToSet(crow[c])
        /\ UNCHANGED <<trackerFile, rewriteCut, ledgerVars>>
    BY <1>12 DEF RecordAppend
  <2>2. /\ cpc' \in [Command -> Place] /\ cpc'[c] = "done" /\ \A d \in Command : d # c => cpc'[d] = cpc[d]
    BY <1>7, <1>70, <2>1
  <2>3. /\ crow' \in [Command -> Seq(Experiment)] /\ \A d \in Command : d # c => crow'[d] = crow[d]
    <3>1. <<>> \in Seq(Experiment)
      OBVIOUS
    <3> QED BY <1>8, <2>1, <3>1
  <2>4. crow[c] \in Seq(Experiment) /\ ToSet(crow[c]) \subseteq Experiment
    BY <1>0 DEF ToSet
  <2>5. tracker' \in Seq(Experiment) /\ entered' \subseteq Experiment
    BY <1>0, <2>1, <2>4
  <2>6. TrackerTypeOK'
    BY <1>0, <2>1, <2>2, <2>3, <2>5 DEF TrackerTypeOK
  <2>7. ASSUME ~rewriteCut' PROVE TrackerHeld'
    <3>1. TrackerHeld
      BY <1>0, <2>1, <2>7
    <3>2. PICK x \in Experiment \ ToSet(tracker) : crow[c] = <<x>>
      BY <2>1, <3>1 DEF TrackerHeld
    <3>3. HoldsAll(tracker) /\ trackerFile = "whole"
      BY <2>1, <3>1 DEF TrackerHeld
    <3>4. /\ Len(tracker') = Len(tracker) + 1 /\ ToSet(tracker') = ToSet(tracker) \cup {x}
          /\ ToSet(crow[c]) = {x}
      BY <1>0, <2>1, <3>2, OneMoreRow
    <3>5. entered' = entered \cup {x} /\ x \notin entered /\ IsFiniteSet(entered)
      BY <2>1, <3>2, <3>3, <3>4 DEF HoldsAll
    <3>6. IsFiniteSet(entered') /\ Cardinality(entered') = Cardinality(entered) + 1
      BY <3>5, FS_AddElement
    <3>7. HoldsAll(tracker)'
      BY <2>5, <3>3, <3>4, <3>5, <3>6 DEF HoldsAll
    <3>8. \A d \in Command : d # c => cpc[d] \notin {"record", "rewrite", "refill"}
      BY <2>1, <3>1 DEF TrackerHeld, Tracking
    <3>9. \A d \in Command : cpc'[d] \notin {"record", "rewrite", "refill"}
      BY <2>2, <3>8
    <3> QED BY <2>1, <3>3, <3>7, <3>9 DEF TrackerHeld, Tracking
  <2> QED BY <2>6, <2>7 DEF TrackerInv
<1>13. ASSUME NEW c \in Command, UpdateEmpty(c) PROVE TrackerInv'
  <2>1. /\ cpc[c] = "rewrite" /\ tracker' = <<>> /\ trackerFile' = "emptied" /\ CommandAt(c, "refill")
        /\ UNCHANGED <<crow, entered, rewriteCut, ledgerVars>>
    BY <1>13 DEF UpdateEmpty
  <2>2. /\ cpc' \in [Command -> Place] /\ cpc'[c] = "refill" /\ \A d \in Command : d # c => cpc'[d] = cpc[d]
    BY <1>7, <1>70, <2>1
  <2>3. TrackerTypeOK'
    BY <1>0, <2>1, <2>2 DEF TrackerTypeOK
  <2>4. ASSUME ~rewriteCut' PROVE TrackerHeld'
    <3>1. TrackerHeld
      BY <1>0, <2>1, <2>4
    <3>2. HoldsAll(crow[c])
      BY <2>1, <3>1 DEF TrackerHeld
    <3>4. \A d \in Command : cpc'[d] \in {"record", "rewrite", "refill"} => d = c
      BY <2>1, <2>2, <3>1 DEF TrackerHeld, Tracking
    <3> QED BY <2>1, <2>2, <3>2, <3>4 DEF TrackerHeld, Tracking, HoldsAll
  <2> QED BY <2>3, <2>4 DEF TrackerInv
<1>14. ASSUME NEW c \in Command, UpdateRefill(c) PROVE TrackerInv'
  <2>1. /\ cpc[c] = "refill" /\ tracker' = crow[c] /\ trackerFile' = "whole" /\ CommandAt(c, "done")
        /\ crow' = [crow EXCEPT ![c] = <<>>] /\ UNCHANGED <<entered, rewriteCut, ledgerVars>>
    BY <1>14 DEF UpdateRefill
  <2>2. /\ cpc' \in [Command -> Place] /\ cpc'[c] = "done" /\ \A d \in Command : d # c => cpc'[d] = cpc[d]
    BY <1>7, <1>70, <2>1
  <2>3. crow' \in [Command -> Seq(Experiment)] /\ crow[c] \in Seq(Experiment)
    BY <1>0, <1>8, <2>1
  <2>4. TrackerTypeOK'
    BY <1>0, <2>1, <2>2, <2>3 DEF TrackerTypeOK
  <2>5. ASSUME ~rewriteCut' PROVE TrackerHeld'
    <3>1. TrackerHeld
      BY <1>0, <2>1, <2>5
    <3>2. HoldsAll(crow[c])
      BY <2>1, <3>1 DEF TrackerHeld
    <3>3. HoldsAll(tracker)'
      <4>1. HoldsAll(tracker') /\ entered' = entered
        BY <2>1, <3>2
      <4> QED BY <4>1 DEF HoldsAll
    <3>4. \A d \in Command : cpc'[d] \notin {"record", "rewrite", "refill"}
      BY <2>1, <2>2, <3>1 DEF TrackerHeld, Tracking
    <3> QED BY <2>1, <3>3, <3>4 DEF TrackerHeld, Tracking
  <2> QED BY <2>4, <2>5 DEF TrackerInv
<1>15. ASSUME NEW c \in Command, KillCommandOf(c) PROVE TrackerInv'
  <2>1. /\ cpc[c] \notin {"idle", "done"} /\ Leave(c) /\ crow' = [crow EXCEPT ![c] = <<>>]
        /\ rewriteCut' = (rewriteCut \/ cpc[c] = "refill")
        /\ UNCHANGED <<tracker, trackerFile, entered>>
    BY <1>15 DEF KillCommandOf
  <2>2. /\ cpc' \in [Command -> Place] /\ cpc'[c] = "done" /\ \A d \in Command : d # c => cpc'[d] = cpc[d]
    BY <1>0, <2>1 DEF Leave, CommandAt, CommandPlace
  <2>3. crow' \in [Command -> Seq(Experiment)] /\ \A d \in Command : d # c => crow'[d] = crow[d]
    BY <1>0, <1>8, <2>1
  <2>4. rewriteCut' \in BOOLEAN
    BY <1>00, <2>1
  <2>5. TrackerTypeOK'
    BY <1>0, <2>1, <2>2, <2>3, <2>4 DEF TrackerTypeOK
  <2>6. ASSUME ~rewriteCut' PROVE TrackerHeld'
    <3>1. TrackerHeld /\ cpc[c] # "refill"
      BY <1>0, <2>1, <2>6
    <3>2. \A d \in Command : cpc'[d] \in {"record", "rewrite", "refill"} => d # c /\ cpc'[d] = cpc[d] /\ crow'[d] = crow[d]
      BY <2>2, <2>3
    <3>3. Tracking' \subseteq Tracking
      BY <2>2 DEF Tracking
    <3>4. trackerFile = "emptied" => \E d \in Command : cpc'[d] = "refill"
      BY <2>2, <3>1 DEF TrackerHeld
    <3>5. ASSUME NEW d \in Command, cpc'[d] = "refill" PROVE trackerFile' = "emptied" /\ HoldsAll(crow[d])'
      BY <2>1, <3>1, <3>2, <3>5 DEF TrackerHeld, HoldsAll
    <3>6. trackerFile' = "whole" => HoldsAll(tracker)'
      BY <2>1, <3>1 DEF TrackerHeld, HoldsAll
    <3> QED BY <2>1, <3>1, <3>2, <3>3, <3>4, <3>5, <3>6 DEF TrackerHeld
  <2> QED BY <2>5, <2>6 DEF TrackerInv
<1>16. CASE UNCHANGED reproVars
  BY <1>16, LedgerStep DEF reproVars, trackerVars
<1> QED BY <1>1, <1>2, <1>3, <1>4, <1>10, <1>11, <1>12, <1>13, <1>14, <1>15, <1>16 DEF ReproNext

LEMMA TrackerInitially == ReproInit => TrackerInv
<1> SUFFICES ASSUME ReproInit PROVE TrackerInv
  OBVIOUS
<1>1. /\ cpc = [c \in Command |-> "idle"] /\ tracker = <<>> /\ trackerFile = "whole" /\ entered = {}
      /\ crow = [c \in Command |-> <<>>] /\ rewriteCut = FALSE
  BY DEF ReproInit
<1>2. <<>> \in Seq(Experiment) /\ Len(<<>>) = 0 /\ ToSet(<<>>) = {}
  BY DEF ToSet
<1>3. IsFiniteSet({}) /\ Cardinality({}) = 0
  BY FS_EmptySet
<1>4. TrackerTypeOK
  BY <1>1, <1>2 DEF TrackerTypeOK, CommandPlace
<1>5. TrackerHeld
  BY <1>1, <1>2, <1>3 DEF TrackerHeld, HoldsAll, Tracking
<1> QED BY <1>4, <1>5 DEF TrackerInv

\* For any number of commands and experiments: unless two tracker commands met or a
\* rewrite was cut off, every experiment recorded has one row (record_experiment,
\* update_experiment).
THEOREM TrackerAlwaysComplete == ReproSpec => []TrackerComplete
<1>1. TrackerInv => TrackerComplete
  <2> SUFFICES ASSUME TrackerInv, ~rewriteCut PROVE TrackerComplete
    BY DEF TrackerComplete
  <2>1. TrackerHeld /\ trackerFile \in {"whole", "emptied"}
    BY DEF TrackerInv, TrackerTypeOK
  <2>2. CASE trackerFile = "whole"
    BY <2>1, <2>2 DEF TrackerHeld, HoldsAll, TrackerComplete
  <2>3. CASE trackerFile = "emptied"
    <3> DEFINE holder == CHOOSE c \in Command : cpc[c] = "refill"
    <3>1. holder \in Command /\ cpc[holder] = "refill"
      BY <2>1, <2>3 DEF TrackerHeld
    <3>2. HoldsAll(crow[holder])
      BY <2>1, <3>1 DEF TrackerHeld
    <3> QED BY <2>3, <3>2 DEF HoldsAll, TrackerComplete
  <2> QED BY <2>1, <2>2, <2>3
<1> QED BY <1>1, TrackerInitially, TrackerInductive, PTL DEF ReproSpec

\* What a command holds agrees with the last decisions, but for those made since it loaded
\* its copy and its own.
Agrees(c) == \A k \in Key : k \notin lost \cup since[c] \cup choice[c] => ccopy[c][k] = decided[k]

\* Saves have not met: one command is in the middle of one at most, and the file it has
\* emptied or filled is its own.
LedgerHeld ==
  /\ Len(gateFile) = 1 /\ \A k \in Key \ lost : gateFile[1][k] = decided[k]
  /\ \A c, d \in Command : cpc[c] \in {"fill", "put"} /\ cpc[d] \in {"fill", "put"} => c = d
  /\ \A c \in Command :
       /\ cpc[c] = "fill" => gateTmp = <<>> /\ opened[c] = "tmp" /\ tmpThere
       /\ cpc[c] = "put" => gateTmp = <<ccopy[c]>> /\ tmpThere
       /\ cpc[c] # "fill" => opened[c] = "none"
       /\ cpc[c] \in {"set", "launch", "train", "loop", "fill", "put"} => Agrees(c)

LedgerInv ==
  /\ LedgerTypeOK /\ cpc \in [Command -> CommandPlace] /\ (~clash => LedgerHeld)
  /\ \A c \in Command : /\ cpc[c] \in {"launch", "loop"} => choice[c] = {}
                        /\ cpc[c] = "train" => choice[c] = {c}

LEMMA Ledgers ==
  /\ FreshLedger \in Ledger /\ GatesPassed \in Ledger
  /\ \A s \in Ledger, k \in Key, word \in Word : [s EXCEPT ![k] = word] \in Ledger
BY DEF FreshLedger, GatesPassed, Ledger, Word

LEMMA Places == {"idle", "set", "launch", "train", "loop", "fill", "put", "done"} \subseteq CommandPlace
BY DEF CommandPlace

LEMMA TheText == ASSUME NEW texts \in Seq(Ledger), Len(texts) = 1 PROVE texts[1] \in Ledger
OBVIOUS

\* A command that loads the ledger agrees with it.
LEMMA LoadKeeps ==
  ASSUME LedgerInv, NEW c \in Command, NEW place \in {"set", "launch", "loop"}, NEW keys \in SUBSET Key,
         NEW copy, Load(c, place, keys, copy), Len(gateFile) = 1 => copy \in Ledger,
         \A k \in Key \ keys : copy[k] = gateFile[1][k], place \in {"launch", "loop"} => keys = {}
  PROVE  LedgerInv'
<1>1. /\ gateFile \in Seq(Ledger) /\ ccopy \in [Command -> Ledger] /\ cpc \in [Command -> CommandPlace]
      /\ choice \in [Command -> SUBSET Key] /\ since \in [Command -> SUBSET Key] /\ (~clash => LedgerHeld)
  BY DEF LedgerInv, LedgerTypeOK
<1>2. cpc[c] = "idle" /\ copy \in Ledger /\ UNCHANGED savedVars
  BY DEF Load
<1>3. cpc' \in [Command -> CommandPlace] /\ cpc'[c] = place /\ \A d \in Command : d # c => cpc'[d] = cpc[d]
  BY <1>1, Places DEF Load, CommandAt
<1>4. ccopy' \in [Command -> Ledger] /\ ccopy'[c] = copy /\ \A d \in Command : d # c => ccopy'[d] = ccopy[d]
  BY <1>1, <1>2 DEF Load
<1>5. choice' \in [Command -> SUBSET Key] /\ choice'[c] = keys /\ \A d \in Command : d # c => choice'[d] = choice[d]
  BY <1>1 DEF Load
<1>6. since' \in [Command -> SUBSET Key] /\ since'[c] = {} /\ \A d \in Command : d # c => since'[d] = since[d]
  BY <1>1 DEF Load
<1>7. LedgerTypeOK'
  BY <1>2, <1>4, <1>5, <1>6 DEF LedgerInv, LedgerTypeOK, savedVars
<1>8. ASSUME ~clash' PROVE LedgerHeld'
  <2>1. LedgerHeld
    BY <1>1, <1>2, <1>8 DEF savedVars
  <2>2. \A d \in Command, at \in {"fill", "put"} : cpc'[d] = at => d # c /\ cpc[d] = at
    BY <1>3
  <2>3. Agrees(c)'
    <3>1. \A k \in Key : k \notin lost \cup keys => copy[k] = decided[k]
      BY <2>1 DEF LedgerHeld
    <3> QED BY <1>2, <1>4, <1>5, <1>6, <3>1 DEF Agrees, savedVars
  <2>4. ASSUME NEW d \in Command, d # c, Agrees(d) PROVE Agrees(d)'
    BY <1>2, <1>4, <1>5, <1>6, <2>4 DEF Agrees, savedVars
  <2>5. opened'[c] = "none"
    BY <1>2, <2>1 DEF LedgerHeld, savedVars
  <2>6. /\ Len(gateFile') = 1 /\ \A k \in Key \ lost' : gateFile'[1][k] = decided'[k]
        /\ gateTmp' = gateTmp /\ tmpThere' = tmpThere /\ opened' = opened
    BY <1>2, <2>1 DEF LedgerHeld, savedVars
  <2>7. ASSUME NEW d \in Command
        PROVE  /\ cpc'[d] = "fill" => gateTmp' = <<>> /\ opened'[d] = "tmp" /\ tmpThere'
               /\ cpc'[d] = "put" => gateTmp' = <<ccopy'[d]>> /\ tmpThere'
               /\ cpc'[d] # "fill" => opened'[d] = "none"
               /\ cpc'[d] \in {"set", "launch", "train", "loop", "fill", "put"} => Agrees(d)'
    <3>1. CASE d = c
      BY <1>3, <2>3, <2>5, <3>1
    <3>2. CASE d # c
      BY <1>3, <1>4, <2>1, <2>4, <2>6, <3>2 DEF LedgerHeld
    <3> QED BY <3>1, <3>2
  <2>8. \A d, e \in Command : cpc'[d] \in {"fill", "put"} /\ cpc'[e] \in {"fill", "put"} => d = e
    BY <2>1, <2>2 DEF LedgerHeld
  <2> QED BY <2>6, <2>7, <2>8 DEF LedgerHeld
<1>9. \A d \in Command : /\ cpc'[d] \in {"launch", "loop"} => choice'[d] = {}
                         /\ cpc'[d] = "train" => choice'[d] = {d}
  BY <1>3, <1>5 DEF LedgerInv
<1> QED BY <1>3, <1>7, <1>8, <1>9 DEF LedgerInv

\* A save that begins is alone, or there is nothing to show.
LEMMA SaveStateKeeps ==
  ASSUME LedgerInv, NEW c \in Command, cpc[c] \in {"idle", "set", "launch", "train", "loop"},
         NEW copy \in Ledger, NEW keys \in SUBSET Key, SaveState(c, copy, keys),
         keys = Key \/ (cpc[c] # "idle" /\ choice[c] \subseteq keys /\ \A k \in Key \ keys : copy[k] = ccopy[c][k])
  PROVE  LedgerInv'
<1>1. /\ ccopy \in [Command -> Ledger] /\ cpc \in [Command -> CommandPlace]
      /\ choice \in [Command -> SUBSET Key] /\ (~clash => LedgerHeld)
      /\ opened \in [Command -> {"none", "tmp", "file", "gone"}]
  BY DEF LedgerInv, LedgerTypeOK
<1>2. cpc' \in [Command -> CommandPlace] /\ cpc'[c] = "fill" /\ \A d \in Command : d # c => cpc'[d] = cpc[d]
  BY <1>1, Places DEF SaveState, CommandAt
<1>3. ccopy' \in [Command -> Ledger] /\ ccopy'[c] = copy /\ \A d \in Command : d # c => ccopy'[d] = ccopy[d]
  BY <1>1 DEF SaveState
<1>4. choice' \in [Command -> SUBSET Key] /\ choice'[c] = keys /\ \A d \in Command : d # c => choice'[d] = choice[d]
  BY <1>1 DEF SaveState
<1>5. /\ opened' \in [Command -> {"none", "tmp", "file", "gone"}] /\ opened'[c] = "tmp"
      /\ \A d \in Command : d # c => opened'[d] = opened[d]
  BY <1>1 DEF SaveState
<1>6. /\ gateTmp' = <<>> /\ tmpThere' = TRUE /\ UNCHANGED <<gateFile, decided, since, lost>>
      /\ clash' = (clash \/ \E d \in Command : cpc[d] \in {"fill", "put"})
  BY DEF SaveState
<1>7. LedgerTypeOK'
  <2>1. gateTmp' \in Seq(Ledger) /\ tmpThere' \in BOOLEAN
    BY <1>6
  <2>2. clash' \in BOOLEAN
    BY <1>6 DEF LedgerInv, LedgerTypeOK
  <2> QED BY <1>3, <1>4, <1>5, <1>6, <2>1, <2>2 DEF LedgerInv, LedgerTypeOK
<1>8. ASSUME ~clash' PROVE LedgerHeld'
  <2>1. LedgerHeld /\ \A d \in Command : cpc[d] \notin {"fill", "put"}
    BY <1>1, <1>6, <1>8
  <2>2. \A d \in Command : d # c => cpc'[d] \notin {"fill", "put"}
    BY <1>2, <2>1
  <2>3. Agrees(c)'
    <3>1. CASE keys = Key
      BY <1>4, <3>1 DEF Agrees
    <3>2. CASE keys # Key
      <4>1. Agrees(c)
        BY <2>1, <3>2 DEF LedgerHeld
      <4>2. \A k \in Key : k \notin lost \cup since[c] \cup keys => copy[k] = decided[k]
        BY <3>2, <4>1 DEF Agrees
      <4> QED BY <1>3, <1>4, <1>6, <4>2 DEF Agrees
    <3> QED BY <3>1, <3>2
  <2>4. ASSUME NEW d \in Command, d # c, Agrees(d) PROVE Agrees(d)'
    BY <1>3, <1>4, <1>6, <2>4 DEF Agrees
  <2>5. ASSUME NEW d \in Command
        PROVE  /\ cpc'[d] = "fill" => gateTmp' = <<>> /\ opened'[d] = "tmp" /\ tmpThere'
               /\ cpc'[d] = "put" => gateTmp' = <<ccopy'[d]>> /\ tmpThere'
               /\ cpc'[d] # "fill" => opened'[d] = "none"
               /\ cpc'[d] \in {"set", "launch", "train", "loop", "fill", "put"} => Agrees(d)'
    <3>1. CASE d = c
      BY <1>2, <1>5, <1>6, <2>3, <3>1
    <3>2. CASE d # c
      BY <1>2, <1>5, <2>1, <2>2, <2>4, <3>2 DEF LedgerHeld
    <3> QED BY <3>1, <3>2
  <2>6. \A d, e \in Command : cpc'[d] \in {"fill", "put"} /\ cpc'[e] \in {"fill", "put"} => d = e
    BY <2>2
  <2>7. Len(gateFile') = 1 /\ \A k \in Key \ lost' : gateFile'[1][k] = decided'[k]
    BY <1>6, <2>1 DEF LedgerHeld
  <2> QED BY <2>5, <2>6, <2>7 DEF LedgerHeld
<1>9. \A d \in Command : /\ cpc'[d] \in {"launch", "loop"} => choice'[d] = {}
                         /\ cpc'[d] = "train" => choice'[d] = {d}
  BY <1>2, <1>4 DEF LedgerInv
<1> QED BY <1>2, <1>7, <1>8, <1>9 DEF LedgerInv

\* What is written is a sequence of ledgers.
LEMMA OverIsText ==
  ASSUME NEW texts \in Seq(Ledger), NEW new \in Ledger, NEW t \in WrittenOver(texts, new)
  PROVE  t \in Seq(Ledger)
<1>1. \A i \in DOMAIN texts : <<new, texts[i]>> \in Seq(Ledger)
  OBVIOUS
<1>2. <<new>> \in Seq(Ledger)
  OBVIOUS
<1> QED BY <1>1, <1>2 DEF WrittenOver

\* The text of a save that is alone is the only one in its file.
LEMMA FillKeeps == ASSUME LedgerInv, NEW c \in Command, FillState(c) PROVE LedgerInv'
<1>1. /\ ccopy \in [Command -> Ledger] /\ cpc \in [Command -> CommandPlace] /\ (~clash => LedgerHeld)
      /\ opened \in [Command -> {"none", "tmp", "file", "gone"}]
      /\ gateTmp \in Seq(Ledger) /\ gateFile \in Seq(Ledger)
  BY DEF LedgerInv, LedgerTypeOK
<1>2. /\ cpc' \in [Command -> CommandPlace] /\ cpc[c] = "fill" /\ cpc'[c] = "put"
      /\ \A d \in Command : d # c => cpc'[d] = cpc[d]
  BY <1>1, Places DEF FillState, CommandAt
<1>3. /\ opened' \in [Command -> {"none", "tmp", "file", "gone"}] /\ opened'[c] = "none"
      /\ \A d \in Command : d # c => opened'[d] = opened[d]
  BY <1>1 DEF FillState
<1>4. UNCHANGED <<tmpThere, ccopy, choice, decided, since, lost, clash>>
  BY DEF FillState
<1>5. gateTmp' \in Seq(Ledger) /\ gateFile' \in Seq(Ledger)
  BY <1>1, OverIsText DEF FillState
<1>6. LedgerTypeOK'
  BY <1>3, <1>4, <1>5 DEF LedgerInv, LedgerTypeOK
<1>7. ASSUME ~clash' PROVE LedgerHeld'
  <2>1. LedgerHeld
    BY <1>1, <1>4, <1>7
  <2>2. gateTmp = <<>> /\ opened[c] = "tmp" /\ tmpThere
    BY <1>2, <2>1 DEF LedgerHeld
  <2>3. gateTmp' = <<ccopy[c]>> /\ gateFile' = gateFile
    <3>1. DOMAIN gateTmp = {}
      BY <2>2
    <3> QED BY <2>2, <3>1 DEF FillState, WrittenOver
  <2>4. \A d \in Command : d # c => cpc'[d] = cpc[d] /\ cpc[d] \notin {"fill", "put"}
    BY <1>2, <2>1 DEF LedgerHeld
  <2>5. ASSUME NEW d \in Command, Agrees(d) PROVE Agrees(d)'
    BY <1>4, <2>5 DEF Agrees
  <2>6. ASSUME NEW d \in Command
        PROVE  /\ cpc'[d] = "fill" => gateTmp' = <<>> /\ opened'[d] = "tmp" /\ tmpThere'
               /\ cpc'[d] = "put" => gateTmp' = <<ccopy'[d]>> /\ tmpThere'
               /\ cpc'[d] # "fill" => opened'[d] = "none"
               /\ cpc'[d] \in {"set", "launch", "train", "loop", "fill", "put"} => Agrees(d)'
    <3>1. CASE d = c
      BY <1>2, <1>3, <1>4, <2>1, <2>2, <2>3, <2>5, <3>1 DEF LedgerHeld
    <3>2. CASE d # c
      BY <1>3, <2>1, <2>4, <2>5, <3>2 DEF LedgerHeld
    <3> QED BY <3>1, <3>2
  <2>7. \A d, e \in Command : cpc'[d] \in {"fill", "put"} /\ cpc'[e] \in {"fill", "put"} => d = e
    BY <2>4
  <2>8. Len(gateFile') = 1 /\ \A k \in Key \ lost' : gateFile'[1][k] = decided'[k]
    BY <1>4, <2>1, <2>3 DEF LedgerHeld
  <2> QED BY <2>6, <2>7, <2>8 DEF LedgerHeld
<1>8. \A d \in Command : /\ cpc'[d] \in {"launch", "loop"} => choice'[d] = {}
                         /\ cpc'[d] = "train" => choice'[d] = {d}
  BY <1>2, <1>4 DEF LedgerInv
<1> QED BY <1>2, <1>6, <1>7, <1>8 DEF LedgerInv

\* A command that ends, or is killed, is no part of it any more.
LEMMA LeaveKeeps ==
  ASSUME LedgerInv, NEW c \in Command, cpc[c] # "idle", Leave(c), UNCHANGED <<gateFile, gateTmp, tmpThere, decided, lost, clash>>,
         opened' = [opened EXCEPT ![c] = "none"] \/ (UNCHANGED opened /\ cpc[c] # "fill")
  PROVE  LedgerInv'
<1>1. /\ ccopy \in [Command -> Ledger] /\ cpc \in [Command -> CommandPlace] /\ (~clash => LedgerHeld)
      /\ opened \in [Command -> {"none", "tmp", "file", "gone"}]
      /\ choice \in [Command -> SUBSET Key] /\ since \in [Command -> SUBSET Key]
  BY DEF LedgerInv, LedgerTypeOK
<1>2. cpc' \in [Command -> CommandPlace] /\ cpc'[c] = "done" /\ \A d \in Command : d # c => cpc'[d] = cpc[d]
  BY <1>1, Places DEF Leave, CommandAt
<1>3. ccopy' \in [Command -> Ledger] /\ \A d \in Command : d # c => ccopy'[d] = ccopy[d]
  BY <1>1, Ledgers DEF Leave
<1>4. choice' \in [Command -> SUBSET Key] /\ \A d \in Command : d # c => choice'[d] = choice[d]
  BY <1>1 DEF Leave
<1>5. since' \in [Command -> SUBSET Key] /\ \A d \in Command : d # c => since'[d] = since[d]
  BY <1>1 DEF Leave
<1>6. opened' \in [Command -> {"none", "tmp", "file", "gone"}] /\ \A d \in Command : d # c => opened'[d] = opened[d]
  BY <1>1
<1>7. LedgerTypeOK'
  BY <1>3, <1>4, <1>5, <1>6 DEF LedgerInv, LedgerTypeOK
<1>8. ASSUME ~clash' PROVE LedgerHeld'
  <2>1. LedgerHeld
    BY <1>1, <1>8
  <2>2. opened'[c] = "none"
    BY <1>1, <2>1 DEF LedgerHeld
  <2>3. ASSUME NEW d \in Command, d # c, Agrees(d) PROVE Agrees(d)'
    BY <1>3, <1>4, <1>5, <2>3 DEF Agrees
  <2>4. ASSUME NEW d \in Command
        PROVE  /\ cpc'[d] = "fill" => gateTmp' = <<>> /\ opened'[d] = "tmp" /\ tmpThere'
               /\ cpc'[d] = "put" => gateTmp' = <<ccopy'[d]>> /\ tmpThere'
               /\ cpc'[d] # "fill" => opened'[d] = "none"
               /\ cpc'[d] \in {"set", "launch", "train", "loop", "fill", "put"} => Agrees(d)'
    <3>1. CASE d = c
      BY <1>2, <2>2, <3>1
    <3>2. CASE d # c
      BY <1>2, <1>3, <1>6, <2>1, <2>3, <3>2 DEF LedgerHeld
    <3> QED BY <3>1, <3>2
  <2>5. \A d, e \in Command : cpc'[d] \in {"fill", "put"} /\ cpc'[e] \in {"fill", "put"} => d = e
    <3>1. \A d \in Command : cpc'[d] \in {"fill", "put"} => cpc[d] \in {"fill", "put"}
      BY <1>2
    <3> QED BY <2>1, <3>1 DEF LedgerHeld
  <2>6. Len(gateFile') = 1 /\ \A k \in Key \ lost' : gateFile'[1][k] = decided'[k]
    BY <2>1 DEF LedgerHeld
  <2> QED BY <2>4, <2>5, <2>6 DEF LedgerHeld
<1>9. \A d \in Command : /\ cpc'[d] \in {"launch", "loop"} => choice'[d] = {}
                         /\ cpc'[d] = "train" => choice'[d] = {d}
  BY <1>2, <1>4 DEF LedgerInv
<1> QED BY <1>2, <1>7, <1>8, <1>9 DEF LedgerInv

\* The file that is moved over the ledger holds what its command decided, and of everything
\* else what was decided before it loaded its copy.
LEMMA PutKeeps == ASSUME LedgerInv, NEW c \in Command, PutState(c) PROVE LedgerInv'
<1>1. /\ ccopy \in [Command -> Ledger] /\ cpc \in [Command -> CommandPlace] /\ (~clash => LedgerHeld)
      /\ opened \in [Command -> {"none", "tmp", "file", "gone"}] /\ gateTmp \in Seq(Ledger)
      /\ choice \in [Command -> SUBSET Key] /\ since \in [Command -> SUBSET Key]
      /\ decided \in Ledger /\ lost \subseteq Key /\ cpc[c] = "put"
  BY DEF LedgerInv, LedgerTypeOK, PutState
<1>2. CASE ~tmpThere
  <2>1. Leave(c) /\ UNCHANGED savedVars
    BY <1>2 DEF PutState
  <2> QED BY <1>1, <2>1, LeaveKeeps DEF savedVars
<1>3. CASE tmpThere
  <2>1. /\ gateFile' = gateTmp /\ gateTmp' = <<>> /\ tmpThere' = FALSE
        /\ opened' = [d \in Command |-> IF opened[d] = "tmp" THEN "file"
                                        ELSE IF opened[d] = "file" THEN "gone" ELSE opened[d]]
        /\ decided' = [k \in Key |-> IF k \in choice[c] THEN ccopy[c][k] ELSE decided[k]]
        /\ lost' = (lost \cup since[c]) \ choice[c]
        /\ since' = [d \in Command |-> IF d = c THEN since[c] ELSE since[d] \cup choice[c]]
        /\ UNCHANGED <<ccopy, choice, clash>>
    BY <1>3 DEF PutState, Decides
  <2>2. \E place \in {"train", "done"} :
          CommandAt(c, place) /\ (place = "train" => choice[c] = {c})
    BY <1>3 DEF PutState
  <2>3. /\ cpc' \in [Command -> CommandPlace] /\ cpc'[c] \in {"train", "done"}
        /\ (cpc'[c] = "train" => choice[c] = {c}) /\ \A d \in Command : d # c => cpc'[d] = cpc[d]
    BY <1>1, <2>2, Places DEF CommandAt
  <2>4. LedgerTypeOK'
    <3>1. opened' \in [Command -> {"none", "tmp", "file", "gone"}] /\ gateTmp' \in Seq(Ledger)
      BY <1>1, <2>1
    <3>2. since' \in [Command -> SUBSET Key] /\ lost' \subseteq Key
      BY <1>1, <2>1
    <3>3. decided' \in Ledger
      BY <1>1, <2>1 DEF Ledger
    <3> QED BY <2>1, <3>1, <3>2, <3>3 DEF LedgerInv, LedgerTypeOK
  <2>5. ASSUME ~clash' PROVE LedgerHeld'
    <3>1. LedgerHeld
      BY <1>1, <2>1, <2>5
    <3>2. gateTmp = <<ccopy[c]>> /\ Agrees(c)
      BY <1>1, <3>1 DEF LedgerHeld
    <3>3. \A d \in Command : d # c => cpc[d] \notin {"fill", "put"}
      BY <1>1, <3>1 DEF LedgerHeld
    <3>4. \A d \in Command : opened[d] = "none"
      BY <1>1, <3>1, <3>3 DEF LedgerHeld
    <3>5. \A d \in Command : opened'[d] = "none"
      BY <2>1, <3>4
    <3>6. gateFile' = <<ccopy[c]>>
      BY <2>1, <3>2
    <3>7. Len(gateFile') = 1 /\ gateFile'[1] = ccopy[c]
      BY <3>6
    <3>8. \A k \in Key : k \notin lost' => ccopy[c][k] = decided'[k]
      BY <2>1, <3>2 DEF Agrees
    <3>9. Agrees(c)'
      BY <2>1, <3>8 DEF Agrees
    <3>10. ASSUME NEW d \in Command, d # c, Agrees(d) PROVE Agrees(d)'
      <4>1. ASSUME NEW k \in Key, k \notin lost' \cup since'[d] \cup choice'[d] PROVE ccopy'[d][k] = decided'[k]
        <5>1. since'[d] = since[d] \cup choice[c] /\ choice'[d] = choice[d] /\ ccopy'[d] = ccopy[d]
          BY <2>1, <3>10
        <5>2. k \notin choice[c] /\ k \notin lost \cup since[d] \cup choice[d]
          BY <2>1, <4>1, <5>1
        <5> QED BY <2>1, <3>10, <5>1, <5>2 DEF Agrees
      <4> QED BY <4>1 DEF Agrees
    <3>11. ASSUME NEW d \in Command
           PROVE  /\ cpc'[d] = "fill" => gateTmp' = <<>> /\ opened'[d] = "tmp" /\ tmpThere'
                  /\ cpc'[d] = "put" => gateTmp' = <<ccopy'[d]>> /\ tmpThere'
                  /\ cpc'[d] # "fill" => opened'[d] = "none"
                  /\ cpc'[d] \in {"set", "launch", "train", "loop", "fill", "put"} => Agrees(d)'
      <4>1. CASE d = c
        BY <2>3, <3>5, <3>9, <4>1
      <4>2. CASE d # c
        BY <2>3, <3>1, <3>3, <3>5, <3>10, <4>2 DEF LedgerHeld
      <4> QED BY <4>1, <4>2
    <3>12. \A d, e \in Command : cpc'[d] \in {"fill", "put"} /\ cpc'[e] \in {"fill", "put"} => d = e
      BY <2>3, <3>3
    <3> QED BY <3>7, <3>8, <3>11, <3>12 DEF LedgerHeld
  <2>6. \A d \in Command : /\ cpc'[d] \in {"launch", "loop"} => choice'[d] = {}
                           /\ cpc'[d] = "train" => choice'[d] = {d}
    BY <2>1, <2>3 DEF LedgerInv
  <2> QED BY <2>3, <2>4, <2>5, <2>6 DEF LedgerInv
<1> QED BY <1>2, <1>3

\* The tracker's commands leave the ledger and its commands alone.
LEMMA OthersKeep ==
  ASSUME LedgerInv, NEW c \in Command, NEW place \in {"record", "rewrite", "refill", "done"},
         cpc[c] \in {"idle", "record", "rewrite", "refill"}, CommandAt(c, place), UNCHANGED ledgerVars
  PROVE  LedgerInv'
<1>1. cpc \in [Command -> CommandPlace] /\ place \in CommandPlace
  BY DEF LedgerInv, CommandPlace
<1>2. cpc' \in [Command -> CommandPlace] /\ cpc'[c] = place /\ \A d \in Command : d # c => cpc'[d] = cpc[d]
  BY <1>1 DEF CommandAt
<1>3. \A d \in Command, at \in {"set", "launch", "train", "loop", "fill", "put"} : cpc'[d] = at <=> cpc[d] = at
  BY <1>2
<1>4. UNCHANGED <<gateFile, gateTmp, tmpThere, opened, decided, lost, clash, ccopy, choice, since>>
  BY DEF ledgerVars, savedVars
<1>5. LedgerTypeOK'
  BY <1>4 DEF LedgerInv, LedgerTypeOK
<1>6. \A d \in Command : Agrees(d) => Agrees(d)'
  BY <1>4 DEF Agrees
<1>7. ~clash' => LedgerHeld'
  BY <1>3, <1>4, <1>6 DEF LedgerInv, LedgerHeld
<1>8. \A d \in Command : /\ cpc'[d] \in {"launch", "loop"} => choice'[d] = {}
                         /\ cpc'[d] = "train" => choice'[d] = {d}
  BY <1>3, <1>4 DEF LedgerInv
<1> QED BY <1>2, <1>5, <1>7, <1>8 DEF LedgerInv

LEMMA LedgerInductive == LedgerInv /\ [ReproNext]_reproVars => LedgerInv'
<1> SUFFICES ASSUME LedgerInv, [ReproNext]_reproVars PROVE LedgerInv'
  OBVIOUS
<1>0. /\ ccopy \in [Command -> Ledger] /\ gateFile \in Seq(Ledger) /\ choice \in [Command -> SUBSET Key]
      /\ \A c \in Command : /\ cpc[c] \in {"launch", "loop"} => choice[c] = {}
                            /\ cpc[c] = "train" => choice[c] = {c}
  BY DEF LedgerInv, LedgerTypeOK
<1>00. Gate \subseteq Key /\ Command \subseteq Key
  BY DEF Key
<1>1. ASSUME NEW c \in Command, InitProject(c) PROVE LedgerInv'
  BY <1>1, Ledgers, SaveStateKeeps DEF InitProject
<1>2. ASSUME NEW c \in Command, NEW g \in Gate, NEW status \in {"passed", "failed", "pending"},
             UpdateGate(c, g, status)
      PROVE  LedgerInv'
  <2> DEFINE copy == [gateFile[1] EXCEPT ![g] = status]
  <2>1. Len(gateFile) = 1 /\ Load(c, "set", {g}, copy) /\ {g} \in SUBSET Key
    BY <1>00, <1>2 DEF UpdateGate, Load
  <2>2. gateFile[1] \in Ledger
    BY <1>0, <2>1, TheText
  <2>3. copy \in Ledger
    BY <1>00, <2>2, Ledgers DEF Word
  <2>4. \A k \in Key \ {g} : copy[k] = gateFile[1][k]
    BY <2>2 DEF Ledger
  <2> HIDE DEF copy
  <2> QED BY <2>1, <2>3, <2>4, LoadKeeps
<1>3. ASSUME NEW c \in Command, SaveGate(c) PROVE LedgerInv'
  <2>1. cpc[c] = "set" /\ SaveState(c, ccopy[c], choice[c]) /\ ccopy[c] \in Ledger /\ choice[c] \in SUBSET Key
    BY <1>0, <1>3 DEF SaveGate
  <2> QED BY <2>1, SaveStateKeeps
<1>4. ASSUME NEW c \in Command, NEW place \in {"launch", "loop"}, Load(c, place, {}, gateFile[1]) PROVE LedgerInv'
  <2>1. Len(gateFile) = 1 => gateFile[1] \in Ledger
    BY <1>0, TheText
  <2> QED BY <1>4, <2>1, LoadKeeps
<1>5. ASSUME NEW c \in Command, NEW status \in {"running", "success", "failed"},
             SaveState(c, WithRun(ccopy[c], c, status), {c}), cpc[c] \in {"launch", "train"}
      PROVE  LedgerInv'
  <2> DEFINE copy == WithRun(ccopy[c], c, status)
  <2>1. copy \in Ledger /\ \A k \in Key \ {c} : copy[k] = ccopy[c][k]
    <3>1. ccopy[c] \in Ledger /\ c \in Key /\ status \in Word
      BY <1>0, <1>00 DEF Word
    <3> QED BY <3>1, Ledgers DEF WithRun, Ledger
  <2>2. choice[c] \subseteq {c} /\ {c} \in SUBSET Key
    BY <1>0, <1>00, <1>5
  <2>3. SaveState(c, copy, {c})
    BY <1>5
  <2> HIDE DEF copy
  <2> QED BY <1>5, <2>1, <2>2, <2>3, SaveStateKeeps
<1>6. ASSUME NEW c \in Command, LaunchRecord(c) PROVE LedgerInv'
  BY <1>5, <1>6 DEF LaunchRecord
<1>7. ASSUME NEW c \in Command, LaunchEnd(c) PROVE LedgerInv'
  BY <1>5, <1>7 DEF LaunchEnd
<1>8. ASSUME NEW c \in Command, ShortLoopSave(c) PROVE LedgerInv'
  <2>1. PICK answer2 \in Gate2Answers : SaveState(c, [ccopy[c] EXCEPT !["gate_2"] = answer2], {"gate_2"})
    BY <1>8 DEF ShortLoopSave
  <2>2. answer2 \in Word
    BY DEF Gate2Answers, Gate2, Word
  <2> DEFINE copy == [ccopy[c] EXCEPT !["gate_2"] = answer2]
  <2>3. "gate_2" \in Key /\ ccopy[c] \in Ledger
    BY <1>0, <1>00 DEF Gate
  <2>4. copy \in Ledger /\ \A k \in Key \ {"gate_2"} : copy[k] = ccopy[c][k]
    BY <2>2, <2>3, Ledgers DEF Ledger
  <2>5. cpc[c] = "loop" /\ choice[c] = {} /\ {"gate_2"} \in SUBSET Key /\ SaveState(c, copy, {"gate_2"})
    BY <1>0, <1>8, <2>1, <2>3 DEF ShortLoopSave
  <2> HIDE DEF copy
  <2> QED BY <2>4, <2>5, SaveStateKeeps
<1>9. ASSUME NEW c \in Command,
             \/ (\E x \in Experiment : RecordRead(c, x)) \/ RecordAppend(c)
             \/ UpdateRead(c) \/ UpdateEmpty(c) \/ UpdateRefill(c)
      PROVE  LedgerInv'
  <2>1. /\ UNCHANGED ledgerVars /\ cpc[c] \in {"idle", "record", "rewrite", "refill"}
        /\ \E place \in {"record", "rewrite", "refill", "done"} : CommandAt(c, place)
    BY <1>9 DEF RecordRead, RecordAppend, UpdateRead, UpdateEmpty, UpdateRefill
  <2> QED BY <2>1, OthersKeep
<1>10. ASSUME NEW c \in Command, KillCommandOf(c) PROVE LedgerInv'
  BY <1>10, LeaveKeeps DEF KillCommandOf
<1>11. CASE UNCHANGED reproVars
  <2>1. UNCHANGED <<gateFile, gateTmp, tmpThere, cpc, opened, decided, lost, clash, ccopy, choice, since>>
    BY <1>11 DEF reproVars
  <2>2. LedgerTypeOK'
    BY <2>1 DEF LedgerInv, LedgerTypeOK
  <2>3. \A d \in Command : Agrees(d) => Agrees(d)'
    BY <2>1 DEF Agrees
  <2>4. ~clash' => LedgerHeld'
    BY <2>1, <2>3 DEF LedgerInv, LedgerHeld
  <2> QED BY <2>1, <2>2, <2>4 DEF LedgerInv
<1> QED
  BY <1>1, <1>2, <1>3, <1>4, <1>6, <1>7, <1>8, <1>9, <1>10, <1>11, FillKeeps, PutKeeps
  DEF ReproNext, LaunchLoad, ShortLoopLoad

LEMMA LedgerInitially == ReproInit => LedgerInv
<1> SUFFICES ASSUME ReproInit PROVE LedgerInv
  OBVIOUS
<1>1. /\ decided \in Ledger /\ gateFile = <<decided>> /\ gateTmp = <<>> /\ tmpThere = FALSE
      /\ cpc = [c \in Command |-> "idle"] /\ ccopy = [c \in Command |-> FreshLedger]
      /\ opened = [c \in Command |-> "none"] /\ choice = [c \in Command |-> {}]
      /\ since = [c \in Command |-> {}] /\ lost = {} /\ clash = FALSE
  BY Ledgers DEF ReproInit
<1>2. gateFile \in Seq(Ledger) /\ Len(gateFile) = 1 /\ gateFile[1] = decided /\ gateTmp \in Seq(Ledger)
  BY <1>1
<1>3. LedgerTypeOK
  BY <1>1, <1>2, Ledgers DEF LedgerTypeOK
<1>4. LedgerHeld
  BY <1>1, <1>2 DEF LedgerHeld
<1> QED BY <1>1, <1>3, <1>4, Places DEF LedgerInv

\* For any number of commands: unless two saved at one moment, the ledger is whole and holds
\* the last decision on every gate and the last status of every run, but for what was decided
\* while a command held an older copy that it saved since (load_state, save_state).
THEOREM LedgerStaysCurrent == ReproSpec => []LedgerCurrent
<1>1. LedgerInv => LedgerCurrent
  BY DEF LedgerInv, LedgerHeld, LedgerCurrent
<1> QED BY <1>1, LedgerInitially, LedgerInductive, PTL DEF ReproSpec

-----------------------------------------------------------------------------
(* The plan and the contracts *)

\* The bound hash is the hash of the plan that is recorded.
Aligned ==
  planRow # Nil => meta.canonical = planRow /\ meta.bound # Nil /\ meta.bound.plan = planRow

\* How far the record of plan p is.
RecordLeft(p, schema) ==
  LET first     == Txn("plan", p)
      canonical == Txn("canonical", p)
      bound     == Txn("bound", Bind(p, schema, "1"))
      version   == Txn("schema", schema)
      last      == Txn("canon", "1")
  IN  \/ authTodo = <<first, canonical, bound, version, last>> /\ (~recordTorn => Aligned)
      \/ authTodo = <<canonical, bound, version, last>> /\ planRow = p
      \/ authTodo = <<bound, version, last>> /\ planRow = p /\ meta.canonical = p
      \/ authTodo = <<version, last>> /\ planRow = p /\ Aligned
      \/ authTodo = <<last>> /\ planRow = p /\ Aligned

\* How far a schema upgrade is; it binds the plan on record and marks the contracts last.
UpgradeLeft ==
  LET first == Txn("schema", "3.0")
      canon == Txn("canon", "2")
      bound == Txn("bound", Bind(meta.canonical, "3.0", "2"))
      mark  == Txn("mark", Nil)
  IN  \/ authTodo = <<first, canon, bound, mark>>
      \/ authTodo = <<canon, bound, mark>>
      \/ authTodo = <<bound, mark>>
      \/ authTodo = <<mark>>

\* Where the command under way is, and what holds of the plan meanwhile.
Progress ==
  /\ authRunning \in {"none", "record", "upgrade", "migrate"}
  /\ authRunning = "none" => authTodo = <<>>
  /\ authRunning = "record" => \E p \in PlanHash, schema \in {"1.0", "2.0"} : RecordLeft(p, schema)
  /\ authRunning = "upgrade" => UpgradeLeft
  /\ authRunning = "migrate" => authTodo = <<Txn("schema", "1.0.0")>>
  /\ ~recordTorn /\ authRunning # "record" => Aligned

MetaRec ==
  [canonical : HashOrNil, bound : BoundHash \cup {Nil}, schema : SchemaVersion \cup {Nil},
   canon : {"1", "2", Nil}]
Invalidated == \A c \in unconfirmed : contracts[c].needs

AuthInv == AuthTypeOK /\ meta \in MetaRec /\ Invalidated /\ Progress

LEMMA Lists5 ==
  ASSUME NEW a, NEW b, NEW c, NEW d, NEW e
  PROVE  /\ Head(<<a, b, c, d, e>>) = a /\ Tail(<<a, b, c, d, e>>) = <<b, c, d, e>> /\ Len(<<a, b, c, d, e>>) = 5
         /\ Head(<<b, c, d, e>>) = b /\ Tail(<<b, c, d, e>>) = <<c, d, e>> /\ Len(<<b, c, d, e>>) = 4
         /\ Head(<<c, d, e>>) = c /\ Tail(<<c, d, e>>) = <<d, e>> /\ Len(<<c, d, e>>) = 3
         /\ Head(<<d, e>>) = d /\ Tail(<<d, e>>) = <<e>> /\ Len(<<d, e>>) = 2
         /\ Head(<<e>>) = e /\ Tail(<<e>>) = <<>> /\ Len(<<e>>) = 1
         /\ <<a, b, c, d, e>> # <<>> /\ <<b, c, d, e>> # <<>> /\ <<c, d, e>> # <<>>
         /\ <<d, e>> # <<>> /\ <<e>> # <<>>
OBVIOUS

MetaKey == {"canonical", "bound", "schema", "canon"}

LEMMA MetaKeys == meta \in MetaRec => DOMAIN meta = MetaKey
BY DEF MetaRec, MetaKey

\* What one transaction does to the plan row, the metadata and the contracts.
LEMMA TxnApplied ==
  ASSUME meta \in MetaRec, NEW key \in MetaKey \cup {"plan", "mark"}, NEW value, ApplyTxn(Txn(key, value))
  PROVE  /\ planRow' = IF key = "plan" THEN value ELSE planRow
         /\ meta'.canonical = IF key = "canonical" THEN value ELSE meta.canonical
         /\ meta'.bound = IF key = "bound" THEN value ELSE meta.bound
         /\ meta'.schema = IF key = "schema" THEN value ELSE meta.schema
         /\ meta'.canon = IF key = "canon" THEN value ELSE meta.canon
         /\ key # "mark" => contracts' = contracts
<1>0. Txn(key, value).key = key /\ Txn(key, value).value = value
  BY DEF Txn
<1>1. /\ planRow' = (IF key = "plan" THEN value ELSE planRow)
      /\ key # "mark" => contracts' = contracts
      /\ meta' = IF key \in DOMAIN meta THEN [meta EXCEPT ![key] = value] ELSE meta
  BY <1>0 DEF ApplyTxn
<1>2. DOMAIN meta = {"canonical", "bound", "schema", "canon"}
  BY MetaKeys DEF MetaKey
<1>3. CASE key = "canonical"
  <2>1. meta' = [meta EXCEPT !.canonical = value]
    BY <1>1, <1>2, <1>3
  <2> QED BY <1>1, <1>3, <2>1 DEF MetaRec
<1>4. CASE key = "bound"
  <2>1. meta' = [meta EXCEPT !.bound = value]
    BY <1>1, <1>2, <1>4
  <2> QED BY <1>1, <1>4, <2>1 DEF MetaRec
<1>5. CASE key = "schema"
  <2>1. meta' = [meta EXCEPT !.schema = value]
    BY <1>1, <1>2, <1>5
  <2> QED BY <1>1, <1>5, <2>1 DEF MetaRec
<1>6. CASE key = "canon"
  <2>1. meta' = [meta EXCEPT !.canon = value]
    BY <1>1, <1>2, <1>6
  <2> QED BY <1>1, <1>6, <2>1 DEF MetaRec
<1>7. CASE key \in {"plan", "mark"}
  BY <1>1, <1>2, <1>7
<1> QED BY <1>3, <1>4, <1>5, <1>6, <1>7 DEF MetaKey

\* A value of the right kind keeps the metadata in shape.
LEMMA MetaKept ==
  ASSUME meta \in MetaRec, NEW key \in MetaKey \cup {"plan", "mark"}, NEW value, ApplyTxn(Txn(key, value)),
         key = "canonical" => value \in PlanHash, key = "bound" => value \in BoundHash,
         key = "schema" => value \in SchemaVersion, key = "canon" => value \in {"1", "2"}
  PROVE  meta' \in MetaRec
<1>0. Txn(key, value).key = key /\ Txn(key, value).value = value
  BY DEF Txn
<1>1. meta' = IF key \in DOMAIN meta THEN [meta EXCEPT ![key] = value] ELSE meta
  BY <1>0 DEF ApplyTxn
<1>2. DOMAIN meta = {"canonical", "bound", "schema", "canon"}
  BY MetaKeys DEF MetaKey
<1>3. CASE key = "canonical"
  <2>1. meta' = [meta EXCEPT !.canonical = value]
    BY <1>1, <1>2, <1>3
  <2> QED BY <1>3, <2>1 DEF MetaRec, HashOrNil
<1>4. CASE key = "bound"
  <2>1. meta' = [meta EXCEPT !.bound = value]
    BY <1>1, <1>2, <1>4
  <2> QED BY <1>4, <2>1 DEF MetaRec
<1>5. CASE key = "schema"
  <2>1. meta' = [meta EXCEPT !.schema = value]
    BY <1>1, <1>2, <1>5
  <2> QED BY <1>5, <2>1 DEF MetaRec
<1>6. CASE key = "canon"
  <2>1. meta' = [meta EXCEPT !.canon = value]
    BY <1>1, <1>2, <1>6
  <2> QED BY <1>6, <2>1 DEF MetaRec
<1>7. CASE key \in {"plan", "mark"}
  BY <1>1, <1>2, <1>7
<1> QED BY <1>3, <1>4, <1>5, <1>6, <1>7 DEF MetaKey
\* A commit that does not end an upgrade leaves the contracts alone; what is left to show
\* is the progress of the command.
LEMMA CommitFrame ==
  ASSUME AuthInv, Commit, NEW key \in MetaKey \cup {"plan"}, NEW value, Head(authTodo) = Txn(key, value),
         ~(FinalTxn /\ authRunning = "upgrade"), FinalTxn <=> Tail(authTodo) = <<>>,
         key = "plan" => value \in PlanHash,
         key = "canonical" => value \in PlanHash, key = "bound" => value \in BoundHash,
         key = "schema" => value \in SchemaVersion, key = "canon" => value \in {"1", "2"}
  PROVE  /\ planRow' = IF key = "plan" THEN value ELSE planRow
         /\ meta'.canonical = IF key = "canonical" THEN value ELSE meta.canonical
         /\ meta'.bound = IF key = "bound" THEN value ELSE meta.bound
         /\ authTodo' = Tail(authTodo)
         /\ authRunning' = IF FinalTxn THEN "none" ELSE authRunning
         /\ recordTorn' = (recordTorn /\ ~(FinalTxn /\ authRunning = "record"))
         /\ Progress' => AuthInv'
<1>1. /\ ApplyTxn(Txn(key, value)) /\ authTodo' = Tail(authTodo) /\ authTodo # <<>>
      /\ authRunning' = (IF FinalTxn THEN "none" ELSE authRunning)
      /\ recordTorn' = (recordTorn /\ ~(FinalTxn /\ authRunning = "record"))
      /\ UNCHANGED <<unconfirmed, authCommands>>
  BY DEF Commit
<1>2. meta \in MetaRec /\ AuthTypeOK /\ Invalidated /\ Progress /\ key \in MetaKey \cup {"plan", "mark"} /\ key # "mark"
  BY DEF AuthInv, MetaKey
<1>3. /\ planRow' = IF key = "plan" THEN value ELSE planRow
      /\ meta'.canonical = IF key = "canonical" THEN value ELSE meta.canonical
      /\ meta'.bound = IF key = "bound" THEN value ELSE meta.bound
      /\ contracts' = contracts
  BY <1>1, <1>2, TxnApplied
<1>4. meta' \in MetaRec
  BY <1>1, <1>2, MetaKept
<1>5. recordTorn' \in BOOLEAN
  BY <1>1, <1>2 DEF AuthTypeOK
<1>6. planRow' \in HashOrNil
  BY <1>2, <1>3 DEF AuthTypeOK, HashOrNil
<1>7. (authRunning' = "none") <=> (authTodo' = <<>>)
  BY <1>1, <1>2 DEF AuthTypeOK
<1>8. AuthTypeOK'
  BY <1>1, <1>2, <1>3, <1>4, <1>5, <1>6, <1>7 DEF AuthTypeOK, MetaRec
<1>9. Invalidated'
  BY <1>1, <1>2, <1>3 DEF Invalidated
<1> QED BY <1>1, <1>3, <1>4, <1>8, <1>9 DEF AuthInv

\* A version alone leaves the plan and its hashes alone, too.
LEMMA VersionFrame ==
  ASSUME AuthInv, Commit, NEW key \in {"schema", "canon"}, NEW value, Head(authTodo) = Txn(key, value),
         ~(FinalTxn /\ authRunning = "upgrade"), FinalTxn <=> Tail(authTodo) = <<>>,
         key = "schema" => value \in SchemaVersion, key = "canon" => value \in {"1", "2"}
  PROVE  /\ planRow' = planRow /\ meta'.canonical = meta.canonical /\ meta'.bound = meta.bound
         /\ authTodo' = Tail(authTodo)
         /\ authRunning' = IF FinalTxn THEN "none" ELSE authRunning
         /\ recordTorn' = (recordTorn /\ ~(FinalTxn /\ authRunning = "record"))
         /\ Progress' => AuthInv'
<1>1. key \in MetaKey \cup {"plan"} /\ key # "plan" /\ key # "canonical" /\ key # "bound"
  BY DEF MetaKey
<1> QED BY <1>1, CommitFrame

LEMMA RecordCommits ==
  ASSUME AuthInv, Commit, authRunning = "record"
  PROVE  AuthInv'
<1>1. PICK p \in PlanHash, schema \in {"1.0", "2.0"} : RecordLeft(p, schema)
  BY DEF AuthInv, Progress
<1> DEFINE bind      == Bind(p, schema, "1")
           first     == Txn("plan", p)
           canonical == Txn("canonical", p)
           bound     == Txn("bound", bind)
           version   == Txn("schema", schema)
           last      == Txn("canon", "1")
<1>2. p # Nil /\ bind \in BoundHash /\ bind # Nil /\ bind.plan = p /\ schema \in SchemaVersion /\ recordTorn \in BOOLEAN
  BY AuthorizationAssumption, NilAssumption DEF Bind, BoundHash, HashOrNil, SchemaVersion, AuthInv, AuthTypeOK
<1>3. /\ Head(<<first, canonical, bound, version, last>>) = first
      /\ Tail(<<first, canonical, bound, version, last>>) = <<canonical, bound, version, last>>
      /\ Len(<<first, canonical, bound, version, last>>) = 5
      /\ Head(<<canonical, bound, version, last>>) = canonical
      /\ Tail(<<canonical, bound, version, last>>) = <<bound, version, last>>
      /\ Len(<<canonical, bound, version, last>>) = 4
      /\ Head(<<bound, version, last>>) = bound /\ Tail(<<bound, version, last>>) = <<version, last>>
      /\ Len(<<bound, version, last>>) = 3
      /\ Head(<<version, last>>) = version /\ Tail(<<version, last>>) = <<last>> /\ Len(<<version, last>>) = 2
      /\ Head(<<last>>) = last /\ Tail(<<last>>) = <<>> /\ Len(<<last>>) = 1
      /\ <<canonical, bound, version, last>> # <<>> /\ <<bound, version, last>> # <<>>
      /\ <<version, last>> # <<>> /\ <<last>> # <<>>
  BY Lists5
\* The lists are what RecordLeft says of them; which transactions they hold no longer matters.
<1>4. \/ authTodo = <<first, canonical, bound, version, last>>
      \/ authTodo = <<canonical, bound, version, last>> /\ planRow = p
      \/ authTodo = <<bound, version, last>> /\ planRow = p /\ meta.canonical = p
      \/ authTodo = <<version, last>> /\ planRow = p /\ Aligned
      \/ authTodo = <<last>> /\ planRow = p /\ Aligned
  BY <1>1 DEF RecordLeft
<1>5. ASSUME authRunning' = "record",
             \/ authTodo' = <<canonical, bound, version, last>> /\ planRow' = p
             \/ authTodo' = <<bound, version, last>> /\ planRow' = p /\ meta'.canonical = p
             \/ authTodo' = <<version, last>> /\ planRow' = p /\ Aligned'
             \/ authTodo' = <<last>> /\ planRow' = p /\ Aligned'
      PROVE  Progress'
  <2>1. RecordLeft(p, schema)'
    BY <1>5 DEF RecordLeft
  <2> QED BY <1>5, <2>1 DEF Progress
<1>6. CASE authTodo = <<first, canonical, bound, version, last>>
  <2>1. ~FinalTxn /\ Head(authTodo) = Txn("plan", p) /\ Tail(authTodo) = <<canonical, bound, version, last>>
    BY <1>3, <1>6 DEF FinalTxn
  <2>2. /\ planRow' = p /\ authTodo' = Tail(authTodo) /\ authRunning' = "record" /\ (Progress' => AuthInv')
    BY <1>3, <2>1, CommitFrame
  <2> QED BY <1>5, <2>1, <2>2
<1>7. CASE authTodo = <<canonical, bound, version, last>> /\ planRow = p
  <2>1. ~FinalTxn /\ Head(authTodo) = Txn("canonical", p) /\ Tail(authTodo) = <<bound, version, last>>
    BY <1>3, <1>7 DEF FinalTxn
  <2>2. /\ planRow' = planRow /\ meta'.canonical = p /\ authTodo' = Tail(authTodo) /\ authRunning' = "record"
        /\ (Progress' => AuthInv')
    BY <1>3, <2>1, CommitFrame DEF MetaKey
  <2> QED BY <1>5, <1>7, <2>1, <2>2
<1>8. CASE authTodo = <<bound, version, last>> /\ planRow = p /\ meta.canonical = p
  <2>1. ~FinalTxn /\ Head(authTodo) = Txn("bound", bind) /\ Tail(authTodo) = <<version, last>>
    BY <1>3, <1>8 DEF FinalTxn
  <2>2. /\ planRow' = planRow /\ meta'.canonical = meta.canonical /\ meta'.bound = bind
        /\ authTodo' = Tail(authTodo) /\ authRunning' = "record" /\ (Progress' => AuthInv')
    BY <1>2, <1>3, <2>1, CommitFrame DEF MetaKey
  <2>3. Aligned'
    BY <1>2, <1>8, <2>2 DEF Aligned
  <2> QED BY <1>5, <1>8, <2>1, <2>2, <2>3
<1>9. CASE authTodo = <<version, last>> /\ planRow = p /\ Aligned
  <2>1. ~FinalTxn /\ Head(authTodo) = Txn("schema", schema) /\ Tail(authTodo) = <<last>>
    BY <1>3, <1>9 DEF FinalTxn
  <2>2. /\ planRow' = planRow /\ meta'.canonical = meta.canonical /\ meta'.bound = meta.bound
        /\ authTodo' = Tail(authTodo) /\ authRunning' = "record" /\ (Progress' => AuthInv')
    BY <1>2, <1>3, <2>1, VersionFrame
  <2>3. Aligned'
    BY <1>9, <2>2 DEF Aligned
  <2> QED BY <1>5, <1>9, <2>1, <2>2, <2>3
<1>10. CASE authTodo = <<last>> /\ planRow = p /\ Aligned
  <2>1. FinalTxn /\ Head(authTodo) = Txn("canon", "1") /\ Tail(authTodo) = <<>>
    BY <1>3, <1>10 DEF FinalTxn
  <2>2. /\ planRow' = planRow /\ meta'.canonical = meta.canonical /\ meta'.bound = meta.bound
        /\ authTodo' = Tail(authTodo) /\ authRunning' = "none" /\ (Progress' => AuthInv')
    BY <1>2, <2>1, CommitFrame DEF MetaKey
  <2>3. Aligned'
    BY <1>10, <2>2 DEF Aligned
  <2>4. Progress'
    BY <2>1, <2>2, <2>3 DEF Progress
  <2> QED BY <2>2, <2>4
<1> QED BY <1>4, <1>6, <1>7, <1>8, <1>9, <1>10

LEMMA UpgradeCommits ==
  ASSUME AuthInv, Commit, authRunning = "upgrade"
  PROVE  AuthInv'
<1> DEFINE bind  == Bind(meta.canonical, "3.0", "2")
           first == Txn("schema", "3.0")
           canon == Txn("canon", "2")
           bound == Txn("bound", bind)
           mark  == Txn("mark", Nil)
<1>0. AuthTypeOK /\ meta \in MetaRec /\ Invalidated /\ Progress
  BY DEF AuthInv
<1>1. \/ authTodo = <<first, canon, bound, mark>>
      \/ authTodo = <<canon, bound, mark>>
      \/ authTodo = <<bound, mark>>
      \/ authTodo = <<mark>>
  BY <1>0 DEF Progress, UpgradeLeft
<1>2. bind \in BoundHash /\ bind # Nil /\ bind.plan = meta.canonical
  BY <1>0, NilAssumption DEF Bind, BoundHash, HashOrNil, SchemaVersion, MetaRec
<1>3. /\ Head(<<first, canon, bound, mark>>) = first /\ Tail(<<first, canon, bound, mark>>) = <<canon, bound, mark>>
      /\ Len(<<first, canon, bound, mark>>) = 4
      /\ Head(<<canon, bound, mark>>) = canon /\ Tail(<<canon, bound, mark>>) = <<bound, mark>>
      /\ Len(<<canon, bound, mark>>) = 3
      /\ Head(<<bound, mark>>) = bound /\ Tail(<<bound, mark>>) = <<mark>> /\ Len(<<bound, mark>>) = 2
      /\ Head(<<mark>>) = mark /\ Tail(<<mark>>) = <<>> /\ Len(<<mark>>) = 1
      /\ <<canon, bound, mark>> # <<>> /\ <<bound, mark>> # <<>> /\ <<mark>> # <<>>
  BY Lists5
<1>4. ~recordTorn => Aligned
  BY <1>0 DEF Progress
<1>5. ASSUME authRunning' = "upgrade", meta'.canonical = meta.canonical, planRow' = planRow, recordTorn' = recordTorn,
             meta'.bound = meta.bound \/ meta'.bound = bind,
             authTodo' = <<canon, bound, mark>> \/ authTodo' = <<bound, mark>> \/ authTodo' = <<mark>>
      PROVE  Progress'
  <2>1. UpgradeLeft'
    BY <1>5 DEF UpgradeLeft
  <2>2. ~recordTorn' => Aligned'
    BY <1>2, <1>4, <1>5 DEF Aligned
  <2> QED BY <1>5, <2>1, <2>2 DEF Progress
<1>6. CASE authTodo = <<first, canon, bound, mark>>
  <2>1. ~FinalTxn /\ Head(authTodo) = Txn("schema", "3.0") /\ Tail(authTodo) = <<canon, bound, mark>>
    BY <1>3, <1>6 DEF FinalTxn
  <2>2. /\ planRow' = planRow /\ meta'.canonical = meta.canonical /\ meta'.bound = meta.bound
        /\ authTodo' = Tail(authTodo) /\ authRunning' = "upgrade" /\ (Progress' => AuthInv')
        /\ recordTorn' = (recordTorn /\ ~(FinalTxn /\ authRunning = "record"))
    <3>1. "3.0" \in SchemaVersion
      BY DEF SchemaVersion
    <3> QED BY <1>3, <2>1, <3>1, VersionFrame
  <2>3. recordTorn' = recordTorn
    BY <1>0, <2>1, <2>2 DEF AuthTypeOK
  <2> QED BY <1>5, <2>1, <2>2, <2>3
<1>7. CASE authTodo = <<canon, bound, mark>>
  <2>1. ~FinalTxn /\ Head(authTodo) = Txn("canon", "2") /\ Tail(authTodo) = <<bound, mark>>
    BY <1>3, <1>7 DEF FinalTxn
  <2>2. /\ planRow' = planRow /\ meta'.canonical = meta.canonical /\ meta'.bound = meta.bound
        /\ authTodo' = Tail(authTodo) /\ authRunning' = "upgrade" /\ (Progress' => AuthInv')
        /\ recordTorn' = (recordTorn /\ ~(FinalTxn /\ authRunning = "record"))
    BY <1>3, <2>1, VersionFrame
  <2>3. recordTorn' = recordTorn
    BY <1>0, <2>1, <2>2 DEF AuthTypeOK
  <2> QED BY <1>5, <2>1, <2>2, <2>3
<1>8. CASE authTodo = <<bound, mark>>
  <2>1. ~FinalTxn /\ Head(authTodo) = Txn("bound", bind) /\ Tail(authTodo) = <<mark>>
    BY <1>3, <1>8 DEF FinalTxn
  <2>2. /\ planRow' = planRow /\ meta'.canonical = meta.canonical /\ meta'.bound = bind
        /\ authTodo' = Tail(authTodo) /\ authRunning' = "upgrade" /\ (Progress' => AuthInv')
        /\ recordTorn' = (recordTorn /\ ~(FinalTxn /\ authRunning = "record"))
    BY <1>2, <1>3, <2>1, CommitFrame DEF MetaKey
  <2>3. recordTorn' = recordTorn
    BY <1>0, <2>1, <2>2 DEF AuthTypeOK
  <2> QED BY <1>5, <2>1, <2>2, <2>3
<1>9. CASE authTodo = <<mark>>
  <2>1. FinalTxn /\ Head(authTodo) = mark /\ Tail(authTodo) = <<>>
    BY <1>3, <1>9 DEF FinalTxn
  <2>2. /\ ApplyTxn(mark) /\ authTodo' = <<>> /\ authRunning' = "none"
        /\ unconfirmed' = unconfirmed \cup {c \in Contract : contracts[c].state = "active"}
        /\ recordTorn' = (recordTorn /\ ~(FinalTxn /\ authRunning = "record")) /\ UNCHANGED authCommands
    BY <2>1 DEF Commit
  <2>3. recordTorn' = recordTorn
    BY <1>0, <2>2 DEF AuthTypeOK
  <2>4. /\ planRow' = planRow /\ meta' = meta
        /\ contracts' = [c \in Contract |-> [contracts[c] EXCEPT !.needs = @ \/ contracts[c].state = "active"]]
    <3>1. mark.key = "mark" /\ "mark" \notin DOMAIN meta
      BY <1>0, MetaKeys DEF Txn, MetaKey
    <3> QED BY <2>2, <3>1 DEF ApplyTxn
  <2>5. /\ contracts' \in [Contract -> ContractRow]
        /\ \A c \in Contract : contracts'[c].needs = (contracts[c].needs \/ contracts[c].state = "active")
    <3>1. \A c \in Contract : contracts[c] \in ContractRow
      BY <1>0 DEF AuthTypeOK
    <3>2. ASSUME NEW c \in Contract
          PROVE  LET row == [contracts[c] EXCEPT !.needs = @ \/ contracts[c].state = "active"]
                 IN  row \in ContractRow /\ row.needs = (contracts[c].needs \/ contracts[c].state = "active")
      BY <3>1 DEF ContractRow
    <3> QED BY <2>4, <3>2
  <2>6. AuthTypeOK'
    BY <1>0, <2>2, <2>3, <2>4, <2>5 DEF AuthTypeOK
  <2>7. Invalidated'
    BY <1>0, <2>2, <2>5 DEF Invalidated, AuthTypeOK
  <2>8. Progress'
    BY <1>4, <2>2, <2>3, <2>4 DEF Progress, Aligned
  <2> QED BY <1>0, <2>4, <2>6, <2>7, <2>8 DEF AuthInv
<1> QED BY <1>1, <1>6, <1>7, <1>8, <1>9

LEMMA AuthInductive == AuthInv /\ [AuthNext]_authVars => AuthInv'
<1> SUFFICES ASSUME AuthInv, [AuthNext]_authVars PROVE AuthInv'
  OBVIOUS
<1>0. AuthTypeOK /\ meta \in MetaRec /\ Invalidated /\ Progress
  BY DEF AuthInv
<1>00. authCommands < MaxCommands /\ authCommands' = authCommands + 1 => authCommands' \in 0..MaxCommands
  BY <1>0, AuthorizationAssumption DEF AuthTypeOK
<1>1. ASSUME NEW command \in {"record", "upgrade", "migrate"}, NEW writes, RunCommand(command, writes), writes # <<>>,
             authRunning = "none" /\ (authRunning' = command => Progress')
      PROVE  AuthInv'
  <2>1. /\ authCommands' \in 0..MaxCommands /\ authRunning' = command /\ authTodo' = writes
        /\ UNCHANGED <<planRow, meta, contracts, recordTorn, unconfirmed>>
    BY <1>00, <1>1 DEF RunCommand
  <2>2. AuthTypeOK'
    BY <1>0, <1>1, <2>1 DEF AuthTypeOK
  <2>3. Invalidated'
    BY <1>0, <2>1 DEF Invalidated
  <2> QED BY <1>0, <1>1, <2>1, <2>2, <2>3 DEF AuthInv
<1>2. authRunning = "none" => (~recordTorn => Aligned)
  BY <1>0 DEF Progress
<1>3. ASSUME NEW p \in PlanHash, NEW schema \in {"1.0", "2.0"}, RunCommand("record", RecordPlan(p, schema))
      PROVE  AuthInv'
  <2>1. /\ authRunning = "none" /\ authRunning' = "record" /\ authTodo' = RecordPlan(p, schema)
        /\ UNCHANGED <<planRow, meta, recordTorn>>
    BY <1>3 DEF RunCommand
  <2>2. RecordPlan(p, schema) # <<>>
    BY Lists5 DEF RecordPlan
  <2>3. ~recordTorn' => Aligned'
    BY <1>2, <2>1 DEF Aligned
  <2>4. RecordLeft(p, schema)'
    BY <2>1, <2>3 DEF RecordLeft, RecordPlan
  <2>5. Progress'
    BY <2>1, <2>4 DEF Progress
  <2> QED BY <1>1, <1>3, <2>1, <2>2, <2>5
<1>4. CASE StartPlan \/ MigrateLegacy
  BY <1>3, <1>4 DEF StartPlan, MigrateLegacy
<1>5. CASE Upgrade
  <2>1. /\ RunCommand("upgrade", UpgradeSchema)
        /\ authRunning = "none" /\ authRunning' = "upgrade" /\ authTodo' = UpgradeSchema
        /\ UNCHANGED <<planRow, meta, recordTorn>>
    BY <1>5 DEF Upgrade, RunCommand
  <2>2. UpgradeSchema # <<>>
    BY Lists5 DEF UpgradeSchema
  <2>3. UpgradeLeft'
    BY <2>1 DEF UpgradeLeft, UpgradeSchema
  <2>4. ~recordTorn' => Aligned'
    BY <1>2, <2>1 DEF Aligned
  <2>5. Progress'
    BY <2>1, <2>3, <2>4 DEF Progress
  <2> QED BY <1>1, <2>1, <2>2, <2>5
<1>6. CASE MigrateSchema
  <2>1. /\ RunCommand("migrate", <<Txn("schema", "1.0.0")>>)
        /\ authRunning = "none" /\ authRunning' = "migrate" /\ authTodo' = <<Txn("schema", "1.0.0")>>
        /\ UNCHANGED <<planRow, meta, recordTorn>>
    BY <1>6 DEF MigrateSchema, RunCommand
  <2>2. <<Txn("schema", "1.0.0")>> # <<>>
    BY Lists5
  <2>3. ~recordTorn' => Aligned'
    BY <1>2, <2>1 DEF Aligned
  <2>4. Progress'
    BY <2>1, <2>3 DEF Progress
  <2> QED BY <1>1, <2>1, <2>2, <2>4
<1>7. CASE Commit
  <2>1. authRunning \in {"record", "upgrade", "migrate"}
    BY <1>0, <1>7 DEF Commit, Progress
  <2>2. ASSUME authRunning = "migrate" PROVE AuthInv'
    <3>1. authTodo = <<Txn("schema", "1.0.0")>>
      BY <1>0, <2>2 DEF Progress
    <3>2. FinalTxn /\ Head(authTodo) = Txn("schema", "1.0.0") /\ Tail(authTodo) = <<>>
      BY <3>1, Lists5 DEF FinalTxn
    <3>3. /\ planRow' = planRow /\ meta'.canonical = meta.canonical /\ meta'.bound = meta.bound
          /\ authTodo' = <<>> /\ authRunning' = "none" /\ (Progress' => AuthInv')
          /\ recordTorn' = (recordTorn /\ ~(FinalTxn /\ authRunning = "record"))
      <4>1. "1.0.0" \in SchemaVersion
        BY DEF SchemaVersion
      <4> QED BY <1>7, <2>2, <3>2, <4>1, VersionFrame
    <3>4. recordTorn' = recordTorn
      BY <1>0, <2>2, <3>3 DEF AuthTypeOK
    <3>5. ~recordTorn => Aligned
      BY <1>0, <2>2 DEF Progress
    <3>6. Progress'
      BY <3>3, <3>4, <3>5 DEF Progress, Aligned
    <3> QED BY <3>3, <3>6
  <2> QED BY <1>7, <2>1, <2>2, RecordCommits, UpgradeCommits
<1>8. CASE KillCommand
  <2>1. /\ authTodo # <<>> /\ authRunning' = "none" /\ authTodo' = <<>>
        /\ recordTorn' = (recordTorn \/ (authRunning = "record" /\ Head(authTodo).key # "plan"))
        /\ UNCHANGED <<planRow, meta, contracts, unconfirmed, authCommands>>
    BY <1>8 DEF KillCommand
  <2>2. recordTorn' \in BOOLEAN
    BY <1>0, <2>1 DEF AuthTypeOK
  <2>3. AuthTypeOK'
    BY <1>0, <2>1, <2>2 DEF AuthTypeOK
  <2>4. ASSUME ~recordTorn' PROVE Aligned
    <3>1. CASE authRunning = "record"
      <4>1. PICK p \in PlanHash, schema \in {"1.0", "2.0"} : RecordLeft(p, schema)
        BY <1>0, <3>1 DEF Progress
      <4>2. ~recordTorn /\ Head(authTodo).key = "plan"
        BY <2>1, <2>4, <3>1
      <4> DEFINE canonical == Txn("canonical", p)
                 bound     == Txn("bound", Bind(p, schema, "1"))
                 version   == Txn("schema", schema)
                 last      == Txn("canon", "1")
      <4>3. canonical.key # "plan" /\ bound.key # "plan" /\ version.key # "plan" /\ last.key # "plan"
        BY DEF Txn
      <4>4. /\ Head(<<canonical, bound, version, last>>) = canonical /\ Head(<<bound, version, last>>) = bound
            /\ Head(<<version, last>>) = version /\ Head(<<last>>) = last
        BY Lists5
      <4>5. \/ ~recordTorn => Aligned
            \/ authTodo = <<canonical, bound, version, last>>
            \/ authTodo = <<bound, version, last>>
            \/ authTodo = <<version, last>>
            \/ authTodo = <<last>>
        BY <4>1 DEF RecordLeft
      <4> QED BY <4>2, <4>3, <4>4, <4>5
    <3>2. CASE authRunning # "record"
      BY <1>0, <2>1, <2>4, <3>2 DEF Progress
    <3> QED BY <3>1, <3>2
  <2>5. Progress'
    BY <2>1, <2>4 DEF Progress, Aligned
  <2>6. Invalidated'
    BY <1>0, <2>1 DEF Invalidated
  <2> QED BY <1>0, <2>1, <2>3, <2>5, <2>6 DEF AuthInv
<1>9. ASSUME NEW c \in Contract, NEW state \in {"active", "revoked"}, Confirm(c, state) PROVE AuthInv'
  <2> DEFINE row == [bound |-> meta.bound, state |-> state, needs |-> FALSE]
  <2>1. /\ contracts' = [contracts EXCEPT ![c] = row] /\ unconfirmed' = unconfirmed \ {c}
        /\ authCommands' \in 0..MaxCommands /\ UNCHANGED <<planRow, meta, authRunning, authTodo, recordTorn>>
    BY <1>00, <1>9 DEF Confirm
  <2>2. row \in ContractRow
    BY <1>0 DEF ContractRow, MetaRec
  <2> HIDE DEF row
  <2>3. /\ contracts' \in [Contract -> ContractRow]
        /\ \A d \in Contract : d # c => contracts'[d] = contracts[d]
    BY <1>0, <2>1, <2>2 DEF AuthTypeOK
  <2>4. AuthTypeOK'
    BY <1>0, <2>1, <2>3 DEF AuthTypeOK
  <2>5. Invalidated'
    BY <1>0, <2>1, <2>3 DEF Invalidated, AuthTypeOK
  <2>6. Progress'
    BY <1>0, <2>1 DEF Progress, RecordLeft, UpgradeLeft, Aligned
  <2> QED BY <1>0, <2>1, <2>4, <2>5, <2>6 DEF AuthInv
<1>10. CASE UNCHANGED authVars
  <2>1. UNCHANGED <<planRow, meta, contracts, authRunning, authTodo, recordTorn, unconfirmed, authCommands>>
    BY <1>10 DEF authVars
  <2>2. AuthTypeOK' /\ Invalidated'
    BY <1>0, <2>1 DEF AuthTypeOK, Invalidated
  <2>3. Progress'
    BY <1>0, <2>1 DEF Progress, RecordLeft, UpgradeLeft, Aligned
  <2> QED BY <1>0, <2>1, <2>2, <2>3 DEF AuthInv
<1> QED BY <1>4, <1>5, <1>6, <1>7, <1>8, <1>9, <1>10 DEF AuthNext

\* For any plans, contracts and commands, killed anywhere: a contract that was active when
\* a schema upgrade completed authorizes nothing until it is confirmed again, and, unless
\* a kill tore the last record, none authorizes anything for another plan than the one
\* recorded (upgrade_schema_with_hash_reset, record_plan, is_authorized).
THEOREM AuthorizationSafe == AuthSpec => []AuthorizationHolds
<1>1. AuthInit => AuthInv
  <2> SUFFICES ASSUME AuthInit PROVE AuthInv
    OBVIOUS
  <2>1. contracts \in [Contract -> ContractRow]
    BY DEF AuthInit, ContractRow
  <2>2. meta \in MetaRec /\ meta.canonical = Nil /\ meta.bound = Nil /\ meta.schema = Nil /\ meta.canon = Nil
    BY DEF AuthInit, MetaRec, HashOrNil
  <2>3. recordTorn \in BOOLEAN /\ unconfirmed = {} /\ planRow = Nil /\ authRunning = "none" /\ authTodo = <<>>
    BY DEF AuthInit
  <2>4. authCommands \in 0..MaxCommands
    BY AuthorizationAssumption DEF AuthInit
  <2>5. AuthTypeOK
    BY <2>1, <2>2, <2>3, <2>4 DEF AuthTypeOK, HashOrNil
  <2> QED BY <2>2, <2>3, <2>5 DEF AuthInv, Invalidated, Progress, Aligned
<1>2. AuthInv => AuthorizationHolds
  <2> SUFFICES ASSUME AuthInv PROVE UpgradeInvalidates /\ AuthorizedForRecordedPlan
    BY DEF AuthorizationHolds
  <2>1. UpgradeInvalidates
    BY DEF AuthInv, Invalidated, UpgradeInvalidates, IsAuthorized
  <2>2. AuthorizedForRecordedPlan
    BY DEF AuthInv, Progress, Aligned, AuthorizedForRecordedPlan, IsAuthorized
  <2> QED BY <2>1, <2>2
<1> QED BY <1>1, <1>2, AuthInductive, PTL DEF AuthSpec

-----------------------------------------------------------------------------
(* Continuous verification *)

\* The commands the lock belongs to: from the taking of it to the giving back.
Owns(r) ==
  /\ Gpu(NodeOf(r))
  /\ \/ actor[r].at \in {"fill", "begin", "unlock", "drop"} \/ InTry(r)
     \/ actor[r].at \in {"check", "read"} /\ actor[r].job = "next" /\ ~actor[r].picks

\* run-next has its lock when it comes to the check of run_node, so it never gets past it.
Blocked(r) ==
  actor[r].job = "next" /\ Gpu(NodeOf(r)) =>
    /\ ~InTry(r) /\ actor[r].at \notin {"unlock", "drop"}
    /\ actor[r].at \in {"unlink", "take", "fill"} => actor[r].picks

\* While no lock slipped, the lock of a command is on file as it wrote it.
HasLock(r) ==
  /\ gpuLock.by = r /\ gpuLock.node = NodeOf(r)
  /\ gpuLock.file = IF At(r, "fill") THEN "empty" ELSE "young"
  /\ At(r, "fill") => handle[r] = "lock"
LockInv == ~gpuSlip => \A r \in Runner : (Owns(r) => HasLock(r)) /\ Blocked(r)

\* Only what needs the GPU turns to its lock, and init runs no node.
Placed(r) ==
  /\ actor[r].at \in {"unlock", "drop"} \cup Acquiring => Gpu(NodeOf(r))
  /\ actor[r].at \in {"scan", "begin", "mark", "run", "unlock", "drop"} \cup Acquiring => actor[r].job # "init"
  /\ actor[r].at \in {"boot", "init"} => actor[r].job = "init"
  /\ actor[r].at \in {"new", "boot"} => NodeOf(r) = 0
AllPlaced == \A r \in Runner : Placed(r)

\* While one command at a time writes a node's file, what it moves there is what it wrote.
Alone(r) ==
  LET n == NodeOf(r) IN
  actor[r].at \in FileWrite =>
    /\ actor[r].job = "init" => actor[r].word = "PENDING"
    /\ n \notin met =>
         /\ \A q \in Runner : actor[q].at \in FileWrite /\ NodeOf(q) = n => q = r
         /\ At(r, "write") => tmpFile[n] = "empty" /\ handle[r] = "tmp"
         /\ At(r, "put") => tmpFile[n] = actor[r].word
WriteInv == \A r \in Runner : Alone(r)

CvoInv == CvoTypeOK /\ LockInv /\ AllPlaced /\ WriteInv /\ RunningHasRunner

-----------------------------------------------------------------------------

LEMMA BecomesIt ==
  ASSUME CvoTypeOK, NEW r \in Runner, NEW c \in CvoCommand, Becomes(r, c)
  PROVE  /\ actor' \in [Runner -> CvoCommand] /\ \A q \in Runner : q # r => actor'[q] = actor[q]
         /\ actor'[r] = IF c.at = "down" THEN Ended ELSE c
         /\ Ended.at = "down" /\ Ended.node = 0 /\ Ended.job = "node" /\ Ended.picks = FALSE
<1>1. Ended \in CvoCommand /\ Ended.at = "down" /\ Ended.node = 0 /\ Ended.job = "node" /\ Ended.picks = FALSE
  BY CvoAssumption DEF Ended, Waiting, CvoCommand, RunnerAt, CvoJob, NodeStatus
<1>2. actor' = [actor EXCEPT ![r] = IF c.at = "down" THEN Ended ELSE c]
  BY DEF Becomes
<1>3. actor \in [Runner -> CvoCommand]
  BY DEF CvoTypeOK
<1> HIDE DEF Ended
<1> QED BY <1>1, <1>2, <1>3

\* What GoTo does to a command that goes on, and to one that ends.
LEMMA GoesTo ==
  ASSUME CvoTypeOK, NEW r \in Runner, NEW where \in RunnerAt, GoTo(r, where)
  PROVE  /\ actor' \in [Runner -> CvoCommand] /\ \A q \in Runner : q # r => actor'[q] = actor[q]
         /\ actor'[r].at = where
         /\ IF where = "down" THEN actor'[r].node = 0 /\ actor'[r].job = "node" /\ actor'[r].picks = FALSE
            ELSE actor'[r].node = actor[r].node /\ actor'[r].job = actor[r].job
                 /\ actor'[r].picks = actor[r].picks /\ actor'[r].word = actor[r].word
<1> DEFINE c == [actor[r] EXCEPT !.at = where]
<1>1. /\ c \in CvoCommand /\ c.at = where /\ c.node = actor[r].node /\ c.job = actor[r].job
      /\ c.picks = actor[r].picks /\ c.word = actor[r].word
  BY DEF CvoTypeOK, CvoCommand
<1>2. Becomes(r, c)
  BY DEF GoTo
<1> HIDE DEF c
<1> QED BY <1>1, <1>2, BecomesIt

LEMMA GoesOnwards ==
  ASSUME CvoTypeOK, NEW r \in Runner, NEW from \in Nat, Onwards(r, from)
  PROVE  /\ actor' \in [Runner -> CvoCommand] /\ \A q \in Runner : q # r => actor'[q] = actor[q]
         /\ actor'[r].at \in {"scan", "down"} /\ (actor'[r].at = "scan" => actor'[r].job = "next")
<1>1. ASSUME NEW n \in CvoNode, Becomes(r, [actor[r] EXCEPT !.at = "scan", !.job = "next", !.node = n])
      PROVE  /\ actor' \in [Runner -> CvoCommand] /\ \A q \in Runner : q # r => actor'[q] = actor[q]
             /\ actor'[r].at = "scan" /\ actor'[r].job = "next"
  <2> DEFINE c == [actor[r] EXCEPT !.at = "scan", !.job = "next", !.node = n]
  <2>1. c \in CvoCommand /\ c.at = "scan" /\ c.job = "next"
    BY DEF CvoTypeOK, CvoCommand, RunnerAt, CvoJob
  <2>2. Becomes(r, c)
    BY <1>1
  <2> HIDE DEF c
  <2> QED BY <2>1, <2>2, BecomesIt
<1>2. CASE GoTo(r, "down")
  BY <1>2, GoesTo DEF RunnerAt
<1> QED BY <1>1, <1>2 DEF Onwards

-----------------------------------------------------------------------------

\* A step that touches no file, of a command that writes none.
LEMMA Chooses ==
  ASSUME CvoInv, NEW r \in Runner, Reads, actor' \in [Runner -> CvoCommand],
         \A q \in Runner : q # r => actor'[q] = actor[q],
         actor[r].at \notin FileWrite \cup {"run"}, actor'[r].at \notin FileWrite \cup {"run"},
         Placed(r)',
         ~gpuSlip => (Owns(r)' => HasLock(r)') /\ Blocked(r)'
  PROVE  CvoInv'
<1> USE DEF CvoInv, CvoTypeOK, Reads
<1>1. CvoTypeOK'
  OBVIOUS
<1>2. ASSUME NEW q \in Runner, q # r
      PROVE  (Owns(q)' <=> Owns(q)) /\ (HasLock(q)' <=> HasLock(q)) /\ (Blocked(q)' <=> Blocked(q))
  BY <1>2 DEF Owns, HasLock, Blocked, InTry, At, NodeOf
<1>3. LockInv'
  BY <1>2 DEF LockInv
<1>4. AllPlaced'
  BY DEF AllPlaced, Placed, NodeOf
<1>5. WriteInv'
  BY DEF WriteInv, Alone, At, NodeOf
<1>6. RunningHasRunner'
  <2> SUFFICES ASSUME NEW n \in CvoNode, nodeFile'[n] = "RUNNING", n \notin killedOn' \cup met'
               PROVE  \E q \in Runner : Executes(q, n)'
    BY DEF RunningHasRunner
  <2>1. PICK q \in Runner : Executes(q, n)
    BY DEF RunningHasRunner
  <2>2. q # r
    BY <2>1 DEF Executes, At
  <2> QED BY <2>1, <2>2 DEF Executes, At, NodeOf
<1> QED BY <1>1, <1>3, <1>4, <1>5, <1>6

\* A step that touches the lock alone, of a command that writes no node's file.
LEMMA Locks ==
  ASSUME CvoInv, NEW r \in Runner, OnlyLock, actor' \in [Runner -> CvoCommand],
         gpuLock' \in GpuLock, gpuSlip' \in BOOLEAN, handle' \in [Runner -> {"none", "tmp", "node", "lock", "gone"}],
         \A q \in Runner : q # r => actor'[q] = actor[q] /\ (handle[q] = "tmp" => handle'[q] = "tmp"),
         actor[r].at \notin FileWrite \cup {"run"}, actor'[r].at \notin FileWrite \cup {"run"},
         Placed(r)',
         LockInv'
  PROVE  CvoInv'
<1> USE DEF CvoInv, CvoTypeOK, OnlyLock
<1>1. CvoTypeOK'
  OBVIOUS
<1>4. AllPlaced'
  BY DEF AllPlaced, Placed, NodeOf
<1>5. WriteInv'
  BY DEF WriteInv, Alone, At, NodeOf
<1>6. RunningHasRunner'
  <2> SUFFICES ASSUME NEW n \in CvoNode, nodeFile'[n] = "RUNNING", n \notin killedOn' \cup met'
               PROVE  \E q \in Runner : Executes(q, n)'
    BY DEF RunningHasRunner
  <2>1. PICK q \in Runner : Executes(q, n)
    BY DEF RunningHasRunner
  <2>2. q # r
    BY <2>1 DEF Executes, At
  <2> QED BY <2>1, <2>2 DEF Executes, At, NodeOf
<1> QED BY <1>1, <1>4, <1>5, <1>6

\* A step that leaves the lock alone, of a command that has it or has nothing to do with it.
LEMMA LockStays ==
  ASSUME CvoInv, NEW r \in Runner, UNCHANGED <<gpuLock, gpuSlip>>, actor' \in [Runner -> CvoCommand],
         \A q \in Runner : q # r => actor'[q] = actor[q] /\ (handle[q] = "lock" => handle'[q] = "lock"),
         Owns(r)' => Owns(r) /\ actor'[r].node = actor[r].node,
         actor[r].at # "fill", actor'[r].at # "fill",
         Blocked(r) => Blocked(r)'
  PROVE  LockInv'
<1> USE DEF CvoInv, LockInv
<1>1. ASSUME NEW q \in Runner, q # r
      PROVE  (Owns(q)' <=> Owns(q)) /\ (HasLock(q) => HasLock(q)') /\ (Blocked(q)' <=> Blocked(q))
  BY <1>1 DEF Owns, HasLock, Blocked, InTry, At, NodeOf
<1>2. ~gpuSlip /\ Owns(r)' => HasLock(r)'
  BY DEF HasLock, At, NodeOf
<1> QED BY <1>1, <1>2

\* The steps of set_status and init on a node's file n: what the others write is as before,
\* unless two were writing, and whoever ran a node runs it.
LEMMA Writes ==
  ASSUME CvoInv, NEW r \in Runner, actor' \in [Runner -> CvoCommand], UNCHANGED <<gpuLock, gpuSlip>>,
         CvoTypeOK', \A q \in Runner : q # r => actor'[q] = actor[q],
         LockInv', AllPlaced', met \subseteq met', killedOn \subseteq killedOn',
         Alone(r)',
         NEW n \in CvoNode, n = actor[r].node \/ n = actor'[r].node,
         \A q \in Runner : q # r => (handle[q] # "tmp" \/ actor[q].node = n \/ handle'[q] = "tmp"),
         \A m \in CvoNode : m # n => nodeFile'[m] = nodeFile[m] /\ tmpFile'[m] = tmpFile[m],
         UNCHANGED tmpFile \/ (actor[r].at \in FileWrite /\ actor[r].node = n),
         actor[r].at \in FileWrite => actor[r].node = n,
         actor'[r].at \in FileWrite => actor'[r].node = n,
         actor'[r].at \in FileWrite /\ actor[r].at \notin FileWrite =>
           (n \in met' \/ \A q \in Runner : q # r => ~(actor[q].at \in FileWrite /\ actor[q].node = n)),
         UNCHANGED handle \/ (actor[r].at \in FileWrite /\ actor[r].node = n)
           \/ \A q \in Runner : q # r => handle'[q] = handle[q],
         nodeFile'[n] = "RUNNING" /\ n \notin killedOn' \cup met' =>
           Executes(r, n)' \/ (nodeFile[n] = "RUNNING" /\ ~Executes(r, n)),
         \A m \in CvoNode : m # n => ~Executes(r, m)
  PROVE  CvoInv'
<1> USE DEF CvoInv
<1>1. ASSUME NEW q \in Runner, q # r PROVE Alone(q)'
  <2> SUFFICES ASSUME actor[q].at \in FileWrite PROVE Alone(q)'
    BY <1>1 DEF Alone
  <2> DEFINE m == actor[q].node
  <2>1. Alone(q) /\ m \in CvoNode
    BY DEF WriteInv, CvoTypeOK, CvoCommand
  <2>2. actor'[q] = actor[q]
    BY <1>1
  <2>3. CASE m \in met'
    BY <2>1, <2>2, <2>3 DEF Alone, NodeOf
  <2>4. CASE m \notin met'
    <3>1. m \notin met
      BY <2>4
    <3>2. ~(actor[r].at \in FileWrite /\ actor[r].node = m)
      BY <1>1, <2>1, <3>1 DEF Alone, NodeOf
    <3>3. ~(actor'[r].at \in FileWrite /\ actor'[r].node = m)
      BY <1>1, <2>4, <3>2
    <3>4. \A p \in Runner : actor'[p].at \in FileWrite /\ actor'[p].node = m => p = q
      BY <1>1, <2>1, <3>1, <3>3 DEF Alone, NodeOf
    <3>5. tmpFile'[m] = tmpFile[m]
      BY <2>1, <3>2
    <3>6. handle[q] = "tmp" => handle'[q] = "tmp"
      BY <1>1, <3>2
    <3> QED BY <2>1, <2>2, <3>1, <3>4, <3>5, <3>6 DEF Alone, NodeOf, At
  <2> QED BY <2>3, <2>4
<1>2. WriteInv'
  BY <1>1 DEF WriteInv
<1>3. RunningHasRunner'
  <2> SUFFICES ASSUME NEW m \in CvoNode, nodeFile'[m] = "RUNNING", m \notin killedOn' \cup met'
               PROVE  \E q \in Runner : Executes(q, m)'
    BY DEF RunningHasRunner
  <2>1. CASE nodeFile[m] = "RUNNING" /\ ~Executes(r, m)
    <3>1. PICK q \in Runner : Executes(q, m)
      BY <2>1 DEF RunningHasRunner
    <3>2. q # r
      BY <2>1, <3>1
    <3> QED BY <3>1, <3>2 DEF Executes, At, NodeOf
  <2>2. CASE m # n
    BY <2>1, <2>2
  <2>3. CASE m = n
    BY <2>1, <2>3
  <2> QED BY <2>2, <2>3
<1> QED BY <1>2, <1>3

-----------------------------------------------------------------------------

LEMMA ChoosingSteps ==
  ASSUME CvoInv, NEW r \in Runner,
         \/ RunNext(r) \/ Scan(r) \/ Begin(r) \/ \E n \in CvoNode, force \in BOOLEAN : RunNode(r, n, force)
         \/ CheckLock(r) \/ ReadLock(r) \/ Unlock(r)
  PROVE  CvoInv'
<1> USE CvoAssumption
<1>0. CvoTypeOK /\ actor[r] \in CvoCommand /\ NodeOf(r) = actor[r].node /\ actor[r].node \in Nat
  BY DEF CvoInv, CvoTypeOK, CvoCommand, NodeOf
<1>00. ~gpuSlip => (Owns(r) => HasLock(r)) /\ Blocked(r)
  BY DEF CvoInv, LockInv
<1>01. ~Gpu(0)
  BY DEF Gpu
<1>02. Placed(r)
  BY DEF CvoInv, AllPlaced
<1>1. ASSUME Reads, Onwards(r, 0) \/ Onwards(r, NodeOf(r) + 1) \/ GoTo(r, "down"), actor[r].at \notin FileWrite \cup {"run"} PROVE CvoInv'
  <2>1. /\ actor' \in [Runner -> CvoCommand] /\ \A q \in Runner : q # r => actor'[q] = actor[q]
        /\ actor'[r].at \in {"scan", "down"} /\ (actor'[r].at = "scan" => actor'[r].job = "next")
    <3>1. 0 \in Nat /\ NodeOf(r) + 1 \in Nat
      BY <1>0
    <3> QED BY <1>0, <1>1, <3>1, GoesOnwards, GoesTo DEF RunnerAt
  <2> QED BY <1>1, <2>1, <1>02, Chooses DEF Placed, NodeOf, FileWrite, Acquiring, Owns, HasLock, Blocked, InTry, NodeOf
<1>2. CASE RunNext(r)
  BY <1>1, <1>2 DEF RunNext, NewRunner, At, FileWrite
<1>3. CASE Scan(r)
  <2> DEFINE n == NodeOf(r)
             gpu == Gpu(n) /\ ~Skipped(n)
             c == [actor[r] EXCEPT !.at = IF gpu THEN "check" ELSE "begin", !.picks = gpu]
  <2>1. Reads /\ actor[r].at = "scan"
    BY <1>3 DEF Scan, At
  <2>2. CASE Onwards(r, NodeOf(r) + 1) \/ GoTo(r, "down")
    BY <1>1, <2>1, <2>2 DEF FileWrite
  <2>3. CASE Becomes(r, c) /\ ~Skipped(n)
    <3>1. /\ c \in CvoCommand /\ c.at = (IF gpu THEN "check" ELSE "begin") /\ c.picks = gpu
          /\ c.node = actor[r].node /\ c.job = actor[r].job
      BY <1>0 DEF CvoCommand, RunnerAt, Acquiring
    <3> HIDE DEF c
    <3>2. /\ actor' \in [Runner -> CvoCommand] /\ \A q \in Runner : q # r => actor'[q] = actor[q]
          /\ actor'[r] = c
      BY <1>0, <2>3, <3>1, BecomesIt
    <3>3. ~Owns(r)' /\ Blocked(r)'
      BY <1>0, <2>3, <3>1, <3>2 DEF Owns, Blocked, InTry, NodeOf, FileWrite
    <3>4. Placed(r)'
      BY <1>0, <1>02, <2>1, <3>1, <3>2 DEF Placed, NodeOf, Acquiring
    <3>5. actor[r].at \notin FileWrite \cup {"run"} /\ actor'[r].at \notin FileWrite \cup {"run"}
      BY <2>1, <3>1, <3>2 DEF FileWrite
    <3> QED BY <2>1, <3>2, <3>3, <3>4, <3>5, <1>02, Chooses DEF Placed, NodeOf, FileWrite, Acquiring
  <2> QED BY <1>3, <2>2, <2>3 DEF Scan
<1>4. ASSUME NEW n \in CvoNode, NEW force \in BOOLEAN, RunNode(r, n, force) PROVE CvoInv'
  <2> DEFINE to == IF nodeFile[n] \in Unreadable \/ (nodeFile[n] = "PASSED" /\ ~force) THEN "down" ELSE ToRun(n)
             c == [actor[r] EXCEPT !.node = n, !.job = "node", !.at = to]
  <2>1. Reads /\ actor[r].at = "new"
    BY <1>4 DEF RunNode, NewRunner, At
  <2>2. /\ c \in CvoCommand /\ c.node = n /\ c.at = to /\ c.job = "node" /\ to \in {"down", "check", "mark"}
        /\ (to = "mark" => ~Gpu(n)) /\ (to = "check" => Gpu(n))
    BY <1>0 DEF ToRun, CvoCommand, RunnerAt, Acquiring, CvoJob
  <2>3. Becomes(r, c)
    BY <1>4 DEF RunNode
  <2> HIDE DEF c, to
  <2>4. /\ actor' \in [Runner -> CvoCommand] /\ \A q \in Runner : q # r => actor'[q] = actor[q]
        /\ actor'[r] = IF c.at = "down" THEN Ended ELSE c
        /\ Ended.at = "down" /\ Ended.node = 0 /\ Ended.job = "node"
    BY <1>0, <2>2, <2>3, BecomesIt
  <2>5. actor'[r].job = "node" /\ actor'[r].at \in {"down", "check", "mark"}
        /\ (actor'[r].at = "mark" => ~Gpu(actor'[r].node)) /\ (actor'[r].at = "check" => Gpu(actor'[r].node))
    BY <2>2, <2>4
  <2>6. ~Owns(r)' /\ Blocked(r)'
    BY <2>5 DEF Owns, Blocked, InTry, NodeOf, FileWrite
  <2> QED BY <2>1, <2>4, <2>5, <2>6, Chooses DEF NodeOf, Placed, FileWrite, Acquiring
<1>5. CASE Begin(r)
  <2> DEFINE n == NodeOf(r)
             to == IF nodeFile[n] \in Unreadable \cup {"PASSED"} THEN "down" ELSE ToRun(n)
             c == [actor[r] EXCEPT !.picks = FALSE, !.at = to]
  <2>1. Reads /\ actor[r].at = "begin"
    BY <1>5 DEF Begin, At
  <2>2. /\ c \in CvoCommand /\ c.node = n /\ c.at = to /\ c.job = actor[r].job /\ c.picks = FALSE
        /\ to \in {"down", "check", "mark"} /\ (to = "mark" => ~Gpu(n)) /\ (to = "check" => Gpu(n))
    BY <1>0 DEF ToRun, CvoCommand, RunnerAt, Acquiring
  <2>3. Becomes(r, c)
    BY <1>5 DEF Begin
  <2> HIDE DEF c, to
  <2>4. /\ actor' \in [Runner -> CvoCommand] /\ \A q \in Runner : q # r => actor'[q] = actor[q]
        /\ actor'[r] = IF c.at = "down" THEN Ended ELSE c
        /\ Ended.at = "down" /\ Ended.node = 0 /\ Ended.job = "node"
    BY <1>0, <2>2, <2>3, BecomesIt
  <2>5. ~gpuSlip => (Owns(r)' => HasLock(r)') /\ Blocked(r)'
    BY <1>0, <1>00, <1>01, <2>1, <2>2, <2>4 DEF Owns, HasLock, Blocked, InTry, NodeOf, At, Reads, FileWrite
  <2> QED BY <2>1, <2>2, <2>4, <2>5, <1>02, Chooses DEF Placed, NodeOf, FileWrite, Acquiring
<1>6. CASE CheckLock(r) \/ ReadLock(r) \/ Unlock(r)
  <2>1. CASE Onwards(r, NodeOf(r) + 1) \/ GoTo(r, "down")
    BY <1>1, <1>6, <2>1 DEF CheckLock, ReadLock, Unlock, At, FileWrite
  <2>2. ASSUME NEW where \in {"take", "read", "unlink", "drop"}, GoTo(r, where),
               where = "take" => actor[r].at = "check" /\ gpuLock.file = "absent",
               where = "read" => actor[r].at = "check",
               where = "unlink" => actor[r].at = "read" /\ gpuLock.file = "old",
               where = "drop" => actor[r].at = "unlock"
        PROVE  CvoInv'
    <3>1. /\ actor' \in [Runner -> CvoCommand] /\ \A q \in Runner : q # r => actor'[q] = actor[q]
          /\ actor'[r].at = where /\ actor'[r].node = actor[r].node /\ actor'[r].job = actor[r].job
          /\ actor'[r].picks = actor[r].picks
      BY <1>0, <2>2, GoesTo DEF RunnerAt, Acquiring
    <3>2. Reads
      BY <1>6 DEF CheckLock, ReadLock, Unlock
    <3>3. where = "drop" => Gpu(actor[r].node)
      BY <2>2, <1>0 DEF CvoInv, AllPlaced, Placed, Acquiring
    <3>4. ~gpuSlip => (Owns(r)' => HasLock(r)') /\ Blocked(r)'
      BY <1>0, <1>00, <2>2, <3>1, <3>2 DEF Owns, HasLock, Blocked, InTry, NodeOf, At, Reads, FileWrite
    <3>5. Placed(r)'
      BY <2>2, <3>1, <3>3, <1>0, <1>02 DEF Placed, NodeOf, Acquiring
    <3>6. actor[r].at \notin FileWrite \cup {"run"} /\ actor'[r].at \notin FileWrite \cup {"run"}
      BY <2>2, <3>1 DEF FileWrite
    <3> QED BY <3>1, <3>2, <3>4, <3>5, <3>6, Chooses
  <2> QED BY <1>6, <2>1, <2>2 DEF CheckLock, ReadLock, Unlock, At
<1> QED BY <1>2, <1>3, <1>4, <1>5, <1>6

LEMMA LockSteps ==
  ASSUME CvoInv, NEW r \in Runner, UnlinkLock(r) \/ OpenLock(r) \/ FillLock(r) \/ DropLock(r)
  PROVE  CvoInv'
<1> USE CvoAssumption DEF OnlyLock
<1>0. CvoTypeOK /\ actor[r] \in CvoCommand /\ NodeOf(r) = actor[r].node /\ actor[r].node \in CvoNode
      /\ handle \in [Runner -> {"none", "tmp", "node", "lock", "gone"}] /\ gpuLock \in GpuLock
  BY DEF CvoInv, CvoTypeOK, CvoCommand, NodeOf
<1>00. LockInv
  BY DEF CvoInv
<1>01. ~Gpu(0)
  BY DEF Gpu
<1>03. actor[r].at \in {"unlock", "drop"} \cup Acquiring => Gpu(NodeOf(r))
  BY DEF CvoInv, AllPlaced, Placed
<1>04. Placed(r)
  BY DEF CvoInv, AllPlaced
<1>02. NoLock \in GpuLock
  BY DEF NoLock, GpuLock
<1>1. CASE UnlinkLock(r)
  <2>1. /\ OnlyLock /\ actor[r].at = "unlink" /\ gpuLock' = NoLock
        /\ handle' = [q \in Runner |-> IF handle[q] = "lock" THEN "gone" ELSE handle[q]]
        /\ gpuSlip' = (gpuSlip \/ gpuLock.file \in {"empty", "torn", "young"})
        /\ GoTo(r, "take")
    BY <1>1 DEF UnlinkLock, Unlinked, At
  <2>2. /\ actor' \in [Runner -> CvoCommand] /\ \A q \in Runner : q # r => actor'[q] = actor[q]
        /\ actor'[r].at = "take" /\ actor'[r].node = actor[r].node /\ actor'[r].job = actor[r].job
        /\ actor'[r].picks = actor[r].picks
    BY <1>0, <2>1, GoesTo DEF RunnerAt, Acquiring
  <2>3. ASSUME ~gpuSlip', NEW q \in Runner PROVE ~Owns(q)' /\ Blocked(q)'
    <3>1. ~Owns(q) /\ Blocked(q)
      BY <1>00, <2>1, <2>3 DEF LockInv, HasLock
    <3> QED BY <3>1, <2>1, <2>2 DEF Owns, Blocked, InTry, NodeOf, FileWrite
  <2>4. LockInv'
    BY <2>3 DEF LockInv
  <2> QED BY <1>0, <1>02, <2>1, <2>2, <2>4, <1>03, <1>04, Locks DEF NodeOf, Placed, FileWrite, Acquiring, CvoTypeOK
<1>2. CASE OpenLock(r)
  <2>1. /\ OnlyLock /\ actor[r].at = "take" /\ gpuLock' = [file |-> "empty", node |-> NodeOf(r), by |-> r]
        /\ handle' = [handle EXCEPT ![r] = "lock"]
        /\ gpuSlip' = (gpuSlip \/ gpuLock.file \in {"empty", "torn", "young"})
        /\ GoTo(r, "fill")
    BY <1>2 DEF OpenLock, At
  <2>2. /\ actor' \in [Runner -> CvoCommand] /\ \A q \in Runner : q # r => actor'[q] = actor[q]
        /\ actor'[r].at = "fill" /\ actor'[r].node = actor[r].node /\ actor'[r].job = actor[r].job
        /\ actor'[r].picks = actor[r].picks
    BY <1>0, <2>1, GoesTo DEF RunnerAt, Acquiring
  <2>3. ASSUME ~gpuSlip', NEW q \in Runner, q # r PROVE ~Owns(q)' /\ Blocked(q)'
    <3>1. ~Owns(q) /\ Blocked(q)
      BY <1>00, <2>1, <2>3 DEF LockInv, HasLock
    <3> QED BY <3>1, <2>2, <2>3 DEF Owns, Blocked, InTry, NodeOf
  <2>4. ASSUME ~gpuSlip' PROVE HasLock(r)' /\ Blocked(r)'
    <3>1. Blocked(r)
      BY <1>00, <2>1, <2>4 DEF LockInv
    <3> QED BY <3>1, <1>0, <2>1, <2>2 DEF HasLock, Blocked, InTry, NodeOf, At, FileWrite
  <2>5. LockInv'
    BY <2>3, <2>4 DEF LockInv
  <2>6. gpuLock' \in GpuLock
    BY <1>0, <2>1 DEF GpuLock
  <2> QED BY <1>0, <2>1, <2>2, <2>5, <2>6, <1>03, <1>04, Locks DEF NodeOf, Placed, FileWrite, Acquiring, CvoTypeOK
<1>3. CASE FillLock(r)
  <2> DEFINE where == IF actor[r].picks THEN "begin" ELSE "mark"
  <2>1. /\ OnlyLock /\ actor[r].at = "fill" /\ handle' = [handle EXCEPT ![r] = "none"] /\ UNCHANGED gpuSlip
        /\ GoTo(r, where)
    BY <1>3 DEF FillLock, At
  <2>2. /\ actor' \in [Runner -> CvoCommand] /\ \A q \in Runner : q # r => actor'[q] = actor[q]
        /\ actor'[r].at = where /\ actor'[r].node = actor[r].node /\ actor'[r].job = actor[r].job
        /\ actor'[r].picks = actor[r].picks
    <3>1. where \in RunnerAt /\ where # "down"
      BY DEF RunnerAt
    <3> HIDE DEF where
    <3> QED BY <1>0, <2>1, <3>1, GoesTo
  <2>3. \/ UNCHANGED gpuLock /\ handle[r] = "gone"
        \/ \E file \in Over(gpuLock.file, "young") : gpuLock' = [file |-> file, node |-> NodeOf(r), by |-> r]
    BY <1>3 DEF FillLock
  <2>4. \A file \in Over(gpuLock.file, "young") : file \in {"young", "torn"} /\ (gpuLock.file = "empty" => file = "young")
    BY DEF Over
  <2>5. gpuLock' \in GpuLock
    BY <1>0, <2>3, <2>4 DEF GpuLock
  <2>6. ASSUME ~gpuSlip, NEW q \in Runner PROVE (Owns(q)' => HasLock(q)') /\ Blocked(q)'
    <3>1. (Owns(q) => HasLock(q)) /\ Blocked(q) /\ (Owns(r) => HasLock(r)) /\ Blocked(r)
      BY <1>00, <2>6 DEF LockInv
    <3>2. CASE q = r
      <4>1. Blocked(r)'
        BY <3>1, <2>1, <2>2, <1>0 DEF Blocked, InTry, NodeOf, FileWrite
      <4>2. CASE Gpu(NodeOf(r))
        <5>1. HasLock(r)
          BY <3>1, <2>1, <4>2 DEF Owns
        <5>2. gpuLock' = [file |-> "young", node |-> NodeOf(r), by |-> r]
          BY <5>1, <2>1, <2>3, <2>4 DEF HasLock, At
        <5> QED BY <3>2, <4>1, <5>2, <2>2, <1>0 DEF HasLock, At, NodeOf
      <4>3. CASE ~Gpu(NodeOf(r))
        BY <3>2, <4>1, <4>3, <2>2, <1>0 DEF Owns, NodeOf
      <4> QED BY <4>2, <4>3
    <3>3. CASE q # r
      <4>1. Blocked(q)' /\ (Owns(q)' <=> Owns(q))
        BY <3>1, <3>3, <2>2 DEF Blocked, Owns, InTry, NodeOf
      <4>2. ASSUME Owns(q) PROVE UNCHANGED gpuLock
        <5>1. HasLock(q)
          BY <3>1, <4>2
        <5>2. gpuLock.by # r
          BY <5>1, <3>3 DEF HasLock
        <5>3. HasLock(r)
          BY <3>1, <2>1, <1>03 DEF Owns, Acquiring
        <5> QED BY <5>2, <5>3 DEF HasLock
      <4> QED BY <3>1, <3>3, <4>1, <4>2, <2>1, <2>2, <1>0 DEF HasLock, At, NodeOf
    <3> QED BY <3>2, <3>3
  <2>7. LockInv'
    BY <2>1, <2>6 DEF LockInv
  <2> QED BY <1>0, <2>1, <2>2, <2>5, <2>7, <1>03, <1>04, Locks DEF NodeOf, Placed, FileWrite, Acquiring, CvoTypeOK
<1>4. CASE DropLock(r)
  <2>1. /\ OnlyLock /\ actor[r].at = "drop" /\ gpuLock' = NoLock /\ UNCHANGED gpuSlip
        /\ handle' = [q \in Runner |-> IF handle[q] = "lock" THEN "gone" ELSE handle[q]]
        /\ GoTo(r, "down")
    BY <1>4 DEF DropLock, Unlinked, At
  <2>2. /\ actor' \in [Runner -> CvoCommand] /\ \A q \in Runner : q # r => actor'[q] = actor[q]
        /\ actor'[r].at = "down" /\ actor'[r].node = 0
    BY <1>0, <2>1, GoesTo DEF RunnerAt
  <2>3. Gpu(NodeOf(r)) /\ Owns(r)
    BY <2>1, <1>03 DEF Owns
  <2>4. ASSUME ~gpuSlip, NEW q \in Runner PROVE ~Owns(q)' /\ Blocked(q)'
    <3>1. CASE q = r
      BY <3>1, <2>2, <1>01 DEF Owns, Blocked, NodeOf
    <3>2. CASE q # r
      <4>1. ~Owns(q) /\ Blocked(q)
        BY <1>00, <2>3, <2>4, <3>2 DEF LockInv, HasLock
      <4> QED BY <4>1, <3>2, <2>2 DEF Owns, Blocked, InTry, NodeOf
    <3> QED BY <3>1, <3>2
  <2>5. LockInv'
    BY <2>1, <2>4 DEF LockInv
  <2> QED BY <1>0, <1>02, <2>1, <2>2, <2>5, <1>03, <1>04, Locks DEF NodeOf, Placed, FileWrite, Acquiring, CvoTypeOK
<1> QED BY <1>1, <1>2, <1>3, <1>4

-----------------------------------------------------------------------------

\* set_status begins: with the mark, or with the end.
LEMMA Sets ==
  ASSUME CvoInv, NEW r \in Runner, NEW status \in NodeStatus, SetStatus(r, status),
         \/ At(r, "mark") /\ status = "RUNNING"
         \/ At(r, "run") /\ status # "RUNNING"
  PROVE  CvoInv'
<1>n. PICK n \in CvoNode : n = NodeOf(r)
  BY DEF CvoInv, CvoTypeOK, CvoCommand, NodeOf
<1> DEFINE after == AfterRun(n)
           c == [actor[r] EXCEPT !.at = "tmp", !.word = status]
<1>0. /\ CvoTypeOK /\ actor[r] \in CvoCommand /\ n = actor[r].node /\ n \in CvoNode /\ Looks
      /\ actor[r].at \in {"mark", "run"} /\ actor[r].job # "init" /\ ~Gpu(0)
  BY <1>n DEF CvoInv, CvoTypeOK, CvoCommand, NodeOf, AllPlaced, Placed, At, SetStatus, Gpu
<1>1. CASE nodeFile[n] \in Unreadable /\ GoTo(r, after) /\ UNCHANGED met
  <2>1. after \in RunnerAt /\ after = IF Gpu(n) THEN "unlock" ELSE "down"
    BY DEF AfterRun, RunnerAt
  <2>2. /\ actor' \in [Runner -> CvoCommand] /\ \A q \in Runner : q # r => actor'[q] = actor[q]
        /\ actor'[r].at = after
        /\ IF after = "down" THEN actor'[r].node = 0 /\ actor'[r].job = "node"
           ELSE actor'[r].node = n /\ actor'[r].job = actor[r].job
    BY <1>0, <1>1, <2>1, GoesTo
  <2>3. Placed(r)' /\ Alone(r)'
    BY <1>0, <2>1, <2>2 DEF Placed, Alone, NodeOf, Acquiring, FileWrite
  <2>4. LockInv'
    BY <1>0, <2>1, <2>2, LockStays DEF Looks, Owns, Blocked, InTry, NodeOf, FileWrite
  <2>5. CvoTypeOK' /\ AllPlaced'
    BY <1>0, <1>1, <2>2, <2>3 DEF CvoTypeOK, Looks, CvoInv, AllPlaced, Placed, NodeOf
  <2>6. \A m \in CvoNode : m # n => ~Executes(r, m)
    BY <1>0 DEF Executes, NodeOf
  <2>7. nodeFile'[n] # "RUNNING"
    BY <1>0, <1>1 DEF Looks, Unreadable
  <2>8. actor'[r].at \notin FileWrite /\ actor[r].at \notin FileWrite
    BY <1>0, <2>1, <2>2 DEF FileWrite
  <2> HIDE DEF after
  <2> QED BY <1>0, <1>1, <2>2, <2>3, <2>4, <2>5, <2>6, <2>7, <2>8, Writes DEF Looks
<1>2. CASE Becomes(r, c) /\ Meets(r, n)
  <2>1. c \in CvoCommand /\ c.at = "tmp" /\ c.node = n /\ c.job = actor[r].job /\ c.word = status
    BY <1>0 DEF CvoCommand, RunnerAt, FileWrite
  <2> HIDE DEF c
  <2>2. /\ actor' \in [Runner -> CvoCommand] /\ \A q \in Runner : q # r => actor'[q] = actor[q]
        /\ actor'[r] = c
    BY <1>0, <1>2, <2>1, BecomesIt
  <2>3. met \subseteq met' /\ met' \subseteq CvoNode
    BY <1>0, <1>2 DEF Meets, CvoTypeOK
  <2>4. n \in met' \/ \A q \in Runner : q # r => ~(actor[q].at \in FileWrite /\ actor[q].node = n)
    BY <1>2 DEF Meets
  <2>5. Placed(r)' /\ Alone(r)'
    BY <1>0, <2>1, <2>2, <2>4 DEF Placed, Alone, NodeOf, At, Acquiring, FileWrite
  <2>6. LockInv'
    BY <1>0, <2>1, <2>2, LockStays DEF Looks, Owns, Blocked, InTry, NodeOf, FileWrite
  <2>7. CvoTypeOK' /\ AllPlaced'
    BY <1>0, <2>2, <2>3, <2>5 DEF CvoTypeOK, Looks, CvoInv, AllPlaced, Placed, NodeOf
  <2>8. \A m \in CvoNode : m # n => ~Executes(r, m)
    BY <1>0 DEF Executes, NodeOf
  <2>9. Executes(r, n)' \/ ~Executes(r, n)
    BY <1>0, <2>1, <2>2 DEF Executes, NodeOf, At, FileWrite
  <2>10. actor[r].at \notin FileWrite
    BY <1>0 DEF FileWrite
  <2>11. /\ UNCHANGED <<gpuLock, gpuSlip>> /\ killedOn \subseteq killedOn'
         /\ UNCHANGED tmpFile /\ UNCHANGED handle /\ UNCHANGED nodeFile
    BY <1>0 DEF Looks
  <2>12. nodeFile'[n] = "RUNNING" /\ n \notin killedOn' \cup met' =>
           Executes(r, n)' \/ (nodeFile[n] = "RUNNING" /\ ~Executes(r, n))
    BY <2>9, <2>11
  <2>13. /\ n = actor'[r].node
         /\ \A q \in Runner : q # r => (handle[q] # "tmp" \/ actor[q].node = n \/ handle'[q] = "tmp")
         /\ \A m \in CvoNode : m # n => nodeFile'[m] = nodeFile[m] /\ tmpFile'[m] = tmpFile[m]
    BY <2>1, <2>2, <2>11
  <2> HIDE DEF after
  <2> QED BY <1>0, <2>2, <2>3, <2>4, <2>5, <2>6, <2>7, <2>8, <2>10, <2>11, <2>12, <2>13, Writes
<1> QED BY <1>n, <1>1, <1>2 DEF SetStatus

\* The three steps that write: beside, into, and in the place of the node's file.
LEMMA WritingSteps ==
  ASSUME CvoInv, NEW r \in Runner, EmptyTmp(r) \/ FillTmp(r) \/ PutTmp(r)
  PROVE  CvoInv'
<1>n. PICK n \in CvoNode : n = NodeOf(r)
  BY DEF CvoInv, CvoTypeOK, CvoCommand, NodeOf, FileWrite
<1>0. /\ CvoTypeOK /\ actor[r] \in CvoCommand /\ n = actor[r].node /\ n \in CvoNode /\ OnlyNode /\ ~Gpu(0)
      /\ actor[r].at \in FileWrite /\ Alone(r) /\ actor[r].word \in NodeStatus
  BY <1>n DEF CvoInv, CvoTypeOK, CvoCommand, NodeOf, WriteInv, FileWrite, At, EmptyTmp, FillTmp, PutTmp, Gpu
<1>1. \A m \in CvoNode : m # n => ~Executes(r, m)
  BY <1>0 DEF Executes, NodeOf
<1>2. CASE EmptyTmp(r)
  <2>1. /\ actor[r].at = "tmp" /\ GoTo(r, "write") /\ UNCHANGED nodeFile
        /\ tmpFile' = [tmpFile EXCEPT ![n] = "empty"] /\ handle' = [handle EXCEPT ![r] = "tmp"]
    BY <1>n, <1>2 DEF EmptyTmp, At
  <2>2. /\ actor' \in [Runner -> CvoCommand] /\ \A q \in Runner : q # r => actor'[q] = actor[q]
        /\ actor'[r].at = "write" /\ actor'[r].node = n /\ actor'[r].job = actor[r].job
        /\ actor'[r].word = actor[r].word
    BY <1>0, <2>1, GoesTo DEF RunnerAt, FileWrite
  <2>3. CvoTypeOK'
    BY <1>0, <2>1, <2>2 DEF CvoTypeOK, OnlyNode, Text
  <2>4. LockInv'
    BY <1>0, <2>1, <2>2, LockStays DEF OnlyNode, Owns, Blocked, InTry, NodeOf, FileWrite
  <2>5. Placed(r)'
    BY <2>2 DEF Placed, Acquiring
  <2>6. Alone(r)'
    BY <1>0, <2>1, <2>2 DEF Alone, NodeOf, At, OnlyNode, FileWrite, CvoTypeOK
  <2>7. AllPlaced'
    BY <2>2, <2>5 DEF CvoInv, AllPlaced, Placed, NodeOf
  <2>8. Executes(r, n)' <=> Executes(r, n)
    BY <1>0, <2>1, <2>2 DEF Executes, NodeOf, At, FileWrite
  <2>9. \A q \in Runner : q # r => handle'[q] = handle[q]
    BY <2>1 DEF CvoInv, CvoTypeOK
  <2>10. \A m \in CvoNode : m # n => tmpFile'[m] = tmpFile[m]
    BY <2>1 DEF CvoInv, CvoTypeOK
  <2>11. /\ UNCHANGED <<gpuLock, gpuSlip>> /\ met \subseteq met' /\ killedOn \subseteq killedOn'
         /\ actor[r].at \in FileWrite /\ actor[r].node = n /\ n = actor'[r].node
         /\ nodeFile'[n] = "RUNNING" /\ n \notin killedOn' \cup met' =>
              Executes(r, n)' \/ (nodeFile[n] = "RUNNING" /\ ~Executes(r, n))
         /\ \A q \in Runner : q # r => (handle[q] # "tmp" \/ actor[q].node = n \/ handle'[q] = "tmp")
         /\ \A m \in CvoNode : m # n => nodeFile'[m] = nodeFile[m] /\ tmpFile'[m] = tmpFile[m]
    BY <1>0, <2>1, <2>2, <2>8, <2>9, <2>10 DEF OnlyNode
  <2> QED BY <1>0, <1>1, <2>2, <2>3, <2>4, <2>6, <2>7, <2>9, <2>11, Writes
<1>3. CASE FillTmp(r)
  <2>1. /\ actor[r].at = "write" /\ GoTo(r, "put") /\ handle' = [handle EXCEPT ![r] = "none"]
    BY <1>3 DEF FillTmp, At
  <2>2. /\ actor' \in [Runner -> CvoCommand] /\ \A q \in Runner : q # r => actor'[q] = actor[q]
        /\ actor'[r].at = "put" /\ actor'[r].node = n /\ actor'[r].job = actor[r].job
        /\ actor'[r].word = actor[r].word
    BY <1>0, <2>1, GoesTo DEF RunnerAt, FileWrite
  <2>3. /\ \/ UNCHANGED tmpFile /\ handle[r] # "tmp"
           \/ \E text \in Over(tmpFile[n], actor[r].word) : tmpFile' = [tmpFile EXCEPT ![n] = text]
        /\ \/ UNCHANGED nodeFile
           \/ handle[r] = "node" /\ \E text \in Over(nodeFile[n], actor[r].word) : nodeFile' = [nodeFile EXCEPT ![n] = text]
    BY <1>n, <1>3 DEF FillTmp
  <2>4. \A old \in Text : Over(old, actor[r].word) \subseteq Text /\ (old = "empty" => Over(old, actor[r].word) = {actor[r].word})
    BY <1>0 DEF Over, Text
  <2>5. /\ tmpFile' \in [CvoNode -> Text] /\ nodeFile' \in [CvoNode -> Text]
        /\ \A m \in CvoNode : m # n => tmpFile'[m] = tmpFile[m] /\ nodeFile'[m] = nodeFile[m]
    BY <1>0, <2>3, <2>4 DEF CvoTypeOK
  <2>6. n \notin met => UNCHANGED nodeFile /\ tmpFile'[n] = actor[r].word
    <3> SUFFICES ASSUME n \notin met PROVE UNCHANGED nodeFile /\ tmpFile'[n] = actor[r].word
      OBVIOUS
    <3>1. tmpFile[n] = "empty" /\ handle[r] = "tmp"
      BY <1>0, <2>1 DEF Alone, At, NodeOf
    <3>2. Over(tmpFile[n], actor[r].word) = {actor[r].word}
      BY <3>1 DEF Over
    <3> QED BY <1>0, <2>3, <3>1, <3>2 DEF CvoTypeOK
  <2>7. CvoTypeOK'
    BY <1>0, <2>1, <2>2, <2>5 DEF CvoTypeOK, OnlyNode
  <2>8. LockInv'
    BY <1>0, <2>1, <2>2, LockStays DEF OnlyNode, Owns, Blocked, InTry, NodeOf, FileWrite, CvoTypeOK
  <2>9. Placed(r)'
    BY <2>2 DEF Placed, Acquiring
  <2>10. Alone(r)'
    BY <1>0, <2>2, <2>6 DEF Alone, NodeOf, At, OnlyNode, FileWrite
  <2>11. AllPlaced'
    BY <2>2, <2>9 DEF CvoInv, AllPlaced, Placed, NodeOf
  <2>12. Executes(r, n)' <=> Executes(r, n)
    BY <1>0, <2>1, <2>2 DEF Executes, NodeOf, At, FileWrite
  <2>13. \A q \in Runner : q # r => handle'[q] = handle[q]
    BY <2>1 DEF CvoInv, CvoTypeOK
  <2>14. /\ UNCHANGED <<gpuLock, gpuSlip>> /\ met \subseteq met' /\ killedOn \subseteq killedOn'
         /\ actor[r].at \in FileWrite /\ actor[r].node = n /\ n = actor'[r].node
         /\ nodeFile'[n] = "RUNNING" /\ n \notin killedOn' \cup met' =>
              Executes(r, n)' \/ (nodeFile[n] = "RUNNING" /\ ~Executes(r, n))
         /\ \A q \in Runner : q # r => (handle[q] # "tmp" \/ actor[q].node = n \/ handle'[q] = "tmp")
    BY <1>0, <2>2, <2>6, <2>12, <2>13 DEF OnlyNode
  <2> QED BY <1>0, <1>1, <2>2, <2>5, <2>7, <2>8, <2>10, <2>11, <2>13, <2>14, Writes
<1>4. CASE PutTmp(r)
  <2> DEFINE where == IF tmpFile[n] = "absent" THEN AfterFailedPut(r) ELSE AfterPut(r)
             moved(q) == IF NodeOf(q) # n \/ q = r THEN handle[q]
                         ELSE IF handle[q] = "tmp" THEN "node"
                         ELSE IF handle[q] = "node" THEN "gone"
                         ELSE handle[q]
  <2>1. actor[r].at = "put" /\ GoTo(r, where)
    BY <1>n, <1>4 DEF PutTmp, At
  <2>2. /\ where \in {"init", "run", "unlock", "down"} /\ (where = "init" => actor[r].job = "init")
        /\ (where = "run" => actor[r].job # "init" /\ actor[r].word = "RUNNING")
        /\ (where = "unlock" => actor[r].job # "init" /\ Gpu(n))
    BY <1>n DEF AfterPut, AfterFailedPut, AfterRun
  <2> HIDE DEF where
  <2>3. /\ actor' \in [Runner -> CvoCommand] /\ \A q \in Runner : q # r => actor'[q] = actor[q]
        /\ actor'[r].at = where
        /\ IF where = "down" THEN actor'[r].node = 0 /\ actor'[r].job = "node"
           ELSE actor'[r].node = n /\ actor'[r].job = actor[r].job /\ actor'[r].word = actor[r].word
    BY <1>0, <2>1, <2>2, GoesTo DEF RunnerAt
  <2>4. Placed(r)' /\ Alone(r)'
    BY <1>0, <2>2, <2>3 DEF Placed, Alone, NodeOf, Acquiring, FileWrite
  <2>5. AllPlaced'
    BY <2>3, <2>4 DEF CvoInv, AllPlaced, Placed, NodeOf
  <2>6. CASE UNCHANGED <<nodeFile, tmpFile, handle>> /\ tmpFile[n] = "absent"
    <3>1. n \in met
      BY <1>0, <2>1, <2>6 DEF Alone, At, NodeOf, NodeStatus
    <3>2. CvoTypeOK'
      BY <1>0, <2>3, <2>6 DEF CvoTypeOK, OnlyNode
    <3>3. LockInv'
      BY <1>0, <2>1, <2>2, <2>3, <2>6, LockStays DEF OnlyNode, Owns, Blocked, InTry, NodeOf, FileWrite
    <3>4. actor'[r].at \notin FileWrite
      BY <2>2, <2>3 DEF FileWrite
    <3> QED BY <1>0, <1>1, <2>3, <2>4, <2>5, <2>6, <3>1, <3>2, <3>3, <3>4, Writes DEF OnlyNode
  <2>7. CASE /\ nodeFile' = [nodeFile EXCEPT ![n] = tmpFile[n]]
             /\ tmpFile' = [tmpFile EXCEPT ![n] = "absent"]
             /\ handle' = [q \in Runner |-> moved(q)] /\ where = AfterPut(r)
    <3>1. CvoTypeOK'
      BY <1>0, <2>3, <2>7 DEF CvoTypeOK, OnlyNode, Text
    <3>2. \A q \in Runner : handle[q] = "lock" => handle'[q] = "lock"
      BY <2>7
    <3>3. LockInv'
      BY <1>0, <2>1, <2>2, <2>3, <3>2, LockStays DEF OnlyNode, Owns, Blocked, InTry, NodeOf, FileWrite
    <3>4. actor'[r].at \notin FileWrite
      BY <2>2, <2>3 DEF FileWrite
    <3>5. \A q \in Runner : q # r => handle[q] # "tmp" \/ actor[q].node = n \/ handle'[q] = "tmp"
      BY <2>7 DEF NodeOf
    <3>6. \A m \in CvoNode : m # n => nodeFile'[m] = nodeFile[m] /\ tmpFile'[m] = tmpFile[m]
      BY <2>7, <1>0 DEF CvoTypeOK
    <3>7. nodeFile'[n] = "RUNNING" /\ n \notin met => Executes(r, n)'
      <4> SUFFICES ASSUME nodeFile'[n] = "RUNNING", n \notin met PROVE Executes(r, n)'
        OBVIOUS
      <4>1. nodeFile'[n] = tmpFile[n]
        BY <1>0, <2>7 DEF CvoTypeOK
      <4>2. actor[r].word = "RUNNING" /\ actor[r].job # "init"
        BY <1>0, <2>1, <4>1 DEF Alone, At, NodeOf
      <4>3. where = "run"
        BY <2>7, <4>2 DEF AfterPut
      <4> QED BY <2>3, <4>2, <4>3 DEF Executes, NodeOf, At
    <3>8. /\ UNCHANGED <<gpuLock, gpuSlip>> /\ met \subseteq met' /\ killedOn \subseteq killedOn'
          /\ actor[r].at \in FileWrite /\ actor[r].node = n
          /\ nodeFile'[n] = "RUNNING" /\ n \notin killedOn' \cup met' =>
               Executes(r, n)' \/ (nodeFile[n] = "RUNNING" /\ ~Executes(r, n))
      BY <1>0, <3>7 DEF OnlyNode
    <3> HIDE DEF moved
    <3> QED BY <1>0, <1>1, <2>3, <2>4, <2>5, <3>1, <3>3, <3>4, <3>5, <3>6, <3>8, Writes
  <2>8. where = (IF tmpFile[n] = "absent" THEN AfterFailedPut(r) ELSE AfterPut(r))
    BY DEF where
  <2> QED BY <1>n, <1>4, <2>6, <2>7, <2>8 DEF PutTmp
<1> QED BY <1>2, <1>3, <1>4

LEMMA InitSteps ==
  ASSUME CvoInv, NEW r \in Runner, Bootstrap(r) \/ FillBoot(r) \/ InitNode(r)
  PROVE  CvoInv'
<1> USE CvoAssumption
<1>0. /\ CvoTypeOK /\ actor[r] \in CvoCommand /\ NodeOf(r) = actor[r].node /\ actor[r].node \in CvoNode /\ ~Gpu(0)
      /\ Placed(r)
  BY DEF CvoInv, CvoTypeOK, CvoCommand, NodeOf, AllPlaced, Gpu
<1>1. ASSUME OnlyNode, UNCHANGED tmpFile,
             actor[r].at \in {"new", "boot"}, NEW where \in {"boot", "init"},
             actor' \in [Runner -> CvoCommand], \A q \in Runner : q # r => actor'[q] = actor[q],
             actor'[r].at = where, actor'[r].job = "init",
             NEW text \in Text \ {"RUNNING"}, NEW at \in {"none", "node"},
             nodeFile' = nodeFile \/ nodeFile' = [nodeFile EXCEPT ![0] = text],
             handle' = [handle EXCEPT ![r] = at],
             actor[r].node = 0, where = "boot" => actor'[r].node = 0
      PROVE  CvoInv'
  <2>1. CvoTypeOK'
    BY <1>0, <1>1 DEF CvoTypeOK, OnlyNode
  <2>2. Placed(r)' /\ Alone(r)' /\ AllPlaced'
    BY <1>1 DEF CvoInv, AllPlaced, Placed, Alone, NodeOf, Acquiring, FileWrite
  <2>3. LockInv'
    BY <1>0, <1>1, LockStays DEF OnlyNode, Owns, Blocked, InTry, NodeOf, FileWrite, CvoTypeOK, Acquiring
  <2>4. /\ actor[r].at \notin FileWrite /\ actor'[r].at \notin FileWrite /\ \A m \in CvoNode : ~Executes(r, m)
    BY <1>1 DEF FileWrite, Executes, At
  <2>5. /\ UNCHANGED <<gpuLock, gpuSlip>> /\ met \subseteq met' /\ killedOn \subseteq killedOn'
        /\ nodeFile'[0] = "RUNNING" => nodeFile[0] = "RUNNING" /\ ~Executes(r, 0)
        /\ \A q \in Runner : q # r => handle'[q] = handle[q]
        /\ \A m \in CvoNode : m # 0 => nodeFile'[m] = nodeFile[m] /\ tmpFile'[m] = tmpFile[m]
    BY <1>0, <1>1, <2>4 DEF OnlyNode, CvoTypeOK
  <2>6. 0 \in CvoNode
    OBVIOUS
  <2> QED BY <1>0, <1>1, <2>1, <2>2, <2>3, <2>4, <2>5, <2>6, Writes
<1>2. CASE Bootstrap(r)
  <2> DEFINE c == [actor[r] EXCEPT !.at = "boot", !.job = "init"]
  <2>1. c \in CvoCommand /\ c.at = "boot" /\ c.job = "init" /\ c.node = actor[r].node
    BY <1>0 DEF CvoCommand, RunnerAt, CvoJob
  <2>2. Becomes(r, c) /\ actor[r].at = "new"
    BY <1>2 DEF Bootstrap, NewRunner, At
  <2> HIDE DEF c
  <2>3. /\ actor' \in [Runner -> CvoCommand] /\ \A q \in Runner : q # r => actor'[q] = actor[q]
        /\ actor'[r] = c
    BY <1>0, <2>1, <2>2, BecomesIt
  <2>4. "empty" \in Text \ {"RUNNING"}
    BY DEF Text
  <2>5. actor[r].node = 0
    BY <1>0, <2>2 DEF Placed
  <2>6. /\ OnlyNode /\ UNCHANGED tmpFile /\ nodeFile' = [nodeFile EXCEPT ![0] = "empty"]
        /\ handle' = [handle EXCEPT ![r] = "node"]
    BY <1>2 DEF Bootstrap
  <2>7. actor'[r].at = "boot" /\ actor'[r].job = "init" /\ actor'[r].node = 0
    BY <2>1, <2>3, <2>5
  <2> QED BY <1>1, <2>2, <2>3, <2>4, <2>5, <2>6, <2>7
<1>3. CASE FillBoot(r)
  <2>1. GoTo(r, "init") /\ actor[r].at = "boot"
    BY <1>3 DEF FillBoot, At
  <2>2. /\ actor' \in [Runner -> CvoCommand] /\ \A q \in Runner : q # r => actor'[q] = actor[q]
        /\ actor'[r].at = "init" /\ actor'[r].job = "init"
    BY <1>0, <2>1, GoesTo DEF RunnerAt, Placed
  <2>3. PICK text \in Text \ {"RUNNING"} : nodeFile' = nodeFile \/ nodeFile' = [nodeFile EXCEPT ![0] = text]
    <3>1. Over(nodeFile[0], "PASSED") \subseteq Text \ {"RUNNING"} /\ "torn" \in Text \ {"RUNNING"}
      BY DEF Over, Text, NodeStatus
    <3>2. nodeFile' = nodeFile \/ \E text \in Over(nodeFile[0], "PASSED") : nodeFile' = [nodeFile EXCEPT ![0] = text]
      BY <1>3 DEF FillBoot
    <3> QED BY <3>1, <3>2
  <2>4. actor[r].node = 0
    BY <1>0, <2>1 DEF Placed
  <2>5. OnlyNode /\ UNCHANGED tmpFile /\ handle' = [handle EXCEPT ![r] = "none"]
    BY <1>3 DEF FillBoot
  <2> QED BY <1>1, <2>1, <2>2, <2>3, <2>4, <2>5
<1>4. CASE InitNode(r)
  <2>0. Looks /\ actor[r].at = "init"
    BY <1>4 DEF InitNode, At
  <2>1. CASE GoTo(r, "down") /\ UNCHANGED met
    <3>1. /\ actor' \in [Runner -> CvoCommand] /\ \A q \in Runner : q # r => actor'[q] = actor[q]
          /\ actor'[r].at = "down" /\ actor'[r].node = 0 /\ actor'[r].job = "node"
      BY <1>0, <2>1, GoesTo DEF RunnerAt
    <3> QED BY <1>0, <2>0, <2>1, <3>1, Chooses DEF Looks, Reads, Placed, Owns, HasLock, Blocked, InTry, NodeOf, Acquiring, FileWrite
  <2>2. ASSUME NEW n \in CvoNode, nodeFile[n] = "absent", Meets(r, n),
               Becomes(r, [actor[r] EXCEPT !.at = "tmp", !.node = n, !.word = "PENDING"])
        PROVE  CvoInv'
    <3> DEFINE c == [actor[r] EXCEPT !.at = "tmp", !.node = n, !.word = "PENDING"]
    <3>1. c \in CvoCommand /\ c.at = "tmp" /\ c.node = n /\ c.word = "PENDING" /\ c.job = "init"
      BY <1>0, <2>0 DEF CvoCommand, RunnerAt, FileWrite, NodeStatus, Placed
    <3>2. Becomes(r, c)
      BY <2>2
    <3> HIDE DEF c
    <3>3. /\ actor' \in [Runner -> CvoCommand] /\ \A q \in Runner : q # r => actor'[q] = actor[q]
          /\ actor'[r] = c
      BY <1>0, <3>1, <3>2, BecomesIt
    <3>4. met \subseteq met' /\ met' \subseteq CvoNode
      BY <1>0, <2>2 DEF Meets, CvoTypeOK
    <3>5. n \in met' \/ \A q \in Runner : q # r => ~(actor[q].at \in FileWrite /\ actor[q].node = n)
      BY <2>2 DEF Meets
    <3>6. Placed(r)' /\ Alone(r)'
      BY <3>1, <3>3, <3>5 DEF Placed, Alone, NodeOf, At, Acquiring, FileWrite
    <3>7. LockInv'
      BY <1>0, <2>0, <3>1, <3>3, LockStays DEF Looks, Owns, Blocked, InTry, NodeOf, FileWrite, Acquiring
    <3>8. CvoTypeOK' /\ AllPlaced'
      BY <1>0, <2>0, <3>3, <3>4, <3>6 DEF CvoTypeOK, Looks, CvoInv, AllPlaced, Placed, NodeOf
    <3>9. (\A m \in CvoNode : ~Executes(r, m)) /\ actor[r].at \notin FileWrite
      BY <2>0 DEF Executes, At, FileWrite
    <3>10. /\ UNCHANGED <<gpuLock, gpuSlip>> /\ killedOn \subseteq killedOn'
           /\ UNCHANGED tmpFile /\ UNCHANGED handle /\ UNCHANGED nodeFile
      BY <2>0 DEF Looks
    <3> QED BY <2>2, <3>1, <3>3, <3>4, <3>5, <3>6, <3>7, <3>8, <3>9, <3>10, Writes
  <2> QED BY <1>4, <2>1, <2>2 DEF InitNode
<1> QED BY <1>2, <1>3, <1>4

\* A command is cut off: the node it was at is named, and its lock is given back or lost.
LEMMA CutSteps ==
  ASSUME CvoInv, NEW r \in Runner, NodeExits(r) \/ KillRunner(r)
  PROVE  CvoInv'
<1>n. PICK n \in CvoNode : n = actor[r].node
  BY DEF CvoInv, CvoTypeOK, CvoCommand
<1> DEFINE where == IF KillRunner(r) THEN "down" ELSE AfterRun(n)
<1>0. /\ CvoTypeOK /\ actor[r] \in CvoCommand /\ n = NodeOf(r) /\ ~Gpu(0)
      /\ Cuts(r) /\ GoTo(r, where) /\ (where = "unlock" => InTry(r) /\ Gpu(n))
      /\ where \in {"unlock", "down"}
  BY <1>n DEF CvoInv, CvoTypeOK, CvoCommand, NodeOf, Gpu, NodeExits, KillRunner, AfterRun
<1>1. /\ killedOn' = (IF InTry(r) THEN killedOn \cup {n} ELSE killedOn)
      /\ handle' = [handle EXCEPT ![r] = "none"]
      /\ UNCHANGED nodeFile /\ UNCHANGED tmpFile /\ UNCHANGED <<gpuLock, gpuSlip>> /\ UNCHANGED met
  BY <1>0 DEF Cuts
<1> HIDE DEF where
<1>2. /\ actor' \in [Runner -> CvoCommand] /\ \A q \in Runner : q # r => actor'[q] = actor[q]
      /\ actor'[r].at = where
      /\ IF where = "down" THEN actor'[r].node = 0 /\ actor'[r].job = "node"
         ELSE actor'[r].node = n /\ actor'[r].job = actor[r].job
  BY <1>0, <1>n, GoesTo DEF RunnerAt
<1>3. CvoTypeOK'
  BY <1>0, <1>1, <1>2 DEF CvoTypeOK
<1>4. \A q \in Runner : q # r => handle'[q] = handle[q]
  BY <1>0, <1>1 DEF CvoTypeOK
<1>5. Owns(r)' => Owns(r) /\ actor'[r].node = actor[r].node
  BY <1>n, <1>0, <1>2 DEF Owns, NodeOf, InTry, FileWrite
<1>6. ~Gpu(0) /\ (Blocked(r) => Blocked(r)')
  BY <1>n, <1>0, <1>2 DEF Blocked, NodeOf, InTry, FileWrite
<1>7. LockInv'
  <2>1. ASSUME NEW q \in Runner, q # r, ~gpuSlip PROVE (Owns(q)' => HasLock(q)') /\ Blocked(q)'
    BY <1>1, <1>2, <1>4, <2>1 DEF CvoInv, LockInv, Owns, HasLock, Blocked, InTry, NodeOf, At
  <2>2. ASSUME ~gpuSlip PROVE (Owns(r)' => HasLock(r)') /\ Blocked(r)'
    <3>1. (Owns(r) => HasLock(r)) /\ Blocked(r)
      BY <2>2 DEF CvoInv, LockInv
    <3>2. ASSUME Owns(r)' PROVE HasLock(r)'
      <4>1. where = "unlock" /\ InTry(r)
        BY <1>0, <1>2, <3>2 DEF Owns, NodeOf, InTry
      <4>2. actor[r].at # "fill"
        BY <4>1 DEF InTry, FileWrite
      <4> QED BY <1>n, <1>1, <1>2, <1>5, <3>1, <3>2, <4>1, <4>2 DEF HasLock, NodeOf, At
    <3> QED BY <1>6, <3>1, <3>2
  <2> QED BY <1>1, <2>1, <2>2 DEF LockInv
<1>8. Placed(r)' /\ Alone(r)' /\ AllPlaced'
  <2>1. where = "unlock" => actor[r].job # "init"
    BY <1>0 DEF InTry
  <2> QED BY <1>n, <1>0, <1>2, <2>1 DEF CvoInv, AllPlaced, Placed, Alone, NodeOf, Acquiring, FileWrite
<1>9. \A m \in CvoNode : m # n => ~Executes(r, m)
  BY <1>n DEF Executes, NodeOf
<1>10. Executes(r, n) => n \in killedOn'
  BY <1>1 DEF Executes, InTry, At
<1>11. met \subseteq met' /\ killedOn \subseteq killedOn' /\ actor'[r].at \notin FileWrite
  BY <1>0, <1>1, <1>2 DEF FileWrite
<1> QED BY <1>n, <1>1, <1>2, <1>3, <1>4, <1>7, <1>8, <1>9, <1>10, <1>11, Writes

LEMMA CvoInductive == CvoInv /\ [CvoNext]_cvoVars => CvoInv'
<1> SUFFICES ASSUME CvoInv, [CvoNext]_cvoVars PROVE CvoInv'
  OBVIOUS
<1>1. ASSUME NEW r \in Runner, MarkRunning(r) \/ FinishNode(r) PROVE CvoInv'
  <2>1. "RUNNING" \in NodeStatus /\ \A end \in CallableEnd : Written(end) \in NodeStatus /\ Written(end) # "RUNNING"
    BY DEF NodeStatus, Written
  <2> QED BY <1>1, <2>1, Sets DEF MarkRunning, FinishNode
<1>2. CASE LockAges
  <2>1. /\ OnlyLock /\ UNCHANGED <<actor, handle>> /\ gpuLock.file = "young"
        /\ gpuLock' = [gpuLock EXCEPT !.file = "old"]
        /\ gpuSlip' = (gpuSlip \/ \E r \in Runner : AliveRunner(r) /\ r = gpuLock.by)
    BY <1>2 DEF LockAges
  <2>2. ASSUME ~gpuSlip', NEW r \in Runner PROVE ~Owns(r) /\ Blocked(r)
    BY <2>1, <2>2 DEF CvoInv, LockInv, Owns, HasLock, AliveRunner, InTry, FileWrite
  <2>3. LockInv'
    BY <2>1, <2>2 DEF LockInv, Owns, Blocked, InTry, NodeOf
  <2>4. CvoTypeOK'
    BY <2>1 DEF CvoInv, CvoTypeOK, OnlyLock, GpuLock
  <2>5. AllPlaced' /\ WriteInv' /\ RunningHasRunner'
    BY <2>1 DEF CvoInv, OnlyLock, AllPlaced, Placed, WriteInv, Alone, RunningHasRunner, Executes, NodeOf, At
  <2> QED BY <2>3, <2>4, <2>5 DEF CvoInv
<1>3. CASE UNCHANGED cvoVars
  BY <1>3 DEF cvoVars, CvoInv, CvoTypeOK, LockInv, Owns, HasLock, Blocked, InTry, NodeOf, At,
    AllPlaced, Placed, WriteInv, Alone, RunningHasRunner, Executes
<1> QED BY <1>1, <1>2, <1>3, ChoosingSteps, LockSteps, WritingSteps, InitSteps, CutSteps DEF CvoNext

LEMMA CvoInitially == CvoInit => CvoInv
<1> SUFFICES ASSUME CvoInit PROVE CvoInv
  OBVIOUS
<1> USE CvoAssumption
<1>1. \A r \in Runner : actor[r] = Waiting /\ actor[r].at = "new" /\ actor[r].job = "node" /\ actor[r].node = 0
  BY DEF CvoInit, Waiting
<1>2. Waiting \in CvoCommand
  BY DEF Waiting, CvoCommand, RunnerAt, CvoJob, NodeStatus
<1>3. gpuLock \in GpuLock
  BY DEF CvoInit, NoLock, GpuLock
<1>4. CvoTypeOK
  BY <1>2, <1>3 DEF CvoInit, CvoTypeOK, Text
<1>5. LockInv /\ AllPlaced /\ WriteInv
  BY <1>1 DEF LockInv, Owns, Blocked, InTry, NodeOf, AllPlaced, Placed, WriteInv, Alone, Acquiring, FileWrite
<1>6. RunningHasRunner
  BY DEF CvoInit, RunningHasRunner
<1> QED BY <1>4, <1>5, <1>6 DEF CvoInv

-----------------------------------------------------------------------------

\* For any nodes and commands: the GPU has one node at a time as long as no lock expires
\* under its command and none is removed or written over by a command that had looked
\* before it was there (acquire_gpu_lock, release_gpu_lock).
THEOREM GpuIsExclusive == CvoSpec => []GpuExclusive
<1>1. CvoInv => GpuExclusive
  <2> SUFFICES ASSUME CvoInv, ~gpuSlip
               PROVE  Cardinality({r \in Runner : At(r, "run") /\ Gpu(NodeOf(r))}) <= 1
    BY DEF GpuExclusive
  <2> DEFINE R == {r \in Runner : At(r, "run") /\ Gpu(NodeOf(r))}
  <2>1. \A r \in R : gpuLock.by = r
    BY DEF CvoInv, LockInv, AllPlaced, Placed, Owns, HasLock, InTry, At
  <2>2. CASE R = {}
    BY <2>2, FS_EmptySet
  <2>3. ASSUME NEW r \in R PROVE Cardinality(R) <= 1
    <3>1. R = {r}
      BY <2>1, <2>3
    <3>2. Cardinality({r}) = 1
      BY FS_Singleton
    <3> HIDE DEF R
    <3> QED BY <3>1, <3>2
  <2> QED BY <2>2, <2>3
<1> QED BY <1>1, CvoInitially, CvoInductive, PTL DEF CvoSpec

\* For any nodes and commands: as long as no lock slips, run-next never runs a GPU node, for
\* the lock it took when it picked the node blocks its own run_node (get_next_node, run_node).
THEOREM RunNextNeverRunsGpu == CvoSpec => []RunNextBlocksItself
<1>1. CvoInv => RunNextBlocksItself
  BY DEF CvoInv, LockInv, Blocked, RunNextBlocksItself
<1> QED BY <1>1, CvoInitially, CvoInductive, PTL DEF CvoSpec

\* For any nodes and commands: only a kill, an exit or two writers at once leave a node
\* RUNNING with nobody running it (set_status in run_node, _write_node_atomic).
THEOREM RunningIsRun == CvoSpec => []RunningHasRunner
<1>1. CvoInv => RunningHasRunner
  BY DEF CvoInv
<1> QED BY <1>1, CvoInitially, CvoInductive, PTL DEF CvoSpec
=============================================================================
