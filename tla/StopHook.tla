------------------------------ MODULE StopHook ------------------------------
(***************************************************************************)
(* The controller's stop hook: _save_state, run at exit and by the handler *)
(* of SIGINT and SIGTERM, all in the main thread, and the files it writes. *)
(* A handler runs on top of whatever it interrupts, an earlier save too.   *)
(* Once it is done it raises SystemExit, which also ends what it           *)
(* interrupted.  An error in a save, in the store's database or on the     *)
(* disk, is kept in a result that nobody reads.                            *)
(***************************************************************************)
EXTENDS Naturals, Sequences

CONSTANTS
  MaxWork,       \* bound on the changes the controller makes to the store
  MaxStops       \* bound on the signals

ASSUME StopAssumption == MaxWork \in Nat /\ MaxStops \in Nat

VARIABLES
  stage,         \* the main program: at work, at its exit, over
  saves,         \* the saves in progress, the last one on top
  hookLock,      \* whether one of them holds _lock
  work,          \* changes made to the store
  handoff,       \* what handoff.json says of it
  storeSnap,     \* what the snapshot of the store says
  missed,        \* history: the files that failed in the last save
  stops          \* signals so far

hookVars == <<stage, saves, hookLock, work, handoff, storeSnap, missed, stops>>

SaveStep == {"lock", "count", "read", "replace", "export"}
\* What handoff.json says of the store when the store could not be read: nothing.
Untold == MaxWork + 1
Save == [step : SaveStep, read : 0..Untold, signal : BOOLEAN]

HookTypeOK ==
  /\ stage \in {"work", "exit", "over"} /\ saves \in Seq(Save) /\ hookLock \in BOOLEAN
  /\ work \in 0..MaxWork /\ handoff \in 0..Untold /\ storeSnap \in 0..MaxWork
  /\ missed \subseteq {"handoff", "store"} /\ stops \in 0..MaxStops

HookInit ==
  /\ stage = "work" /\ saves = <<>> /\ hookLock = FALSE /\ work = 0 /\ handoff = 0 /\ storeSnap = 0
  /\ missed = {} /\ stops = 0

Top == saves[Len(saves)]
Saving(step) == saves # <<>> /\ Top.step = step
BeginSave(signal) ==
  saves' = Append(saves, [step |-> "lock", read |-> 0, signal |-> signal]) /\ missed' = {}
ToStep(step) == saves' = [saves EXCEPT ![Len(saves)].step = step]

-----------------------------------------------------------------------------

Work ==
  /\ stage = "work" /\ saves = <<>> /\ work < MaxWork /\ work' = work + 1
  /\ UNCHANGED <<stage, saves, hookLock, handoff, storeSnap, missed, stops>>

\* The program ends by itself and runs what atexit knows.
ProgramEnds ==
  /\ stage = "work" /\ saves = <<>> /\ stage' = "exit" /\ BeginSave(FALSE)
  /\ UNCHANGED <<hookLock, work, handoff, storeSnap, stops>>

\* Mutant of SignalArrives: one that finds a save in progress leaves at once.
SignalArrivesGuarded ==
  /\ stage # "over" /\ stops < MaxStops /\ stops' = stops + 1
  /\ IF saves = <<>> THEN BeginSave(TRUE) /\ UNCHANGED stage
     ELSE /\ stage' = (IF stage = "work" THEN "exit" ELSE "over") /\ missed' = {}
          /\ saves' = IF stage = "work" THEN <<[step |-> "lock", read |-> 0, signal |-> FALSE]>> ELSE <<>>
  /\ UNCHANGED <<hookLock, work, handoff, storeSnap>>

SignalArrives ==
  /\ stage # "over" /\ stops < MaxStops /\ stops' = stops + 1 /\ BeginSave(TRUE)
  /\ UNCHANGED <<stage, hookLock, work, handoff, storeSnap>>

\* The lock is not reentrant: a save on top of one that holds it waits for ever.
TakeLock ==
  /\ Saving("lock") /\ ~hookLock /\ hookLock' = TRUE /\ ToStep("count")
  /\ UNCHANGED <<stage, work, handoff, storeSnap, missed, stops>>

\* Mutant of CountSave: the files are written under the lock too.
CountSaveLocked ==
  /\ Saving("count") /\ hookLock /\ ToStep("read")
  /\ UNCHANGED <<stage, hookLock, work, handoff, storeSnap, missed, stops>>

\* It covers the count of saves only, not the files.
CountSave ==
  /\ Saving("count") /\ hookLock' = FALSE /\ ToStep("read")
  /\ UNCHANGED <<stage, work, handoff, storeSnap, missed, stops>>

\* A store that cannot be read leaves an error in the file instead of the tasks.
ReadTasks ==
  /\ Saving("read")
  /\ \/ saves' = [saves EXCEPT ![Len(saves)].step = "replace", ![Len(saves)].read = work] /\ UNCHANGED missed
     \/ /\ saves' = [saves EXCEPT ![Len(saves)].step = "replace", ![Len(saves)].read = Untold]
        /\ missed' = {"handoff"}
  /\ UNCHANGED <<stage, hookLock, work, handoff, storeSnap, stops>>

\* Written beside the file and moved over it.
ReplaceHandoff ==
  /\ Saving("replace") /\ handoff' = Top.read /\ ToStep("export")
  /\ UNCHANGED <<stage, hookLock, work, storeSnap, missed, stops>>

\* After a handler's save, SystemExit runs through every save below; in the program it
\* leads to the exit and to one more save, in the exit it is over.
HookEnds(without) ==
  IF stage = "work"
  THEN stage' = "exit" /\ saves' = <<[step |-> "lock", read |-> 0, signal |-> FALSE]>> /\ missed' = {}
  ELSE stage' = "over" /\ saves' = <<>> /\ missed' = without

\* The write fails: no snapshots are tried after it.
ReplaceFails ==
  /\ Saving("replace") /\ HookEnds({"handoff", "store"})
  /\ UNCHANGED <<hookLock, work, handoff, storeSnap, stops>>

\* The snapshot of the store is the end of a save, whether it can be written or not.
EndSave ==
  /\ Saving("export")
  /\ \/ storeSnap' = work /\ HookEnds(missed)
     \/ UNCHANGED storeSnap /\ HookEnds(missed \cup {"store"})
  /\ UNCHANGED <<hookLock, work, handoff, stops>>

HookNext ==
  \/ Work \/ ProgramEnds \/ SignalArrives
  \/ TakeLock \/ CountSave \/ ReadTasks \/ ReplaceHandoff \/ ReplaceFails \/ EndSave

HookSpec == HookInit /\ [][HookNext]_hookVars

-----------------------------------------------------------------------------
(* Properties *)

Stuck == Saving("lock") /\ hookLock

\* Once the program is over, both files tell of the last change, however many signals
\* came, on top of one another, wherever they cut a save off and whatever failed in one:
\* but for a file that failed in the very last save.
HandoffIsFinal ==
  stage = "over" => (handoff = work \/ "handoff" \in missed) /\ (storeSnap = work \/ "store" \in missed)

\* Only a signal that comes while a save counts itself can hang the process.
StuckOnlyInCount == Stuck => \E i \in DOMAIN saves : saves[i].step = "count"
=============================================================================
