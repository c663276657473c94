---------------------------- MODULE EventJournal ----------------------------
(***************************************************************************)
(* The append-only event journal, one JSON line per event of the store.    *)
(* Only recovery writes it, when a controller starts: it appends, in       *)
(* order, every event of the store whose number the journal lacks.         *)
(*                                                                         *)
(* A line is the number of its event, or 0 when it cannot be parsed.  A    *)
(* kill during an append may leave the line torn, without its newline: the *)
(* next append then goes to the same line.                                 *)
(***************************************************************************)
EXTENDS Naturals, Sequences, SequencesExt

CONSTANTS
  MaxEvents,    \* bound on the events of the store
  MaxKills      \* bound on the kills

ASSUME JournalAssumption == MaxEvents \in Nat /\ MaxKills \in Nat

VARIABLES
  emitted,      \* the store holds the events 1..emitted
  lines,        \* the journal
  open,         \* does its last line lack a newline?
  repair,       \* recovery: "idle", "appending" or "raised"
  missing,      \* the events it has still to append
  kills         \* kills so far

journalVars == <<emitted, lines, open, repair, missing, kills>>

JournalTypeOK ==
  /\ emitted \in 0..MaxEvents /\ kills \in 0..MaxKills
  /\ lines \in Seq(0..emitted) /\ missing \in Seq(1..emitted)
  /\ open => lines # <<>>
  /\ repair \in {"idle", "appending", "raised"}
  /\ (repair = "appending") => (missing # <<>>)

JournalInit ==
  /\ emitted = 0 /\ lines = <<>> /\ open = FALSE
  /\ repair = "idle" /\ missing = <<>> /\ kills = 0

\* read: only the last line may be bad.
Corrupt(js) == \E i \in 1..Len(js) - 1 : js[i] = 0
Recorded(js) == ToSet(js) \ {0}

\* Mutant of MissingFrom: every event is appended again.
MissingFromNothing(js) == [n \in 1..emitted |-> n]

\* The events of the store in order, those on record left out.
MissingFrom(js) ==
  LET upTo[n \in 0..emitted] ==
        IF n = 0 THEN <<>> ELSE IF n \in Recorded(js) THEN upTo[n - 1] ELSE Append(upTo[n - 1], n)
  IN  upTo[emitted]

\* A transaction of the store; two or three of them come with every state change.
EmitEvent ==
  /\ emitted < MaxEvents /\ emitted' = emitted + 1
  /\ UNCHANGED <<lines, open, repair, missing, kills>>

\* repair_from, called first thing by recover: reads the journal and compares.
RepairStart ==
  /\ repair = "idle"
  /\ IF Corrupt(lines)
     THEN repair' = "raised" /\ UNCHANGED missing
     ELSE /\ missing' = MissingFrom(lines)
          /\ repair' = IF missing' = <<>> THEN "idle" ELSE "appending"
  /\ UNCHANGED <<emitted, lines, open, kills>>

\* append: behind a torn line it completes a line nobody can parse.
Appended(js, n) == IF open THEN [js EXCEPT ![Len(js)] = 0] ELSE Append(js, n)

AppendEvent ==
  /\ repair = "appending"
  /\ lines' = Appended(lines, Head(missing)) /\ open' = FALSE
  /\ missing' = Tail(missing)
  /\ repair' = IF missing' = <<>> THEN "idle" ELSE "appending"
  /\ UNCHANGED <<emitted, kills>>

\* The controller dies between two appends, or in the middle of one: what is on disk
\* then is a part of the line, or all of it but the newline.
KillRepair ==
  /\ repair = "appending" /\ kills < MaxKills
  /\ \/ UNCHANGED <<lines, open>>
     \/ \E n \in {0, Head(missing)} : lines' = Appended(lines, n) /\ open' = TRUE
  /\ repair' = "idle" /\ missing' = <<>> /\ kills' = kills + 1
  /\ UNCHANGED emitted

JournalNext == EmitEvent \/ RepairStart \/ AppendEvent \/ KillRepair

JournalSpec == JournalInit /\ [][JournalNext]_journalVars

-----------------------------------------------------------------------------
(* Properties *)

\* As long as every line can be read the journal is the first events of the store, in
\* order and each once, wherever the repairs before were cut off and whatever the
\* store emitted meanwhile.
JournalIsPrefix ==
  (\A i \in 1..Len(lines) : lines[i] # 0) => lines = [n \in 1..Len(lines) |-> n]

\* The journal's own claim: a crash can leave only the final append torn, so a later
\* recovery can always read it.
OnlyLastTorn == repair # "raised"
=============================================================================
