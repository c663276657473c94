----------------------------- MODULE PerfTuner ------------------------------
(***************************************************************************)
(* The performance tuner: one phase per command, each leaving its reports, *)
(* and in the capacity phase a binary search for the largest micro-batch   *)
(* that runs.  A trial may come out either way whatever the trials before  *)
(* said: other processes use the GPU, and an error that is no OOM counts   *)
(* as one.                                                                 *)
(*                                                                         *)
(* The measurements behind the reports are placeholders in the code, so    *)
(* parity and soak always succeed; dataloader and compute only print.      *)
(***************************************************************************)
EXTENDS Naturals

CONSTANTS MaxBatch      \* the largest micro-batch tried, 64

ASSUME TunerAssumption == MaxBatch \in Nat \ {0}

VARIABLES
  phase,        \* the command that runs: "none" or "capacity"
  low, high,    \* the search interval
  safeBatch,    \* the last batch that ran, 0 for none
  oomBatch,     \* the last that did not
  rows,         \* this search's rows of capacity_trials.csv
  capacity,     \* safe_capacity.yaml: safe, OOM and recommended batch, with the rows behind it
  reports       \* the other reports on disk, with their verdicts

tunerVars == <<phase, low, high, safeBatch, oomBatch, rows, capacity, reports>>
searchVars == <<phase, low, high, safeBatch, oomBatch, rows, capacity>>

Batch == 1..MaxBatch
Row == [batch : Batch, ok : BOOLEAN]
Report == {"PROCEED", "STOP", "baseline", "failed baseline", "parity", "soak", "recommendation"}
NoCapacity == [safe |-> 0, oom |-> 0, recommended |-> 0, rows |-> {}]

TunerTypeOK ==
  /\ phase \in {"none", "capacity"}
  /\ low \in 1..MaxBatch + 1 /\ high \in 0..MaxBatch
  /\ safeBatch \in 0..MaxBatch /\ oomBatch \in 0..MaxBatch
  /\ rows \subseteq Row
  /\ capacity \in [safe : 0..MaxBatch, oom : 0..MaxBatch, recommended : Nat, rows : SUBSET Row]
  /\ reports \subseteq Report

TunerInit ==
  /\ phase = "none" /\ low = 1 /\ high = MaxBatch /\ safeBatch = 0 /\ oomBatch = 0
  /\ rows = {} /\ capacity = NoCapacity /\ reports = {}

-----------------------------------------------------------------------------

Writes(rs) == reports' = reports \cup rs /\ UNCHANGED searchVars

\* health: a GPU over 83 degrees means STOP and exit 1; nobody reads the report.
Health ==
  /\ phase = "none"
  /\ \E verdict \in {"PROCEED", "STOP"} :
       reports' = (reports \ {"PROCEED", "STOP"}) \cup {verdict}
  /\ UNCHANGED searchVars

\* baseline: an error is written as a baseline of zeros.
Baseline ==
  /\ phase = "none"
  /\ \E result \in {"baseline", "failed baseline"} :
       reports' = (reports \ {"baseline", "failed baseline"}) \cup {result}
  /\ UNCHANGED searchVars

\* parity needs both ids, and its differences are drawn below the tolerance.
Parity == phase = "none" /\ Writes({"parity"})
SoakTest == phase = "none" /\ Writes({"soak"})
Recommend == phase = "none" /\ Writes({"recommendation"})

CapacityStart ==
  /\ phase = "none" /\ phase' = "capacity"
  /\ low' = 1 /\ high' = MaxBatch /\ safeBatch' = 0 /\ oomBatch' = 0 /\ rows' = {}
  /\ UNCHANGED <<capacity, reports>>

\* Mutant of Narrow: a failed batch stays in the interval.
NarrowLess(mid, ok) ==
  IF ok THEN low' = mid + 1 /\ safeBatch' = mid /\ UNCHANGED <<high, oomBatch>>
  ELSE high' = mid /\ oomBatch' = mid /\ UNCHANGED <<low, safeBatch>>

Narrow(mid, ok) ==
  IF ok THEN low' = mid + 1 /\ safeBatch' = mid /\ UNCHANGED <<high, oomBatch>>
  ELSE high' = mid - 1 /\ oomBatch' = mid /\ UNCHANGED <<low, safeBatch>>

\* One trial of the middle of the interval: its row first, then the bounds.
Trial(ok) ==
  /\ phase = "capacity" /\ low <= high
  /\ LET mid == (low + high) \div 2
     IN  rows' = rows \cup {[batch |-> mid, ok |-> ok]} /\ Narrow(mid, ok)
  /\ UNCHANGED <<phase, capacity, reports>>

Recommended(safe) == IF safe = 0 THEN 1 ELSE (safe * 8) \div 10

WriteCapacity ==
  /\ phase = "capacity" /\ low > high /\ phase' = "none"
  /\ capacity' = [safe |-> safeBatch, oom |-> oomBatch,
                  recommended |-> Recommended(safeBatch), rows |-> rows]
  /\ UNCHANGED <<low, high, safeBatch, oomBatch, rows, reports>>

KillTuner ==
  /\ phase = "capacity" /\ phase' = "none"
  /\ UNCHANGED <<low, high, safeBatch, oomBatch, rows, capacity, reports>>

TunerNext ==
  \/ Health \/ Baseline \/ Parity \/ SoakTest \/ Recommend
  \/ CapacityStart \/ (\E ok \in BOOLEAN : Trial(ok)) \/ WriteCapacity \/ KillTuner

TunerSpec == TunerInit /\ [][TunerNext]_tunerVars

-----------------------------------------------------------------------------
(* Properties *)

\* However the trials come out, safe_capacity.yaml is the boundary its own trials show:
\* every batch up to the safe one that was tried ran, every batch from the OOM one on
\* that was tried did not, the two are neighbours, the safe batch and the OOM batch
\* were tried themselves, and the recommended batch never exceeds the safe one.
CapacityIsBoundary ==
  capacity # NoCapacity =>
    /\ \A row \in capacity.rows : IF row.ok THEN row.batch <= capacity.safe
                                  ELSE row.batch > capacity.safe
    /\ capacity.safe # 0 => [batch |-> capacity.safe, ok |-> TRUE] \in capacity.rows
    /\ capacity.oom # 0 => [batch |-> capacity.oom, ok |-> FALSE] \in capacity.rows
    /\ IF capacity.oom = 0 THEN capacity.safe = MaxBatch ELSE capacity.oom = capacity.safe + 1
    /\ capacity.safe # 0 => capacity.recommended <= capacity.safe

\* What makes it so, while the search goes on.
Interval ==
  phase = "capacity" =>
    /\ \A row \in rows : IF row.ok THEN row.batch < low ELSE row.batch > high
    /\ low = safeBatch + 1 /\ high = (IF oomBatch = 0 THEN MaxBatch ELSE oomBatch - 1)
    /\ low <= high + 1
    /\ safeBatch # 0 => [batch |-> safeBatch, ok |-> TRUE] \in rows
    /\ oomBatch # 0 => [batch |-> oomBatch, ok |-> FALSE] \in rows
=============================================================================
