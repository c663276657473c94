------------------------------- MODULE Reports -------------------------------
(***************************************************************************)
(* The report generator: what it concludes from the rows of the tasks, as  *)
(* `autopilot report` calls it, and from metrics, which no program of the  *)
(* repository gives it.  A behaviour collects the input of one report.     *)
(*                                                                         *)
(* Rows count by their state; a metric's values are whole numbers of some  *)
(* unit.  Left out are titles, layout, the counts in the Markdown tables,  *)
(* the advice, and the files the reports are written to, each in place.    *)
(***************************************************************************)
EXTENDS Integers, Sequences, FiniteSetsExt

CONSTANTS
  MaxRows,      \* bound on the tasks of a report
  MaxClaims,    \* bound on the metrics compared and aggregated
  Value,        \* the values of a metric, in a unit finer than the fourth place
  Place4        \* 0.0001 in that unit

ASSUME ReportsAssumption ==
  MaxRows \in Nat /\ MaxClaims \in Nat /\ Value \subseteq Int /\ Place4 \in Nat \ {0}

VARIABLES
  about,        \* what the report is about
  rowCount,     \* for "tasks": state -> how many rows
  claims,       \* for "paper": the metrics both sides name
  sample        \* for "metrics": one metric's values, run after run

reportVars == <<about, rowCount, claims, sample>>

RowState == {"PASSED", "FAILED", "BLOCKED", "PENDING"}

ReportsInit ==
  /\ about \in {"tasks", "paper", "metrics"}
  /\ rowCount = [s \in RowState |-> 0] /\ claims = <<>> /\ sample = <<>>

RowTotal == rowCount["PASSED"] + rowCount["FAILED"] + rowCount["BLOCKED"] + rowCount["PENDING"]

AddRow ==
  /\ about = "tasks" /\ RowTotal < MaxRows
  /\ \E s \in RowState : rowCount' = [rowCount EXCEPT ![s] = @ + 1]
  /\ UNCHANGED <<about, claims, sample>>
AddClaim ==
  /\ about = "paper" /\ Len(claims) < MaxClaims
  /\ \E paper, ours \in Value : claims' = Append(claims, [paper |-> paper, ours |-> ours])
  /\ UNCHANGED <<about, rowCount, sample>>
\* A run may lack the metric, or have a text there.
AddSample ==
  /\ about = "metrics" /\ Len(sample) < MaxClaims
  /\ \E v \in Value, is \in {"number", "text", "absent"} :
       sample' = Append(sample, [is |-> is, value |-> v])
  /\ UNCHANGED <<about, rowCount, claims>>

ReportsNext == AddRow \/ AddClaim \/ AddSample

ReportsSpec == ReportsInit /\ [][ReportsNext]_reportVars

-----------------------------------------------------------------------------
(* Tasks *)

\* Both verdicts go by the share of PASSED in all rows.
AtLeast(tenths, passed, total) == 10 * passed >= tenths * total

MarkdownVerdict(passed, total) ==
  CASE total = 0 -> "INCONCLUSIVE"
    [] total # 0 /\ AtLeast(9, passed, total) -> "GO"
    [] total # 0 /\ AtLeast(7, passed, total) /\ ~AtLeast(9, passed, total) -> "GO with caveats"
    [] total # 0 /\ AtLeast(5, passed, total) /\ ~AtLeast(7, passed, total) -> "PIVOT"
    [] OTHER -> "NO-GO"

\* Mutant of GoPivotNogo: what has not failed has passed.
GoPivotNogoUnfailed(passed, failed, total) ==
  CASE total # 0 /\ AtLeast(7, total - failed, total) -> "GO"
    [] total # 0 /\ AtLeast(5, total - failed, total) /\ ~AtLeast(7, total - failed, total) -> "PIVOT"
    [] OTHER -> "NO-GO"

\* Without rows the rate is 0.
GoPivotNogo(passed, failed, total) ==
  CASE total # 0 /\ AtLeast(7, passed, total) -> "GO"
    [] total # 0 /\ AtLeast(5, passed, total) /\ ~AtLeast(7, passed, total) -> "PIVOT"
    [] OTHER -> "NO-GO"

-----------------------------------------------------------------------------
(* Metrics *)

Distance(c) == IF c.paper > c.ours THEN c.paper - c.ours ELSE c.ours - c.paper

\* Less than 5 % of the paper's value; of a value that is 0 nothing is too far, and of a
\* negative one neither, for the share is negative.
WithinTolerance(c) == IF c.paper = 0 THEN TRUE
                      ELSE IF c.paper > 0 THEN 100 * Distance(c) < 5 * c.paper
                      ELSE 100 * Distance(c) > 5 * c.paper

PaperVerdict ==
  LET within == Cardinality({i \in DOMAIN claims : WithinTolerance(claims[i])})
  IN  CASE claims = <<>> -> "INCONCLUSIVE"
        [] claims # <<>> /\ within = Len(claims) -> "SUCCESS"
        [] within < Len(claims) /\ 2 * within >= Len(claims) -> "PARTIAL"
        [] OTHER -> "FAILURE"

\* The mean to four places: the nearest, and either of two that are as near.
RoundedMeans(sum, count) ==
  LET low == sum \div (Place4 * count)
  IN  {m \in {low, low + 1} :
         /\ 2 * (Place4 * m * count - sum) <= Place4 * count
         /\ 2 * (sum - Place4 * m * count) <= Place4 * count}

\* A metric is aggregated over the runs that have it, if it is a number in all of those.
\* The mean is rounded, the least and the greatest value are not.
MetricReport ==
  LET there == {i \in DOMAIN sample : sample[i].is # "absent"}
      values == {sample[i].value : i \in there}
      sum[n \in 0..Len(sample)] ==
        IF n = 0 THEN 0 ELSE IF n \in there THEN sum[n - 1] + sample[n].value ELSE sum[n - 1]
  IN  IF there # {} /\ \A i \in there : sample[i].is = "number"
      THEN [means |-> RoundedMeans(sum[Len(sample)], Cardinality(there)),
            min |-> Min(values), max |-> Max(values)]
      ELSE [means |-> {}, min |-> 0, max |-> 0]

-----------------------------------------------------------------------------
(* Properties *)

Worth(verdict) == CASE verdict = "GO" -> 3 [] verdict = "PIVOT" -> 2 [] OTHER -> 1
FairlyClose(c) == 100 * Distance(c) < 5 * c.paper

\* What the verdicts are worth.  Of the same rows, if there are any, the Markdown report says
\* GO, with caveats or without, exactly when the json says GO, and so for PIVOT and NO-GO; a
\* GO has at least twice as many tasks passed as failed; one more pass never makes a verdict
\* worse.  A comparison is no SUCCESS with a positive claim missed by 5 % or more, and no
\* FAILURE with half of the claims met.  A mean is at most half a place outside the extremes
\* it is printed with.
VerdictsFollow ==
  /\ about = "tasks" =>
       LET passed == rowCount["PASSED"]
           failed == rowCount["FAILED"]
           says == GoPivotNogo(passed, failed, RowTotal)
           markdown == MarkdownVerdict(passed, RowTotal)
       IN  /\ RowTotal # 0 =>
                /\ markdown \in {"GO", "GO with caveats"} <=> says = "GO"
                /\ \A word \in {"PIVOT", "NO-GO"} : markdown = word <=> says = word
           /\ says = "GO" => passed >= 2 * failed
           /\ Worth(GoPivotNogo(passed + 1, failed, RowTotal + 1)) >= Worth(says)
  /\ about = "paper" =>
       /\ PaperVerdict = "SUCCESS" =>
            \A i \in DOMAIN claims : claims[i].paper > 0 => FairlyClose(claims[i])
       /\ PaperVerdict = "FAILURE" =>
            2 * Cardinality({i \in DOMAIN claims : FairlyClose(claims[i])}) < Len(claims)
  /\ about = "metrics" =>
       LET report == MetricReport
       IN  \A m \in report.means : 2 * report.min - Place4 <= 2 * Place4 * m
                                  /\ 2 * Place4 * m <= 2 * report.max + Place4
=============================================================================
