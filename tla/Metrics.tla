------------------------------ MODULE Metrics -------------------------------
(***************************************************************************)
(* The recomputation of segmentation and change metrics from labels, as    *)
(* the confusion matrix formulas of the code, against their definitions    *)
(* over the labels themselves.  A metric is a fraction <<n, d>>, d # 0,    *)
(* where the code has a float.                                             *)
(*                                                                         *)
(* Labels come pair by pair; any list of pairs may be evaluated.           *)
(***************************************************************************)
EXTENDS Loops, Integers, Sequences, FiniteSets

CONSTANTS
  Classes,      \* number of classes; class 0 is "unchanged"
  Foreign,      \* labels that are no class
  MaxLabels     \* bound on the labelled points

ASSUME MetricsAssumption ==
  /\ Classes \in Nat \ {0} /\ Foreign \subseteq Nat \ (0..Classes - 1) /\ MaxLabels \in Nat

VARIABLES
  labels,       \* the points: <<ground truth, prediction>>
  ignore,       \* ignore_index: the labels to leave out, none or one
  matrix        \* the confusion matrix, <<>> before there is one

metricVars == <<labels, ignore, matrix>>

Class == 0..Classes - 1
Change == Class \ {0}
Label == Class \cup Foreign

MetricsInit == labels = <<>> /\ matrix = <<>> /\ ignore \in {{}} \cup {{l} : l \in Label}

AddPoint(truth, pred) ==
  /\ matrix = <<>> /\ Len(labels) < MaxLabels
  /\ labels' = Append(labels, <<truth, pred>>)
  /\ UNCHANGED <<ignore, matrix>>

\* The points that count, by place.
Kept(ls) == {i \in DOMAIN ls : ls[i][1] \notin ignore /\ ls[i][2] \notin ignore}

\* A foreign label that is not ignored raises.
Raises(ls) == \E i \in Kept(ls) : ls[i][1] \notin Class \/ ls[i][2] \notin Class

ConfusionMatrix(ls) ==
  [t \in Class |-> [p \in Class |-> Cardinality({i \in Kept(ls) : ls[i] = <<t, p>>})]]

\* compute_confusion_matrix: what follows is computed from the matrix alone.
ComputeMatrix ==
  /\ matrix = <<>> /\ ~Raises(labels)
  /\ matrix' = ConfusionMatrix(labels)
  /\ UNCHANGED <<labels, ignore>>

MetricsNext == ComputeMatrix \/ \E truth, pred \in Label : AddPoint(truth, pred)

MetricsSpec == MetricsInit /\ [][MetricsNext]_metricVars

-----------------------------------------------------------------------------
(* The code: everything is a sum over the matrix m *)

\* The sum of f over the classes, one after the other.
ClassSum(f) == AfterLoop(Classes, 0, [i \in 1..Classes |-> [sum \in Int |-> sum + f[i - 1]]])
\* The sum over the change classes, which are all but 0.
ChangeSum(f) == ClassSum([c \in Class |-> IF c \in Change THEN f[c] ELSE 0])

RowSum(m, c) == ClassSum([p \in Class |-> m[c][p]])
ColSum(m, c) == ClassSum([t \in Class |-> m[t][c]])
Total(m) == ClassSum([c \in Class |-> RowSum(m, c)])
Trace(m) == ClassSum([c \in Class |-> m[c][c]])

\* A quotient is 0 where the denominator is.
Ratio(n, d) == IF d = 0 THEN <<0, 1>> ELSE <<n, d>>
Equal(x, y) == x[1] * y[2] = y[1] * x[2]
Plus(x, y) == <<x[1] * y[2] + y[1] * x[2], x[2] * y[2]>>

\* Mutant of FalsePositives: the wrong axis.
FalsePositivesByRow(m, c) == RowSum(m, c) - m[c][c]

FalsePositives(m, c) == ColSum(m, c) - m[c][c]
FalseNegatives(m, c) == RowSum(m, c) - m[c][c]

PerClassIou(m, c) == Ratio(m[c][c], m[c][c] + FalsePositives(m, c) + FalseNegatives(m, c))
AbsentClasses(m) == {c \in Class : m[c][c] + FalsePositives(m, c) + FalseNegatives(m, c) = 0}
PerClassAccuracy(m, c) == Ratio(m[c][c], RowSum(m, c))
PerClassPrecision(m, c) == Ratio(m[c][c], m[c][c] + FalsePositives(m, c))

Harmonic(p, r) == Ratio(2 * p[1] * r[1], p[1] * r[2] + r[1] * p[2])
PerClassF1(m, c) == Harmonic(PerClassPrecision(m, c), PerClassAccuracy(m, c))
OverallAccuracy(m) == Ratio(Trace(m), Total(m))

\* Policy "zero": an absent class counts as 0; with no class to average it is 0.
Mean(metric, classes) ==
  LET sum == AfterLoop(Classes, <<0, 1>>,
               [i \in 1..Classes |-> [acc \in Int \X Int |->
                 IF i - 1 \in classes THEN Plus(metric[i - 1], acc) ELSE acc]])
  IN  Ratio(sum[1], sum[2] * Cardinality(classes))

Miou(m, classes) == Mean([c \in Class |-> PerClassIou(m, c)], classes)

\* The verifier has an mIoU of its own: over the classes that are there.
VerifierMiou(m) == Mean([c \in Class |-> PerClassIou(m, c)], Class \ AbsentClasses(m))

\* The change classes against class 0.
BinaryChange(m) ==
  LET tp == ChangeSum([t \in Class |-> ChangeSum([p \in Class |-> m[t][p]])])
      fp == ChangeSum([p \in Class |-> m[0][p]])
      fn == ChangeSum([t \in Class |-> m[t][0]])
      precision == Ratio(tp, tp + fp)
      recall == Ratio(tp, tp + fn)
  IN  [iou |-> Ratio(tp, tp + fp + fn), precision |-> precision, recall |-> recall,
       f1 |-> Harmonic(precision, recall)]

\* (p_o - p_e) / (1 - p_e) over the total squared; the code's integers have 64 bits, so
\* its squares hold up to three billion points.
Kappa(m) ==
  LET total == Total(m)
      chance == ClassSum([c \in Class |-> RowSum(m, c) * ColSum(m, c)])
  IN  IF total = 0 THEN <<0, 1>>
      ELSE IF chance = total * total THEN <<1, 1>>
      ELSE <<Trace(m) * total - chance, total * total - chance>>

-----------------------------------------------------------------------------
(* The definitions, over the points *)

TruthOf(ls, cs) == {i \in Kept(ls) : ls[i][1] \in cs}
PredOf(ls, cs) == {i \in Kept(ls) : ls[i][2] \in cs}
Jaccard(a, b) == Ratio(Cardinality(a \cap b), Cardinality(a \cup b))
Dice(a, b) == Ratio(2 * Cardinality(a \cap b), Cardinality(a) + Cardinality(b))

-----------------------------------------------------------------------------
(* Properties *)

\* Whatever the labels and whichever are ignored, if there is a matrix: IoU and F1 of
\* each class, and of change as a whole, are the Jaccard and Dice coefficients of the
\* true and the predicted points; OA counts the agreements; kappa corrects them by the
\* pairs that agree by chance and is 1 exactly on full agreement, 0 without points.  The
\* verifier's mIoU is never below the recomputed one, and above it exactly if a class is
\* absent and another is hit.
RecomputedMetrics ==
  matrix # <<>> =>
    LET m == matrix
        kept == Kept(labels)
        agree == {i \in kept : labels[i][1] = labels[i][2]}
        kappa == Kappa(m)
        chance == Cardinality({ij \in kept \X kept : labels[ij[1]][1] = labels[ij[2]][2]})
        n == Cardinality(kept)
    IN  /\ \A c \in Class :
             LET truth == TruthOf(labels, {c})
                 pred == PredOf(labels, {c})
             IN  /\ Equal(PerClassIou(m, c), Jaccard(truth, pred))
                 /\ Equal(PerClassF1(m, c), Dice(truth, pred))
                 /\ c \in AbsentClasses(m) <=> truth \cup pred = {}
        /\ LET truth == TruthOf(labels, Change)
               pred == PredOf(labels, Change)
           IN  /\ Equal(BinaryChange(m).iou, Jaccard(truth, pred))
               /\ Equal(BinaryChange(m).f1, Dice(truth, pred))
        /\ Equal(OverallAccuracy(m), Ratio(Cardinality(agree), n))
        /\ kappa[2] > 0 /\ (agree = kept /\ n > 0 <=> Equal(kappa, <<1, 1>>))
        /\ chance # n * n => Equal(kappa, Ratio(Cardinality(agree) * n - chance, n * n - chance))
        /\ \A cs \in {Class, Change} \ {{}} :
             LET miou == Miou(m, cs)
                 worst(x) == \A c \in cs : x[1] * PerClassIou(m, c)[2] <= PerClassIou(m, c)[1] * x[2]
                 best(x) == \A c \in cs : x[1] * PerClassIou(m, c)[2] >= PerClassIou(m, c)[1] * x[2]
             IN  \A x \in {PerClassIou(m, c) : c \in cs} :
                   /\ worst(x) => x[1] * miou[2] <= miou[1] * x[2]
                   /\ best(x) => x[1] * miou[2] >= miou[1] * x[2]
        /\ LET recomputed == Miou(m, Class)
               verified == VerifierMiou(m)
           IN  /\ recomputed[1] * verified[2] <= verified[1] * recomputed[2]
               /\ ~Equal(recomputed, verified) <=>
                    AbsentClasses(m) # {} /\ \E c \in Class : m[c][c] > 0
=============================================================================
