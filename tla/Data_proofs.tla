---------------------------- MODULE Data_proofs -----------------------------
(***************************************************************************)
(* The pure algorithms, for data of any size: the metrics recomputed from  *)
(* labels, the readers of plan documents and their searches for cycles, and*)
(* the way of a plan into the task table.                                  *)
(***************************************************************************)
EXTENDS PlanDocument, PlanForms, Metrics, Loops_proofs

-----------------------------------------------------------------------------
(* Sums over the classes *)

\* A sum over the classes is what its parts add up to.
LEMMA ClassSumTo ==
  ASSUME NEW f, NEW g, g[0] = 0,
         \A i \in 1..Classes : g[i - 1] \in Int /\ g[i] = g[i - 1] + f[i - 1]
  PROVE  ClassSum(f) = g[Classes]
<1> DEFINE step == [i \in 1..Classes |-> [sum \in Int |-> sum + f[i - 1]]]
           Inv == [i \in 0..Classes |-> {g[i]}]
<1>1. Classes \in Nat
  BY MetricsAssumption
<1>2. 0 \in Inv[0] /\ Inv[Classes] = {g[Classes]}
  BY <1>1
<1>3. ASSUME NEW i \in 1..Classes, NEW v \in Inv[i - 1] PROVE step[i][v] \in Inv[i]
  <2>1. i - 1 \in 0..Classes /\ i \in 0..Classes
    BY <1>1
  <2>2. v = g[i - 1] /\ v \in Int /\ Inv[i] = {g[i]}
    BY <1>3, <2>1
  <2>3. step[i][v] = v + f[i - 1]
    BY <2>2
  <2> QED BY <2>2, <2>3
<1> HIDE DEF step, Inv
<1>4. AfterLoop(Classes, 0, step) \in Inv[Classes]
  BY <1>1, <1>2, <1>3, LoopInvariant
<1> QED BY <1>2, <1>4 DEF ClassSum, step

\* The members of U that cl puts into one of the classes cs.
Those(U, cl, cs) == {u \in U : cl[u] \in cs}

\* What is counted class by class is counted once.
LEMMA CountByClass ==
  ASSUME NEW U, IsFiniteSet(U), NEW cl, NEW f,
         \A c \in Class : f[c] = Cardinality(Those(U, cl, {c}))
  PROVE  ClassSum(f) = Cardinality(Those(U, cl, Class))
<1> DEFINE Of(i) == Those(U, cl, 0..i - 1)
           g == [i \in 0..Classes |-> Cardinality(Of(i))]
<1>1. Classes \in Nat
  BY MetricsAssumption
<1>2. \A i \in 0..Classes : IsFiniteSet(Of(i)) /\ Cardinality(Of(i)) \in Nat /\ g[i] = Cardinality(Of(i))
  BY FS_Subset, FS_CardinalityType DEF Those
<1>3. g[0] = 0
  <2>1. Of(0) = {}
    BY DEF Those
  <2> QED BY <1>1, <1>2, <2>1, FS_EmptySet
<1>4. ASSUME NEW i \in 1..Classes PROVE g[i - 1] \in Int /\ g[i] = g[i - 1] + f[i - 1]
  <2> DEFINE A == Of(i - 1)
             B == Those(U, cl, {i - 1})
  <2>1. i - 1 \in 0..Classes /\ i \in 0..Classes /\ i - 1 \in Class /\ i - 1 \in Int
    BY <1>1 DEF Class
  <2>2. Of(i) = A \cup B
    <3>1. 0..i - 1 = 0..(i - 1) - 1 \cup {i - 1}
      OBVIOUS
    <3> QED BY <3>1 DEF Those
  <2>3. A \cap B = {}
    <3>1. i - 1 \notin 0..(i - 1) - 1
      OBVIOUS
    <3> QED BY <3>1 DEF Those
  <2>4. IsFiniteSet(B) /\ Cardinality(B) \in Nat
    BY FS_Subset, FS_CardinalityType DEF Those
  <2>5. IsFiniteSet(A) /\ Cardinality(A) \in Nat /\ g[i - 1] = Cardinality(A)
    BY <1>2, <2>1
  <2>6. g[i] = Cardinality(Of(i)) /\ f[i - 1] = Cardinality(B)
    BY <1>2, <2>1
  <2> HIDE DEF A, B, g, Of
  <2>7. Cardinality(A \cup B) = Cardinality(A) + Cardinality(B)
    <3>1. Cardinality(A \cup B) = Cardinality(A) + Cardinality(B) - Cardinality(A \cap B)
      BY <2>4, <2>5, FS_Union
    <3>2. Cardinality(A \cap B) = 0
      BY <2>3, FS_EmptySet
    <3> QED BY <2>4, <2>5, <3>1, <3>2
  <2> QED BY <2>2, <2>5, <2>6, <2>7
<1> HIDE DEF g
<1>5. ClassSum(f) = g[Classes]
  BY <1>3, <1>4, ClassSumTo
<1>6. Of(Classes) = Those(U, cl, Class)
  BY DEF Class
<1>7. Classes \in 0..Classes
  BY <1>1
<1> QED BY <1>2, <1>5, <1>6, <1>7

\* So is what is counted over the change classes.
LEMMA CountByChange ==
  ASSUME NEW U, IsFiniteSet(U), NEW cl, NEW f,
         \A c \in Change : f[c] = Cardinality(Those(U, cl, {c}))
  PROVE  ChangeSum(f) = Cardinality(Those(U, cl, Change))
<1> DEFINE W == Those(U, cl, Change)
           g == [c \in Class |-> IF c \in Change THEN f[c] ELSE 0]
<1>1. IsFiniteSet(W)
  BY FS_Subset DEF Those
<1>2. ASSUME NEW c \in Class PROVE g[c] = Cardinality(Those(W, cl, {c}))
  <2>1. CASE c \in Change
    <3>1. Those(W, cl, {c}) = Those(U, cl, {c})
      BY <2>1 DEF Those
    <3> QED BY <2>1, <3>1
  <2>2. CASE c \notin Change
    <3>1. Those(W, cl, {c}) = {}
      BY <2>2 DEF Those
    <3> QED BY <2>2, <3>1, FS_EmptySet
  <2> QED BY <2>1, <2>2
<1>3. Those(W, cl, Class) = W
  BY DEF Change, Those
<1> HIDE DEF W, g
<1>4. ClassSum(g) = Cardinality(Those(W, cl, Class))
  BY <1>1, <1>2, CountByClass
<1> QED BY <1>3, <1>4 DEF ChangeSum, W, g

-----------------------------------------------------------------------------
(* The matrix counts points *)

PointsTyped == labels \in Seq(Label \X Label)

Truth == [i \in Kept(labels) |-> labels[i][1]]
Pred == [i \in Kept(labels) |-> labels[i][2]]
Agree == {i \in Kept(labels) : labels[i][1] = labels[i][2]}

LEMMA PointsAreClasses ==
  ASSUME PointsTyped, ~Raises(labels)
  PROVE  /\ IsFiniteSet(Kept(labels))
         /\ \A i \in Kept(labels) : /\ Truth[i] \in Class /\ Pred[i] \in Class
                                    /\ labels[i] = <<Truth[i], Pred[i]>>
<1>1. IsFiniteSet(Kept(labels))
  <2>1. DOMAIN labels = 1..Len(labels) /\ Len(labels) \in Nat
    BY DEF PointsTyped
  <2>2. IsFiniteSet(1..Len(labels))
    BY <2>1, FS_Interval
  <2> QED BY <2>1, <2>2, FS_Subset DEF Kept
<1>2. ASSUME NEW i \in Kept(labels)
      PROVE  Truth[i] \in Class /\ Pred[i] \in Class /\ labels[i] = <<Truth[i], Pred[i]>>
  <2>1. labels[i] \in Label \X Label
    BY DEF PointsTyped, Kept
  <2>2. labels[i] = <<labels[i][1], labels[i][2]>>
    BY <2>1
  <2> QED BY <2>2 DEF Raises, Truth, Pred
<1> QED BY <1>1, <1>2

\* Any points at all, by truth and prediction.
LEMMA CellCounts ==
  ASSUME PointsTyped, ~Raises(labels), NEW t \in Class, NEW p \in Class
  PROVE  ConfusionMatrix(labels)[t][p] = Cardinality(Those(Those(Kept(labels), Truth, {t}), Pred, {p}))
<1>1. {i \in Kept(labels) : labels[i] = <<t, p>>} = Those(Those(Kept(labels), Truth, {t}), Pred, {p})
  BY PointsAreClasses DEF Those
<1>2. ConfusionMatrix(labels)[t][p] = Cardinality({i \in Kept(labels) : labels[i] = <<t, p>>})
  BY DEF ConfusionMatrix
<1> QED BY <1>1, <1>2

LEMMA RowCounts ==
  ASSUME PointsTyped, ~Raises(labels), NEW c \in Class
  PROVE  RowSum(ConfusionMatrix(labels), c) = Cardinality(TruthOf(labels, {c}))
<1> DEFINE m == ConfusionMatrix(labels)
           f == [p \in Class |-> m[c][p]]
           U == Those(Kept(labels), Truth, {c})
<1>1. IsFiniteSet(U)
  BY PointsAreClasses, FS_Subset DEF Those
<1>2. ASSUME NEW p \in Class PROVE f[p] = Cardinality(Those(U, Pred, {p}))
  BY CellCounts
<1>3. Those(U, Pred, Class) = U /\ U = TruthOf(labels, {c})
  BY PointsAreClasses DEF Those, TruthOf, Truth
<1>4. RowSum(m, c) = ClassSum(f)
  BY DEF RowSum
<1> HIDE DEF f, U, m
<1>5. ClassSum(f) = Cardinality(Those(U, Pred, Class))
  BY <1>1, <1>2, CountByClass
<1> QED BY <1>3, <1>4, <1>5 DEF m

LEMMA ColumnCounts ==
  ASSUME PointsTyped, ~Raises(labels), NEW c \in Class
  PROVE  ColSum(ConfusionMatrix(labels), c) = Cardinality(PredOf(labels, {c}))
<1> DEFINE m == ConfusionMatrix(labels)
           f == [t \in Class |-> m[t][c]]
           U == Those(Kept(labels), Pred, {c})
<1>1. IsFiniteSet(U)
  BY PointsAreClasses, FS_Subset DEF Those
<1>2. ASSUME NEW t \in Class PROVE f[t] = Cardinality(Those(U, Truth, {t}))
  <2>1. Those(U, Truth, {t}) = Those(Those(Kept(labels), Truth, {t}), Pred, {c})
    BY DEF Those
  <2> QED BY <2>1, CellCounts
<1>3. Those(U, Truth, Class) = U /\ U = PredOf(labels, {c})
  BY PointsAreClasses DEF Those, PredOf, Pred
<1>4. ColSum(m, c) = ClassSum(f)
  BY DEF ColSum
<1> HIDE DEF f, U, m
<1>5. ClassSum(f) = Cardinality(Those(U, Truth, Class))
  BY <1>1, <1>2, CountByClass
<1> QED BY <1>3, <1>4, <1>5 DEF m

LEMMA TotalCounts ==
  ASSUME PointsTyped, ~Raises(labels)
  PROVE  Total(ConfusionMatrix(labels)) = Cardinality(Kept(labels))
<1> DEFINE m == ConfusionMatrix(labels)
           f == [c \in Class |-> RowSum(m, c)]
<1>1. ASSUME NEW c \in Class PROVE f[c] = Cardinality(Those(Kept(labels), Truth, {c}))
  <2>1. Those(Kept(labels), Truth, {c}) = TruthOf(labels, {c})
    BY DEF Those, TruthOf, Truth
  <2> QED BY <2>1, RowCounts
<1>2. Those(Kept(labels), Truth, Class) = Kept(labels)
  BY PointsAreClasses DEF Those
<1>3. Total(m) = ClassSum(f)
  BY DEF Total
<1> HIDE DEF f, m
<1>4. ClassSum(f) = Cardinality(Those(Kept(labels), Truth, Class))
  BY <1>1, PointsAreClasses, CountByClass
<1> QED BY <1>2, <1>3, <1>4 DEF m

LEMMA TraceCounts ==
  ASSUME PointsTyped, ~Raises(labels)
  PROVE  Trace(ConfusionMatrix(labels)) = Cardinality(Agree)
<1> DEFINE m == ConfusionMatrix(labels)
           f == [c \in Class |-> m[c][c]]
<1>1. ASSUME NEW c \in Class PROVE f[c] = Cardinality(Those(Agree, Truth, {c}))
  <2>1. Those(Agree, Truth, {c}) = Those(Those(Kept(labels), Truth, {c}), Pred, {c})
    BY DEF Those, Agree, Truth, Pred
  <2> QED BY <2>1, CellCounts
<1>2. Those(Agree, Truth, Class) = Agree /\ IsFiniteSet(Agree)
  BY PointsAreClasses, FS_Subset DEF Those, Agree
<1>3. Trace(m) = ClassSum(f)
  BY DEF Trace
<1> HIDE DEF f, m
<1>4. ClassSum(f) = Cardinality(Those(Agree, Truth, Class))
  BY <1>1, <1>2, CountByClass
<1> QED BY <1>2, <1>3, <1>4 DEF m

-----------------------------------------------------------------------------
(* The quotients *)

\* Two finite sets of points, what they share and what they have together.
Meet(a, b) == Cardinality(a \cap b)

LEMMA Overlap ==
  ASSUME NEW a, NEW b, IsFiniteSet(a), IsFiniteSet(b)
  PROVE  /\ Cardinality(a) \in Nat /\ Cardinality(b) \in Nat /\ Meet(a, b) \in Nat
         /\ Meet(a, b) <= Cardinality(a) /\ Meet(a, b) <= Cardinality(b)
         /\ Cardinality(a \cup b) = Cardinality(a) + Cardinality(b) - Meet(a, b)
         /\ Cardinality(a \cup b) = 0 <=> a \cup b = {}
<1>1. Cardinality(a) \in Nat /\ Cardinality(b) \in Nat
  BY FS_CardinalityType
<1>2. IsFiniteSet(a \cap b) /\ Meet(a, b) <= Cardinality(a)
  BY FS_Intersection DEF Meet
<1>3. Meet(a, b) <= Cardinality(b)
  BY FS_Intersection DEF Meet
<1>4. Meet(a, b) \in Nat
  BY <1>2, FS_CardinalityType DEF Meet
<1>5. IsFiniteSet(a \cup b) /\ Cardinality(a \cup b) = Cardinality(a) + Cardinality(b) - Meet(a, b)
  BY FS_Union DEF Meet
<1>6. Cardinality(a \cup b) = 0 <=> a \cup b = {}
  BY <1>5, FS_EmptySet
<1> QED BY <1>1, <1>2, <1>3, <1>4, <1>5, <1>6

\* The harmonic mean of precision and recall is the Dice coefficient, however they are
\* cut off where a denominator is 0.
LEMMA HarmonicIsDice ==
  ASSUME NEW i \in Nat, NEW x \in Nat, NEW y \in Nat, i <= x, i <= y
  PROVE  Equal(Harmonic(Ratio(i, y), Ratio(i, x)), Ratio(2 * i, x + y))
<1>1. CASE i = 0
  <2>1. \A n \in Nat : Ratio(0, n)[1] = 0 /\ Ratio(0, n)[2] \in Nat
    BY DEF Ratio
  <2>2. 2 * i = 0 /\ x + y \in Nat
    BY <1>1
  <2>3. Harmonic(Ratio(i, y), Ratio(i, x)) = Ratio(0, 0)
    <3>1. \A p, q \in Nat : 2 * 0 * 0 = 0 /\ 0 * p + 0 * q = 0
      OBVIOUS
    <3> QED BY <1>1, <2>1, <3>1 DEF Harmonic
  <2>4. Equal(Ratio(0, 0), Ratio(0, x + y))
    <3>1. \A p, q \in Nat : 0 * p = 0 * q
      OBVIOUS
    <3> QED BY <2>1, <2>2, <3>1 DEF Equal
  <2> QED BY <2>2, <2>3, <2>4
<1>2. CASE i > 0
  <2>1. x > 0 /\ y > 0 /\ Ratio(i, y) = <<i, y>> /\ Ratio(i, x) = <<i, x>>
    BY <1>2 DEF Ratio
  <2>2. Harmonic(Ratio(i, y), Ratio(i, x)) = Ratio(2 * i * i, i * x + i * y)
    BY <2>1 DEF Harmonic
  <2>3. i * x + i * y = i * (x + y) /\ i * (x + y) > 0 /\ i * (x + y) \in Nat
    <3>1. i * x + i * y = i * (x + y)
      OBVIOUS
    <3>2. x + y > 0
      BY <2>1
    <3>3. \A z \in Nat : z > 0 => i * z > 0
      BY <1>2
    <3> QED BY <3>1, <3>2, <3>3
  <2>4. Ratio(2 * i * i, i * x + i * y) = <<2 * i * i, i * (x + y)>>
    BY <2>3 DEF Ratio
  <2>5. Ratio(2 * i, x + y) = <<2 * i, x + y>>
    BY <2>1 DEF Ratio
  <2>6. (2 * i * i) * (x + y) = (2 * i) * (i * (x + y))
    <3>1. \A z \in Nat : (2 * i * i) * z = (2 * i) * (i * z)
      OBVIOUS
    <3> QED BY <3>1
  <2> QED BY <2>2, <2>4, <2>5, <2>6 DEF Equal
<1> QED BY <1>1, <1>2

\* The points of one class, and what the matrix says of them.
LEMMA ClassPoints ==
  ASSUME PointsTyped, ~Raises(labels), NEW c \in Class
  PROVE  LET m == ConfusionMatrix(labels)
             t == TruthOf(labels, {c})
             p == PredOf(labels, {c})
         IN  /\ IsFiniteSet(t) /\ IsFiniteSet(p)
             /\ m[c][c] = Meet(t, p)
             /\ RowSum(m, c) = Cardinality(t) /\ ColSum(m, c) = Cardinality(p)
             /\ m[c][c] + FalsePositives(m, c) = Cardinality(p)
             /\ m[c][c] + FalsePositives(m, c) + FalseNegatives(m, c) = Cardinality(t \cup p)
<1> DEFINE m == ConfusionMatrix(labels)
           t == TruthOf(labels, {c})
           p == PredOf(labels, {c})
<1>1. IsFiniteSet(t) /\ IsFiniteSet(p)
  BY PointsAreClasses, FS_Subset DEF TruthOf, PredOf
<1>2. m[c][c] = Meet(t, p)
  <2>1. Those(Those(Kept(labels), Truth, {c}), Pred, {c}) = t \cap p
    BY DEF Those, Truth, Pred, TruthOf, PredOf
  <2> QED BY <2>1, CellCounts DEF Meet
<1>3. RowSum(m, c) = Cardinality(t) /\ ColSum(m, c) = Cardinality(p)
  BY RowCounts, ColumnCounts
<1> HIDE DEF m, t, p
<1>4. /\ Cardinality(t) \in Nat /\ Cardinality(p) \in Nat /\ Meet(t, p) \in Nat
      /\ Cardinality(t \cup p) = Cardinality(t) + Cardinality(p) - Meet(t, p)
  BY <1>1, Overlap
<1>5. FalsePositives(m, c) = Cardinality(p) - Meet(t, p) /\ FalseNegatives(m, c) = Cardinality(t) - Meet(t, p)
  BY <1>2, <1>3 DEF FalsePositives, FalseNegatives
<1>6. /\ m[c][c] + FalsePositives(m, c) = Cardinality(p)
      /\ m[c][c] + FalsePositives(m, c) + FalseNegatives(m, c) = Cardinality(t \cup p)
  BY <1>2, <1>4, <1>5
<1> QED BY <1>1, <1>2, <1>3, <1>6 DEF m, t, p

\* IoU and F1 of a class are the Jaccard and Dice coefficients of its points.
LEMMA ClassMetrics ==
  ASSUME PointsTyped, ~Raises(labels), NEW c \in Class
  PROVE  LET m == ConfusionMatrix(labels)
             t == TruthOf(labels, {c})
             p == PredOf(labels, {c})
         IN  /\ PerClassIou(m, c) = Jaccard(t, p)
             /\ Equal(PerClassF1(m, c), Dice(t, p))
             /\ c \in AbsentClasses(m) <=> t \cup p = {}
<1> DEFINE m == ConfusionMatrix(labels)
           t == TruthOf(labels, {c})
           p == PredOf(labels, {c})
<1>1. /\ IsFiniteSet(t) /\ IsFiniteSet(p) /\ m[c][c] = Meet(t, p)
      /\ RowSum(m, c) = Cardinality(t)
      /\ m[c][c] + FalsePositives(m, c) = Cardinality(p)
      /\ m[c][c] + FalsePositives(m, c) + FalseNegatives(m, c) = Cardinality(t \cup p)
  BY ClassPoints
<1> HIDE DEF m, t, p
<1>2. /\ Cardinality(t) \in Nat /\ Cardinality(p) \in Nat /\ Meet(t, p) \in Nat
      /\ Meet(t, p) <= Cardinality(t) /\ Meet(t, p) <= Cardinality(p)
      /\ Cardinality(t \cup p) = 0 <=> t \cup p = {}
  BY <1>1, Overlap
<1>3. PerClassIou(m, c) = Jaccard(t, p)
  BY <1>1 DEF PerClassIou, Jaccard, Meet
<1>4. Equal(PerClassF1(m, c), Dice(t, p))
  <2>1. PerClassF1(m, c) = Harmonic(Ratio(Meet(t, p), Cardinality(p)), Ratio(Meet(t, p), Cardinality(t)))
    BY <1>1 DEF PerClassF1, PerClassPrecision, PerClassAccuracy
  <2>2. Dice(t, p) = Ratio(2 * Meet(t, p), Cardinality(t) + Cardinality(p))
    BY DEF Dice, Meet
  <2> QED BY <1>2, <2>1, <2>2, HarmonicIsDice
<1>5. c \in AbsentClasses(m) <=> t \cup p = {}
  BY <1>1, <1>2 DEF AbsentClasses
<1> QED BY <1>3, <1>4, <1>5 DEF m, t, p

\* The points of the change classes, as the sums over the change part of the matrix count them.
LEMMA ChangePoints ==
  ASSUME PointsTyped, ~Raises(labels)
  PROVE  LET m == ConfusionMatrix(labels)
             t == TruthOf(labels, Change)
             p == PredOf(labels, Change)
         IN  /\ IsFiniteSet(t) /\ IsFiniteSet(p)
             /\ ChangeSum([c \in Class |-> ChangeSum([d \in Class |-> m[c][d]])]) = Meet(t, p)
             /\ ChangeSum([d \in Class |-> m[0][d]]) = Cardinality(p) - Meet(t, p)
             /\ ChangeSum([c \in Class |-> m[c][0]]) = Cardinality(t) - Meet(t, p)
<1> DEFINE m == ConfusionMatrix(labels)
           t == TruthOf(labels, Change)
           p == PredOf(labels, Change)
           row == [c \in Class |-> ChangeSum([d \in Class |-> m[c][d]])]
           unchanged == [d \in Class |-> m[0][d]]
           missed == [c \in Class |-> m[c][0]]
           kept == Kept(labels)
<1>1. IsFiniteSet(kept) /\ \A i \in kept : Truth[i] \in Class /\ Pred[i] \in Class
  BY PointsAreClasses
<1>2. /\ t = Those(kept, Truth, Change) /\ p = Those(kept, Pred, Change)
      /\ IsFiniteSet(t) /\ IsFiniteSet(p)
  <2>1. t = Those(kept, Truth, Change) /\ p = Those(kept, Pred, Change)
    BY DEF Those, TruthOf, PredOf, Truth, Pred
  <2>2. t \subseteq kept /\ p \subseteq kept
    BY DEF TruthOf, PredOf
  <2> QED BY <1>1, <2>1, <2>2, FS_Subset
<1>3. 0 \in Class /\ \A c \in Class : c \notin Change <=> c = 0
  BY MetricsAssumption DEF Class, Change
<1>4. \A c, d \in Class : m[c][d] = Cardinality(Those(Those(kept, Truth, {c}), Pred, {d}))
  BY CellCounts
<1> HIDE DEF m, t, p, kept
<1>5. ChangeSum(row) = Meet(t, p)
  <2>1. ASSUME NEW c \in Change PROVE row[c] = Cardinality(Those(p, Truth, {c}))
    <3> DEFINE U == Those(kept, Truth, {c})
               f == [d \in Class |-> m[c][d]]
    <3>1. IsFiniteSet(U) /\ c \in Class
      BY <1>1, FS_Subset DEF Those, Change
    <3>2. \A d \in Change : f[d] = Cardinality(Those(U, Pred, {d}))
      BY <1>4, <3>1 DEF Change
    <3>3. row[c] = ChangeSum(f)
      BY <3>1
    <3>4. Those(U, Pred, Change) = Those(p, Truth, {c})
      BY <1>2 DEF Those
    <3> HIDE DEF U, f, row
    <3>5. ChangeSum(f) = Cardinality(Those(U, Pred, Change))
      BY <3>1, <3>2, CountByChange
    <3> QED BY <3>3, <3>4, <3>5
  <2>2. Those(p, Truth, Change) = t \cap p
    BY <1>2 DEF Those
  <2> HIDE DEF row
  <2>3. ChangeSum(row) = Cardinality(Those(p, Truth, Change))
    BY <1>2, <2>1, CountByChange
  <2> QED BY <2>2, <2>3 DEF Meet
<1>6. ChangeSum(unchanged) = Cardinality(p) - Meet(t, p)
  <2> DEFINE U == Those(kept, Truth, {0})
  <2>1. IsFiniteSet(U)
    BY <1>1, FS_Subset DEF Those
  <2>2. \A d \in Change : unchanged[d] = Cardinality(Those(U, Pred, {d}))
    BY <1>3, <1>4 DEF Change
  <2>3. Those(U, Pred, Change) = p \ t
    BY <1>1, <1>2, <1>3 DEF Those
  <2>4. Cardinality(p \ t) = Cardinality(p) - Cardinality(p \cap t)
    BY <1>2, FS_Difference
  <2>5. p \cap t = t \cap p
    OBVIOUS
  <2> HIDE DEF U, unchanged
  <2>6. ChangeSum(unchanged) = Cardinality(Those(U, Pred, Change))
    BY <2>1, <2>2, CountByChange
  <2> QED BY <2>3, <2>4, <2>5, <2>6 DEF Meet
<1>7. ChangeSum(missed) = Cardinality(t) - Meet(t, p)
  <2> DEFINE U == Those(kept, Pred, {0})
  <2>1. IsFiniteSet(U)
    BY <1>1, FS_Subset DEF Those
  <2>2. ASSUME NEW c \in Change PROVE missed[c] = Cardinality(Those(U, Truth, {c}))
    <3>1. Those(U, Truth, {c}) = Those(Those(kept, Truth, {c}), Pred, {0})
      BY DEF Those
    <3> QED BY <1>3, <1>4, <3>1 DEF Change
  <2>3. Those(U, Truth, Change) = t \ p
    BY <1>1, <1>2, <1>3 DEF Those
  <2>4. Cardinality(t \ p) = Cardinality(t) - Cardinality(t \cap p)
    BY <1>2, FS_Difference
  <2> HIDE DEF U, missed
  <2>5. ChangeSum(missed) = Cardinality(Those(U, Truth, Change))
    BY <2>1, <2>2, CountByChange
  <2> QED BY <2>3, <2>4, <2>5 DEF Meet
<1> QED BY <1>2, <1>5, <1>6, <1>7 DEF m, t, p

\* Change as a whole is scored like a class.
LEMMA ChangeMetrics ==
  ASSUME PointsTyped, ~Raises(labels)
  PROVE  LET m == ConfusionMatrix(labels)
             t == TruthOf(labels, Change)
             p == PredOf(labels, Change)
         IN  BinaryChange(m).iou = Jaccard(t, p) /\ Equal(BinaryChange(m).f1, Dice(t, p))
<1> DEFINE m == ConfusionMatrix(labels)
           t == TruthOf(labels, Change)
           p == PredOf(labels, Change)
           tp == ChangeSum([c \in Class |-> ChangeSum([d \in Class |-> m[c][d]])])
           fp == ChangeSum([d \in Class |-> m[0][d]])
           fn == ChangeSum([c \in Class |-> m[c][0]])
<1>1. /\ IsFiniteSet(t) /\ IsFiniteSet(p) /\ tp = Meet(t, p)
      /\ fp = Cardinality(p) - Meet(t, p) /\ fn = Cardinality(t) - Meet(t, p)
  BY ChangePoints
<1>2. /\ BinaryChange(m).iou = Ratio(tp, tp + fp + fn)
      /\ BinaryChange(m).f1 = Harmonic(Ratio(tp, tp + fp), Ratio(tp, tp + fn))
  BY DEF BinaryChange
<1> HIDE DEF m, t, p, tp, fp, fn
<1>3. /\ Cardinality(t) \in Nat /\ Cardinality(p) \in Nat /\ Meet(t, p) \in Nat
      /\ Meet(t, p) <= Cardinality(t) /\ Meet(t, p) <= Cardinality(p)
      /\ Cardinality(t \cup p) = Cardinality(t) + Cardinality(p) - Meet(t, p)
  BY <1>1, Overlap
<1>4. tp + fp = Cardinality(p) /\ tp + fn = Cardinality(t) /\ tp + fp + fn = Cardinality(t \cup p)
  BY <1>1, <1>3
<1>5. BinaryChange(m).iou = Jaccard(t, p)
  BY <1>1, <1>2, <1>4 DEF Jaccard, Meet
<1>6. Equal(BinaryChange(m).f1, Dice(t, p))
  <2>1. Dice(t, p) = Ratio(2 * Meet(t, p), Cardinality(t) + Cardinality(p))
    BY DEF Dice, Meet
  <2> QED BY <1>1, <1>2, <1>3, <1>4, <2>1, HarmonicIsDice
<1> QED BY <1>5, <1>6 DEF m, t, p

\* The pairs of points the truth of one of which is the prediction of the other.
ByChance == {ij \in Kept(labels) \X Kept(labels) : labels[ij[1]][1] = labels[ij[2]][2]}

\* The row sums times the column sums count them.
LEMMA ChanceCounts ==
  ASSUME PointsTyped, ~Raises(labels)
  PROVE  LET m == ConfusionMatrix(labels)
         IN  ClassSum([c \in Class |-> RowSum(m, c) * ColSum(m, c)]) = Cardinality(ByChance)
<1> DEFINE m == ConfusionMatrix(labels)
           f == [c \in Class |-> RowSum(m, c) * ColSum(m, c)]
           kept == Kept(labels)
           of == [ij \in kept \X kept |-> Truth[ij[1]]]
<1>1. IsFiniteSet(kept) /\ \A i \in kept : Truth[i] \in Class
  BY PointsAreClasses
<1>2. IsFiniteSet(ByChance)
  <2>1. IsFiniteSet(kept \X kept)
    BY <1>1, FS_Product
  <2> QED BY <2>1, FS_Subset DEF ByChance
<1>3. ASSUME NEW c \in Class PROVE f[c] = Cardinality(Those(ByChance, of, {c}))
  <2> DEFINE t == TruthOf(labels, {c})
             p == PredOf(labels, {c})
  <2>1. /\ IsFiniteSet(t) /\ IsFiniteSet(p)
        /\ RowSum(m, c) = Cardinality(t) /\ ColSum(m, c) = Cardinality(p)
    BY ClassPoints
  <2>2. Those(ByChance, of, {c}) = t \X p
    <3>1. ASSUME NEW ij \in Those(ByChance, of, {c}) PROVE ij \in t \X p
      <4>1. /\ ij \in kept \X kept /\ of[ij] = c
            /\ labels[ij[1]][1] = labels[ij[2]][2]
        BY DEF Those, ByChance
      <4>2. of[ij] = labels[ij[1]][1]
        BY <4>1 DEF Truth
      <4> QED BY <4>1, <4>2 DEF TruthOf, PredOf
    <3>2. ASSUME NEW ij \in t \X p PROVE ij \in Those(ByChance, of, {c})
      <4>1. ij \in kept \X kept /\ labels[ij[1]][1] = c /\ labels[ij[2]][2] = c
        BY DEF TruthOf, PredOf
      <4>2. of[ij] = c
        BY <4>1 DEF Truth
      <4> QED BY <4>1, <4>2 DEF Those, ByChance
    <3> QED BY <3>1, <3>2
  <2>3. f[c] = Cardinality(t) * Cardinality(p)
    BY <2>1
  <2> HIDE DEF t, p
  <2> QED BY <2>1, <2>2, <2>3, FS_Product
<1>4. Those(ByChance, of, Class) = ByChance
  BY <1>1 DEF Those, ByChance
<1> HIDE DEF f, of
<1>5. ClassSum(f) = Cardinality(Those(ByChance, of, Class))
  BY <1>2, <1>3, CountByClass
<1> QED BY <1>4, <1>5 DEF f

\* No more pairs agree by chance than there are, and if all do then all points agree.
LEMMA ChanceBound ==
  ASSUME PointsTyped, ~Raises(labels)
  PROVE  LET n == Cardinality(Kept(labels))
         IN  /\ n \in Nat /\ Cardinality(ByChance) \in Nat /\ Cardinality(Agree) \in Nat
             /\ n > 0 => n * n > 0
             /\ Cardinality(ByChance) <= n * n
             /\ Cardinality(ByChance) = n * n => Agree = Kept(labels)
             /\ Cardinality(Agree) = n <=> Agree = Kept(labels)
<1> DEFINE kept == Kept(labels)
           n == Cardinality(kept)
<1>1. IsFiniteSet(kept) /\ n \in Nat
  BY PointsAreClasses, FS_CardinalityType
<1>2. IsFiniteSet(kept \X kept) /\ Cardinality(kept \X kept) = n * n
  BY <1>1, FS_Product
<1>3. /\ IsFiniteSet(ByChance) /\ Cardinality(ByChance) <= Cardinality(kept \X kept)
      /\ Cardinality(kept \X kept) = Cardinality(ByChance) => kept \X kept = ByChance
  <2>1. ByChance \in SUBSET (kept \X kept)
    BY DEF ByChance
  <2> QED BY <1>2, <2>1, FS_Subset
<1>4. /\ IsFiniteSet(Agree)
      /\ Cardinality(kept) = Cardinality(Agree) => kept = Agree
  <2>1. Agree \in SUBSET kept
    BY DEF Agree
  <2> QED BY <1>1, <2>1, FS_Subset
<1>5. kept \X kept = ByChance => Agree = kept
  <2> SUFFICES ASSUME kept \X kept = ByChance, NEW i \in kept PROVE i \in Agree
    BY DEF Agree
  <2>1. <<i, i>> \in ByChance
    OBVIOUS
  <2>2. labels[i][1] = labels[i][2]
    BY <2>1 DEF ByChance
  <2> QED BY <2>2 DEF Agree
<1>6. Cardinality(ByChance) \in Nat /\ Cardinality(Agree) \in Nat
  BY <1>3, <1>4, FS_CardinalityType
<1>7. Agree = kept => Cardinality(Agree) = n
  OBVIOUS
<1> HIDE DEF kept, n
<1>8. n > 0 => n * n > 0
  BY <1>1
<1>9. Cardinality(ByChance) = n * n => Agree = kept
  BY <1>2, <1>3, <1>5
<1>10. Cardinality(ByChance) <= n * n
  BY <1>2, <1>3
<1>11. Cardinality(Agree) = n <=> Agree = kept
  BY <1>4, <1>7 DEF n
<1> QED BY <1>1, <1>6, <1>8, <1>9, <1>10, <1>11 DEF kept, n

\* Kappa is a fraction, 1 on full agreement alone, and corrects by chance else.
LEMMA KappaCorrects ==
  ASSUME PointsTyped, ~Raises(labels)
  PROVE  LET kappa == Kappa(ConfusionMatrix(labels))
             n == Cardinality(Kept(labels))
             a == Cardinality(Agree)
             chance == Cardinality(ByChance)
         IN  /\ kappa[2] > 0
             /\ Agree = Kept(labels) /\ n > 0 <=> Equal(kappa, <<1, 1>>)
             /\ chance # n * n => Equal(kappa, Ratio(a * n - chance, n * n - chance))
<1> DEFINE m == ConfusionMatrix(labels)
           kappa == Kappa(m)
           n == Cardinality(Kept(labels))
           a == Cardinality(Agree)
           chance == Cardinality(ByChance)
<1>1. /\ n \in Nat /\ chance \in Nat /\ a \in Nat
      /\ n > 0 => n * n > 0
      /\ chance <= n * n
      /\ chance = n * n => Agree = Kept(labels)
      /\ a = n <=> Agree = Kept(labels)
  BY ChanceBound
<1>2. kappa = IF n = 0 THEN <<0, 1>> ELSE IF chance = n * n THEN <<1, 1>>
              ELSE <<a * n - chance, n * n - chance>>
  BY TotalCounts, TraceCounts, ChanceCounts DEF Kappa
<1> HIDE DEF m, kappa, n, a, chance
<1>3. CASE n = 0
  <2>1. n * n = 0 /\ chance = n * n /\ kappa = <<0, 1>> /\ ~(n > 0)
    BY <1>1, <1>2, <1>3
  <2>2. ~Equal(kappa, <<1, 1>>) /\ kappa[2] > 0
    BY <2>1 DEF Equal
  <2> QED BY <2>1, <2>2 DEF m, kappa, n, a, chance
<1>4. CASE n > 0 /\ chance = n * n
  <2>1. kappa = <<1, 1>>
    BY <1>1, <1>2, <1>4
  <2>2. Equal(kappa, <<1, 1>>) /\ kappa[2] > 0
    BY <2>1 DEF Equal
  <2> QED BY <1>1, <1>4, <2>2 DEF m, kappa, n, a, chance
<1>5. CASE n > 0 /\ chance # n * n
  <2> DEFINE up == a * n - chance
             down == n * n - chance
  <2>1. kappa = <<up, down>>
    BY <1>1, <1>2, <1>5
  <2>2. up \in Int /\ down \in Int /\ down > 0
    BY <1>1, <1>5
  <2>3. a * n = n * n <=> a = n
    BY <1>1, <1>5
  <2>4. Equal(kappa, <<1, 1>>) <=> up = down
    BY <2>1, <2>2 DEF Equal
  <2>5. up = down <=> a = n
    <3>1. \A x, y \in Int : x - chance = y - chance <=> x = y
      BY <1>1
    <3>2. a * n \in Int /\ n * n \in Int
      BY <1>1
    <3> QED BY <2>3, <3>1, <3>2
  <2>6. Ratio(up, down) = <<up, down>>
    BY <2>2 DEF Ratio
  <2>7. Equal(kappa, Ratio(up, down))
    BY <2>1, <2>6 DEF Equal
  <2> HIDE DEF up, down
  <2>8. kappa[2] > 0
    BY <2>1, <2>2
  <2>9. Agree = Kept(labels) /\ n > 0 <=> Equal(kappa, <<1, 1>>)
    BY <1>1, <1>5, <2>4, <2>5
  <2> QED BY <2>7, <2>8, <2>9 DEF m, kappa, n, a, chance, up, down
<1> QED
  <2>1. n = 0 \/ n > 0
    BY <1>1
  <2> QED BY <1>3, <1>4, <1>5, <2>1

-----------------------------------------------------------------------------
(* Means *)

\* What Mean has added up when it divides.
Added(metric, classes) ==
  AfterLoop(Classes, <<0, 1>>,
    [i \in 1..Classes |-> [acc \in Int \X Int |->
      IF i - 1 \in classes THEN Plus(metric[i - 1], acc) ELSE acc]])

\* How far, over the product of the denominators, one fraction k times over is from another.
Distance(s, x, k) == s[1] * x[2] - x[1] * s[2] * k

\* Two fractions, one added to a sum of k, are as far from x as the two together.
LEMMA DistanceAdds ==
  ASSUME NEW y \in Int \X Int, NEW s \in Int \X Int, NEW x \in Int \X Int, NEW k \in Int
  PROVE  Distance(Plus(y, s), x, k + 1) = s[2] * Distance(y, x, 1) + y[2] * Distance(s, x, k)
<1>1. PICK y1, y2, s1, s2, x1, x2 \in Int : y = <<y1, y2>> /\ s = <<s1, s2>> /\ x = <<x1, x2>>
  OBVIOUS
<1>2. (y1 * s2 + s1 * y2) * x2 - x1 * (y2 * s2) * (k + 1)
      = s2 * (y1 * x2 - x1 * y2 * 1) + y2 * (s1 * x2 - x1 * s2 * k)
  <2>1. (y1 * s2 + s1 * y2) * x2 = s2 * (y1 * x2) + y2 * (s1 * x2)
    OBVIOUS
  <2>2. x1 * (y2 * s2) * (k + 1) = s2 * (x1 * y2 * 1) + y2 * (x1 * s2 * k)
    OBVIOUS
  <2>3. \A a, b, c, d, e, f \in Int : /\ a * (b - c) = a * b - a * c
                                      /\ (a + b) - (c + d) = (a - c) + (b - d)
    OBVIOUS
  <2> QED BY <2>1, <2>2, <2>3
<1> QED BY <1>1, <1>2 DEF Distance, Plus

\* A fraction that is on one side of each summand is on that side of their mean.
LEMMA MeanBound ==
  ASSUME NEW metric, NEW classes \in SUBSET Class, NEW sign \in {1, -1},
         \A c \in Class : metric[c] \in Int \X Int /\ metric[c][2] > 0,
         NEW x \in Int \X Int, \A c \in classes : sign * Distance(metric[c], x, 1) >= 0
  PROVE  /\ Added(metric, classes) \in Int \X Int /\ Added(metric, classes)[2] > 0
         /\ sign * Distance(Added(metric, classes), x, Cardinality(classes)) >= 0
<1> DEFINE Of(i) == classes \cap (0..i - 1)
           Between(i) == {s \in Int \X Int :
                            s[2] > 0 /\ sign * Distance(s, x, Cardinality(Of(i))) >= 0}
           Inv == [i \in 0..Classes |-> Between(i)]
           step == [i \in 1..Classes |-> [acc \in Int \X Int |->
                     IF i - 1 \in classes THEN Plus(metric[i - 1], acc) ELSE acc]]
<1>1. Classes \in Nat
  BY MetricsAssumption
<1>2. \A i \in 0..Classes : Inv[i] = Between(i)
  OBVIOUS
<1>3. \A i \in 0..Classes : IsFiniteSet(Of(i)) /\ Cardinality(Of(i)) \in Nat
  <2> SUFFICES ASSUME NEW i \in 0..Classes PROVE IsFiniteSet(Of(i)) /\ Cardinality(Of(i)) \in Nat
    OBVIOUS
  <2>1. IsFiniteSet(0..i - 1)
    BY <1>1, FS_Interval
  <2> QED BY <2>1, FS_Subset, FS_CardinalityType
<1>4. <<0, 1>> \in Inv[0]
  <2>1. Of(0) = {} /\ Cardinality(Of(0)) = 0
    BY FS_EmptySet
  <2>2. Distance(<<0, 1>>, x, 0) = 0
    <3>1. PICK x1, x2 \in Int : x = <<x1, x2>>
      OBVIOUS
    <3>2. 0 * x2 - x1 * 1 * 0 = 0
      OBVIOUS
    <3> QED BY <3>1, <3>2 DEF Distance
  <2>3. sign * 0 >= 0
    OBVIOUS
  <2> QED BY <1>1, <1>2, <2>1, <2>2, <2>3
<1>5. ASSUME NEW i \in 1..Classes, NEW s \in Inv[i - 1] PROVE step[i][s] \in Inv[i]
  <2>1. i \in 0..Classes /\ i - 1 \in 0..Classes /\ i - 1 \in Class
    BY <1>1 DEF Class
  <2>2. s \in Int \X Int /\ s[2] > 0 /\ sign * Distance(s, x, Cardinality(Of(i - 1))) >= 0
    BY <1>2, <1>5, <2>1
  <2>3. Of(i) = IF i - 1 \in classes THEN Of(i - 1) \cup {i - 1} ELSE Of(i - 1)
    <3>1. 0..i - 1 = 0..(i - 1) - 1 \cup {i - 1}
      OBVIOUS
    <3> QED BY <3>1
  <2>4. i - 1 \notin Of(i - 1)
    OBVIOUS
  <2>5. step[i][s] = IF i - 1 \in classes THEN Plus(metric[i - 1], s) ELSE s
    BY <2>2
  <2>6. IsFiniteSet(Of(i - 1)) /\ Cardinality(Of(i - 1)) \in Nat
    BY <1>3, <2>1
  <2> HIDE DEF Of, step
  <2>7. CASE i - 1 \notin classes
    BY <1>2, <2>1, <2>2, <2>3, <2>5, <2>7
  <2>8. CASE i - 1 \in classes
    <3> DEFINE y == metric[i - 1]
               k == Cardinality(Of(i - 1))
               t == Plus(y, s)
    <3>1. y \in Int \X Int /\ y[2] > 0 /\ sign * Distance(y, x, 1) >= 0 /\ k \in Int
      BY <2>1, <2>6, <2>8
    <3>2. Cardinality(Of(i)) = k + 1
      BY <2>3, <2>4, <2>6, <2>8, FS_AddElement
    <3>3. step[i][s] = t
      BY <2>5, <2>8
    <3> HIDE DEF y, k
    <3>4. Distance(t, x, k + 1) = s[2] * Distance(y, x, 1) + y[2] * Distance(s, x, k)
      <4>1. y \in Int \X Int /\ s \in Int \X Int /\ x \in Int \X Int /\ k \in Int
        BY <2>2, <3>1
      <4> QED BY <4>1, DistanceAdds
    <3>5. y[1] \in Int /\ y[2] \in Int /\ s[1] \in Int /\ s[2] \in Int
      BY <2>2, <3>1
    <3>6. t \in Int \X Int /\ t[2] > 0
      <4>1. t = <<y[1] * s[2] + s[1] * y[2], y[2] * s[2]>>
        BY DEF Plus
      <4>2. \A a, b \in Int : a > 0 /\ b > 0 => a * b > 0
        OBVIOUS
      <4>3. \A a, b, c, d \in Int : a * d + c * b \in Int /\ b * d \in Int
        OBVIOUS
      <4> HIDE DEF t
      <4>4. y[2] * s[2] > 0
        BY <2>2, <3>1, <3>5, <4>2
      <4>5. y[1] * s[2] + s[1] * y[2] \in Int /\ y[2] * s[2] \in Int
        BY <3>5, <4>3
      <4> QED BY <4>1, <4>4, <4>5
    <3> HIDE DEF t
    <3>7. sign * Distance(t, x, k + 1) >= 0
      <4>1. Distance(y, x, 1) \in Int /\ Distance(s, x, k) \in Int
        <5>1. x[1] \in Int /\ x[2] \in Int
          OBVIOUS
        <5>2. \A a, b, c, d, e \in Int : a * b - c * d * e \in Int
          OBVIOUS
        <5>3. y[1] * x[2] - x[1] * y[2] * 1 \in Int
          BY <3>5, <5>1, <5>2
        <5>4. s[1] * x[2] - x[1] * s[2] * k \in Int
          BY <3>1, <3>5, <5>1, <5>2
        <5> QED BY <5>3, <5>4 DEF Distance
      <4>2. sign * Distance(s, x, k) >= 0
        BY <2>2 DEF k
      <4>3. \A a, b, p, q \in Int :
              a > 0 /\ b > 0 /\ sign * p >= 0 /\ sign * q >= 0 => sign * (a * p + b * q) >= 0
        <5>1. \A a, p \in Int : a > 0 /\ sign * p >= 0 => sign * (a * p) >= 0
          <6>1. \A a, p \in Int : a > 0 /\ p >= 0 => a * p >= 0
            OBVIOUS
          <6>2. \A a, p \in Int : a > 0 /\ p <= 0 => a * p <= 0
            OBVIOUS
          <6> QED BY <6>1, <6>2
        <5> QED BY <5>1
      <4> QED BY <2>2, <3>1, <3>4, <3>5, <4>1, <4>2, <4>3
    <3> QED BY <1>2, <2>1, <3>2, <3>3, <3>6, <3>7
  <2> QED BY <2>7, <2>8
<1>6. Of(Classes) = classes
  BY DEF Class
<1>7. Added(metric, classes) = AfterLoop(Classes, <<0, 1>>, step)
  BY DEF Added
<1> HIDE DEF Inv, step, Of
<1>8. AfterLoop(Classes, <<0, 1>>, step) \in Inv[Classes]
  BY <1>1, <1>4, <1>5, LoopInvariant
<1>9. Added(metric, classes) \in Between(Classes)
  BY <1>1, <1>2, <1>7, <1>8
<1> QED BY <1>6, <1>9

\* The IoU of a class is a fraction; it is 0 of an absent class and more than 0 just where
\* the class is hit.
LEMMA IouTyped ==
  ASSUME PointsTyped, ~Raises(labels), NEW c \in Class
  PROVE  LET m == ConfusionMatrix(labels)
             iou == PerClassIou(m, c)
         IN  /\ iou \in Int \X Int /\ iou[1] >= 0 /\ iou[2] > 0
             /\ iou[1] > 0 <=> m[c][c] > 0
             /\ c \in AbsentClasses(m) => iou = <<0, 1>> /\ m[c][c] = 0
<1> DEFINE m == ConfusionMatrix(labels)
           t == TruthOf(labels, {c})
           p == PredOf(labels, {c})
           u == m[c][c] + FalsePositives(m, c) + FalseNegatives(m, c)
<1>1. IsFiniteSet(t) /\ IsFiniteSet(p) /\ m[c][c] = Meet(t, p) /\ u = Cardinality(t \cup p)
  BY ClassPoints
<1>2. PerClassIou(m, c) = Ratio(m[c][c], u) /\ (c \in AbsentClasses(m) <=> u = 0)
  BY DEF PerClassIou, AbsentClasses
<1> HIDE DEF m, t, p, u
<1>3. /\ Cardinality(t) \in Nat /\ Cardinality(p) \in Nat /\ Meet(t, p) \in Nat
      /\ Meet(t, p) <= Cardinality(t) /\ Meet(t, p) <= Cardinality(p)
      /\ Cardinality(t \cup p) = Cardinality(t) + Cardinality(p) - Meet(t, p)
  BY <1>1, Overlap
<1>4. m[c][c] \in Nat /\ u \in Nat /\ m[c][c] <= u
  BY <1>1, <1>3
<1>5. CASE u = 0
  <2>1. m[c][c] = 0 /\ PerClassIou(m, c) = <<0, 1>>
    BY <1>2, <1>4, <1>5 DEF Ratio
  <2> QED BY <1>2, <1>5, <2>1 DEF m
<1>6. CASE u # 0
  <2>1. PerClassIou(m, c) = <<m[c][c], u>>
    BY <1>2, <1>6 DEF Ratio
  <2>2. u > 0
    BY <1>4, <1>6
  <2> QED BY <1>2, <1>4, <1>6, <2>1, <2>2 DEF m
<1> QED BY <1>5, <1>6

\* The mean IoU over some classes is between the worst and the best of them.
LEMMA MiouBetween ==
  ASSUME PointsTyped, ~Raises(labels), NEW classes \in SUBSET Class, classes # {},
         NEW x \in {PerClassIou(ConfusionMatrix(labels), c) : c \in classes}
  PROVE  LET m == ConfusionMatrix(labels)
             miou == Miou(m, classes)
         IN  /\ (\A c \in classes : x[1] * PerClassIou(m, c)[2] <= PerClassIou(m, c)[1] * x[2])
                => x[1] * miou[2] <= miou[1] * x[2]
             /\ (\A c \in classes : x[1] * PerClassIou(m, c)[2] >= PerClassIou(m, c)[1] * x[2])
                => x[1] * miou[2] >= miou[1] * x[2]
<1> DEFINE m == ConfusionMatrix(labels)
           iou == [c \in Class |-> PerClassIou(m, c)]
           s == Added(iou, classes)
           n == Cardinality(classes)
           miou == Miou(m, classes)
<1>1. \A c \in Class : iou[c] \in Int \X Int /\ iou[c][2] > 0
  BY IouTyped
<1>2. \A c \in classes : iou[c] = PerClassIou(m, c)
  OBVIOUS
<1>3. n \in Nat /\ n > 0
  <2>1. IsFiniteSet(Class)
    BY MetricsAssumption, FS_Interval DEF Class
  <2>2. IsFiniteSet(classes)
    BY <2>1, FS_Subset
  <2> QED BY <2>2, FS_CardinalityType, FS_EmptySet
<1>4. miou = Ratio(s[1], s[2] * n)
  BY DEF Miou, Mean, Added
<1>5. x \in Int \X Int
  BY <1>1, <1>2
<1> HIDE DEF m, iou, n, miou
<1>6. ASSUME NEW sign \in {1, -1}, \A c \in classes : sign * Distance(iou[c], x, 1) >= 0
      PROVE  sign * (miou[1] * x[2] - x[1] * miou[2]) >= 0
  <2>1. s \in Int \X Int /\ s[2] > 0 /\ sign * Distance(s, x, n) >= 0
    BY <1>1, <1>5, <1>6, MeanBound DEF n
  <2> HIDE DEF s
  <2>2. s[1] \in Int /\ s[2] \in Int /\ x[1] \in Int /\ x[2] \in Int
    BY <1>5, <2>1
  <2>3. s[2] * n \in Int /\ s[2] * n # 0
    <3>1. \A a, b \in Int : a > 0 /\ b > 0 => a * b \in Int /\ a * b # 0
      OBVIOUS
    <3> QED BY <1>3, <2>1, <2>2, <3>1
  <2>4. miou = <<s[1], s[2] * n>>
    BY <1>4, <2>3 DEF Ratio
  <2>5. x[1] * (s[2] * n) = x[1] * s[2] * n
    <3>1. \A a, b, c \in Int : a * (b * c) = a * b * c
      OBVIOUS
    <3> QED BY <1>3, <2>2, <3>1
  <2>6. miou[1] * x[2] - x[1] * miou[2] = Distance(s, x, n)
    BY <2>4, <2>5 DEF Distance
  <2> QED BY <2>1, <2>6
<1>7. miou[1] \in Int /\ miou[2] \in Int
  <2>1. s \in Int \X Int
    <3>1. \E y \in Int \X Int : \A c \in classes : 1 * Distance(iou[c], y, 1) >= 0
      <4>1. ASSUME NEW c \in classes PROVE 1 * Distance(iou[c], <<0, 1>>, 1) >= 0
        <5>1. iou[c] \in Int \X Int /\ iou[c][1] >= 0
          BY <1>1, IouTyped DEF iou, m
        <5>2. Distance(iou[c], <<0, 1>>, 1) = iou[c][1]
          BY <5>1 DEF Distance
        <5> QED BY <5>1, <5>2
      <4>2. <<0, 1>> \in Int \X Int
        OBVIOUS
      <4> QED BY <4>1, <4>2
    <3>2. PICK y \in Int \X Int : \A c \in classes : 1 * Distance(iou[c], y, 1) >= 0
      BY <3>1
    <3>3. 1 \in {1, -1}
      OBVIOUS
    <3> QED BY <1>1, <3>2, <3>3, MeanBound
  <2> HIDE DEF s
  <2> QED BY <1>3, <1>4, <2>1 DEF Ratio
<1>8. x[1] \in Int /\ x[2] \in Int
  BY <1>5
<1>9. ASSUME \A c \in classes : x[1] * PerClassIou(m, c)[2] <= PerClassIou(m, c)[1] * x[2]
      PROVE  x[1] * miou[2] <= miou[1] * x[2]
  <2>1. ASSUME NEW c \in classes PROVE 1 * Distance(iou[c], x, 1) >= 0
    <3>1. x[1] * iou[c][2] <= iou[c][1] * x[2] /\ iou[c][1] \in Int /\ iou[c][2] \in Int
      BY <1>1, <1>2, <1>9
    <3>2. \A a, b, d, e \in Int : a * d <= e * b => 1 * (e * b - a * d * 1) >= 0
      OBVIOUS
    <3> QED BY <1>8, <3>1, <3>2 DEF Distance
  <2>2. 1 \in {1, -1}
    OBVIOUS
  <2>3. 1 * (miou[1] * x[2] - x[1] * miou[2]) >= 0
    BY <1>6, <2>1, <2>2
  <2>4. \A a, b, d, e \in Int : 1 * (e * b - a * d) >= 0 => a * d <= e * b
    OBVIOUS
  <2> QED BY <1>7, <1>8, <2>3, <2>4
<1>10. ASSUME \A c \in classes : x[1] * PerClassIou(m, c)[2] >= PerClassIou(m, c)[1] * x[2]
       PROVE  x[1] * miou[2] >= miou[1] * x[2]
  <2>1. ASSUME NEW c \in classes PROVE (-1) * Distance(iou[c], x, 1) >= 0
    <3>1. x[1] * iou[c][2] >= iou[c][1] * x[2] /\ iou[c][1] \in Int /\ iou[c][2] \in Int
      BY <1>1, <1>2, <1>10
    <3>2. \A a, b, d, e \in Int : a * d >= e * b => (-1) * (e * b - a * d * 1) >= 0
      OBVIOUS
    <3> QED BY <1>8, <3>1, <3>2 DEF Distance
  <2>2. -1 \in {1, -1}
    OBVIOUS
  <2>3. (-1) * (miou[1] * x[2] - x[1] * miou[2]) >= 0
    BY <1>6, <2>1, <2>2
  <2>4. \A a, b, d, e \in Int : (-1) * (e * b - a * d) >= 0 => a * d >= e * b
    OBVIOUS
  <2> QED BY <1>7, <1>8, <2>3, <2>4
<1> QED BY <1>9, <1>10 DEF m, miou

\* An absent class adds nothing: the verifier, who leaves it out, adds up the same.
LEMMA AbsentAddNothing ==
  ASSUME PointsTyped, ~Raises(labels)
  PROVE  LET m == ConfusionMatrix(labels)
             iou == [c \in Class |-> PerClassIou(m, c)]
         IN  Added(iou, Class \ AbsentClasses(m)) = Added(iou, Class)
<1> DEFINE m == ConfusionMatrix(labels)
           iou == [c \in Class |-> PerClassIou(m, c)]
           There == Class \ AbsentClasses(m)
           round(cs, i, acc) == IF i - 1 \in cs THEN Plus(iou[i - 1], acc) ELSE acc
<1>1. ASSUME NEW i \in 1..Classes, NEW acc \in Int \X Int
      PROVE  round(There, i, acc) = round(Class, i, acc)
  <2>1. i - 1 \in Class
    BY MetricsAssumption DEF Class
  <2>2. CASE i - 1 \in AbsentClasses(m)
    <3>1. iou[i - 1] = <<0, 1>>
      BY <2>1, <2>2, IouTyped
    <3>2. PICK a, b \in Int : acc = <<a, b>>
      OBVIOUS
    <3>3. Plus(<<0, 1>>, <<a, b>>) = <<0 * b + a * 1, 1 * b>>
      BY DEF Plus
    <3>4. 0 * b + a * 1 = a /\ 1 * b = b
      OBVIOUS
    <3> QED BY <2>1, <2>2, <3>1, <3>2, <3>3, <3>4
  <2>3. CASE i - 1 \notin AbsentClasses(m)
    BY <2>1, <2>3
  <2> QED BY <2>2, <2>3
<1> HIDE DEF m, iou, There
<1>2. [i \in 1..Classes |-> [acc \in Int \X Int |-> round(There, i, acc)]]
      = [i \in 1..Classes |-> [acc \in Int \X Int |-> round(Class, i, acc)]]
  BY <1>1
<1>3. Added(iou, There) = Added(iou, Class)
  BY <1>2 DEF Added
<1> QED BY <1>3 DEF m, iou, There

\* What is added up is more than 0 just where some class is hit.
LEMMA HitsAdd ==
  ASSUME PointsTyped, ~Raises(labels)
  PROVE  LET m == ConfusionMatrix(labels)
             s == Added([c \in Class |-> PerClassIou(m, c)], Class)
         IN  /\ s \in Int \X Int /\ s[2] > 0 /\ s[1] >= 0
             /\ s[1] > 0 <=> \E c \in Class : m[c][c] > 0
<1> DEFINE m == ConfusionMatrix(labels)
           iou == [c \in Class |-> PerClassIou(m, c)]
           Hit(i) == \E c \in 0..i - 1 : m[c][c] > 0
           Inv == [i \in 0..Classes |->
                    {s \in Int \X Int : s[2] > 0 /\ s[1] >= 0 /\ (s[1] > 0 <=> Hit(i))}]
           step == [i \in 1..Classes |-> [acc \in Int \X Int |->
                     IF i - 1 \in Class THEN Plus(iou[i - 1], acc) ELSE acc]]
<1>1. Classes \in Nat
  BY MetricsAssumption
<1>2. \A i \in 0..Classes : Inv[i] = {s \in Int \X Int : s[2] > 0 /\ s[1] >= 0 /\ (s[1] > 0 <=> Hit(i))}
  OBVIOUS
<1>3. <<0, 1>> \in Inv[0]
  <2>1. ~Hit(0) /\ 0 \in 0..Classes
    BY <1>1
  <2> HIDE DEF Hit
  <2> QED BY <1>2, <2>1
<1>4. ASSUME NEW i \in 1..Classes, NEW s \in Inv[i - 1] PROVE step[i][s] \in Inv[i]
  <2> DEFINE y == iou[i - 1]
  <2>1. i \in 0..Classes /\ i - 1 \in 0..Classes /\ i - 1 \in Class
    BY <1>1 DEF Class
  <2>2. s \in Int \X Int /\ s[2] > 0 /\ s[1] >= 0 /\ (s[1] > 0 <=> Hit(i - 1))
    BY <1>2, <1>4, <2>1
  <2>3. Hit(i) <=> Hit(i - 1) \/ m[i - 1][i - 1] > 0
    <3>1. 0..i - 1 = 0..(i - 1) - 1 \cup {i - 1}
      OBVIOUS
    <3> QED BY <3>1
  <2>4. y \in Int \X Int /\ y[1] >= 0 /\ y[2] > 0 /\ (y[1] > 0 <=> m[i - 1][i - 1] > 0)
    BY <2>1, IouTyped
  <2>5. step[i][s] = Plus(y, s)
    BY <2>1, <2>2
  <2> HIDE DEF y, m, Hit, step
  <2>6. y[1] \in Int /\ y[2] \in Int /\ s[1] \in Int /\ s[2] \in Int
    BY <2>2, <2>4
  <2>7. /\ y[2] * s[2] \in Int /\ y[2] * s[2] > 0
        /\ y[1] * s[2] \in Int /\ y[1] * s[2] >= 0 /\ (y[1] * s[2] > 0 <=> y[1] > 0)
        /\ s[1] * y[2] \in Int /\ s[1] * y[2] >= 0 /\ (s[1] * y[2] > 0 <=> s[1] > 0)
    <3>1. \A a, b \in Int : b > 0 /\ a >= 0 => a * b \in Int /\ a * b >= 0 /\ (a * b > 0 <=> a > 0)
      <4> SUFFICES ASSUME NEW a \in Int, NEW b \in Int, b > 0, a >= 0
                   PROVE  a * b \in Int /\ a * b >= 0 /\ (a * b > 0 <=> a > 0)
        OBVIOUS
      <4>1. CASE a = 0
        BY <4>1
      <4>2. CASE a > 0
        BY <4>2
      <4> QED BY <4>1, <4>2
    <3> QED BY <2>2, <2>4, <2>6, <3>1
  <2>8. Plus(y, s) = <<y[1] * s[2] + s[1] * y[2], y[2] * s[2]>>
    BY DEF Plus
  <2>9. /\ Plus(y, s) \in Int \X Int /\ Plus(y, s)[2] > 0 /\ Plus(y, s)[1] >= 0
        /\ Plus(y, s)[1] > 0 <=> Hit(i)
    <3> DEFINE p == y[1] * s[2]
               q == s[1] * y[2]
               r == y[2] * s[2]
    <3>1. /\ r \in Int /\ r > 0
          /\ p \in Int /\ p >= 0 /\ (p > 0 <=> y[1] > 0)
          /\ q \in Int /\ q >= 0 /\ (q > 0 <=> s[1] > 0)
          /\ Plus(y, s) = <<p + q, r>>
      BY <2>7, <2>8
    <3> HIDE DEF p, q, r
    <3>2. p + q \in Int /\ p + q >= 0 /\ (p + q > 0 <=> y[1] > 0 \/ s[1] > 0)
      BY <3>1
    <3>3. Plus(y, s) \in Int \X Int /\ Plus(y, s)[1] = p + q /\ Plus(y, s)[2] = r
      BY <3>1, <3>2
    <3> QED BY <2>2, <2>3, <2>4, <3>1, <3>2, <3>3
  <2> QED BY <1>2, <2>1, <2>5, <2>9
<1>5. Added(iou, Class) = AfterLoop(Classes, <<0, 1>>, step)
  BY DEF Added
<1> HIDE DEF Inv, step, m, iou
<1>6. AfterLoop(Classes, <<0, 1>>, step) \in Inv[Classes]
  BY <1>1, <1>3, <1>4, LoopInvariant
<1>7. Classes \in 0..Classes /\ 0..Classes - 1 = Class
  BY <1>1 DEF Class
<1>8. LET s == Added(iou, Class)
      IN  s \in Int \X Int /\ s[2] > 0 /\ s[1] >= 0 /\ (s[1] > 0 <=> \E c \in Class : m[c][c] > 0)
  BY <1>2, <1>5, <1>6, <1>7
<1> QED BY <1>8 DEF m, iou

\* The verifier's mean is at least the recomputed one; they differ if a class is absent and
\* another is hit.
LEMMA VerifierMean ==
  ASSUME PointsTyped, ~Raises(labels)
  PROVE  LET m == ConfusionMatrix(labels)
             recomputed == Miou(m, Class)
             verified == VerifierMiou(m)
         IN  /\ recomputed[1] * verified[2] <= verified[1] * recomputed[2]
             /\ ~Equal(recomputed, verified) <=>
                  AbsentClasses(m) # {} /\ \E c \in Class : m[c][c] > 0
<1> DEFINE m == ConfusionMatrix(labels)
           iou == [c \in Class |-> PerClassIou(m, c)]
           There == Class \ AbsentClasses(m)
           s == Added(iou, Class)
           all == Cardinality(Class)
           there == Cardinality(There)
           hit == \E c \in Class : m[c][c] > 0
<1>1. s \in Int \X Int /\ s[2] > 0 /\ s[1] >= 0 /\ (s[1] > 0 <=> hit)
  BY HitsAdd
<1>2. Added(iou, There) = s
  BY AbsentAddNothing
<1>3. Miou(m, Class) = Ratio(s[1], s[2] * all)
  BY DEF Miou, Mean, Added
<1>4. VerifierMiou(m) = Ratio(s[1], s[2] * there)
  BY <1>2 DEF VerifierMiou, Mean, Added
<1>5. /\ all \in Nat /\ all > 0 /\ there \in Nat /\ there <= all
      /\ there = all <=> AbsentClasses(m) = {}
      /\ there = 0 => ~hit
  <2>1. IsFiniteSet(Class) /\ 0 \in Class
    BY MetricsAssumption, FS_Interval DEF Class
  <2>2. all \in Nat /\ all > 0
    BY <2>1, FS_CardinalityType, FS_EmptySet
  <2>3. IsFiniteSet(There) /\ there <= all /\ (all = there => Class = There)
    BY <2>1, FS_Subset
  <2>4. there \in Nat
    BY <2>3, FS_CardinalityType
  <2>5. Class = There <=> AbsentClasses(m) = {}
    BY DEF AbsentClasses
  <2>6. there = 0 => ~hit
    <3>1. there = 0 => Class \subseteq AbsentClasses(m)
      BY <2>3, FS_EmptySet
    <3>2. \A c \in Class : c \in AbsentClasses(m) => m[c][c] = 0
      BY IouTyped
    <3> QED BY <3>1, <3>2
  <2>7. Class = There => there = all
    OBVIOUS
  <2> HIDE DEF all, there, There, hit, m
  <2> QED BY <2>2, <2>3, <2>4, <2>5, <2>6, <2>7
<1>6. s[1] \in Int /\ s[2] \in Int
  BY <1>1
<1> DEFINE a == s[1]
           b == s[2]
<1> HIDE DEF m, s, all, there, hit
<1>7. b * all \in Int /\ b * all # 0 /\ Miou(m, Class) = <<a, b * all>>
  <2>1. \A p, q \in Int : p > 0 /\ q > 0 => p * q \in Int /\ p * q # 0
    OBVIOUS
  <2>2. b * all \in Int /\ b * all # 0
    BY <1>1, <1>5, <1>6, <2>1
  <2> QED BY <1>3, <2>2 DEF Ratio
<1>8. CASE there = 0
  <2>1. a = 0 /\ ~hit
    BY <1>1, <1>5, <1>6, <1>8
  <2>2. VerifierMiou(m) = <<0, 1>>
    BY <1>4, <1>6, <1>8 DEF Ratio
  <2>3. 0 * 1 <= 0 * (b * all) /\ 0 * 1 = 0 * (b * all)
    BY <1>7
  <2>4. Equal(Miou(m, Class), VerifierMiou(m))
    BY <1>7, <2>1, <2>2, <2>3 DEF Equal
  <2> QED BY <1>7, <2>1, <2>2, <2>3, <2>4 DEF m, hit
<1>9. CASE there > 0
  <2>1. VerifierMiou(m) = <<a, b * there>>
    <3>1. \A p, q \in Int : p > 0 /\ q > 0 => p * q # 0
      OBVIOUS
    <3>2. b * there # 0
      BY <1>1, <1>5, <1>6, <1>9, <3>1
    <3> QED BY <1>4, <3>2 DEF Ratio
  <2>2. /\ a * (b * there) <= a * (b * all)
        /\ a * (b * there) = a * (b * all) <=> a = 0 \/ there = all
    <3> DEFINE ab == a * b
    <3>1. a * (b * there) = ab * there /\ a * (b * all) = ab * all /\ ab \in Int
      BY <1>5, <1>6
    <3>2. ab >= 0 /\ (ab = 0 <=> a = 0)
      <4>1. \A p, q \in Int : q > 0 /\ p > 0 => p * q > 0
        OBVIOUS
      <4>2. a = 0 => ab = 0
        BY <1>6
      <4>3. a > 0 => ab > 0
        BY <1>1, <1>6, <4>1
      <4> QED BY <1>1, <1>6, <3>1, <4>2, <4>3
    <3> HIDE DEF ab
    <3>3. \A p, q, r \in Int : r >= 0 /\ p <= q => r * p <= r * q
      <4> SUFFICES ASSUME NEW p \in Int, NEW q \in Int, NEW r \in Int, r >= 0, p <= q
                   PROVE  r * p <= r * q
        OBVIOUS
      <4>1. r * (q - p) >= 0
        OBVIOUS
      <4>2. r * (q - p) = r * q - r * p
        OBVIOUS
      <4> QED BY <4>1, <4>2
    <3>4. \A p, q, r \in Int : r * p = r * q <=> r = 0 \/ p = q
      <4> SUFFICES ASSUME NEW p \in Int, NEW q \in Int, NEW r \in Int
                   PROVE  r * p = r * q <=> r = 0 \/ p = q
        OBVIOUS
      <4>1. r * (q - p) = r * q - r * p
        OBVIOUS
      <4>2. r * (q - p) = 0 <=> r = 0 \/ q - p = 0
        OBVIOUS
      <4> QED BY <4>1, <4>2
    <3> HIDE DEF a, b
    <3> QED BY <1>5, <1>6, <3>1, <3>2, <3>3, <3>4
  <2>3. Equal(Miou(m, Class), VerifierMiou(m)) <=> a = 0 \/ there = all
    BY <1>7, <2>1, <2>2 DEF Equal
  <2>4. a = 0 <=> ~hit
    BY <1>1, <1>6
  <2>5. Miou(m, Class)[1] * VerifierMiou(m)[2] <= VerifierMiou(m)[1] * Miou(m, Class)[2]
    BY <1>7, <2>1, <2>2
  <2> QED BY <1>5, <2>3, <2>4, <2>5 DEF m, hit
<1> QED BY <1>5, <1>8, <1>9

-----------------------------------------------------------------------------
(* The metrics *)

MetricsTypeOK ==
  PointsTyped /\ ignore \subseteq Label /\ matrix \in {<<>>} \cup [Class -> [Class -> Nat]]

\* A matrix counts the points that are there.
MetricsInv ==
  MetricsTypeOK /\ (matrix # <<>> => ~Raises(labels) /\ matrix = ConfusionMatrix(labels))

LEMMA MatrixTyped ==
  ASSUME PointsTyped, ~Raises(labels)
  PROVE  ConfusionMatrix(labels) \in [Class -> [Class -> Nat]]
<1>1. ASSUME NEW t \in Class, NEW p \in Class
      PROVE  Cardinality({i \in Kept(labels) : labels[i] = <<t, p>>}) \in Nat
  <2>1. IsFiniteSet({i \in Kept(labels) : labels[i] = <<t, p>>})
    BY PointsAreClasses, FS_Subset
  <2> QED BY <2>1, FS_CardinalityType
<1> QED BY <1>1 DEF ConfusionMatrix

\* The property follows from what the points and the matrix are.
LEMMA MetricsRecomputed == ASSUME MetricsInv PROVE RecomputedMetrics
<1> SUFFICES ASSUME matrix # <<>> PROVE RecomputedMetrics
  BY DEF RecomputedMetrics
<1> USE DEF MetricsTypeOK, MetricsInv
<1> DEFINE m == ConfusionMatrix(labels)
           n == Cardinality(Kept(labels))
<1>1. /\ {i \in Kept(labels) : labels[i][1] = labels[i][2]} = Agree
      /\ {ij \in Kept(labels) \X Kept(labels) : labels[ij[1]][1] = labels[ij[2]][2]} = ByChance
  BY DEF Agree, ByChance
<1>2. ASSUME NEW c \in Class
      PROVE  LET t == TruthOf(labels, {c})
                 p == PredOf(labels, {c})
             IN  /\ Equal(PerClassIou(m, c), Jaccard(t, p))
                 /\ Equal(PerClassF1(m, c), Dice(t, p))
                 /\ c \in AbsentClasses(m) <=> t \cup p = {}
  BY ClassMetrics DEF Equal
<1>3. LET t == TruthOf(labels, Change)
          p == PredOf(labels, Change)
      IN  Equal(BinaryChange(m).iou, Jaccard(t, p)) /\ Equal(BinaryChange(m).f1, Dice(t, p))
  BY ChangeMetrics DEF Equal
<1>4. Equal(OverallAccuracy(m), Ratio(Cardinality(Agree), n))
  BY TotalCounts, TraceCounts DEF OverallAccuracy, Equal
<1>5. /\ Kappa(m)[2] > 0
      /\ Agree = Kept(labels) /\ n > 0 <=> Equal(Kappa(m), <<1, 1>>)
      /\ Cardinality(ByChance) # n * n =>
           Equal(Kappa(m), Ratio(Cardinality(Agree) * n - Cardinality(ByChance),
                                 n * n - Cardinality(ByChance)))
  BY KappaCorrects
<1>6. ASSUME NEW cs \in {Class, Change} \ {{}}, NEW x \in {PerClassIou(m, c) : c \in cs}
      PROVE  LET miou == Miou(m, cs)
             IN  /\ (\A c \in cs : x[1] * PerClassIou(m, c)[2] <= PerClassIou(m, c)[1] * x[2])
                    => x[1] * miou[2] <= miou[1] * x[2]
                 /\ (\A c \in cs : x[1] * PerClassIou(m, c)[2] >= PerClassIou(m, c)[1] * x[2])
                    => x[1] * miou[2] >= miou[1] * x[2]
  <2>1. cs \in SUBSET Class /\ cs # {}
    BY DEF Change
  <2> QED BY <2>1, MiouBetween
<1>7. LET recomputed == Miou(m, Class)
          verified == VerifierMiou(m)
      IN  /\ recomputed[1] * verified[2] <= verified[1] * recomputed[2]
          /\ ~Equal(recomputed, verified) <=>
               AbsentClasses(m) # {} /\ \E c \in Class : m[c][c] > 0
  BY VerifierMean
<1>8. matrix = m
  OBVIOUS
<1> HIDE DEF m, n, MetricsTypeOK, MetricsInv
<1> QED BY <1>1, <1>2, <1>3, <1>4, <1>5, <1>6, <1>7, <1>8, Zenon DEF RecomputedMetrics, n

LEMMA MetricsInductive == MetricsSpec => []MetricsInv
<1>1. MetricsInit => MetricsInv
  BY DEF MetricsInit, MetricsInv, MetricsTypeOK, PointsTyped
<1>2. MetricsInv /\ [MetricsNext]_metricVars => MetricsInv'
  <2> SUFFICES ASSUME MetricsInv, [MetricsNext]_metricVars PROVE MetricsInv'
    OBVIOUS
  <2>1. ASSUME NEW t \in Label, NEW p \in Label, AddPoint(t, p) PROVE MetricsInv'
    BY <2>1 DEF AddPoint, MetricsInv, MetricsTypeOK, PointsTyped
  <2>2. CASE ComputeMatrix
    <3>1. /\ PointsTyped /\ ignore \subseteq Label /\ ~Raises(labels)
          /\ matrix' = ConfusionMatrix(labels) /\ labels' = labels /\ ignore' = ignore
      BY <2>2 DEF ComputeMatrix, MetricsInv, MetricsTypeOK
    <3>2. matrix' \in [Class -> [Class -> Nat]]
      BY <3>1, MatrixTyped
    <3>3. Raises(labels)' = Raises(labels) /\ ConfusionMatrix(labels)' = ConfusionMatrix(labels)
      BY <3>1 DEF Raises, ConfusionMatrix, Kept
    <3> QED BY <3>1, <3>2, <3>3 DEF MetricsInv, MetricsTypeOK, PointsTyped
  <2>3. CASE UNCHANGED metricVars
    BY <2>3 DEF metricVars, MetricsInv, MetricsTypeOK, PointsTyped, Raises, ConfusionMatrix, Kept
  <2> QED BY <2>1, <2>2, <2>3 DEF MetricsNext
<1> QED BY <1>1, <1>2, PTL DEF MetricsSpec

\* The labels are pairs of labels, whatever is ignored, and the matrix is one of numbers
\* (recompute.py).
THEOREM MetricsTyped == MetricsSpec => []MetricsTypeOK
<1>1. MetricsInv => MetricsTypeOK
  BY DEF MetricsInv
<1> QED BY <1>1, MetricsInductive, PTL

\* Whatever the labels, the number of classes and what is ignored: the formulas over the
\* matrix are the definitions over the points (metrics.py, recompute.py, verifier.py).
THEOREM MetricsAreDefinitions == MetricsSpec => []RecomputedMetrics
<1>1. MetricsInv => RecomputedMetrics
  BY MetricsRecomputed
<1> QED BY <1>1, MetricsInductive, PTL

-----------------------------------------------------------------------------
(* The search for a cycle *)

\* A graph whose edges lead to its nodes.
Closed(graph) ==
  IsFiniteSet(DOMAIN graph) /\ \A id \in DOMAIN graph : graph[id] \in Seq(DOMAIN graph)

\* Nodes each of which leads to one of them.
Core(graph, C) ==
  C \subseteq DOMAIN graph /\ C # {} /\ \A id \in C : Range(graph[id]) \cap C # {}
HasCore(graph) == \E C : Core(graph, C)

Painted(graph, s, c) == {id \in DOMAIN graph : s.color[id] = c}

\* Every node has a colour of the search.
Colored(graph, s) ==
  s \in SearchState(graph) /\ \A id \in DOMAIN graph : s.color[id] \in {"white", "gray", "black"}

\* What is black is done with: it leads to black, and there is no cycle in it.
Done(graph, s) ==
  /\ \A id \in Painted(graph, s, "black") : Range(graph[id]) \subseteq Painted(graph, s, "black")
  /\ \A C : Core(graph, C) => ~(C \subseteq Painted(graph, s, "black"))

\* What is gray leads, by way of gray, to id.
Leads(graph, s, id, q, P) ==
  /\ P \subseteq Painted(graph, s, "gray") \cup {id} /\ q \in P /\ id \in P
  /\ \A p \in P \ {id} : Range(graph[p]) \cap P # {}
Linked(graph, s, id) == \A q \in Painted(graph, s, "gray") : \E P : Leads(graph, s, id, q, P)

\* Where a visit of id may start with n whites at most, and what it comes to.
Before(graph, n, id, s) ==
  /\ Colored(graph, s) /\ ~s.cyclic /\ s.color[id] = "white"
  /\ Cardinality(Painted(graph, s, "white")) <= n
  /\ Done(graph, s) /\ Linked(graph, s, id)
After(graph, id, s, t) ==
  /\ t \in SearchState(graph)
  /\ IF t.cyclic THEN HasCore(graph)
     ELSE /\ Colored(graph, t) /\ Done(graph, t)
          /\ Painted(graph, t, "gray") = Painted(graph, s, "gray")
          /\ Painted(graph, s, "black") \cup {id} \subseteq Painted(graph, t, "black")
Visiting(graph, n, visit) ==
  \A id \in DOMAIN graph : \A s \in SearchState(graph) :
    Before(graph, n, id, s) => After(graph, id, s, visit[id][s])

LEMMA ClosedNames ==
  ASSUME NEW graph, Closed(graph)
  PROVE  /\ Names(graph) = DOMAIN graph
         /\ \A id \in DOMAIN graph : Range(graph[id]) \subseteq DOMAIN graph
<1>1. ASSUME NEW id \in DOMAIN graph PROVE Range(graph[id]) \subseteq DOMAIN graph
  <2>1. graph[id] \in Seq(DOMAIN graph)
    BY DEF Closed
  <2> QED BY <2>1 DEF Range
<1> QED BY <1>1 DEF Names

\* Painting one node.
LEMMA Paint ==
  ASSUME NEW graph, Closed(graph), NEW s \in SearchState(graph), NEW id \in DOMAIN graph,
         NEW c \in {"white", "gray", "black"}, NEW t, t = [s EXCEPT !.color[id] = c]
  PROVE  /\ t \in SearchState(graph) /\ t.cyclic = s.cyclic
         /\ \A q \in DOMAIN graph : t.color[q] = IF q = id THEN c ELSE s.color[q]
         /\ Colored(graph, s) => Colored(graph, t)
         /\ Painted(graph, t, c) = Painted(graph, s, c) \cup {id}
         /\ \A d : d # c => Painted(graph, t, d) = Painted(graph, s, d) \ {id}
<1>1. Names(graph) = DOMAIN graph
  BY ClosedNames
<1>2. s \in [color : [DOMAIN graph -> Color], cyclic : BOOLEAN]
  BY <1>1 DEF SearchState
<1>3. t \in [color : [DOMAIN graph -> Color], cyclic : BOOLEAN] /\ t.cyclic = s.cyclic
  BY <1>2 DEF Color
<1>4. \A q \in DOMAIN graph : t.color[q] = IF q = id THEN c ELSE s.color[q]
  BY <1>2
<1>5. t \in SearchState(graph)
  BY <1>1, <1>3 DEF SearchState
<1>6. Colored(graph, s) => Colored(graph, t)
  BY <1>4, <1>5 DEF Colored
<1>7. Painted(graph, t, c) = Painted(graph, s, c) \cup {id}
  BY <1>4 DEF Painted
<1>8. \A d : d # c => Painted(graph, t, d) = Painted(graph, s, d) \ {id}
  BY <1>4 DEF Painted
<1> QED BY <1>3, <1>4, <1>5, <1>6, <1>7, <1>8

\* A dependency that is gray closes a cycle.
LEMMA GrayCloses ==
  ASSUME NEW graph, Closed(graph), NEW s, NEW id \in DOMAIN graph, Linked(graph, s, id),
         NEW d \in Range(graph[id]), d \in Painted(graph, s, "gray") \cup {id}
  PROVE  HasCore(graph)
<1>1. CASE d = id
  <2>1. Core(graph, {id})
    BY <1>1 DEF Core
  <2> QED BY <2>1 DEF HasCore
<1>2. CASE d \in Painted(graph, s, "gray")
  <2>1. PICK P : Leads(graph, s, id, d, P)
    BY <1>2 DEF Linked
  <2>2. Core(graph, P)
    BY <2>1 DEF Leads, Painted, Core
  <2> QED BY <2>2 DEF HasCore
<1> QED BY <1>1, <1>2

\* What leads to id leads to its dependencies, by way of id.
LEMMA LinkOn ==
  ASSUME NEW graph, NEW s, NEW t, NEW id, Linked(graph, s, id), NEW d \in Range(graph[id]),
         Painted(graph, t, "gray") = Painted(graph, s, "gray") \cup {id}
  PROVE  Linked(graph, t, d)
<1> SUFFICES ASSUME NEW q \in Painted(graph, s, "gray") \cup {id} PROVE \E P : Leads(graph, t, d, q, P)
  BY DEF Linked
<1>1. CASE q = id
  <2>1. Leads(graph, t, d, q, {id, d})
    BY <1>1 DEF Leads
  <2> QED BY <2>1
<1>2. CASE q \in Painted(graph, s, "gray")
  <2>1. PICK P : Leads(graph, s, id, q, P)
    BY <1>2 DEF Linked
  <2>2. Leads(graph, t, d, q, P \cup {d})
    BY <2>1 DEF Leads
  <2> QED BY <2>2
<1> QED BY <1>1, <1>2

\* A node all of whose dependencies are black can be painted black.
LEMMA PaintDone ==
  ASSUME NEW graph, NEW s, NEW t, NEW id \in DOMAIN graph, Done(graph, s),
         id \notin Painted(graph, s, "black"),
         Range(graph[id]) \subseteq Painted(graph, s, "black"),
         Painted(graph, t, "black") = Painted(graph, s, "black") \cup {id}
  PROVE  Done(graph, t)
<1>1. \A q \in Painted(graph, t, "black") : Range(graph[q]) \subseteq Painted(graph, t, "black")
  BY DEF Done
<1>2. ASSUME NEW C, Core(graph, C), C \subseteq Painted(graph, t, "black") PROVE FALSE
  <2>1. CASE id \notin C
    BY <1>2, <2>1 DEF Done
  <2>2. CASE id \in C
    <3> DEFINE D == C \ {id}
    <3>1. ASSUME NEW q \in C PROVE Range(graph[q]) \cap D # {}
      <4>1. Range(graph[q]) \subseteq Painted(graph, s, "black")
        BY <1>2, <3>1 DEF Done
      <4>2. PICK r : r \in Range(graph[q]) /\ r \in C
        BY <1>2 DEF Core
      <4> QED BY <4>1, <4>2
    <3>2. D # {}
      BY <2>2, <3>1
    <3>3. Core(graph, D) /\ D \subseteq Painted(graph, s, "black")
      BY <1>2, <3>1, <3>2 DEF Core
    <3> QED BY <3>3 DEF Done
  <2> QED BY <2>1, <2>2
<1> QED BY <1>1, <1>2 DEF Done

\* Where the first k dependencies of id have been followed.
Followed(graph, s, id, k) ==
  {t \in SearchState(graph) :
     IF t.cyclic THEN HasCore(graph)
     ELSE /\ Colored(graph, t) /\ Done(graph, t)
          /\ Painted(graph, t, "gray") = Painted(graph, s, "gray") \cup {id}
          /\ Painted(graph, s, "black") \subseteq Painted(graph, t, "black")
          /\ \A j \in 1..k : graph[id][j] \in Painted(graph, t, "black")}

\* Painting id gray leaves fewer whites to its dependencies.
LEMMA FewerWhites ==
  ASSUME NEW graph, Closed(graph), NEW n \in Nat, NEW id \in DOMAIN graph,
         NEW s, Before(graph, n + 1, id, s), NEW t, Colored(graph, t),
         Painted(graph, t, "gray") = Painted(graph, s, "gray") \cup {id},
         Painted(graph, s, "black") \subseteq Painted(graph, t, "black")
  PROVE  Cardinality(Painted(graph, t, "white")) <= n
<1> DEFINE W == Painted(graph, s, "white")
           V == Painted(graph, t, "white")
<1>1. IsFiniteSet(W) /\ id \in W /\ Cardinality(W) <= n + 1
  <2>1. IsFiniteSet(W)
    BY FS_Subset DEF Closed, Painted
  <2> QED BY <2>1 DEF Before, Painted
<1>2. V \subseteq W \ {id}
  <2> SUFFICES ASSUME NEW q \in V PROVE q \in W /\ q # id
    OBVIOUS
  <2>1. q \in DOMAIN graph /\ t.color[q] = "white"
    BY DEF Painted
  <2>2. q \notin Painted(graph, t, "gray") /\ q \notin Painted(graph, t, "black")
    BY <2>1 DEF Painted
  <2>3. q # id /\ q \notin Painted(graph, s, "gray") /\ q \notin Painted(graph, s, "black")
    BY <2>2
  <2>4. s.color[q] \in {"white", "gray", "black"}
    BY <2>1 DEF Before, Colored
  <2> QED BY <2>1, <2>3, <2>4 DEF Painted
<1> HIDE DEF W, V
<1>3. IsFiniteSet(W \ {id}) /\ Cardinality(W \ {id}) = Cardinality(W) - 1
  BY <1>1, FS_RemoveElement
<1>4. IsFiniteSet(V) /\ Cardinality(V) <= Cardinality(W \ {id})
  BY <1>2, <1>3, FS_Subset
<1>5. Cardinality(W) \in Nat /\ Cardinality(V) \in Nat
  BY <1>1, <1>4, FS_CardinalityType
<1> QED BY <1>1, <1>3, <1>4, <1>5 DEF V

LEMMA FollowOne ==
  ASSUME NEW graph, Closed(graph), NEW unknown, NEW n \in Nat, NEW visit, Visiting(graph, n, visit),
         NEW id \in DOMAIN graph, NEW s \in SearchState(graph), Before(graph, n + 1, id, s),
         NEW k \in 1..Len(graph[id]), NEW t \in Followed(graph, s, id, k - 1)
  PROVE  Follow(unknown, visit, t, graph[id][k]) \in Followed(graph, s, id, k)
<1> DEFINE d == graph[id][k]
           u == Follow(unknown, visit, t, d)
<1>1. d \in DOMAIN graph /\ d \in Range(graph[id]) /\ t \in SearchState(graph)
  <2>1. graph[id] \in Seq(DOMAIN graph)
    BY DEF Closed
  <2>2. t \in SearchState(graph)
    BY DEF Followed
  <2> QED BY <2>1, <2>2 DEF Range
<1>2. \A j \in 1..k : j \in 1..k - 1 \/ j = k
  OBVIOUS
<1> HIDE DEF d
<1>3. CASE t.cyclic
  <2>1. u = t
    BY <1>3 DEF Follow
  <2> QED BY <1>3, <2>1 DEF Followed, d
<1>4. CASE ~t.cyclic
  <2>1. /\ Colored(graph, t) /\ Done(graph, t)
        /\ Painted(graph, t, "gray") = Painted(graph, s, "gray") \cup {id}
        /\ Painted(graph, s, "black") \subseteq Painted(graph, t, "black")
        /\ \A j \in 1..k - 1 : graph[id][j] \in Painted(graph, t, "black")
    BY <1>4 DEF Followed
  <2>2. t.color[d] \in {"white", "gray", "black"}
    BY <1>1, <2>1 DEF Colored
  <2>3. Linked(graph, s, id)
    BY DEF Before
  <2>4. CASE t.color[d] = "black"
    <3>1. u = t
      BY <2>4 DEF Follow
    <3>2. d \in Painted(graph, t, "black")
      BY <1>1, <2>4 DEF Painted
    <3>3. \A j \in 1..k : graph[id][j] \in Painted(graph, t, "black")
      BY <1>2, <2>1, <3>2 DEF d
    <3> QED BY <1>1, <1>4, <2>1, <3>1, <3>3 DEF Followed, d
  <2>5. CASE t.color[d] = "gray"
    <3>1. u = [t EXCEPT !.cyclic = TRUE]
      BY <1>4, <2>5 DEF Follow
    <3>2. u \in SearchState(graph) /\ u.cyclic
      BY <1>1, <3>1 DEF SearchState
    <3>3. d \in Painted(graph, s, "gray") \cup {id}
      BY <1>1, <2>1, <2>5 DEF Painted
    <3>4. HasCore(graph)
      BY <1>1, <2>3, <3>3, GrayCloses
    <3> QED BY <3>2, <3>4 DEF Followed, d
  <2>6. CASE t.color[d] = "white"
    <3>1. u = visit[d][t]
      BY <1>4, <2>6 DEF Follow
    <3>2. Linked(graph, t, d)
      BY <1>1, <2>1, <2>3, LinkOn
    <3>3. Cardinality(Painted(graph, t, "white")) <= n
      BY <2>1, FewerWhites
    <3>4. Before(graph, n, d, t)
      BY <1>4, <2>1, <2>6, <3>2, <3>3 DEF Before
    <3>5. After(graph, d, t, u)
      BY <1>1, <3>1, <3>4 DEF Visiting
    <3> HIDE DEF u
    <3>6. CASE u.cyclic
      BY <3>5, <3>6 DEF After, Followed, u, d
    <3>7. CASE ~u.cyclic
      <4>1. /\ u \in SearchState(graph) /\ Colored(graph, u) /\ Done(graph, u)
            /\ Painted(graph, u, "gray") = Painted(graph, t, "gray")
            /\ Painted(graph, t, "black") \cup {d} \subseteq Painted(graph, u, "black")
        BY <3>5, <3>7 DEF After
      <4>2. \A j \in 1..k : graph[id][j] \in Painted(graph, u, "black")
        BY <1>2, <2>1, <4>1 DEF d
      <4> QED BY <2>1, <3>7, <4>1, <4>2 DEF Followed, u, d
    <3> QED BY <3>6, <3>7
  <2> QED BY <2>2, <2>4, <2>5, <2>6
<1> QED BY <1>3, <1>4

\* A visit of a task does what a visit is for, if the visits it makes do.
LEMMA VisitOne ==
  ASSUME NEW graph, Closed(graph), NEW unknown, NEW n \in Nat, NEW visit, Visiting(graph, n, visit),
         NEW id \in DOMAIN graph, NEW s \in SearchState(graph), Before(graph, n + 1, id, s)
  PROVE  After(graph, id, s, Visit(SearchState(graph), unknown, visit, s, id, graph[id]))
<1> DEFINE deps == graph[id]
           len == Len(deps)
           first == [s EXCEPT !.color[id] = "gray"]
           step == [k \in 1..len |-> [t \in SearchState(graph) |-> Follow(unknown, visit, t, deps[k])]]
           out == AfterLoop(len, first, step)
           Inv == [k \in 0..len |-> Followed(graph, s, id, k)]
           v == Visit(SearchState(graph), unknown, visit, s, id, graph[id])
<1>1. deps \in Seq(DOMAIN graph) /\ len \in Nat
  BY DEF Closed
<1>2. \A k \in 0..len : Inv[k] = Followed(graph, s, id, k)
  OBVIOUS
<1>3. Colored(graph, s) /\ ~s.cyclic /\ s.color[id] = "white" /\ Done(graph, s)
  BY DEF Before
<1>4. first \in Inv[0]
  <2>1. /\ first \in SearchState(graph) /\ first.cyclic = s.cyclic /\ Colored(graph, first)
        /\ Painted(graph, first, "gray") = Painted(graph, s, "gray") \cup {id}
        /\ Painted(graph, first, "black") = Painted(graph, s, "black") \ {id}
    <3>1. first = [s EXCEPT !.color[id] = "gray"]
      OBVIOUS
    <3> HIDE DEF first
    <3> QED BY <1>3, <3>1, Paint
  <2>2. id \notin Painted(graph, s, "black")
    BY <1>3 DEF Painted
  <2>3. Painted(graph, first, "black") = Painted(graph, s, "black")
    BY <2>1, <2>2
  <2>4. Done(graph, first)
    BY <1>3, <2>3 DEF Done
  <2> HIDE DEF first
  <2>5. first \in Followed(graph, s, id, 0)
    BY <1>3, <2>1, <2>3, <2>4 DEF Followed
  <2> QED BY <1>1, <1>2, <2>5
<1>5. ASSUME NEW k \in 1..len, NEW t \in Inv[k - 1] PROVE step[k][t] \in Inv[k]
  <2>1. k \in 0..len /\ k - 1 \in 0..len
    BY <1>1
  <2>2. t \in Followed(graph, s, id, k - 1) /\ t \in SearchState(graph)
    BY <1>2, <1>5, <2>1 DEF Followed
  <2>3. step[k][t] = Follow(unknown, visit, t, deps[k])
    BY <2>2
  <2>4. Follow(unknown, visit, t, deps[k]) \in Followed(graph, s, id, k)
    BY <2>2, FollowOne
  <2> QED BY <1>2, <2>1, <2>3, <2>4
<1>6. v = IF out.cyclic THEN out ELSE [out EXCEPT !.color[id] = "black"]
  BY DEF Visit
<1> HIDE DEF first, step, Inv, v
<1>7. AfterLoop(len, first, step) \in Inv[len]
  BY <1>1, <1>4, <1>5, LoopInvariant
<1>8. out \in Followed(graph, s, id, len)
  BY <1>1, <1>2, <1>7
<1> HIDE DEF out
<1>9. CASE out.cyclic
  <2>1. v = out /\ out \in SearchState(graph) /\ HasCore(graph)
    BY <1>6, <1>8, <1>9 DEF Followed
  <2> QED BY <1>9, <2>1 DEF After, v
<1>10. CASE ~out.cyclic
  <2>1. /\ out \in SearchState(graph) /\ Colored(graph, out) /\ Done(graph, out)
        /\ Painted(graph, out, "gray") = Painted(graph, s, "gray") \cup {id}
        /\ Painted(graph, s, "black") \subseteq Painted(graph, out, "black")
        /\ \A j \in 1..len : deps[j] \in Painted(graph, out, "black")
    BY <1>8, <1>10 DEF Followed
  <2>2. v = [out EXCEPT !.color[id] = "black"]
    BY <1>6, <1>10
  <2>3. /\ v \in SearchState(graph) /\ v.cyclic = out.cyclic /\ Colored(graph, v)
        /\ Painted(graph, v, "black") = Painted(graph, out, "black") \cup {id}
        /\ Painted(graph, v, "gray") = Painted(graph, out, "gray") \ {id}
    BY <2>1, <2>2, Paint
  <2>4. id \notin Painted(graph, s, "gray") /\ id \notin Painted(graph, out, "black")
    <3>1. id \notin Painted(graph, s, "gray")
      BY <1>3 DEF Painted
    <3>2. id \notin Painted(graph, out, "black")
      <4>1. id \in Painted(graph, out, "gray")
        BY <2>1
      <4> QED BY <4>1 DEF Painted
    <3> QED BY <3>1, <3>2
  <2>5. Range(deps) \subseteq Painted(graph, out, "black")
    <3>1. DOMAIN deps = 1..len
      BY <1>1
    <3> QED BY <2>1, <3>1 DEF Range
  <2>6. Done(graph, v)
    BY <2>1, <2>3, <2>4, <2>5, PaintDone
  <2>7. Painted(graph, v, "gray") = Painted(graph, s, "gray")
    BY <2>1, <2>3, <2>4
  <2>8. Painted(graph, s, "black") \cup {id} \subseteq Painted(graph, v, "black")
    BY <2>1, <2>3
  <2> QED BY <1>10, <2>3, <2>6, <2>7, <2>8 DEF After, v
<1> QED BY <1>9, <1>10

\* A visit makes a state of the search of one, if the visits it makes do.
LEMMA VisitTyped ==
  ASSUME NEW graph, Closed(graph), NEW unknown, NEW id \in DOMAIN graph, NEW s \in SearchState(graph),
         NEW visit \in [DOMAIN graph -> [SearchState(graph) -> SearchState(graph)]]
  PROVE  Visit(SearchState(graph), unknown, visit, s, id, graph[id]) \in SearchState(graph)
<1> DEFINE S == SearchState(graph)
           deps == graph[id]
           len == Len(deps)
           first == [s EXCEPT !.color[id] = "gray"]
           step == [k \in 1..len |-> [t \in S |-> Follow(unknown, visit, t, deps[k])]]
           out == AfterLoop(len, first, step)
           Inv == [k \in 0..len |-> S]
           v == Visit(S, unknown, visit, s, id, graph[id])
<1>1. deps \in Seq(DOMAIN graph) /\ len \in Nat /\ \A k \in 1..len : deps[k] \in DOMAIN graph
  BY DEF Closed
<1>2. \A k \in 0..len : Inv[k] = S
  OBVIOUS
<1>3. S = [color : [DOMAIN graph -> Color], cyclic : BOOLEAN]
  BY ClosedNames DEF SearchState
<1>4. \A t \in S, q \in DOMAIN graph, c \in Color :
        [t EXCEPT !.color[q] = c] \in S /\ [t EXCEPT !.cyclic = TRUE] \in S
  <2> HIDE DEF S
  <2> SUFFICES ASSUME NEW t \in S, NEW q \in DOMAIN graph, NEW c \in Color
               PROVE  [t EXCEPT !.color[q] = c] \in S /\ [t EXCEPT !.cyclic = TRUE] \in S
    OBVIOUS
  <2> DEFINE R == [color : [DOMAIN graph -> Color], cyclic : BOOLEAN]
  <2>1. t \in R
    BY <1>3
  <2>2. [t EXCEPT !.color[q] = c] \in R
    BY <2>1
  <2>3. [t EXCEPT !.cyclic = TRUE] \in R
    BY <2>1
  <2> QED BY <1>3, <2>2, <2>3
<1>5. "gray" \in Color /\ "black" \in Color
  BY DEF Color
<1>6. first \in Inv[0]
  <2>1. s \in S
    OBVIOUS
  <2> HIDE DEF S, Inv
  <2>2. first \in S
    BY <1>4, <1>5, <2>1
  <2>3. 0 \in 0..len
    BY <1>1
  <2> QED BY <1>2, <2>2, <2>3
<1>7. ASSUME NEW k \in 1..len, NEW t \in Inv[k - 1] PROVE step[k][t] \in Inv[k]
  <2>1. k \in 0..len /\ k - 1 \in 0..len /\ deps[k] \in DOMAIN graph
    BY <1>1
  <2>2. t \in S
    BY <1>2, <1>7, <2>1
  <2>3. step[k][t] = Follow(unknown, visit, t, deps[k])
    BY <2>2
  <2>4. /\ visit[deps[k]][t] \in S
        /\ [t EXCEPT !.color[deps[k]] = "gray"] \in S /\ [t EXCEPT !.cyclic = TRUE] \in S
    BY <1>4, <1>5, <2>1, <2>2
  <2> HIDE DEF S, deps, step, Inv
  <2>5. Follow(unknown, visit, t, deps[k]) \in S
    BY <2>2, <2>4 DEF Follow
  <2> QED BY <1>2, <2>1, <2>3, <2>5
<1>8. v = IF out.cyclic THEN out ELSE [out EXCEPT !.color[id] = "black"]
  BY DEF Visit
<1> HIDE DEF first, step, Inv, v, S
<1>9. AfterLoop(len, first, step) \in Inv[len]
  BY <1>1, <1>6, <1>7, LoopInvariant
<1>10. out \in S
  BY <1>1, <1>2, <1>9
<1> HIDE DEF out
<1>11. v \in S
  BY <1>4, <1>5, <1>8, <1>10
<1> QED BY <1>11 DEF v, S

\* As deep as there are tasks, visits do what a visit is for, wherever they start.
LEMMA VisitsVisit ==
  ASSUME NEW graph, Closed(graph), NEW unknown
  PROVE  Visiting(graph, Cardinality(DOMAIN graph), Visits(graph, unknown))
<1> DEFINE S == SearchState(graph)
           K == DOMAIN graph
           deep == Cardinality(K)
           base == [id \in K |-> [s \in S |-> s]]
           deeper(visit) == [id \in K |-> [s \in S |-> Visit(S, unknown, visit, s, id, graph[id])]]
           V == [K -> [S -> S]]
           step == [i \in 1..deep |-> [visit \in V |-> deeper(visit)]]
           Made(f) == f = [n \in 0..deep |-> IF n = 0 THEN base ELSE deeper(f[n - 1])]
           visits == CHOOSE f : Made(f)
<1>1. deep \in Nat
  BY FS_CardinalityType DEF Closed
<1>2. base \in V
  OBVIOUS
<1>3. \A visit \in V : deeper(visit) \in V
  <2> SUFFICES ASSUME NEW visit \in V, NEW id \in K, NEW s \in S
               PROVE  Visit(S, unknown, visit, s, id, graph[id]) \in S
    OBVIOUS
  <2> QED BY VisitTyped
<1>4. \E f : Made(f)
  <2>1. \A i \in 1..deep : \A visit \in V : step[i][visit] = deeper(visit)
    OBVIOUS
  <2> HIDE DEF step, base, deeper, V
  <2>2. \A i \in 1..deep : \A visit \in V : step[i][visit] \in V
    BY <1>3, <2>1
  <2>3. PICK f : LoopOf(f, deep, base, step) /\ \A i \in 0..deep : f[i] \in V
    BY <1>1, <1>2, <2>2, LoopDefined
  <2>4. ASSUME NEW n \in 0..deep, n # 0 PROVE step[n][f[n - 1]] = deeper(f[n - 1])
    <3>1. n \in 1..deep /\ n - 1 \in 0..deep
      BY <1>1, <2>4
    <3> QED BY <2>1, <2>3, <3>1
  <2>5. f = [n \in 0..deep |-> IF n = 0 THEN base ELSE step[n][f[n - 1]]]
    BY <2>3 DEF LoopOf
  <2>6. [n \in 0..deep |-> IF n = 0 THEN base ELSE step[n][f[n - 1]]]
        = [n \in 0..deep |-> IF n = 0 THEN base ELSE deeper(f[n - 1])]
    BY <2>4
  <2>7. Made(f)
    BY <2>5, <2>6, Zenon
  <2> QED BY <2>7
<1>5. Made(visits)
  BY <1>4, Zenon
<1>6. Visits(graph, unknown) = visits[deep]
  BY DEF Visits
<1> HIDE DEF visits
<1>7. \A n \in 0..deep : visits[n] = IF n = 0 THEN base ELSE deeper(visits[n - 1])
  BY <1>5
<1> HIDE DEF Made
<1> DEFINE T == {n \in 0..deep : Visiting(graph, n, visits[n])}
<1>8. 0 \in T
  <2>1. ASSUME NEW id \in K, NEW s \in S, Before(graph, 0, id, s) PROVE FALSE
    <3>1. IsFiniteSet(Painted(graph, s, "white")) /\ id \in Painted(graph, s, "white")
      BY <2>1, FS_Subset DEF Closed, Painted, Before
    <3>2. Cardinality(Painted(graph, s, "white")) <= 0
      BY <2>1 DEF Before
    <3> QED BY <3>1, <3>2, FS_CardinalityType, FS_EmptySet
  <2> QED BY <1>1, <2>1 DEF Visiting
<1>9. ASSUME NEW n \in 0..deep - 1, n \in T PROVE n + 1 \in T
  <2>1. n \in Nat /\ n + 1 \in 0..deep /\ (n + 1) - 1 = n /\ n + 1 # 0
    BY <1>1
  <2>2. visits[n + 1] = deeper(visits[n])
    BY <1>7, <2>1
  <2>3. Visiting(graph, n, visits[n])
    BY <1>9
  <2>4. ASSUME NEW id \in K, NEW s \in S, Before(graph, n + 1, id, s)
        PROVE  After(graph, id, s, visits[n + 1][id][s])
    <3>1. visits[n + 1][id][s] = Visit(S, unknown, visits[n], s, id, graph[id])
      BY <2>2
    <3> QED BY <2>1, <2>3, <2>4, <3>1, VisitOne
  <2> QED BY <2>1, <2>4 DEF Visiting
<1> HIDE DEF T
<1>10. \A n \in 0..deep : n \in T
  BY <1>1, <1>8, <1>9, UpTo
<1> QED BY <1>1, <1>6, <1>10 DEF T

\* Tasks in file order, and that they depend on each other only.
Listing(tasks) ==
  /\ Len(tasks) \in Nat /\ DOMAIN tasks = 1..Len(tasks)
  /\ \A i \in DOMAIN tasks : tasks[i].deps \in Seq(STRING)
KnownDeps(tasks) == \A i \in DOMAIN tasks : Range(tasks[i].deps) \subseteq Ids(tasks)

LEMMA FiniteIds ==
  ASSUME NEW tasks, Listing(tasks)
  PROVE  IsFiniteSet(Ids(tasks)) /\ Cardinality(Ids(tasks)) <= Len(tasks)
<1> DEFINE f == [i \in 1..Len(tasks) |-> tasks[i].id]
<1>1. Len(tasks) \in Nat /\ DOMAIN tasks = 1..Len(tasks)
  BY DEF Listing
<1>2. f \in Surjection(1..Len(tasks), Ids(tasks))
  BY <1>1 DEF Surjection, Ids
<1>3. IsFiniteSet(1..Len(tasks)) /\ Cardinality(1..Len(tasks)) = Len(tasks)
  <2>1. \A n \in Nat : IsFiniteSet(1..n) /\ Cardinality(1..n) = IF 1 > n THEN 0 ELSE n - 1 + 1
    BY FS_Interval
  <2>2. \A n \in Nat : (IF 1 > n THEN 0 ELSE n - 1 + 1) = n
    OBVIOUS
  <2> QED BY <1>1, <2>1, <2>2
<1> QED BY <1>2, <1>3, FS_Surjection

\* Of two tasks with one id the later one counts.
LEMMA DepsOfLast ==
  ASSUME NEW tasks, Listing(tasks), NEW id \in Ids(tasks)
  PROVE  \E i \in DOMAIN tasks : /\ tasks[i].id = id /\ DepsOf(tasks, id) = tasks[i].deps
                                 /\ \A j \in DOMAIN tasks : tasks[j].id = id => j <= i
<1> DEFINE Latest(i) == /\ tasks[i].id = id
                      /\ \A j \in DOMAIN tasks : tasks[j].id = id => j <= i
           n == Len(tasks)
           T == {k \in 0..n : n - k \in DOMAIN tasks /\ tasks[n - k].id = id}
<1>1. n \in Nat /\ DOMAIN tasks = 1..n
  BY DEF Listing
<1>2. T # {}
  <2>1. PICK i \in DOMAIN tasks : tasks[i].id = id
    BY DEF Ids
  <2>2. n - i \in 0..n /\ n - (n - i) = i
    BY <1>1
  <2> HIDE DEF n
  <2> QED BY <2>1, <2>2
<1>3. PICK k \in T : \A l \in T : k <= l
  <2>1. T \in SUBSET Nat
    BY <1>1
  <2> HIDE DEF T
  <2> QED BY <1>2, <2>1, LeastNatural
<1>4. n - k \in DOMAIN tasks /\ Latest(n - k)
  <2>1. n - k \in DOMAIN tasks /\ tasks[n - k].id = id
    OBVIOUS
  <2>2. ASSUME NEW j \in DOMAIN tasks, tasks[j].id = id PROVE j <= n - k
    <3>1. n - j \in 0..n /\ n - (n - j) = j
      BY <1>1
    <3>2. n - j \in T
      BY <2>2, <3>1
    <3>3. k <= n - j
      BY <1>3, <3>2
    <3> QED BY <1>1, <3>3
  <2> QED BY <2>1, <2>2
<1> DEFINE last == CHOOSE i \in DOMAIN tasks : Latest(i)
<1>5. last \in DOMAIN tasks /\ Latest(last)
  <2> HIDE DEF Latest
  <2> QED BY <1>4
<1>6. DepsOf(tasks, id) = tasks[last].deps
  BY DEF DepsOf
<1> HIDE DEF last
<1> QED BY <1>5, <1>6

LEMMA GraphClosed ==
  ASSUME NEW tasks, Listing(tasks), KnownDeps(tasks)
  PROVE  Closed(Graph(tasks)) /\ DOMAIN Graph(tasks) = Ids(tasks)
<1>1. IsFiniteSet(Ids(tasks)) /\ DOMAIN Graph(tasks) = Ids(tasks)
  BY FiniteIds DEF Graph
<1>2. ASSUME NEW id \in Ids(tasks) PROVE Graph(tasks)[id] \in Seq(Ids(tasks))
  <2>1. PICK i \in DOMAIN tasks : DepsOf(tasks, id) = tasks[i].deps
    BY DepsOfLast
  <2> DEFINE deps == tasks[i].deps
  <2>2. deps \in Seq(STRING) /\ Range(deps) \subseteq Ids(tasks)
    BY DEF Listing, KnownDeps
  <2>3. Graph(tasks)[id] = deps
    BY <2>1 DEF Graph
  <2> HIDE DEF deps
  <2>4. Len(deps) \in Nat /\ DOMAIN deps = 1..Len(deps) /\ deps = [k \in 1..Len(deps) |-> deps[k]]
    BY <2>2
  <2>5. \A k \in 1..Len(deps) : deps[k] \in Ids(tasks)
    BY <2>2, <2>4 DEF Range
  <2>6. deps \in Seq(Ids(tasks))
    BY <2>4, <2>5
  <2> QED BY <2>3, <2>6
<1> QED BY <1>1, <1>2 DEF Closed

\* A search of any plan whose tasks depend on each other only finds a cycle just where there
\* is one.
LEMMA SearchFindsCycles ==
  ASSUME NEW tasks, Listing(tasks), KnownDeps(tasks), NEW unknown
  PROVE  Search(tasks, unknown).cyclic = Cyclic(tasks)
<1> DEFINE graph == Graph(tasks)
           S == SearchState(graph)
           visit == Visits(graph, unknown)
           len == Len(tasks)
           first == Unvisited(graph)
           Root(s, id) == IF s.cyclic \/ s.color[id] # "white" THEN s ELSE visit[id][s]
           step == [i \in 1..len |-> [s \in S |-> Root(s, tasks[i].id)]]
           Seen(k) == {s \in S :
                         IF s.cyclic THEN HasCore(graph)
                         ELSE /\ Colored(graph, s) /\ Done(graph, s) /\ Painted(graph, s, "gray") = {}
                              /\ \A j \in 1..k : tasks[j].id \in Painted(graph, s, "black")}
           Inv == [k \in 0..len |-> Seen(k)]
           out == Search(tasks, unknown)
<1>1. /\ Closed(graph) /\ DOMAIN graph = Ids(tasks) /\ len \in Nat
      /\ \A i \in 1..len : tasks[i].id \in DOMAIN graph
  BY GraphClosed DEF Listing, Ids
<1>2. Visiting(graph, Cardinality(DOMAIN graph), visit)
  BY <1>1, VisitsVisit
<1>3. out = AfterLoop(len, first, step)
  BY DEF Search
<1>4. \A k \in 0..len : Inv[k] = Seen(k)
  OBVIOUS
<1> HIDE DEF graph, visit, Inv
<1>5. first \in Inv[0]
  <2>1. Names(graph) = DOMAIN graph
    BY <1>1, ClosedNames
  <2>2. first \in S /\ ~first.cyclic /\ \A id \in DOMAIN graph : first.color[id] = "white"
    BY <2>1 DEF Unvisited, SearchState, Color
  <2> HIDE DEF first
  <2>3. Painted(graph, first, "gray") = {} /\ Painted(graph, first, "black") = {}
    BY <2>2 DEF Painted
  <2>4. Colored(graph, first)
    BY <2>2 DEF Colored
  <2>5. Done(graph, first)
    BY <2>3 DEF Done, Core
  <2>6. first \in Seen(0)
    BY <2>2, <2>3, <2>4, <2>5
  <2> QED BY <1>1, <1>4, <2>6
<1>6. ASSUME NEW k \in 1..len, NEW s \in Inv[k - 1] PROVE step[k][s] \in Inv[k]
  <2> DEFINE id == tasks[k].id
             t == Root(s, id)
  <2>1. k \in 0..len /\ k - 1 \in 0..len /\ id \in DOMAIN graph
    BY <1>1
  <2>2. s \in Seen(k - 1) /\ s \in S
    BY <1>4, <1>6, <2>1
  <2>3. step[k][s] = t
    BY <2>2
  <2>4. \A j \in 1..k : j \in 1..k - 1 \/ j = k
    OBVIOUS
  <2>5. t \in Seen(k)
    <3>1. CASE s.cyclic
      BY <2>2, <3>1
    <3>2. CASE ~s.cyclic
      <4>1. /\ Colored(graph, s) /\ Done(graph, s) /\ Painted(graph, s, "gray") = {}
            /\ \A j \in 1..k - 1 : tasks[j].id \in Painted(graph, s, "black")
        BY <2>2, <3>2
      <4>2. CASE s.color[id] = "white"
        <5>1. t = visit[id][s]
          BY <3>2, <4>2
        <5>2. Cardinality(Painted(graph, s, "white")) <= Cardinality(DOMAIN graph)
          <6>1. Painted(graph, s, "white") \in SUBSET DOMAIN graph
            BY DEF Painted
          <6> QED BY <1>1, <6>1, FS_Subset DEF Closed
        <5>3. Before(graph, Cardinality(DOMAIN graph), id, s)
          BY <3>2, <4>1, <4>2, <5>2 DEF Before, Linked
        <5>4. After(graph, id, s, t)
          BY <1>2, <2>1, <2>2, <5>1, <5>3 DEF Visiting
        <5> HIDE DEF t, id
        <5>5. CASE t.cyclic
          BY <5>4, <5>5 DEF After
        <5>6. CASE ~t.cyclic
          <6>1. /\ t \in S /\ Colored(graph, t) /\ Done(graph, t)
                /\ Painted(graph, t, "gray") = {}
                /\ Painted(graph, s, "black") \cup {id} \subseteq Painted(graph, t, "black")
            BY <4>1, <5>4, <5>6 DEF After
          <6>2. \A j \in 1..k : tasks[j].id \in Painted(graph, t, "black")
            BY <2>4, <4>1, <6>1 DEF id
          <6> QED BY <5>6, <6>1, <6>2
        <5> QED BY <5>5, <5>6
      <4>3. CASE s.color[id] # "white"
        <5>1. t = s
          BY <4>3
        <5>2. id \in Painted(graph, s, "black")
          <6>1. s.color[id] \in {"white", "gray", "black"}
            BY <2>1, <4>1 DEF Colored
          <6>2. s.color[id] # "gray"
            BY <2>1, <4>1 DEF Painted
          <6> QED BY <2>1, <4>3, <6>1, <6>2 DEF Painted
        <5>3. \A j \in 1..k : tasks[j].id \in Painted(graph, s, "black")
          BY <2>4, <4>1, <5>2
        <5> HIDE DEF t
        <5> QED BY <2>2, <3>2, <4>1, <5>1, <5>3
      <4> QED BY <4>2, <4>3
    <3> QED BY <3>1, <3>2
  <2> HIDE DEF step, t
  <2> QED BY <1>4, <2>1, <2>3, <2>5
<1> HIDE DEF step, first
<1>7. AfterLoop(len, first, step) \in Inv[len]
  BY <1>1, <1>5, <1>6, LoopInvariant
<1>8. out \in Seen(len)
  BY <1>1, <1>3, <1>4, <1>7
<1> HIDE DEF out
<1>9. Cyclic(tasks) <=> HasCore(graph)
  <2>1. ASSUME NEW C, Core(graph, C) PROVE Cyclic(tasks)
    <3>1. C \in (SUBSET Ids(tasks)) \ {{}} /\ \A id \in C : Range(Graph(tasks)[id]) \cap C # {}
      <4>1. C \subseteq DOMAIN graph /\ C # {} /\ \A id \in C : Range(graph[id]) \cap C # {}
        BY <2>1, Zenon DEF Core
      <4> QED BY <1>1, <4>1 DEF graph
    <3> QED BY <3>1 DEF Cyclic
  <2>2. ASSUME Cyclic(tasks) PROVE HasCore(graph)
    <3>1. PICK C \in (SUBSET Ids(tasks)) \ {{}} : \A id \in C : Range(Graph(tasks)[id]) \cap C # {}
      BY <2>2 DEF Cyclic
    <3>2. Core(graph, C)
      <4>1. C \subseteq DOMAIN graph /\ C # {} /\ \A id \in C : Range(graph[id]) \cap C # {}
        BY <1>1, <3>1 DEF graph
      <4> QED BY <4>1 DEF Core
    <3> QED BY <3>2 DEF HasCore
  <2> QED BY <2>1, <2>2 DEF HasCore
<1>10. out.cyclic \in BOOLEAN
  BY <1>8 DEF SearchState
<1>11. CASE out.cyclic
  <2>1. HasCore(graph)
    BY <1>8, <1>11
  <2> QED BY <1>9, <1>10, <1>11, <2>1 DEF out, Cyclic
<1>12. CASE ~out.cyclic
  <2>1. Done(graph, out) /\ \A j \in 1..len : tasks[j].id \in Painted(graph, out, "black")
    BY <1>8, <1>12
  <2>2. DOMAIN graph \subseteq Painted(graph, out, "black")
    BY <1>1, <2>1 DEF Ids, Listing
  <2>3. ~HasCore(graph)
    BY <2>1, <2>2 DEF HasCore, Core, Done
  <2> QED BY <1>9, <1>10, <1>12, <2>3 DEF out, Cyclic
<1> QED BY <1>11, <1>12

-----------------------------------------------------------------------------
(* Plan documents *)

\* The errors one by one.
LEMMA NoErrors ==
  ASSUME NEW d
  PROVE  ValidationErrors(d) = {} <=>
           /\ d.current /\ d.mode # "review" /\ LegalFields(d)
           /\ ~DuplicateIds(d.tasks) /\ ~UnknownDeps(d.tasks) /\ ~HasCycle(d.tasks)
           /\ \A i \in DOMAIN d.tasks : d.tasks[i].tests = "missing" => d.tasks[i].waived
<1> DEFINE E == ValidationErrors(d)
<1>1. /\ "schema_version" \in E <=> ~d.current
      /\ "mode" \in E <=> d.mode = "review"
      /\ "fields" \in E <=> ~LegalFields(d)
      /\ "duplicate" \in E <=> DuplicateIds(d.tasks)
      /\ "acceptance_tests" \in E <=> \E i \in DOMAIN d.tasks : d.tasks[i].tests = "missing" /\ ~d.tasks[i].waived
      /\ "deps" \in E <=> UnknownDeps(d.tasks)
      /\ "circular" \in E <=> HasCycle(d.tasks)
  BY DEF ValidationErrors
<1>2. E \subseteq {"schema_version", "mode", "fields", "duplicate", "acceptance_tests", "deps", "circular"}
  BY DEF ValidationErrors
<1> HIDE DEF E
<1> QED BY <1>1, <1>2 DEF E

\* Dependencies on earlier tasks are on tasks of the plan.
LEMMA EarlierAreKnown ==
  ASSUME NEW tasks, Listing(tasks), ~UnknownDeps(tasks)
  PROVE  KnownDeps(tasks)
<1>1. ASSUME NEW i \in DOMAIN tasks PROVE EarlierIds(tasks, i) \subseteq Ids(tasks)
  BY DEF EarlierIds, Ids, Listing
<1> QED BY <1>1 DEF KnownDeps, UnknownDeps

\* A task that depends on itself is a cycle.
LEMMA SelfIsCycle ==
  ASSUME NEW tasks, Listing(tasks), ~DuplicateIds(tasks), NEW i \in DOMAIN tasks,
         tasks[i].id \in Range(tasks[i].deps)
  PROVE  Cyclic(tasks)
<1> DEFINE id == tasks[i].id
<1>1. id \in Ids(tasks)
  BY DEF Ids
<1>2. DepsOf(tasks, id) = tasks[i].deps
  <2>1. PICK j \in DOMAIN tasks : tasks[j].id = id /\ DepsOf(tasks, id) = tasks[j].deps
    BY <1>1, DepsOfLast
  <2>2. j = i
    BY <2>1 DEF DuplicateIds
  <2> QED BY <2>1, <2>2
<1>3. Graph(tasks)[id] = tasks[i].deps
  BY <1>1, <1>2 DEF Graph
<1>4. {id} \in (SUBSET Ids(tasks)) \ {{}} /\ \A q \in {id} : Range(Graph(tasks)[q]) \cap {id} # {}
  BY <1>1, <1>3
<1> HIDE DEF id
<1> QED BY <1>4 DEF Cyclic

LEMMA PlansOrdered == ASSUME NEW d, Listing(d.tasks) PROVE Ordered(d)
<1> SUFFICES ASSUME SchemaVerdict(d) = "ok", FrontmatterOK(d)
             PROVE  /\ \A i, j \in DOMAIN d.tasks : d.tasks[i].id = d.tasks[j].id => i = j
                    /\ \A i \in DOMAIN d.tasks :
                         Range(d.tasks[i].deps) \subseteq EarlierIds(d.tasks, i) \ {d.tasks[i].id}
  BY DEF Ordered
<1>1. d.front
  BY DEF FrontmatterOK
<1>2. LoadPlan(d)
  BY <1>1 DEF SchemaVerdict
<1>3. ~DuplicateIds(d.tasks) /\ ~UnknownDeps(d.tasks) /\ ~HasCycle(d.tasks)
  BY <1>2, NoErrors DEF LoadPlan
<1>4. ~Cyclic(d.tasks)
  BY <1>3, EarlierAreKnown, SearchFindsCycles DEF HasCycle
<1>5. \A i, j \in DOMAIN d.tasks : d.tasks[i].id = d.tasks[j].id => i = j
  BY <1>3 DEF DuplicateIds
<1>6. ASSUME NEW i \in DOMAIN d.tasks
      PROVE  Range(d.tasks[i].deps) \subseteq EarlierIds(d.tasks, i) \ {d.tasks[i].id}
  <2>1. d.tasks[i].id \notin Range(d.tasks[i].deps)
    BY <1>3, <1>4, SelfIsCycle
  <2>2. Range(d.tasks[i].deps) \subseteq EarlierIds(d.tasks, i)
    BY <1>3 DEF UnknownDeps
  <2> QED BY <2>1, <2>2
<1> QED BY <1>5, <1>6

LEMMA PlanSearchesAgree == ASSUME NEW d, Listing(d.tasks) PROVE SearchesAgree(d)
<1> SUFFICES ASSUME KnownDeps(d.tasks)
             PROVE  HasCycle(d.tasks) = Cyclic(d.tasks) /\ DetectCycles(d.tasks) = Cyclic(d.tasks)
  BY DEF SearchesAgree, KnownDeps
<1> QED BY SearchFindsCycles DEF HasCycle, DetectCycles

DocumentTypeOK ==
  document \in [front : BOOLEAN, named : BOOLEAN, current : BOOLEAN, mode : Mode,
                fields : BOOLEAN, tasks : Seq(TaskDef(STRING, Seq(STRING)))]

\* A plan document stays one while it is written.
THEOREM DocumentTyped == DocSpec => []DocumentTypeOK
<1>1. DocInit => DocumentTypeOK
  <2>1. <<>> \in Seq(TaskDef(STRING, Seq(STRING)))
    OBVIOUS
  <2> QED BY <2>1, DocumentAssumption DEF DocInit, DocumentTypeOK
<1>2. DocumentTypeOK /\ [DocNext]_document => DocumentTypeOK'
  <2> SUFFICES ASSUME DocumentTypeOK, [DocNext]_document PROVE DocumentTypeOK'
    OBVIOUS
  <2>1. ASSUME NEW t \in DocOpening \cup DocTask, WriteTask(t) PROVE DocumentTypeOK'
    <3>1. t \in TaskDef(STRING, Seq(STRING))
      BY DocumentAssumption
    <3>2. document' = [document EXCEPT !.tasks = Append(@, t)]
      BY <2>1 DEF WriteTask
    <3> DEFINE T == TaskDef(STRING, Seq(STRING))
    <3>3. document.tasks \in Seq(T)
      BY DEF DocumentTypeOK
    <3>4. Append(document.tasks, t) \in Seq(T)
      BY <3>1, <3>3
    <3> HIDE DEF T
    <3>5. document' = [document EXCEPT !.tasks = Append(document.tasks, t)]
      BY <3>2
    <3> QED BY <3>4, <3>5 DEF DocumentTypeOK, T
  <2>2. CASE UNCHANGED document
    BY <2>2 DEF DocumentTypeOK
  <2> QED BY <2>1, <2>2 DEF DocNext
<1> QED BY <1>1, <1>2, PTL DEF DocSpec

\* Of a plan of any length, with any ids and dependencies: what both readers accept depends
\* backwards only, and both searches find a cycle just when there is one.
THEOREM PlanReadersAgree == DocSpec => []PlanChecksAgree
<1>1. DocumentTypeOK => PlanChecksAgree
  <2> SUFFICES ASSUME DocumentTypeOK PROVE PlanChecksAgree
    OBVIOUS
  <2>1. Listing(document.tasks)
    <3> DEFINE T == TaskDef(STRING, Seq(STRING))
    <3>1. document.tasks \in Seq(T)
      BY DEF DocumentTypeOK
    <3>2. \A t \in T : t.deps \in Seq(STRING)
      BY DEF TaskDef
    <3> HIDE DEF T
    <3> QED BY <3>1, <3>2 DEF Listing
  <2> QED BY <2>1, PlansOrdered, PlanSearchesAgree DEF PlanChecksAgree
<1> QED BY <1>1, DocumentTyped, PTL

-----------------------------------------------------------------------------
(* The task table's own search for cycles *)

\* What a pass adds to a set of ids that no cycle goes through is in no cycle either.
LEMMA PassAvoidsCores ==
  ASSUME NEW rows, Listing(rows), KnownDeps(rows), ~DuplicateIds(rows), NEW seen,
         \A C : Core(Graph(rows), C) => C \cap seen = {}
  PROVE  \A C : Core(Graph(rows), C) => C \cap Pass(rows, seen) = {}
<1> SUFFICES ASSUME NEW C, Core(Graph(rows), C), NEW q \in C, q \in Pass(rows, seen) PROVE FALSE
  OBVIOUS
<1>1. q \notin seen /\ C \cap seen = {}
  OBVIOUS
<1>2. PICK j \in DOMAIN rows : q = rows[j].id /\ Range(rows[j].deps) \subseteq seen
  BY <1>1 DEF Pass
<1>3. Graph(rows)[q] = rows[j].deps
  <2>1. q \in Ids(rows)
    BY <1>2 DEF Ids
  <2>2. PICK i \in DOMAIN rows : rows[i].id = q /\ DepsOf(rows, q) = rows[i].deps
    BY <2>1, DepsOfLast
  <2>3. i = j
    BY <1>2, <2>2 DEF DuplicateIds
  <2> QED BY <2>1, <2>2, <2>3 DEF Graph
<1>4. Range(Graph(rows)[q]) \cap C # {}
  BY DEF Core
<1> QED BY <1>1, <1>2, <1>3, <1>4

\* Taking away what waits for nobody leaves nothing just where no tasks wait for each other.
LEMMA PassesFindCycles ==
  ASSUME NEW rows, Listing(rows), KnownDeps(rows), ~DuplicateIds(rows)
  PROVE  Visited(rows) = Ids(rows) <=> ~Cyclic(rows)
<1> DEFINE n == Len(rows)
           graph == Graph(rows)
           Avoids(seen) == \A C : Core(graph, C) => C \cap seen = {}
           Reached(i) == {seen \in SUBSET Ids(rows) :
                            Avoids(seen) /\ (Pass(rows, seen) = seen \/ Cardinality(seen) >= i)}
           Inv == [i \in 0..n |-> Reached(i)]
           step == [i \in 1..n |-> [seen \in SUBSET Ids(rows) |-> Pass(rows, seen)]]
           V == Visited(rows)
<1>1. /\ n \in Nat /\ IsFiniteSet(Ids(rows)) /\ Cardinality(Ids(rows)) <= n
      /\ DOMAIN graph = Ids(rows)
  BY FiniteIds, GraphClosed DEF Listing
<1>2. \A i \in 0..n : Inv[i] = Reached(i)
  OBVIOUS
<1>3. {} \in Inv[0]
  <2>1. Cardinality({}) = 0
    BY FS_EmptySet
  <2>2. {} \in Reached(0)
    BY <2>1
  <2> QED BY <1>1, <1>2, <2>2
<1>4. ASSUME NEW i \in 1..n, NEW seen \in Inv[i - 1] PROVE step[i][seen] \in Inv[i]
  <2> DEFINE more == Pass(rows, seen)
  <2>1. i \in 0..n /\ i - 1 \in 0..n /\ i - 1 \in Int
    BY <1>1
  <2>2. /\ seen \in SUBSET Ids(rows) /\ Avoids(seen)
        /\ more = seen \/ Cardinality(seen) >= i - 1
    BY <1>2, <1>4, <2>1
  <2>3. step[i][seen] = more
    BY <2>2
  <2>4. seen \subseteq more /\ more \subseteq Ids(rows)
    BY <2>2 DEF Pass, Ids
  <2>5. Avoids(more)
    BY <2>2, PassAvoidsCores
  <2>6. Pass(rows, more) = more \/ Cardinality(more) >= i
    <3>1. CASE more = seen
      BY <3>1
    <3>2. CASE more # seen
      <4>1. IsFiniteSet(more)
        BY <1>1, <2>4, FS_Subset
      <4>2. /\ IsFiniteSet(seen) /\ Cardinality(seen) <= Cardinality(more)
            /\ Cardinality(more) # Cardinality(seen)
        BY <2>4, <3>2, <4>1, FS_Subset
      <4>3. Cardinality(seen) \in Nat /\ Cardinality(more) \in Nat
        BY <4>1, <4>2, FS_CardinalityType
      <4> QED BY <2>1, <2>2, <3>2, <4>2, <4>3
    <3> QED BY <3>1, <3>2
  <2> HIDE DEF more, step
  <2> QED BY <1>2, <2>1, <2>3, <2>4, <2>5, <2>6
<1>5. V = AfterLoop(n, {}, step)
  BY DEF Visited
<1> HIDE DEF Inv, step, V
<1>6. AfterLoop(n, {}, step) \in Inv[n]
  BY <1>1, <1>3, <1>4, LoopInvariant
<1>7. V \in SUBSET Ids(rows) /\ Avoids(V) /\ (Pass(rows, V) = V \/ Cardinality(V) >= n)
  <2>1. n \in 0..n
    BY <1>1
  <2> QED BY <1>2, <1>5, <1>6, <2>1
<1>8. ASSUME V = Ids(rows), Cyclic(rows) PROVE FALSE
  <2>1. PICK C \in (SUBSET Ids(rows)) \ {{}} : \A id \in C : Range(graph[id]) \cap C # {}
    BY <1>8 DEF Cyclic
  <2>2. Core(graph, C)
    BY <1>1, <2>1 DEF Core
  <2> QED BY <1>7, <1>8, <2>1, <2>2
<1>9. ASSUME V # Ids(rows) PROVE Cyclic(rows)
  <2> DEFINE C == Ids(rows) \ V
  <2>1. Pass(rows, V) = V
    <3>1. ASSUME Cardinality(V) >= n PROVE FALSE
      <4>1. Cardinality(V) <= Cardinality(Ids(rows)) /\ Cardinality(V) # Cardinality(Ids(rows))
        BY <1>1, <1>7, <1>9, FS_Subset
      <4>2. IsFiniteSet(V) /\ Cardinality(V) \in Nat /\ Cardinality(Ids(rows)) \in Nat
        BY <1>1, <1>7, FS_Subset, FS_CardinalityType
      <4> QED BY <1>1, <3>1, <4>1, <4>2
    <3> QED BY <1>7, <3>1
  <2>2. ASSUME NEW q \in C PROVE Range(graph[q]) \cap C # {}
    <3>1. PICK i \in DOMAIN rows : rows[i].id = q /\ DepsOf(rows, q) = rows[i].deps
      BY DepsOfLast
    <3>2. graph[q] = rows[i].deps
      BY <3>1 DEF Graph
    <3>3. ~(Range(rows[i].deps) \subseteq V)
      BY <2>1, <3>1 DEF Pass
    <3>4. Range(rows[i].deps) \subseteq Ids(rows)
      BY DEF KnownDeps
    <3> QED BY <3>2, <3>3, <3>4
  <2>3. C \in (SUBSET Ids(rows)) \ {{}}
    BY <1>7, <1>9
  <2> HIDE DEF C
  <2> QED BY <2>2, <2>3 DEF Cyclic
<1> QED BY <1>8, <1>9 DEF V

\* What blocks a run is a task that waits for itself or for nobody.
LEMMA CyclesFoundRight ==
  ASSUME NEW rows, Listing(rows), ~DuplicateIds(rows)
  PROVE  CyclesFound(rows) <=> ~(~Cyclic(rows) /\ KnownDeps(rows))
<1>1. CASE KnownDeps(rows)
  BY <1>1, PassesFindCycles DEF CyclesFound, KnownDeps
<1>2. CASE ~KnownDeps(rows)
  BY <1>2 DEF CyclesFound, KnownDeps
<1> QED BY <1>1, <1>2

-----------------------------------------------------------------------------
(* The way into the table *)

\* Tasks with ids of their own fill an empty table and leave a filled one as it is.
LEMMA TasksCreated ==
  ASSUME NEW tasks \in Seq(TaskRow), ~DuplicateIds(tasks), table \in {<<>>, tasks}
  PROVE  CreateTasks(tasks) = tasks
<1> DEFINE n == Len(tasks)
           Prefix(i) == [j \in 1..i |-> tasks[j]]
           step == [i \in 1..n |->
                     [rows \in Seq(TaskRow) |-> IF tasks[i].id \in Ids(rows) THEN rows ELSE Append(rows, tasks[i])]]
<1>1. n \in Nat /\ DOMAIN tasks = 1..n /\ \A i \in 1..n : tasks[i] \in TaskRow
  OBVIOUS
<1>2. CreateTasks(tasks) = AfterLoop(n, table, step)
  BY DEF CreateTasks
<1>3. CASE table = <<>>
  <2> DEFINE Inv == [i \in 0..n |-> {Prefix(i)}]
  <2>1. \A i \in 0..n : Inv[i] = {Prefix(i)}
    OBVIOUS
  <2>2. ASSUME NEW i \in 0..n PROVE Prefix(i) \in Seq(TaskRow) /\ Len(Prefix(i)) = i
    BY <1>1
  <2>3. table \in Inv[0]
    <3>1. Prefix(0) = <<>>
      OBVIOUS
    <3> HIDE DEF Prefix, Inv
    <3> QED BY <1>1, <1>3, <2>1, <3>1
  <2>4. ASSUME NEW i \in 1..n, NEW rows \in Inv[i - 1] PROVE step[i][rows] \in Inv[i]
    <3>1. i \in 0..n /\ i - 1 \in 0..n
      BY <1>1
    <3>2. rows = Prefix(i - 1) /\ rows \in Seq(TaskRow) /\ Len(rows) = i - 1
      BY <2>1, <2>2, <2>4, <3>1
    <3>3. tasks[i].id \notin Ids(rows)
      <4>1. ASSUME NEW j \in DOMAIN rows, rows[j].id = tasks[i].id PROVE FALSE
        <5>1. j \in 1..i - 1 /\ rows[j] = tasks[j]
          BY <3>2, <4>1
        <5>2. j \in DOMAIN tasks /\ i \in DOMAIN tasks /\ j # i
          BY <1>1, <5>1
        <5> QED BY <4>1, <5>1, <5>2 DEF DuplicateIds
      <4> QED BY <4>1 DEF Ids
    <3>4. step[i][rows] = Append(rows, tasks[i])
      BY <3>2, <3>3
    <3>5. Append(rows, tasks[i]) = Prefix(i)
      <4> DEFINE new == Append(rows, tasks[i])
      <4>1. /\ new \in Seq(TaskRow) /\ Len(new) = i
            /\ \A j \in 1..i : new[j] = IF j = i THEN tasks[i] ELSE rows[j]
        BY <1>1, <3>2
      <4> HIDE DEF new
      <4>2. new = [j \in 1..i |-> new[j]]
        BY <4>1
      <4>3. \A j \in 1..i - 1 : rows[j] = tasks[j]
        BY <3>2
      <4>4. \A j \in 1..i : j = i \/ j \in 1..i - 1
        OBVIOUS
      <4>5. \A j \in 1..i : new[j] = tasks[j]
        BY <4>1, <4>3, <4>4
      <4> QED BY <4>2, <4>5 DEF new
    <3> QED BY <2>1, <3>1, <3>4, <3>5
  <2> HIDE DEF Inv, step
  <2>5. AfterLoop(n, table, step) \in Inv[n]
    BY <1>1, <2>3, <2>4, LoopInvariant
  <2>6. Prefix(n) = tasks
    BY <1>1
  <2> QED BY <1>1, <1>2, <2>1, <2>5, <2>6
<1>4. CASE table = tasks
  <2> DEFINE Inv == [i \in 0..n |-> {tasks}]
  <2>1. \A i \in 0..n : Inv[i] = {tasks}
    OBVIOUS
  <2>2. table \in Inv[0]
    BY <1>1, <1>4, <2>1
  <2>3. ASSUME NEW i \in 1..n, NEW rows \in Inv[i - 1] PROVE step[i][rows] \in Inv[i]
    <3>1. i \in 0..n /\ i - 1 \in 0..n
      BY <1>1
    <3>2. rows = tasks
      BY <2>1, <2>3, <3>1
    <3>3. tasks[i].id \in Ids(rows)
      BY <1>1, <3>2 DEF Ids
    <3>4. step[i][rows] = rows
      BY <3>2, <3>3
    <3> QED BY <2>1, <3>1, <3>2, <3>4
  <2> HIDE DEF Inv, step
  <2>4. AfterLoop(n, table, step) \in Inv[n]
    BY <1>1, <2>2, <2>3, LoopInvariant
  <2> QED BY <1>1, <1>2, <2>1, <2>4
<1> QED BY <1>3, <1>4

PlanText == [shape : Shape, front : BOOLEAN, named : BOOLEAN, current : BOOLEAN,
             mode : {"absent", "known", "review"}, fields : {TRUE}, tasks : Seq(TaskForm)]
\* Only frontmatter makes a canonical plan.
Written(d) == d \in PlanText /\ d.front = (d.shape = "front")

LEMMA WrittenTasks ==
  ASSUME NEW d, Written(d)
  PROVE  /\ Listing(d.tasks) /\ d.tasks \in Seq(TaskForm)
         /\ DOMAIN d.tasks = 1..Len(d.tasks) /\ Len(d.tasks) \in Nat
         /\ \A i \in DOMAIN d.tasks : d.tasks[i] \in TaskForm
<1>1. d.tasks \in Seq(TaskForm)
  BY DEF Written, PlanText
<1> DEFINE T == TaskForm
<1>2. \A t \in T : t.deps \in Seq(STRING)
  BY DEF TaskForm
<1> HIDE DEF T
<1>3. d.tasks \in Seq(T)
  BY <1>1 DEF T
<1> QED BY <1>1, <1>2, <1>3 DEF T, Listing

\* Both ways into the table make rows, with the ids of the tasks.
LEMMA LoadedRows ==
  ASSUME NEW d, Written(d), ControllerLoad(d).ok
  PROVE  LET rows == ControllerLoad(d).tasks
         IN  /\ DOMAIN rows = DOMAIN d.tasks /\ Len(rows) = Len(d.tasks) /\ rows \in Seq(TaskRow)
             /\ \A i \in DOMAIN d.tasks :
                  rows[i] = IF LoadPlan(d) THEN RuntimeTask(DictToTask(d.tasks[i])) ELSE LegacyTask(d.tasks[i])
             /\ ~DuplicateIds(rows)
<1> DEFINE rows == ControllerLoad(d).tasks
           n == Len(d.tasks)
           MakeRow(t) == IF LoadPlan(d) THEN RuntimeTask(DictToTask(t)) ELSE LegacyTask(t)
<1>1. n \in Nat /\ DOMAIN d.tasks = 1..n /\ \A i \in 1..n : d.tasks[i] \in TaskForm
  BY WrittenTasks
<1>2. rows = [i \in 1..n |-> MakeRow(d.tasks[i])]
  <2>1. CASE LoadPlan(d)
    <3>1. rows = ToRuntimeDict(DictToPlan(d))
      BY <2>1 DEF ControllerLoad
    <3>2. DictToPlan(d).tasks = [i \in 1..n |-> DictToTask(d.tasks[i])]
      <4>1. d \in PlanText
        BY DEF Written
      <4> QED BY <1>1, <4>1 DEF DictToPlan, PlanText
    <3>3. rows = [i \in 1..n |-> RuntimeTask(DictToTask(d.tasks[i]))]
      BY <3>1, <3>2 DEF ToRuntimeDict
    <3> QED BY <2>1, <3>3
  <2>2. CASE ~LoadPlan(d)
    <3>1. rows = [i \in DOMAIN d.tasks |-> LegacyTask(d.tasks[i])]
      BY <2>2 DEF ControllerLoad, Refused
    <3> QED BY <1>1, <2>2, <3>1
  <2> QED BY <2>1, <2>2
<1>3. ASSUME NEW t \in TaskForm PROVE MakeRow(t) \in TaskRow /\ MakeRow(t).id = t.id
  <2>1. /\ t.id \in STRING /\ t.deps \in Seq(STRING) /\ t.tests \in {"missing", "empty", "some"}
        /\ t.waived \in BOOLEAN /\ t.titled \in BOOLEAN
    BY DEF TaskForm
  <2>2. <<>> \in Seq(STRING)
    OBVIOUS
  <2>3. RuntimeTask(DictToTask(t)) =
          [id |-> t.id, deps |-> t.deps, tests |-> Testless(t.tests), waived |-> t.waived,
           retries |-> IF t.policy = "max_attempts" THEN 1 ELSE 0, titled |-> TRUE]
    BY DEF RuntimeTask, DictToTask
  <2>4. Testless(t.tests) \in {"empty", "some"}
    BY <2>1 DEF Testless
  <2>5. MigrateTask(t).tests \in {"empty", "some"} /\ MigrateTask(t).waived \in BOOLEAN
    BY <2>1 DEF MigrateTask, TaskForm
  <2>6. LegacyTask(t) =
          [id |-> t.id, deps |-> IF t.key = "deps" THEN t.deps ELSE <<>>, tests |-> MigrateTask(t).tests,
           waived |-> MigrateTask(t).waived,
           retries |-> IF t.policy = "max_retries" THEN 1 ELSE 0, titled |-> t.titled]
    BY DEF LegacyTask
  <2>7. RuntimeTask(DictToTask(t)) \in TaskRow /\ RuntimeTask(DictToTask(t)).id = t.id
    BY <2>1, <2>3, <2>4 DEF TaskRow
  <2>8. LegacyTask(t) \in TaskRow /\ LegacyTask(t).id = t.id
    <3>1. (IF t.key = "deps" THEN t.deps ELSE <<>>) \in Seq(STRING)
      BY <2>1, <2>2
    <3>2. (IF t.policy = "max_retries" THEN 1 ELSE 0) \in Nat
      OBVIOUS
    <3> QED BY <2>1, <2>5, <2>6, <3>1, <3>2 DEF TaskRow
  <2> QED BY <2>7, <2>8
<1> HIDE DEF MakeRow, rows
<1>4. DOMAIN rows = 1..n /\ \A i \in 1..n : rows[i] = MakeRow(d.tasks[i]) /\ rows[i] \in TaskRow
  BY <1>1, <1>2, <1>3
<1>5. rows \in Seq(TaskRow) /\ Len(rows) = n
  BY <1>1, <1>2, <1>4
<1>6. ~DuplicateIds(d.tasks)
  <2>1. CASE LoadPlan(d)
    BY <2>1, NoErrors DEF LoadPlan
  <2>2. CASE ~LoadPlan(d)
    <3>1. "duplicate" \notin ValidationErrors(MigrateLegacyPlan(d))
      BY <2>2 DEF ControllerLoad, Refused
    <3>2. ~DuplicateIds(MigrateLegacyPlan(d).tasks)
      BY <3>1 DEF ValidationErrors
    <3>3. MigrateLegacyPlan(d).tasks = [i \in DOMAIN d.tasks |-> MigrateTask(d.tasks[i])]
      BY DEF Written, PlanText, MigrateLegacyPlan
    <3>4. \A i \in DOMAIN d.tasks : MigrateTask(d.tasks[i]).id = d.tasks[i].id
      BY <1>1 DEF MigrateTask, TaskForm
    <3> HIDE DEF n
    <3> QED BY <3>2, <3>3, <3>4 DEF DuplicateIds
  <2> QED BY <2>1, <2>2
<1>7. ~DuplicateIds(rows)
  <2>1. \A i \in 1..n : rows[i].id = d.tasks[i].id
    BY <1>1, <1>3, <1>4
  <2> QED BY <1>1, <1>4, <1>6, <2>1 DEF DuplicateIds
<1> QED BY <1>1, <1>4, <1>5, <1>7 DEF rows, MakeRow

\* The controller loads what `start` accepts, but for bare lists.
LEMMA LoadsAccepted ==
  ASSUME NEW d, Written(d)
  PROVE  ControllerLoad(d).ok <=> StartVerdict(d) = "ok" /\ d.shape # "list"
<1> DEFINE migrated == ValidationErrors(MigrateLegacyPlan(d))
<1>1. d.shape \in Shape /\ d.front \in BOOLEAN /\ d.front = (d.shape = "front")
  BY DEF Written, PlanText
<1>2. ControllerLoad(d).ok <=> LoadPlan(d) \/ (d.shape = "mapping" /\ migrated \subseteq {"circular", "deps"})
  BY DEF ControllerLoad, Refused
<1>3. "schema_version" \notin migrated
  <2>1. MigrateLegacyPlan(d).current = TRUE
    BY DEF MigrateLegacyPlan, Written, PlanText
  <2> QED BY <2>1 DEF ValidationErrors
<1>4. migrated \subseteq {"circular", "deps", "schema_version"} <=> migrated \subseteq {"circular", "deps"}
  BY <1>3
<1>5. LoadPlan(d) => d.front
  BY DEF LoadPlan
<1> HIDE DEF migrated
<1>6. StartVerdict(d) = "ok" <=>
        d.shape # "scalar" /\ (LoadPlan(d) \/ (~d.front /\ migrated \subseteq {"circular", "deps", "schema_version"}))
  BY DEF StartVerdict, SchemaVerdict, migrated
<1>7. d.shape = "mapping" \/ d.shape = "front" \/ d.shape = "list" \/ d.shape = "scalar"
  BY <1>1 DEF Shape
<1> QED BY <1>1, <1>2, <1>4, <1>5, <1>6, <1>7

\* What is loaded is what the plan asks for, but for what the legacy form loses.
LEMMA RowsAsked ==
  ASSUME NEW d, Written(d), ControllerLoad(d).ok, NEW i \in DOMAIN d.tasks
  PROVE  LET t == d.tasks[i]
             row == ControllerLoad(d).tasks[i]
         IN  /\ Got(row) = IF d.front \/ t.key = "deps" THEN Asked(t) ELSE [Asked(t) EXCEPT !.deps = <<>>]
             /\ row.retries = IF d.front = (t.policy = "max_attempts") THEN 1 ELSE 0
<1> DEFINE t == d.tasks[i]
           row == ControllerLoad(d).tasks[i]
<1>1. /\ t.tests \in {"missing", "empty", "some"} /\ t.waived \in BOOLEAN
      /\ t.key \in {"deps", "depends_on"} /\ t.policy \in {"max_attempts", "max_retries"}
      /\ t \in TaskForm
  BY WrittenTasks DEF TaskForm
<1>2. row = IF LoadPlan(d) THEN RuntimeTask(DictToTask(t)) ELSE LegacyTask(t)
  BY LoadedRows
<1>3. d.front = LoadPlan(d)
  <2>1. LoadPlan(d) => d.front
    BY DEF LoadPlan
  <2>2. ~LoadPlan(d) => d.shape = "mapping"
    BY DEF ControllerLoad, Refused
  <2> QED BY <2>1, <2>2 DEF Written, PlanText, LoadPlan
<1>4. CASE LoadPlan(d)
  <2>1. t.tests = "missing" => t.waived
    BY <1>4, NoErrors DEF LoadPlan
  <2>2. row = [id |-> t.id, deps |-> t.deps, tests |-> Testless(t.tests), waived |-> t.waived,
               retries |-> IF t.policy = "max_attempts" THEN 1 ELSE 0, titled |-> TRUE]
    BY <1>2, <1>4 DEF RuntimeTask, DictToTask
  <2> HIDE DEF t, row
  <2>3. Got(row) = Asked(t)
    <3>1. t.waived = (t.waived \/ t.tests = "missing")
      BY <1>1, <2>1
    <3> QED BY <2>2, <3>1 DEF Got, Asked
  <2>4. d.front = TRUE
    BY <1>3, <1>4, <2>1 DEF LoadPlan, Written, PlanText
  <2>5. row.retries = IF t.policy = "max_attempts" THEN 1 ELSE 0
    BY <2>2
  <2>6. row.retries = IF d.front = (t.policy = "max_attempts") THEN 1 ELSE 0
    BY <2>4, <2>5
  <2>7. Got(row) = IF d.front \/ t.key = "deps" THEN Asked(t) ELSE [Asked(t) EXCEPT !.deps = <<>>]
    BY <2>3, <2>4
  <2> QED BY <2>6, <2>7 DEF t, row
<1>5. CASE ~LoadPlan(d)
  <2>1. row = LegacyTask(t)
    BY <1>2, <1>5
  <2> HIDE DEF t, row
  <2>2. MigrateTask(t).tests = Testless(t.tests) /\ MigrateTask(t).waived = (t.waived \/ t.tests = "missing")
    BY <1>1 DEF MigrateTask, Testless, TaskForm
  <2>3. /\ row.id = t.id /\ row.deps = IF t.key = "deps" THEN t.deps ELSE <<>>
        /\ row.tests = Testless(t.tests) /\ row.waived = (t.waived \/ t.tests = "missing")
        /\ row.retries = IF t.policy = "max_retries" THEN 1 ELSE 0
    BY <2>1, <2>2 DEF LegacyTask
  <2>4. Got(row) = IF t.key = "deps" THEN Asked(t) ELSE [Asked(t) EXCEPT !.deps = <<>>]
    BY <2>3 DEF Got, Asked
  <2>5. d.front = FALSE
    BY <1>3, <1>5 DEF Written, PlanText
  <2>6. t.policy = "max_retries" <=> ~(t.policy = "max_attempts")
    BY <1>1 DEF t
  <2>7. row.retries = IF d.front = (t.policy = "max_attempts") THEN 1 ELSE 0
    BY <2>3, <2>5, <2>6
  <2>8. Got(row) = IF d.front \/ t.key = "deps" THEN Asked(t) ELSE [Asked(t) EXCEPT !.deps = <<>>]
    BY <2>4, <2>5
  <2> QED BY <2>7, <2>8 DEF t, row
<1> QED BY <1>4, <1>5

\* Tasks with the same ids and dependencies have the same cycles.
LEMMA SameCycles ==
  ASSUME NEW a, NEW b, Listing(a), Listing(b), Len(a) = Len(b), ~DuplicateIds(a),
         \A i \in DOMAIN a : b[i].id = a[i].id /\ b[i].deps = a[i].deps
  PROVE  Ids(a) = Ids(b) /\ Cyclic(a) = Cyclic(b)
<1>1. DOMAIN a = DOMAIN b
  BY DEF Listing
<1>2. Ids(a) = Ids(b)
  BY <1>1 DEF Ids
<1>3. ASSUME NEW id \in Ids(a) PROVE DepsOf(a, id) = DepsOf(b, id)
  <2>1. PICK i \in DOMAIN a : a[i].id = id /\ DepsOf(a, id) = a[i].deps
    BY DepsOfLast
  <2>2. PICK j \in DOMAIN b : b[j].id = id /\ DepsOf(b, id) = b[j].deps
    BY <1>2, DepsOfLast
  <2>3. i = j
    BY <1>1, <2>1, <2>2 DEF DuplicateIds
  <2> QED BY <1>1, <2>1, <2>2, <2>3
<1>4. Graph(a) = Graph(b)
  BY <1>2, <1>3 DEF Graph
<1> QED BY <1>2, <1>4 DEF Cyclic

\* What is dumped is what was loaded, but for the waivers.
LEMMA DumpedLoads ==
  ASSUME NEW d, Written(d), LoadPlan(d)
  PROVE  LET before == ControllerLoad(d)
             after == ControllerLoad(DumpPlan(d))
         IN  /\ after.ok <=> \A i \in DOMAIN d.tasks : d.tasks[i].tests # "missing"
             /\ after.ok => after.tasks = [i \in DOMAIN before.tasks |-> [before.tasks[i] EXCEPT !.waived = FALSE]]
<1> DEFINE e == DumpPlan(d)
           n == Len(d.tasks)
<1>1. /\ n \in Nat /\ DOMAIN d.tasks = 1..n /\ \A i \in 1..n : d.tasks[i] \in TaskForm
      /\ Listing(d.tasks)
  BY WrittenTasks
<1>2. d \in PlanText /\ d.front /\ d.shape = "front"
  BY DEF Written, LoadPlan
<1>3. /\ e.front = d.front /\ e.shape = d.shape /\ e.current = d.current /\ e.fields = d.fields
      /\ e.mode = "absent" /\ e.named = d.named
      /\ e.tasks = [i \in 1..n |-> [d.tasks[i] EXCEPT !.waived = FALSE, !.key = "deps", !.titled = TRUE]]
  BY <1>1, <1>2 DEF DumpPlan, PlanText
<1>4. ASSUME NEW i \in 1..n
      PROVE  /\ e.tasks[i] \in TaskForm
             /\ e.tasks[i].id = d.tasks[i].id /\ e.tasks[i].deps = d.tasks[i].deps
             /\ e.tasks[i].tests = d.tasks[i].tests /\ e.tasks[i].waived = FALSE
             /\ e.tasks[i].policy = d.tasks[i].policy
  <2> DEFINE t == d.tasks[i]
             u == [t EXCEPT !.waived = FALSE, !.key = "deps", !.titled = TRUE]
  <2>1. t \in TaskForm
    BY <1>1
  <2>2. e.tasks[i] = u
    BY <1>3
  <2> HIDE DEF t
  <2>3. /\ u \in TaskForm /\ u.id = t.id /\ u.deps = t.deps /\ u.tests = t.tests
        /\ u.waived = FALSE /\ u.policy = t.policy
    BY <2>1 DEF TaskForm
  <2> HIDE DEF e, u
  <2> QED BY <2>2, <2>3 DEF t
<1> HIDE DEF e
<1>5. e.tasks \in Seq(TaskForm) /\ Len(e.tasks) = n /\ DOMAIN e.tasks = 1..n
  <2>1. e.tasks = [i \in 1..n |-> e.tasks[i]]
    BY <1>3
  <2> HIDE DEF n
  <2>2. e.tasks \in [1..n -> TaskForm]
    BY <1>4, <2>1
  <2> QED BY <1>1, <2>2
<1>6. Written(e)
  BY <1>2, <1>3, <1>5 DEF Written, PlanText, DumpPlan, e
<1>7. Listing(e.tasks)
  BY <1>6, WrittenTasks
<1>8. ~DuplicateIds(d.tasks) /\ ~UnknownDeps(d.tasks) /\ ~HasCycle(d.tasks) /\ d.current /\ LegalFields(d)
  BY NoErrors DEF LoadPlan
<1>9. ~DuplicateIds(e.tasks)
  BY <1>1, <1>4, <1>5, <1>8 DEF DuplicateIds
<1>10. ~UnknownDeps(e.tasks)
  <2>1. ASSUME NEW i \in 1..n PROVE EarlierIds(e.tasks, i) = EarlierIds(d.tasks, i)
    <3>1. \A j \in 1..i : j \in 1..n
      BY <1>1
    <3> HIDE DEF n
    <3> QED BY <1>4, <3>1 DEF EarlierIds
  <2>2. ASSUME NEW i \in 1..n PROVE Range(e.tasks[i].deps) \subseteq EarlierIds(e.tasks, i)
    BY <1>1, <1>4, <1>8, <2>1 DEF UnknownDeps
  <2> QED BY <1>5, <2>2 DEF UnknownDeps
<1>11. ~HasCycle(e.tasks)
  <2>1. KnownDeps(d.tasks) /\ KnownDeps(e.tasks)
    BY <1>1, <1>7, <1>8, <1>10, EarlierAreKnown
  <2>2. Cyclic(d.tasks) = Cyclic(e.tasks)
    BY <1>1, <1>4, <1>5, <1>7, <1>8, SameCycles
  <2> QED BY <1>1, <1>7, <1>8, <2>1, <2>2, SearchFindsCycles DEF HasCycle
<1>12. LegalFields(e)
  BY <1>2, <1>3 DEF LegalFields, PlanText
<1>13. LoadPlan(e) <=> \A i \in 1..n : d.tasks[i].tests # "missing"
  <2>1. LoadPlan(e) <=> \A i \in 1..n : e.tasks[i].tests = "missing" => e.tasks[i].waived
    BY <1>2, <1>3, <1>5, <1>8, <1>9, <1>10, <1>11, <1>12, NoErrors DEF LoadPlan
  <2> QED BY <1>4, <2>1
<1>14. ControllerLoad(e).ok <=> LoadPlan(e)
  BY <1>2, <1>3 DEF ControllerLoad, Refused
<1>15. ASSUME ControllerLoad(e).ok
       PROVE  ControllerLoad(e).tasks
              = [i \in DOMAIN ControllerLoad(d).tasks |-> [ControllerLoad(d).tasks[i] EXCEPT !.waived = FALSE]]
  <2> DEFINE old == ControllerLoad(d).tasks
             new == ControllerLoad(e).tasks
  <2>1. ControllerLoad(d).ok
    BY DEF ControllerLoad
  <2>2. DOMAIN old = 1..n /\ \A i \in 1..n : old[i] = RuntimeTask(DictToTask(d.tasks[i]))
    BY <1>1, <2>1, LoadedRows
  <2>3. DOMAIN new = 1..n /\ \A i \in 1..n : new[i] = RuntimeTask(DictToTask(e.tasks[i]))
    BY <1>5, <1>6, <1>14, <1>15, LoadedRows
  <2>4. new \in Seq(TaskRow) /\ Len(new) = n
    BY <1>5, <1>6, <1>15, LoadedRows
  <2>5. old \in Seq(TaskRow) /\ Len(old) = n
    BY <2>1, LoadedRows
  <2> HIDE DEF old, new
  <2>6. ASSUME NEW i \in 1..n PROVE new[i] = [old[i] EXCEPT !.waived = FALSE]
    <3> DEFINE t == d.tasks[i]
               u == e.tasks[i]
               x == old[i]
    <3>1. u.id = t.id /\ u.deps = t.deps /\ u.tests = t.tests /\ u.waived = FALSE /\ u.policy = t.policy
      BY <1>4
    <3>2. x = RuntimeTask(DictToTask(t)) /\ new[i] = RuntimeTask(DictToTask(u))
      BY <2>2, <2>3
    <3> HIDE DEF t, u, x
    <3>3. x = [id |-> t.id, deps |-> t.deps, tests |-> Testless(t.tests), waived |-> t.waived,
               retries |-> IF t.policy = "max_attempts" THEN 1 ELSE 0, titled |-> TRUE]
      BY <3>2 DEF RuntimeTask, DictToTask
    <3>4. new[i] = [id |-> t.id, deps |-> t.deps, tests |-> Testless(t.tests), waived |-> FALSE,
                    retries |-> IF t.policy = "max_attempts" THEN 1 ELSE 0, titled |-> TRUE]
      <4>1. new[i] = [id |-> u.id, deps |-> u.deps, tests |-> Testless(u.tests), waived |-> u.waived,
                      retries |-> IF u.policy = "max_attempts" THEN 1 ELSE 0, titled |-> TRUE]
        BY <3>2 DEF RuntimeTask, DictToTask
      <4> QED BY <3>1, <4>1, Zenon
    <3>5. new[i] = [x EXCEPT !.waived = FALSE]
      <4> DEFINE y == [x EXCEPT !.waived = FALSE]
                 z == new[i]
      <4>1. x \in TaskRow /\ z \in TaskRow
        BY <2>2, <2>3, <2>4, <2>5 DEF x
      <4>2. z.id = x.id /\ z.deps = x.deps /\ z.tests = x.tests /\ z.waived = FALSE
            /\ z.retries = x.retries /\ z.titled = x.titled
        BY <3>3, <3>4
      <4> HIDE DEF z
      <4>3. y \in TaskRow /\ y.id = x.id /\ y.deps = x.deps /\ y.tests = x.tests /\ y.waived = FALSE
            /\ y.retries = x.retries /\ y.titled = x.titled
        BY <4>1 DEF TaskRow
      <4> HIDE DEF y
      <4>4. y = z
        BY <4>1, <4>2, <4>3 DEF TaskRow
      <4> QED BY <4>4 DEF y, z
    <3> QED BY <3>5 DEF x
  <2>7. new = [i \in 1..n |-> new[i]]
    BY <2>3, <2>4
  <2> QED BY <2>2, <2>6, <2>7 DEF old, new
<1> QED BY <1>1, <1>13, <1>14, <1>15 DEF e

\* What holds of a plan on its way: the table is empty or what the controller loaded, and a run
\* looked for cycles in it.
FormInv ==
  /\ Written(planText)
  /\ ran = "none" => table = <<>>
  /\ table # <<>> => ControllerLoad(planText).ok /\ table = ControllerLoad(planText).tasks
  /\ (ran = "running" => ~CyclesFound(table)) /\ (ran = "blocked" => CyclesFound(table))

LEMMA FormStep == ASSUME FormInv, [FormNext]_formVars PROVE FormInv'
<1>1. ASSUME NEW t \in FormOpening \cup FormTask, WriteForm(t) PROVE FormInv'
  <2>1. /\ t \in TaskForm /\ ran = "none" /\ table = <<>>
        /\ planText' = [planText EXCEPT !.tasks = Append(planText.tasks, t)]
        /\ table' = table /\ ran' = ran
    BY <1>1, FormAssumption DEF WriteForm, FormInv
  <2>2. planText.tasks \in Seq(TaskForm) /\ planText \in PlanText /\ planText.front = (planText.shape = "front")
    BY DEF FormInv, Written, PlanText
  <2>3. Append(planText.tasks, t) \in Seq(TaskForm)
    BY <2>1, <2>2
  <2>4. planText' \in PlanText /\ planText'.front = planText.front /\ planText'.shape = planText.shape
    BY <2>1, <2>2, <2>3 DEF PlanText
  <2>5. Written(planText)'
    BY <2>2, <2>4 DEF Written, PlanText
  <2> QED BY <2>1, <2>5 DEF FormInv
<1>2. ASSUME NEW option \in BOOLEAN, RunForm(option) PROVE FormInv'
  <2> DEFINE loaded == ControllerLoad(planText)
  <2>1. planText' = planText /\ Written(planText)
    BY <1>2 DEF RunForm, FormInv
  <2>2. CASE UNCHANGED table /\ ran' \in {"refused", "raised"}
    BY <2>1, <2>2 DEF FormInv
  <2>3. CASE /\ loaded.ok /\ table' = CreateTasks(loaded.tasks)
             /\ ran' = IF CyclesFound(table') THEN "blocked" ELSE "running"
    <3>1. loaded.tasks \in Seq(TaskRow) /\ ~DuplicateIds(loaded.tasks)
      BY <2>1, <2>3, LoadedRows
    <3>2. table \in {<<>>, loaded.tasks}
      BY DEF FormInv
    <3>3. table' = loaded.tasks
      BY <2>3, <3>1, <3>2, TasksCreated
    <3>4. (ran' = "running" => ~CyclesFound(table')) /\ (ran' = "blocked" => CyclesFound(table')) /\ ran' # "none"
      BY <2>3
    <3> QED BY <2>1, <2>3, <3>3, <3>4 DEF FormInv, CyclesFound
  <2> QED BY <1>2, <2>2, <2>3 DEF RunForm
<1>3. CASE UNCHANGED formVars
  BY <1>3 DEF FormInv, formVars, CyclesFound
<1> QED BY <1>1, <1>2, <1>3 DEF FormNext

THEOREM FormsInv == FormSpec => []FormInv
<1>1. FormInit => FormInv
  <2> SUFFICES ASSUME FormInit PROVE FormInv
    OBVIOUS
  <2>1. PICK shape \in Shape, mode \in {"absent", "known", "review"} :
          planText = [shape |-> shape, front |-> shape = "front", named |-> TRUE,
                      current |-> shape # "list", mode |-> mode, fields |-> TRUE, tasks |-> <<>>]
    BY DEF FormInit
  <2>2. <<>> \in Seq(TaskForm)
    OBVIOUS
  <2>3. Written(planText)
    BY <2>1, <2>2 DEF Written, PlanText
  <2>4. table = <<>> /\ ran = "none"
    BY DEF FormInit
  <2> QED BY <2>3, <2>4 DEF FormInv
<1> QED BY <1>1, FormStep, PTL DEF FormSpec

\* Of a plan with any tasks, whatever form it is in and however often it is run: what is in the
\* table is what was written and accepted, and it runs just where no task waits for itself or
\* for nobody (controller.py load_plan, plan_schema.py dump_plan).
THEOREM PlansReachTable == FormSpec => []PlanReachesTable
<1>1. FormInv => PlanReachesTable
  <2> SUFFICES ASSUME FormInv PROVE PlanReachesTable
    OBVIOUS
  <2> DEFINE d == planText
             sound == ~Cyclic(table) /\ \A i \in DOMAIN table : Range(table[i].deps) \subseteq Ids(table)
  <2>1. Written(d)
    BY DEF FormInv
  <2>2. ControllerLoad(d).ok <=> StartVerdict(d) = "ok" /\ d.shape # "list"
    BY <2>1, LoadsAccepted
  <2>3. ASSUME table # <<>>
        PROVE  /\ Len(table) = Len(d.tasks)
               /\ \A i \in DOMAIN d.tasks :
                    /\ Got(table[i]) = IF d.front \/ d.tasks[i].key = "deps" THEN Asked(d.tasks[i])
                                       ELSE [Asked(d.tasks[i]) EXCEPT !.deps = <<>>]
                    /\ table[i].retries = IF d.front = (d.tasks[i].policy = "max_attempts") THEN 1 ELSE 0
    <3>1. ControllerLoad(d).ok /\ table = ControllerLoad(d).tasks
      BY <2>3 DEF FormInv
    <3> QED BY <2>1, <3>1, LoadedRows, RowsAsked
  <2>4. CyclesFound(table) <=> ~sound
    <3>1. Listing(table) /\ ~DuplicateIds(table)
      <4>1. CASE table = <<>>
        <5>1. Len(table) = 0 /\ DOMAIN table = {}
          BY <4>1
        <5> QED BY <5>1 DEF Listing, DuplicateIds
      <4>2. CASE table # <<>>
        <5>1. table \in Seq(TaskRow) /\ ~DuplicateIds(table)
          BY <2>1, <4>2, LoadedRows DEF FormInv
        <5>2. \A row \in TaskRow : row.deps \in Seq(STRING)
          BY DEF TaskRow
        <5> QED BY <5>1, <5>2 DEF Listing
      <4> QED BY <4>1, <4>2
    <3> QED BY <3>1, CyclesFoundRight DEF KnownDeps
  <2>5. DumpLoadsAgain
    BY <2>1, DumpedLoads DEF DumpLoadsAgain
  <2>6. (ran = "running" => sound) /\ (ran = "blocked" => ~sound)
    BY <2>4 DEF FormInv
  <2> HIDE DEF d, sound
  <2> QED BY <2>2, <2>3, <2>5, <2>6 DEF PlanReachesTable, d, sound
<1> QED BY <1>1, FormsInv, PTL
=============================================================================
