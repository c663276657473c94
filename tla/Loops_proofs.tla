---------------------------- MODULE Loops_proofs ----------------------------
(***************************************************************************)
(* Induction over numbers and along loops, which the proofs about the      *)
(* services and about the pure algorithms share.                           *)
(***************************************************************************)
EXTENDS Loops, FiniteSetTheorems, TLAPS

-----------------------------------------------------------------------------
(* Induction, stated with a set in the place of a predicate *)

\* Numbers have a least one: the initial segments below them are finite sets, and those are
\* well founded under inclusion.
LEMMA LeastNatural ==
  ASSUME NEW T \in SUBSET Nat, T # {}
  PROVE  \E m \in T : \A k \in T : m <= k
<1> DEFINE Initial(n) == 1..n
           Initials == {Initial(n) : n \in T}
<1>1. Initials \subseteq FiniteSubsetsOf(Nat) /\ Initials # {}
  <2>1. \A n \in T : Initial(n) \in SUBSET Nat /\ IsFiniteSet(Initial(n))
    BY FS_Interval
  <2> QED BY <2>1 DEF FiniteSubsetsOf
<1>2. IsWellFoundedOn(StrictSubsetOrdering(Nat), FiniteSubsetsOf(Nat))
  BY FS_StrictSubsetOrderingWellFounded
<1>3. PICK s \in Initials : \A t \in Initials : <<t, s>> \notin StrictSubsetOrdering(Nat)
  BY <1>1, <1>2, WFMin, Zenon
<1>4. PICK m \in T : s = Initial(m)
  BY <1>3
<1>5. ASSUME NEW k \in T, k < m PROVE FALSE
  <2>1. /\ Initial(k) \subseteq Nat /\ Initial(m) \subseteq Nat /\ Initial(k) \subseteq Initial(m)
        /\ m \notin Initial(k) /\ m \in Initial(m)
    BY <1>5
  <2>2. <<Initial(k), Initial(m)>> \in StrictSubsetOrdering(Nat)
    BY <2>1 DEF StrictSubsetOrdering
  <2> QED BY <1>3, <1>4, <2>2
<1> QED BY <1>5

\* A set of numbers that has 0 and the successor of each of its members below n has all up to n.
LEMMA UpTo ==
  ASSUME NEW n \in Nat, NEW S, 0 \in S, \A k \in 0..n - 1 : k \in S => k + 1 \in S
  PROVE  \A k \in 0..n : k \in S
<1> SUFFICES ASSUME NEW k \in 0..n, k \notin S PROVE FALSE
  OBVIOUS
<1> DEFINE T == {j \in 0..n : j \notin S}
<1>1. T \in SUBSET Nat /\ T # {}
  OBVIOUS
<1>2. PICK m \in T : \A j \in T : m <= j
  BY <1>1, LeastNatural
<1>3. m # 0 /\ m - 1 \in 0..n - 1 /\ m - 1 \notin T
  BY <1>2
<1>4. m - 1 \in S /\ (m - 1) + 1 = m
  BY <1>2, <1>3
<1> QED BY <1>2, <1>3, <1>4

\* What f holds after i steps of the loop.
LoopOf(f, n, first, step) == f = [i \in 0..n |-> IF i = 0 THEN first ELSE step[i][f[i - 1]]]

\* Every loop is defined, and what its rounds lead from one to the next holds after each.
LEMMA LoopRuns ==
  ASSUME NEW n \in Nat, NEW first, NEW step, NEW Inv, first \in Inv[0],
         \A i \in 1..n : \A v \in Inv[i - 1] : step[i][v] \in Inv[i]
  PROVE  \E f : LoopOf(f, n, first, step) /\ \A i \in 0..n : f[i] \in Inv[i]
<1> DEFINE Runs(f, k) == LoopOf(f, k, first, step) /\ \A i \in 0..k : f[i] \in Inv[i]
           S == {k \in 0..n : \E f : Runs(f, k)}
<1>1. 0 \in S
  <2> DEFINE f == [i \in 0..0 |-> first]
  <2>1. f = [i \in 0..0 |-> IF i = 0 THEN first ELSE step[i][f[i - 1]]] /\ \A i \in 0..0 : f[i] \in Inv[i]
    OBVIOUS
  <2> HIDE DEF f
  <2>2. Runs(f, 0)
    BY <2>1 DEF LoopOf
  <2> QED BY <2>2
<1>2. ASSUME NEW k \in 0..n - 1, k \in S PROVE k + 1 \in S
  <2>1. PICK f : Runs(f, k)
    BY <1>2
  <2> DEFINE next == step[k + 1][f[k]]
             g == [i \in 0..k + 1 |-> IF i = k + 1 THEN next ELSE f[i]]
  <2>2. \A i \in 0..k : f[i] = (IF i = 0 THEN first ELSE step[i][f[i - 1]]) /\ f[i] \in Inv[i]
    BY <2>1 DEF LoopOf
  <2>3. next \in Inv[k + 1]
    <3>1. k + 1 \in 1..n /\ f[k] \in Inv[k] /\ (k + 1) - 1 = k
      BY <2>2
    <3> QED BY <3>1
  <2>4. g[k + 1] = next /\ \A i \in 0..k : g[i] = f[i]
    OBVIOUS
  <2>5. g = [i \in 0..k + 1 |-> g[i]]
    OBVIOUS
  <2> HIDE DEF g
  <2>6. ASSUME NEW i \in 0..k + 1
        PROVE  g[i] = (IF i = 0 THEN first ELSE step[i][g[i - 1]]) /\ g[i] \in Inv[i]
    <3>1. CASE i = k + 1
      <4>1. i # 0 /\ g[i - 1] = f[k]
        BY <2>4, <3>1
      <4> QED BY <2>3, <2>4, <3>1, <4>1
    <3>2. CASE i \in 1..k
      <4>1. i # 0 /\ g[i - 1] = f[i - 1] /\ g[i] = f[i]
        BY <2>4, <3>2
      <4> QED BY <2>2, <3>2, <4>1
    <3>3. CASE i = 0
      BY <2>2, <2>4, <3>3
    <3> QED BY <3>1, <3>2, <3>3
  <2>7. g = [i \in 0..k + 1 |-> IF i = 0 THEN first ELSE step[i][g[i - 1]]]
    BY <2>5, <2>6
  <2>8. Runs(g, k + 1)
    BY <2>6, <2>7 DEF LoopOf
  <2> QED BY <2>8
<1> HIDE DEF S, Runs
<1>3. n \in S
  <2>1. \A k \in 0..n - 1 : k \in S => k + 1 \in S
    BY <1>2
  <2>2. \A k \in 0..n : k \in S
    BY <1>1, <2>1, UpTo
  <2> QED BY <2>2
<1> QED BY <1>3 DEF S, Runs

\* Every loop is defined, and stays in a set its steps stay in.
LEMMA LoopDefined ==
  ASSUME NEW n \in Nat, NEW V, NEW first \in V, NEW step, \A i \in 1..n : \A v \in V : step[i][v] \in V
  PROVE  \E f : LoopOf(f, n, first, step) /\ \A i \in 0..n : f[i] \in V
<1> DEFINE Inv == [i \in 0..n |-> V]
<1>1. \A i \in 0..n : Inv[i] = V
  OBVIOUS
<1>2. first \in Inv[0] /\ \A i \in 1..n : \A v \in Inv[i - 1] : step[i][v] \in Inv[i]
  BY <1>1
<1> HIDE DEF Inv
<1>3. PICK f : LoopOf(f, n, first, step) /\ \A i \in 0..n : f[i] \in Inv[i]
  BY <1>2, LoopRuns
<1> QED BY <1>1, <1>3

\* Two loops that are defined alike run alike.
LEMMA LoopUnique ==
  ASSUME NEW n \in Nat, NEW first, NEW step, NEW f, NEW g,
         LoopOf(f, n, first, step), LoopOf(g, n, first, step)
  PROVE  \A i \in 0..n : f[i] = g[i]
<1> DEFINE S == {k \in 0..n : f[k] = g[k]}
<1>1. \A i \in 0..n : /\ f[i] = IF i = 0 THEN first ELSE step[i][f[i - 1]]
                      /\ g[i] = IF i = 0 THEN first ELSE step[i][g[i - 1]]
  BY DEF LoopOf
<1>2. 0 \in S
  BY <1>1
<1>3. \A k \in 0..n - 1 : k \in S => k + 1 \in S
  <2> SUFFICES ASSUME NEW k \in 0..n - 1, f[k] = g[k] PROVE f[k + 1] = g[k + 1]
    OBVIOUS
  <2>1. k + 1 \in 0..n /\ k + 1 # 0 /\ (k + 1) - 1 = k
    OBVIOUS
  <2> QED BY <1>1, <2>1
<1> HIDE DEF S
<1>4. \A k \in 0..n : k \in S
  BY <1>2, <1>3, UpTo
<1> QED BY <1>4 DEF S

\* What the rounds of a loop lead from one to the next holds after the loop.
LEMMA LoopInvariant ==
  ASSUME NEW n \in Nat, NEW first, NEW step, NEW Inv, first \in Inv[0],
         \A i \in 1..n : \A v \in Inv[i - 1] : step[i][v] \in Inv[i]
  PROVE  AfterLoop(n, first, step) \in Inv[n]
<1> DEFINE after == CHOOSE f : f = [i \in 0..n |-> IF i = 0 THEN first ELSE step[i][f[i - 1]]]
<1>1. PICK f : LoopOf(f, n, first, step) /\ \A i \in 0..n : f[i] \in Inv[i]
  BY LoopRuns
<1>2. \E g : g = [i \in 0..n |-> IF i = 0 THEN first ELSE step[i][g[i - 1]]]
  BY <1>1 DEF LoopOf
<1>3. after = [i \in 0..n |-> IF i = 0 THEN first ELSE step[i][after[i - 1]]]
  BY <1>2, Zenon
<1>4. AfterLoop(n, first, step) = after[n]
  BY DEF AfterLoop
<1> HIDE DEF after
<1>5. LoopOf(after, n, first, step)
  BY <1>3 DEF LoopOf
<1>6. f[n] = after[n]
  BY <1>1, <1>5, LoopUnique
<1> QED BY <1>1, <1>4, <1>6
=============================================================================
