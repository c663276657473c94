------------------------------- MODULE Loops --------------------------------
(***************************************************************************)
(* A loop of the code, for i from 1 to n: what it starts with and what the *)
(* i-th round makes of what it has, as a recursive function, which unlike  *)
(* a fold or a recursive operator can be reasoned about.                   *)
(***************************************************************************)
EXTENDS Naturals

AfterLoop(n, first, step) ==
  LET after[i \in 0..n] == IF i = 0 THEN first ELSE step[i][after[i - 1]]
  IN  after[n]
=============================================================================
