-------------------------------- MODULE Sums --------------------------------
(***************************************************************************)
(* Loops over 1 .. n that accumulate a value, as those of por.rs do, and   *)
(* the sums and powers they compute.                                       *)
(***************************************************************************)
EXTENDS Integers

\* The accumulator after n rounds; round j takes acc to step[j][acc].
Loop(step, start, n) ==
  LET after[j \in 0 .. n] == IF j = 0 THEN start ELSE step[j][after[j - 1]]
  IN  after[n]

Sum(g, n) == Loop([j \in Nat |-> [acc \in Int |-> acc + g[j]]], 0, n)

Power(b, n) == Loop([j \in Nat |-> [acc \in Nat |-> acc * b]], 1, n)
=============================================================================
