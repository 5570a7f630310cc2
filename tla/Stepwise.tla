------------------------------- MODULE Stepwise -------------------------------
(***************************************************************************)
(* What a loop of the code makes of its elements one after another: Step   *)
(* takes what was made before and the number of the next element.  After   *)
(* the first i of them it is after[i]: proofs speak of that.               *)
(***************************************************************************)
EXTENDS Integers

Stepwise(Step(_, _), start, n) ==
    LET after[i \in 0 .. n] == IF i = 0 THEN start ELSE Step(after[i - 1], i)
    IN  after[n]
=============================================================================
