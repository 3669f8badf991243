------------------------------ MODULE MCAttempt ------------------------------
(* Attempt for TLC: interchangeable rows.                                  *)
EXTENDS Attempt, TLC

Symmetry == Permutations(Rows)
=============================================================================
