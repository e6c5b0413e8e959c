---------------------------- MODULE MCConvergence ----------------------------
(* Convergence for TLC with interchangeable workers.                       *)
EXTENDS Convergence, TLC

Symmetry == Permutations(Workers)
=============================================================================
