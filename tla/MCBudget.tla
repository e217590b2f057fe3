------------------------------ MODULE MCBudget ------------------------------
(* Instances of Budget for TLC.                                            *)
EXTENDS Budget, TLC

(* Calls are interchangeable.                                              *)
Symmetry == Permutations(Calls)
=============================================================================
