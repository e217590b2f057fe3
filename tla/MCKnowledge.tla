---------------------------- MODULE MCKnowledge ----------------------------
(* Instances of Knowledge for TLC.                                         *)
EXTENDS Knowledge, TLC

(* Jobs are interchangeable.                                                *)
Symmetry == Permutations(Jobs)
=============================================================================
