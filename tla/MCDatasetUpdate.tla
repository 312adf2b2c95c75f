-------------------------- MODULE MCDatasetUpdate ---------------------------
(* Model checking of DatasetUpdate: goroutines are interchangeable. *)
EXTENDS DatasetUpdate, TLC

JobSymmetry == Permutations(Jobs)
=============================================================================
