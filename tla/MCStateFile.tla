---------------------------- MODULE MCStateFile -----------------------------
(* Model checking of StateFile: the goroutines that save run the same code. *)
EXTENDS StateFile, TLC

SaverSymmetry == Permutations(Savers)
=============================================================================
