-------------------------- MODULE MCBatchLifecycle --------------------------
(* Instances of BatchLifecycle for TLC: see the cfg files *)
EXTENDS BatchLifecycle, TLC

Symmetry == Permutations(Units)
=============================================================================
