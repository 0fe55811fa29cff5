----------------------------- MODULE MCWorkItems -----------------------------
(***************************************************************************)
(* Small instances of the work items for TLC.                              *)
(***************************************************************************)
EXTENDS WorkItems, TLC

CONSTANTS i1, i2, t1, t2, because

Symmetry == Permutations(Items) \cup Permutations(Threads)
=============================================================================
