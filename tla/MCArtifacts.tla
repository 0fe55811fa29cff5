----------------------------- MODULE MCArtifacts -----------------------------
(***************************************************************************)
(* Small instances of the artifacts for TLC.                               *)
(***************************************************************************)
EXTENDS Artifacts, TLC

CONSTANTS a1, a2, a3

Symmetry == Permutations(Ids)
=============================================================================
