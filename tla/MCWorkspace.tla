----------------------------- MODULE MCWorkspace -----------------------------
(***************************************************************************)
(* Small instances of the commit protocol for TLC.                         *)
(***************************************************************************)
EXTENDS WorkspaceProperties, TLC

CONSTANTS seed, r1, r2, r3, r4, k1, circuit, part

\* Requests are interchangeable, but for the one of an earlier process.
Symmetry == Permutations(Req \ {Seed})

OnlyCircuit == {{circuit}}
OnlyPart == {{part}}
=============================================================================
