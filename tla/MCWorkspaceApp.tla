---------------------------- MODULE MCWorkspaceApp ----------------------------
(***************************************************************************)
(* Small instances of the React workspace for TLC.                         *)
(***************************************************************************)
EXTENDS WorkspaceApp

CONSTANTS p1, p2
=============================================================================
