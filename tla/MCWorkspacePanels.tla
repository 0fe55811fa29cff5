--------------------------- MODULE MCWorkspacePanels ---------------------------
(***************************************************************************)
(* Small instances of the React workspace with its inspector for TLC.      *)
(***************************************************************************)
EXTENDS WorkspacePanels

CONSTANTS p1, p2
=============================================================================
