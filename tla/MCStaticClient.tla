---------------------------- MODULE MCStaticClient ----------------------------
(***************************************************************************)
(* Small instances of the static client for TLC.                           *)
(***************************************************************************)
EXTENDS StaticClient

CONSTANTS p1, p2
=============================================================================
