---------------------------- MODULE MCThreadPool -----------------------------
(***************************************************************************)
(* Small instances of the creations waiting in the thread pool for TLC.    *)
(***************************************************************************)
EXTENDS ThreadPool

CONSTANTS c1, c2, c3, o1
=============================================================================
