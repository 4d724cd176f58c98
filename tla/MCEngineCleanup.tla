--------------------------- MODULE MCEngineCleanup ---------------------------
(***************************************************************************)
(* EngineCleanup under all faults.  Nothing is unbounded there, so the run *)
(* covers the whole state space.                                           *)
(***************************************************************************)
EXTENDS EngineCleanup
=============================================================================
