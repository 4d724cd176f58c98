--------------------------- MODULE MCScanSession ----------------------------
(***************************************************************************)
(* ScanSession under every request sequence, ids drawn from 0..MaxU64.     *)
(* MaxU64 = 12 is enough for a scan to start, build a plan and resume with  *)
(* it (eleven events), for replies of three and four events to straddle    *)
(* the overflow of the event counter, and for a session to consume every   *)
(* id there is.                                                            *)
(***************************************************************************)
EXTENDS ScanSession
=============================================================================
