--------------------------- MODULE MCScanControl ----------------------------
(***************************************************************************)
(* ScanControl with a queue that holds the reply to a cancellation and no  *)
(* more, so that it fills, and a user who presses a few of the four        *)
(* control keys at any time.                                               *)
(***************************************************************************)
EXTENDS ScanControl
=============================================================================
