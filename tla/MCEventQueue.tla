---------------------------- MODULE MCEventQueue ----------------------------
(***************************************************************************)
(* EventQueue with a capacity the producer reaches, more events than the   *)
(* queue holds, gaps in the numbering, and keys that interrupt the         *)
(* consumer.                                                               *)
(***************************************************************************)
EXTENDS EventQueue
=============================================================================
