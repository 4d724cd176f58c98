--------------------------- MODULE MCSourcePublish ---------------------------
(***************************************************************************)
(* SourcePublish with every mix of new and existing destinations.  Three   *)
(* targets have a first, a middle and a last one, and two interferences    *)
(* let somebody else disturb a target of the current step and an earlier   *)
(* one.                                                                    *)
(***************************************************************************)
EXTENDS SourcePublish
=============================================================================
