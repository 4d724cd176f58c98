----------------------------- MODULE MCHandshake -----------------------------
(***************************************************************************)
(* Handshake between any two builds of two major and two minor versions    *)
(* and with any requirements among two capabilities: versions can be       *)
(* equal, less or greater on either side, and each capability can be       *)
(* required, optional, both or unknown on either side.                     *)
(***************************************************************************)
EXTENDS Handshake
=============================================================================
