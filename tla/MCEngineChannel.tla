--------------------------- MODULE MCEngineChannel ---------------------------
(***************************************************************************)
(* Prefixes of two bytes can be cut, payloads are empty or of one byte,    *)
(* the pipe holds a frame and a bit, and the engine may say more than the  *)
(* decoder, the channel and the pipe hold together.                        *)
(***************************************************************************)
EXTENDS EngineChannel
=============================================================================
