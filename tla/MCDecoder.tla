----------------------------- MODULE MCDecoder -----------------------------
(***************************************************************************)
(* Decoder for TLC: room for four positions and two tokens, so that every  *)
(* way to cut a context of four into passes occurs.                        *)
(***************************************************************************)
EXTENDS Decoder

Nothing == {}
=============================================================================
