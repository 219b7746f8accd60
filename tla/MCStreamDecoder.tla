--------------------------- MODULE MCStreamDecoder ---------------------------
(***************************************************************************)
(* StreamDecoder.tla for TLC: a first block of two bytes and further ones  *)
(* of one, so that a call of three bytes grows its output.                 *)
(***************************************************************************)
EXTENDS StreamDecoder

Blocks == <<2, 1>>
MoreLengths == {-1, 1, 2, 3}
===============================================================================
