--------------------------- MODULE MCStreamEncoder ----------------------------
(***************************************************************************)
(* StreamEncoder.tla for TLC: blocks that two or three symbols fill.       *)
(***************************************************************************)
EXTENDS StreamEncoder

BlockSizes == <<3, 2>>
===============================================================================
