------------------------------- MODULE MCCodec --------------------------------
(***************************************************************************)
(* Codec.tla for TLC: single symbols, a run long enough to rescale, and a  *)
(* text after which rescaling removes some symbols of a context.           *)
(***************************************************************************)
EXTENDS Codec

Pieces == {<<0>>, <<1>>, <<2>>, <<0, 0, 0, 0>>,
           <<0, 0, 0, 0, 0, 1, 0, 1, 0, 0, 0, 0, 2, 2, 1, 0, 0, 0, 0, 0, 0>>}
===============================================================================
