---------------------------- MODULE MCMppDecoder ----------------------------
(* MppDecoder with as many holders as make the decode thread wait for one. *)
EXTENDS MppDecoder
=============================================================================
