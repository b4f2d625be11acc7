--------------------------- MODULE MCEncoderConfig ---------------------------
(* EncoderConfig for the defaults of rkmppenc.h. *)
EXTENDS EncoderConfig
=============================================================================
