--------------------------- MODULE MCEncodeOutput ---------------------------
(* EncodeOutput with frames of up to two partitions. *)
EXTENDS EncodeOutput
=============================================================================
