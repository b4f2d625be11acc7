----------------------------- MODULE MCShutdown -----------------------------
(* Shutdown with few frames in the pipeline. *)
EXTENDS Shutdown
=============================================================================
