---------------------------- MODULE MCEncodeFeed ----------------------------
(* EncodeFeed with a pool smaller than the number of frames, so that the   *)
(* RGA thread waits for outputs, and with short retries.                   *)
EXTENDS EncodeFeed
=============================================================================
