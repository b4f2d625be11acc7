--------------------------- MODULE MCCaptureRing ---------------------------
(* CaptureRing on a ring small enough to follow every buffer, and large     *)
(* enough for the drop of the oldest frame, the recycling of a batch and    *)
(* every failure: two buffers more than readyQueue is allowed to hold.      *)
EXTENDS CaptureRing

CONSTANTS b1, b2, b3, b4

(* Every buffer the pipeline took comes back to the driver, also when its   *)
(* frame was dropped or could not be decoded, until the process stops.      *)
(* The buffers start alike and no step tells them apart, so what holds of   *)
(* one holds of all.                                                        *)
FirstBufferReturns == BufferReturns(b1)
=============================================================================
