------------------------------ MODULE JpegSize ------------------------------
(***************************************************************************)
(* FindJpegEffectiveSize: the scan from the end of a camera frame for the  *)
(* EOI marker FF D9, which drops the padding behind it.  The bytes are     *)
(* data[0 .. len - 1].                                                     *)
(***************************************************************************)
EXTENDS Integers

(* A payload of less than four bytes is no picture. *)
Short(len) == len < 4

(* The marker is in the two bytes before offset i. *)
EoiBefore(data, i) == data[i - 2] = 255 /\ data[i - 1] = 217

(* the length up to the marker, without it *)
SizeBefore(i) == i - 2

SizeUpTo(i) == i

(* What the scan down from offset i returns. *)
EoiScan(data) ==
    LET from[i \in Nat] == IF i < 2 THEN 0
                           ELSE IF EoiBefore(data, i) THEN SizeUpTo(i)
                           ELSE from[i - 1]
    IN  from

FindJpegEffectiveSize(data, len) == IF Short(len) THEN 0 ELSE EoiScan(data)[len]

(* What the result has to be: the frame given to the decoder ends with an  *)
(* EOI marker, and what was cut off holds none, so that padding is dropped *)
(* and image data is not; a frame with a marker is given up only when it   *)
(* is shorter than four bytes.                                             *)
EndsAtLastEoi(data, len) ==
    LET size == FindJpegEffectiveSize(data, len) IN
    /\ size # 0 => size \in 2 .. len /\ EoiBefore(data, size)
    /\ ~Short(len) => \A i \in 2 .. len : i > size => ~EoiBefore(data, i)
=============================================================================
