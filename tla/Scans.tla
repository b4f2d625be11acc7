------------------------------- MODULE Scans -------------------------------
(***************************************************************************)
(* What the program does to strings of bytes, on the same strings: the     *)
(* splitter cuts an access unit at its start codes, FindJpegEffectiveSize  *)
(* looks for the end of a camera frame, and JsonEscape, which reads a byte *)
(* as a character here, makes a response of a text.  TLC takes the bytes   *)
(* of the markers, 0, 1, FF and D9, so that start codes overlap, lie side  *)
(* by side or are cut short.                                               *)
(***************************************************************************)
EXTENDS AnnexB, JpegSize, JsonText

(* Whatever the payload of a camera frame is, FindJpegEffectiveSize cuts   *)
(* off the padding behind the last EOI marker and nothing else.            *)
PaddingDropped == pc = "check" => EndsAtLastEoi(data, len)

Character(byte) ==
    CASE byte = 0 -> "quote" [] byte = 1 -> "backslash"
      [] byte = 255 -> "newline" [] OTHER -> "n"

(* What the browser reads from the JSON response is the answer or message  *)
(* that was put in, whatever its quotes, backslashes and line ends: no     *)
(* character ends the string early and no escape is taken for another.     *)
ResponseReadsBack == pc = "check" => ReadsBack([i \in 1 .. len |-> Character(data[i - 1])])
=============================================================================
