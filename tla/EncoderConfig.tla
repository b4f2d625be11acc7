--------------------------- MODULE EncoderConfig ---------------------------
(***************************************************************************)
(* The group of pictures EncConfigWidthHeight derives from its arguments.  *)
(* The numbers are unsigned and of 32 bits in the code; no sum comes near  *)
(* 2^32.                                                                   *)
(***************************************************************************)
EXTENDS Integers, Bitwise

CONSTANTS
    Rate,   \* frame rates asked for
    Gops    \* lengths of the group of pictures asked for

VARIABLES
    asked,     \* the arguments
    result,    \* "none", "error" or "configured"
    gop        \* Gop_

vars == <<asked, result, gop>>

Init ==
    /\ asked \in [fps : Rate, gop : Gops]
    /\ result = "none" /\ gop = 0

-----------------------------------------------------------------------------
(* x & ~mask *)
AndNot(x, mask) == x - (x & mask)

GopOf(n, fps) == AndNot(n + fps - 1, fps - 1)

Configure ==
    /\ result = "none"
    /\ asked.fps > 0 /\ asked.gop > 0
    /\ result' = "configured"
    /\ gop' = GopOf(asked.gop, asked.fps)
    /\ UNCHANGED asked

Reject ==
    /\ result = "none"
    /\ asked.fps = 0 \/ asked.gop = 0
    /\ result' = "error"
    /\ UNCHANGED <<asked, gop>>

Next == Configure \/ Reject

Spec == Init /\ [][Next]_vars

-----------------------------------------------------------------------------
(* The group of pictures is a whole number of seconds, as the comment at   *)
(* the computation says.                                                   *)
GopWholeSeconds == result = "configured" => gop % asked.fps = 0
=============================================================================
