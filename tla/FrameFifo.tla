------------------------------ MODULE FrameFifo ------------------------------
(***************************************************************************)
(* What the ring of camera buffers promises the decoder, without buffers,  *)
(* descriptors or threads: a lossy first-in first-out channel of frames.   *)
(* Frames are delivered in the order they were captured, each at most      *)
(* once; at most Depth wait, and a frame offered to a full channel pushes  *)
(* out the oldest one that waits.  Losing a frame in any other way ends    *)
(* the channel: nothing is offered any more.                               *)
(***************************************************************************)
EXTENDS Integers, Sequences

CONSTANTS
    Frame,   \* frames, named by the instant the driver filled them
    Depth    \* how many frames may wait

VARIABLES
    clock,    \* the instant of the last capture
    source,   \* captured frames that were not offered yet, oldest first
    waiting,  \* offered frames, oldest first
    inHand,   \* the frame the decoder works on, NoFrame between two
    closed    \* no frame is offered any more

vars == <<clock, source, waiting, inHand, closed>>

NoFrame == -1

Init ==
    /\ clock = 0
    /\ source = <<>> /\ waiting = <<>>
    /\ inHand = NoFrame
    /\ closed = FALSE

Capture ==
    \E f \in Frame :
       /\ f >= clock
       /\ clock' = f
       /\ source' = Append(source, f)
       /\ UNCHANGED <<waiting, inHand, closed>>

Offer ==
    /\ ~closed
    /\ source # <<>> /\ Len(waiting) < Depth
    /\ source' = Tail(source)
    /\ waiting' = Append(waiting, Head(source))
    /\ UNCHANGED <<clock, inHand, closed>>

OfferDropping ==
    /\ ~closed
    /\ source # <<>> /\ Len(waiting) = Depth
    /\ source' = Tail(source)
    /\ waiting' = Append(Tail(waiting), Head(source))
    /\ UNCHANGED <<clock, inHand, closed>>

(* The producer gives up, on the frame it was reading or between two. *)
Close ==
    /\ closed' = TRUE
    /\ \/ UNCHANGED source
       \/ source # <<>> /\ source' = Tail(source)
    /\ UNCHANGED <<clock, waiting, inHand>>

Take ==
    /\ inHand = NoFrame /\ waiting # <<>>
    /\ inHand' = Head(waiting)
    /\ waiting' = Tail(waiting)
    /\ UNCHANGED <<clock, source, closed>>

Finish ==
    /\ inHand # NoFrame
    /\ inHand' = NoFrame
    /\ UNCHANGED <<clock, source, waiting, closed>>

Next == Capture \/ Offer \/ OfferDropping \/ Close \/ Take \/ Finish

Spec == Init /\ [][Next]_vars
=============================================================================
