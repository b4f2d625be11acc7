----------------------------- MODULE FrameRelay -----------------------------
(***************************************************************************)
(* What the threads between decoder and encoder promise, without outputs,  *)
(* descriptors or program counters: a relay of frames, numbered as they    *)
(* are delivered.  One at a time is copied; at most Capacity copies wait   *)
(* and are offered to the encoder in order.  A copy is offered again when  *)
(* it was refused, MaxRetry times at most.  No frame is given up before    *)
(* the relay is stopping, and from then on none is handed over or offered  *)
(* that was not at hand already.                                           *)
(***************************************************************************)
EXTENDS Integers, Sequences

CONSTANTS
    Capacity,   \* copies that may wait
    MaxRetry    \* offers of a copy after the first

VARIABLES
    delivered,   \* the last frame delivered
    source,      \* frames to be copied
    inHand,      \* the frame being copied, NoFrame between two
    admitted,    \* its copy is going to be handed over
    waiting,     \* copies the encoder has not accepted, oldest first
    offering,    \* the first of them is offered to the encoder
    refusals,    \* offers of it that were refused
    taken,       \* the frames the encoder took, in order
    stopping

vars == <<delivered, source, inHand, admitted, waiting, offering, refusals,
          taken, stopping>>

NoFrame == 0

Init ==
    /\ delivered = 0 /\ source = <<>>
    /\ inHand = NoFrame /\ admitted = FALSE
    /\ waiting = <<>> /\ offering = FALSE /\ refusals = 0
    /\ taken = <<>>
    /\ stopping = FALSE

Deliver ==
    /\ delivered' = delivered + 1
    /\ source' = Append(source, delivered + 1)
    /\ UNCHANGED <<inHand, admitted, waiting, offering, refusals, taken, stopping>>

Stop ==
    /\ stopping' = TRUE
    /\ UNCHANGED <<delivered, source, inHand, admitted, waiting, offering, refusals, taken>>

Take ==
    /\ inHand = NoFrame /\ source # <<>>
    /\ inHand' = Head(source)
    /\ source' = Tail(source)
    /\ UNCHANGED <<delivered, admitted, waiting, offering, refusals, taken, stopping>>

Admit ==
    /\ inHand # NoFrame /\ ~stopping
    /\ admitted' = TRUE
    /\ UNCHANGED <<delivered, source, inHand, waiting, offering, refusals, taken, stopping>>

HandOver ==
    /\ admitted /\ Len(waiting) < Capacity
    /\ waiting' = Append(waiting, inHand)
    /\ inHand' = NoFrame /\ admitted' = FALSE
    /\ UNCHANGED <<delivered, source, offering, refusals, taken, stopping>>

(* No copy is made of the frame; the failure that makes the relay give it  *)
(* up stops the relay as well.                                             *)
Skip ==
    /\ inHand # NoFrame /\ ~admitted
    /\ inHand' = NoFrame
    /\ stopping' = TRUE
    /\ UNCHANGED <<delivered, source, admitted, waiting, offering, refusals, taken>>

Offer ==
    /\ waiting # <<>> /\ ~offering /\ ~stopping
    /\ refusals <= MaxRetry
    /\ offering' = TRUE
    /\ UNCHANGED <<delivered, source, inHand, admitted, waiting, refusals, taken, stopping>>

Accept ==
    /\ offering
    /\ taken' = Append(taken, Head(waiting))
    /\ waiting' = Tail(waiting)
    /\ offering' = FALSE /\ refusals' = 0
    /\ UNCHANGED <<delivered, source, inHand, admitted, stopping>>

(* The encoder may have taken a frame it refused. *)
Refuse ==
    /\ offering
    /\ offering' = FALSE /\ refusals' = refusals + 1
    /\ taken' \in {taken, Append(taken, Head(waiting))}
    /\ UNCHANGED <<delivered, source, inHand, admitted, waiting, stopping>>

(* The copy to be offered next is given up, on a stop or when it was       *)
(* refused too often.                                                      *)
GiveUp ==
    /\ waiting # <<>> /\ ~offering
    /\ stopping \/ refusals > MaxRetry
    /\ waiting' = Tail(waiting)
    /\ refusals' = 0
    /\ stopping' = TRUE
    /\ UNCHANGED <<delivered, source, inHand, admitted, offering, taken>>

(* What is left at the end. *)
Clear ==
    /\ stopping /\ inHand = NoFrame /\ ~offering
    /\ source' = <<>> /\ waiting' = <<>>
    /\ UNCHANGED <<delivered, inHand, admitted, offering, refusals, taken, stopping>>

Next ==
    \/ Deliver \/ Stop
    \/ Take \/ Admit \/ HandOver \/ Skip
    \/ Offer \/ Accept \/ Refuse \/ GiveUp
    \/ Clear

Spec == Init /\ [][Next]_vars
=============================================================================
