---------------------------- MODULE EncodeOutput ----------------------------
(***************************************************************************)
(* The encode-output thread: it polls the encoder for packets, assembles   *)
(* the partitions of a frame to an access unit and gives the unit to the   *)
(* publisher, and decides when to return.  The encoder is external; what   *)
(* it was given and has not returned yet is its backlog.                   *)
(*                                                                         *)
(* No frame is pushed with the EOS flag, so the EOS branches of the loop   *)
(* are never taken and have no action here.                                *)
(***************************************************************************)
EXTENDS Integers, Sequences

CONSTANTS
    MaxFrame,     \* bound of the model: frames pushed to the encoder
    MaxParts      \* bound of the model: partitions of a frame

ASSUME OutputAssumption == MaxFrame \in Nat /\ MaxParts \in Nat \ {0}


VARIABLES
    accepted,              \* frames the encoder was given
    backlog, parts,        \* frames in the encoder, parts emitted of the first
    skipped,               \* frames the encoder answered with an empty packet
    packets,               \* packets ready to be fetched
    outPc,                 \* where the thread is
    stopNow, inputDoneNow, \* its copies of the flags
    pendingAu,             \* pending_au
    sent,                  \* units given to the publisher
    stop, inputDone, fatal,
    missed                 \* auxiliary: after the end of the input a poll
                           \* found no packet though frames were left

encoderVars == <<accepted, backlog, parts, skipped>>
vars == <<encoderVars, packets, outPc, stopNow, inputDoneNow, pendingAu, sent,
          stop, inputDone, fatal, missed>>

Init ==
    /\ accepted = 0 /\ backlog = <<>> /\ parts = 0 /\ skipped = {}
    /\ packets = <<>>
    /\ outPc = "flags" /\ stopNow = FALSE /\ inputDoneNow = FALSE
    /\ pendingAu = <<>> /\ sent = <<>>
    /\ stop = FALSE /\ inputDone = FALSE /\ fatal = FALSE
    /\ missed = FALSE

-----------------------------------------------------------------------------
(* The encode-input thread pushes until it sees the stop. *)
InputPushes ==
    /\ ~inputDone /\ accepted < MaxFrame
    /\ accepted' = accepted + 1
    /\ backlog' = Append(backlog, accepted + 1)
    /\ UNCHANGED <<parts, skipped, packets, outPc, stopNow, inputDoneNow,
                   pendingAu, sent, stop, inputDone, fatal, missed>>

InputFinishes ==
    /\ stop /\ ~inputDone
    /\ inputDone' = TRUE
    /\ UNCHANGED <<encoderVars, packets, outPc, stopNow, inputDoneNow,
                   pendingAu, sent, stop, fatal, missed>>

RequestStop ==
    /\ ~stop
    /\ stop' = TRUE
    /\ UNCHANGED <<encoderVars, packets, outPc, stopNow, inputDoneNow,
                   pendingAu, sent, inputDone, fatal, missed>>

(* The next partition of the oldest frame, or an empty packet for a frame  *)
(* that is skipped.                                                        *)
EncoderEmits ==
    /\ backlog # <<>>
    /\ \E last, empty \in BOOLEAN :
          /\ parts + 1 = MaxParts => last
          /\ empty => last /\ parts = 0
          /\ packets' = Append(packets, [frame |-> Head(backlog), part |-> parts + 1,
                                         last |-> last, empty |-> empty])
          /\ parts' = IF last THEN 0 ELSE parts + 1
          /\ backlog' = IF last THEN Tail(backlog) ELSE backlog
          /\ skipped' = IF empty THEN skipped \union {Head(backlog)} ELSE skipped
    /\ UNCHANGED <<accepted, outPc, stopNow, inputDoneNow, pendingAu, sent,
                   stop, inputDone, fatal, missed>>

-----------------------------------------------------------------------------
OutputLocal == UNCHANGED <<encoderVars, inputDone>>

(* Both flags are read before the poll. *)
ReadFlags ==
    /\ outPc = "flags"
    /\ stopNow' = stop /\ inputDoneNow' = inputDone
    /\ outPc' = "get"
    /\ OutputLocal
    /\ UNCHANGED <<packets, pendingAu, sent, stop, fatal, missed>>

(* the partition is flushed as if it were a unit *)
EachPacketDone(p) == TRUE

(* Not a partition, or the end of the image. *)
AuDone(p) == p.last

Flushed(au) == IF au = <<>> THEN sent ELSE Append(sent, au)

(* the unit sent is not cleared *)
KeepsSentUnit(au) ==
    /\ pendingAu' = au
    /\ sent' = IF AuDone(au[Len(au)]) THEN Flushed(au) ELSE sent

AppendAndFlush(au) ==
    /\ sent' = IF AuDone(au[Len(au)]) THEN Flushed(au) ELSE sent
    /\ pendingAu' = IF AuDone(au[Len(au)]) THEN <<>> ELSE au

(* A packet is appended to the pending unit and released, and the unit is  *)
(* flushed when it is complete; a stop is not looked at.                   *)
TakePacket ==
    /\ outPc = "get" /\ packets # <<>> /\ ~Head(packets).empty
    /\ AppendAndFlush(Append(pendingAu, Head(packets)))
    /\ packets' = Tail(packets)
    /\ outPc' = "flags"
    /\ OutputLocal
    /\ UNCHANGED <<stopNow, inputDoneNow, stop, fatal, missed>>

(* The packet cannot be released: the pending unit is given up. *)
ReleaseFails ==
    /\ outPc = "get" /\ packets # <<>> /\ ~Head(packets).empty
    /\ pendingAu' = Append(pendingAu, Head(packets))
    /\ packets' = Tail(packets)
    /\ fatal' = TRUE /\ stop' = TRUE
    /\ outPc' = "failed"
    /\ OutputLocal
    /\ UNCHANGED <<stopNow, inputDoneNow, sent, missed>>

(* the flags are read after the poll came back *)
LeaveOnFreshFlags == stop /\ inputDone

(* only the end of the stream ends the loop *)
LeaveOnEosOnly == FALSE

MayLeave == stopNow /\ inputDoneNow

(* kNoPacket: flush and return if the input was done before the poll.      *)
OnNoPacket ==
    /\ IF MayLeave THEN /\ sent' = Flushed(pendingAu) /\ pendingAu' = <<>>
                        /\ outPc' = "exited"
                   ELSE /\ UNCHANGED <<sent, pendingAu>>
                        /\ outPc' = "flags"
    /\ OutputLocal
    /\ UNCHANGED <<stopNow, inputDoneNow, stop, fatal, missed>>

MissedIf(left) == missed' = (missed \/ (stopNow /\ inputDoneNow /\ left))

(* An empty packet counts as none. *)
TakeEmpty ==
    /\ outPc = "get" /\ packets # <<>> /\ Head(packets).empty
    /\ packets' = Tail(packets)
    /\ outPc' = "none"
    /\ MissedIf(packets' # <<>> \/ backlog # <<>>)
    /\ OutputLocal
    /\ UNCHANGED <<stopNow, inputDoneNow, pendingAu, sent, stop, fatal>>

PollTimeout ==
    /\ outPc = "get" /\ packets = <<>>
    /\ outPc' = "none"
    /\ MissedIf(backlog # <<>>)
    /\ OutputLocal
    /\ UNCHANGED <<packets, stopNow, inputDoneNow, pendingAu, sent, stop, fatal>>

NoPacket ==
    /\ outPc = "none"
    /\ OnNoPacket
    /\ UNCHANGED packets

(* kError is no failure once the input is done. *)
GetFails ==
    /\ outPc = "get"
    /\ outPc' = "failed"
    /\ IF MayLeave THEN UNCHANGED <<stop, fatal>> ELSE stop' = TRUE /\ fatal' = TRUE
    /\ OutputLocal
    /\ UNCHANGED <<packets, stopNow, inputDoneNow, pendingAu, sent, missed>>

Output ==
    \/ ReadFlags \/ TakePacket \/ ReleaseFails \/ TakeEmpty \/ PollTimeout
    \/ NoPacket \/ GetFails

(* outPc tells apart how the thread returned: after an error, or not. *)
Returned == outPc \in {"exited", "failed"}

Finished == Returned /\ UNCHANGED vars

Next ==
    \/ InputPushes \/ InputFinishes \/ RequestStop
    \/ EncoderEmits
    \/ Output
    \/ Finished

Spec == Init /\ [][Next]_vars

(* The threads are scheduled; a poll returns after 500 ms at the latest.   *)
(* The encoder comes to an end with every frame.                           *)
FairSpec == Spec /\ WF_vars(Output) /\ WF_vars(InputFinishes) /\ WF_vars(EncoderEmits)

-----------------------------------------------------------------------------
(* A whole frame: all its partitions in order, the last one included. *)
Whole(au) ==
    /\ au # <<>>
    /\ \A i \in DOMAIN au : au[i].frame = au[1].frame /\ au[i].part = i
    /\ \A i \in DOMAIN au : au[i].last <=> i = Len(au)

(* What the publisher gets is one frame, complete; only the last unit,     *)
(* flushed when the thread returns, may be cut short by a poll that missed *)
(* the rest of the frame.                                                  *)
UnitsWhole ==
    \A i \in DOMAIN sent : Whole(sent[i]) \/ (i = Len(sent) /\ outPc = "exited" /\ missed)

(* Frames are published in order, none twice.                              *)
UnitsInOrder ==
    \A i, j \in DOMAIN sent : i < j => sent[i][1].frame < sent[j][1].frame

(* When the thread returns without an error, every frame the encoder took  *)
(* before the input was done has been published or skipped: the end of the *)
(* input alone ends nothing while the encoder has frames left.             *)
BacklogDelivered ==
    outPc = "exited" =>
        \A f \in 1 .. accepted :
            f \in skipped \/ \E i \in DOMAIN sent : sent[i][1].frame = f

(* The order in which flags and packets are read loses no frame: one is    *)
(* left behind only by a poll that started after the end of the input and  *)
(* found no packet while the encoder still worked on frames.               *)
DeliveredUnlessMissed == missed \/ BacklogDelivered

(* After a stop the thread returns. *)
OutputExits == stop ~> Returned
=============================================================================
