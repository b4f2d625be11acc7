----------------------------- MODULE EncodeFeed -----------------------------
(***************************************************************************)
(* From the decoded frame to the encoder: the RGA thread copies a decoded  *)
(* frame into a buffer of the RGA output pool and hands the copy to the    *)
(* encode-input thread, which pushes it into the encoder, retries, and     *)
(* gives the buffer back to the pool; the decoded frame itself goes back   *)
(* to the decoder through the recycle thread.  Main drains what is left    *)
(* when all have returned.                                                 *)
(*                                                                         *)
(* A frame is its number in decoding order; an output is its index in      *)
(* output_pool_.  Each test of stop_requested is a step of its own, so a   *)
(* stop may come between the test and what follows it.                     *)
(***************************************************************************)
EXTENDS Integers, Sequences, FiniteSets, Functions

CONSTANTS
    OutputCount,      \* kRgaOutputBufferCount
    MaxFrame,         \* bound of the model: frames the decoder delivers
    MaxCopyRetry,     \* kMaxRgaTransformRetry
    MaxPushRetry      \* kMaxEncodePushRetry

ASSUME FeedAssumption ==
    /\ OutputCount \in Nat \ {0}
    /\ MaxFrame \in Nat
    /\ MaxCopyRetry \in Nat \ {0}
    /\ MaxPushRetry \in Nat

Output == 1 .. OutputCount
NoOutput == 0
Frame == 1 .. MaxFrame
NoFrame == 0    \* a pts_us of -1 as well: no frame's time stamp

VARIABLES
    decodedCount,           \* frames the decode thread has delivered
    rgaConsumeQueue, mppRecycleOutputQueue, mppEncodeInputQueue,
    poolReady,              \* output_pool_ready_
    available,              \* output_pool_available_queue_
    inUse,                  \* output_pool_in_use_
    content,                \* the frame whose pts an output carries
    rgaPc, inputDesc, rgaOutput, copyRetry, encoderIoReady, rgaDone,
    encPc, encodeHeld, pushFailures, inputDone,
    encoded,                \* the frames the encoder took, in order
    untold,                 \* auxiliary: those taken by a push that failed
    recPc, pendingOutputs,  \* recycle thread
    returned,               \* frames given back to the decoder
    stop, fatal,
    mainPc

poolVars == <<poolReady, available, inUse, content>>
rgaVars  == <<rgaPc, inputDesc, rgaOutput, copyRetry, encoderIoReady, rgaDone>>
encVars  == <<encPc, encodeHeld, pushFailures, inputDone, encoded, untold>>
recVars  == <<recPc, pendingOutputs, returned>>
vars == <<decodedCount, rgaConsumeQueue, mppRecycleOutputQueue,
          mppEncodeInputQueue, poolVars, rgaVars, encVars, recVars, stop,
          fatal, mainPc>>

Init ==
    /\ decodedCount = 0
    /\ rgaConsumeQueue = <<>> /\ mppRecycleOutputQueue = <<>>
    /\ mppEncodeInputQueue = <<>>
    /\ poolReady = FALSE /\ available = <<>>
    /\ inUse = [o \in Output |-> FALSE]
    /\ content = [o \in Output |-> NoFrame]
    /\ rgaPc = "wait" /\ inputDesc = NoFrame /\ rgaOutput = NoOutput
    /\ copyRetry = 0 /\ encoderIoReady = FALSE /\ rgaDone = FALSE
    /\ encPc = "wait" /\ encodeHeld = NoOutput /\ pushFailures = 0
    /\ inputDone = FALSE /\ encoded = <<>> /\ untold = {}
    /\ recPc = "run" /\ pendingOutputs = <<>> /\ returned = {}
    /\ stop = FALSE /\ fatal = FALSE
    /\ mainPc = "run"

-----------------------------------------------------------------------------
(***************************************************************************)
(* The RGA output pool                                                     *)
(***************************************************************************)
(* front() without pop() *)
NotPopped(q) == q

Popped(q) == Tail(q)

(* AcquireOutputPoolBuffer, after InitOutputPoolIfNeeded filled the queue  *)
(* on the first call.                                                      *)
AcquireFrom(q) ==
    /\ q # <<>>
    /\ rgaOutput' = Head(q)
    /\ available' = Popped(q)
    /\ inUse' = [inUse EXCEPT ![Head(q)] = TRUE]

(* Idempotent: a buffer that is not in use is left alone. *)
QueueOutputToRecycle(o) ==
    /\ available' = IF inUse[o] THEN Append(available, o) ELSE available
    /\ content' = IF inUse[o] THEN [content EXCEPT ![o] = NoFrame] ELSE content
    /\ inUse' = [inUse EXCEPT ![o] = FALSE]
    /\ UNCHANGED poolReady

(* fatal_error and request_stop *)
Fail == fatal' = TRUE /\ stop' = TRUE
NoFailure == UNCHANGED <<stop, fatal>>

-----------------------------------------------------------------------------
(***************************************************************************)
(* The rest of the process                                                 *)
(***************************************************************************)
(* The decode thread, which main joins before it drains. *)
DeliverDecoded ==
    /\ mainPc = "run" /\ decodedCount < MaxFrame
    /\ decodedCount' = decodedCount + 1
    /\ rgaConsumeQueue' = Append(rgaConsumeQueue, decodedCount + 1)
    /\ UNCHANGED <<mppRecycleOutputQueue, mppEncodeInputQueue, poolVars,
                   rgaVars, encVars, recVars, stop, fatal, mainPc>>

RequestStop ==
    /\ ~stop
    /\ stop' = TRUE
    /\ UNCHANGED <<decodedCount, rgaConsumeQueue, mppRecycleOutputQueue,
                   mppEncodeInputQueue, poolVars, rgaVars, encVars, recVars,
                   fatal, mainPc>>

(***************************************************************************)
(* RGA thread                                                              *)
(***************************************************************************)
RgaLocal == UNCHANGED <<decodedCount, encVars, recVars, mainPc>>

TakeDecoded ==
    /\ rgaPc = "wait" /\ rgaConsumeQueue # <<>>
    /\ inputDesc' = Head(rgaConsumeQueue)
    /\ rgaConsumeQueue' = Tail(rgaConsumeQueue)
    /\ rgaOutput' = NoOutput /\ copyRetry' = 0
    /\ rgaPc' = "copy"
    /\ NoFailure /\ RgaLocal
    /\ UNCHANGED <<poolVars, mppRecycleOutputQueue, mppEncodeInputQueue,
                   encoderIoReady, rgaDone>>

(* the thread returns without setting rga_thread_done *)
RgaLeavesQuietly == rgaPc' = "exited" /\ UNCHANGED rgaDone

RgaLeaves == rgaPc' = "exited" /\ rgaDone' = TRUE

RgaExit ==
    /\ rgaPc = "wait" /\ rgaConsumeQueue = <<>> /\ stop
    /\ RgaLeaves
    /\ NoFailure /\ RgaLocal
    /\ UNCHANGED <<poolVars, rgaConsumeQueue, mppRecycleOutputQueue,
                   mppEncodeInputQueue, inputDesc, rgaOutput, copyRetry,
                   encoderIoReady>>

(* The steps between taking a frame and handing its copy over touch no     *)
(* queue of main.cpp.                                                      *)
Copying ==
    /\ RgaLocal
    /\ UNCHANGED <<rgaConsumeQueue, mppRecycleOutputQueue,
                   mppEncodeInputQueue, inputDesc, rgaDone>>

(* while (!stop_requested): no copy was made. *)
CopyStopped ==
    /\ rgaPc = "copy" /\ stop
    /\ rgaPc' = "return"
    /\ NoFailure /\ Copying
    /\ UNCHANGED <<poolVars, rgaOutput, copyRetry, encoderIoReady>>

CopyAcquires ==
    /\ rgaPc = "copy" /\ ~stop
    /\ AcquireFrom(IF poolReady THEN available ELSE [o \in Output |-> o])
    /\ poolReady' = TRUE
    /\ rgaPc' = "blit"
    /\ NoFailure /\ Copying
    /\ UNCHANGED <<content, copyRetry, encoderIoReady>>

(* the retries are not counted *)
CopyRetriesForever == NoFailure /\ UNCHANGED copyRetry /\ rgaPc' = "copy"

(* Copy returned null: try again, up to the bound. *)
CopyReturnsNull ==
    /\ copyRetry' = copyRetry + 1
    /\ IF copyRetry + 1 >= MaxCopyRetry
       THEN Fail /\ rgaPc' = "return"
       ELSE NoFailure /\ rgaPc' = "copy"

(* No output is available, the pool cannot be allocated, or the source is  *)
(* not acceptable.                                                         *)
CopyFails ==
    /\ rgaPc = "copy" /\ ~stop
    /\ CopyReturnsNull /\ Copying
    /\ UNCHANGED <<poolVars, rgaOutput, encoderIoReady>>

BlitFails ==
    /\ rgaPc = "blit"
    /\ QueueOutputToRecycle(rgaOutput) /\ rgaOutput' = NoOutput
    /\ CopyReturnsNull /\ Copying
    /\ UNCHANGED encoderIoReady

BlitSucceeds ==
    /\ rgaPc = "blit"
    /\ content' = [content EXCEPT ![rgaOutput] = inputDesc]
    /\ rgaPc' = IF encoderIoReady THEN "handover" ELSE "import"
    /\ NoFailure /\ Copying
    /\ UNCHANGED <<poolReady, available, inUse, rgaOutput, copyRetry, encoderIoReady>>

(* AllocBufferForIO, once, with the first output. *)
ImportSucceeds ==
    /\ rgaPc = "import"
    /\ encoderIoReady' = TRUE
    /\ rgaPc' = "handover"
    /\ NoFailure /\ Copying
    /\ UNCHANGED <<poolVars, rgaOutput, copyRetry>>

ImportFails ==
    /\ rgaPc = "import"
    /\ QueueOutputToRecycle(rgaOutput) /\ rgaOutput' = NoOutput
    /\ Fail /\ rgaPc' = "return"
    /\ Copying
    /\ UNCHANGED <<copyRetry, encoderIoReady>>

(* A stop seen here leaves the output in use, in nobody's hands. *)
HandOverStopped ==
    /\ rgaPc = "handover" /\ stop
    /\ rgaOutput' = NoOutput
    /\ rgaPc' = "return"
    /\ NoFailure /\ Copying
    /\ UNCHANGED <<poolVars, copyRetry, encoderIoReady>>

HandOver ==
    /\ rgaPc = "handover" /\ ~stop
    /\ rgaPc' = "enqueue"
    /\ NoFailure /\ Copying
    /\ UNCHANGED <<poolVars, rgaOutput, copyRetry, encoderIoReady>>

EnqueueEncodeInput ==
    /\ rgaPc = "enqueue"
    /\ mppEncodeInputQueue' = Append(mppEncodeInputQueue, rgaOutput)
    /\ rgaOutput' = NoOutput
    /\ rgaPc' = "return"
    /\ NoFailure /\ RgaLocal
    /\ UNCHANGED <<poolVars, rgaConsumeQueue, mppRecycleOutputQueue, inputDesc,
                   copyRetry, encoderIoReady, rgaDone>>

ReturnInput ==
    /\ rgaPc = "return"
    /\ mppRecycleOutputQueue' = Append(mppRecycleOutputQueue, inputDesc)
    /\ inputDesc' = NoFrame
    /\ rgaPc' = "wait"
    /\ NoFailure /\ RgaLocal
    /\ UNCHANGED <<poolVars, rgaConsumeQueue, mppEncodeInputQueue, rgaOutput,
                   copyRetry, encoderIoReady, rgaDone>>

(***************************************************************************)
(* Encode-input thread                                                     *)
(***************************************************************************)
EncLocal == UNCHANGED <<decodedCount, rgaConsumeQueue, mppRecycleOutputQueue,
                        rgaVars, recVars, mainPc>>

EncExits == encPc' = "exited" /\ inputDone' = TRUE

TakeEncodeInput ==
    /\ encPc = "wait" /\ mppEncodeInputQueue # <<>>
    /\ encodeHeld' = Head(mppEncodeInputQueue)
    /\ mppEncodeInputQueue' = Tail(mppEncodeInputQueue)
    /\ encPc' = "check"
    /\ NoFailure /\ EncLocal
    /\ UNCHANGED <<poolVars, pushFailures, inputDone, encoded, untold>>

EncodeInputExit ==
    /\ encPc = "wait" /\ mppEncodeInputQueue = <<>> /\ stop
    /\ EncExits
    /\ NoFailure /\ EncLocal
    /\ UNCHANGED <<poolVars, mppEncodeInputQueue, encodeHeld, pushFailures, encoded, untold>>

(* Stop was seen before the push, or after it failed. *)
EncodeStopped ==
    /\ encPc \in {"check", "failed"} /\ stop
    /\ QueueOutputToRecycle(encodeHeld) /\ encodeHeld' = NoOutput
    /\ EncExits
    /\ NoFailure /\ EncLocal
    /\ UNCHANGED <<mppEncodeInputQueue, pushFailures, encoded, untold>>

EncodeProceeds ==
    /\ encPc = "check" /\ ~stop
    /\ encPc' = "push"
    /\ NoFailure /\ EncLocal
    /\ UNCHANGED <<poolVars, mppEncodeInputQueue, encodeHeld, pushFailures,
                   inputDone, encoded, untold>>

(* EncodePushFrame *)
EncoderTakes == encoded' = Append(encoded, content[encodeHeld])

PushSucceeds ==
    /\ encPc = "push"
    /\ EncoderTakes
    /\ pushFailures' = 0
    /\ encPc' = "release"
    /\ NoFailure /\ EncLocal
    /\ UNCHANGED <<poolVars, mppEncodeInputQueue, encodeHeld, inputDone, untold>>

(* The encoder refused the frame, or took it and mpp_frame_deinit failed. *)
PushFails ==
    /\ encPc = "push"
    /\ \/ UNCHANGED <<encoded, untold>>
       \/ EncoderTakes /\ untold' = untold \union {content[encodeHeld]}
    /\ encPc' = "failed"
    /\ NoFailure /\ EncLocal
    /\ UNCHANGED <<poolVars, mppEncodeInputQueue, encodeHeld, pushFailures, inputDone>>

(* push_back where push_front is meant *)
PushedBack(o, q) == Append(q, o)

PushedFront(o, q) == <<o>> \o q

RetryPush ==
    /\ encPc = "failed" /\ ~stop
    /\ pushFailures < MaxPushRetry
    /\ pushFailures' = pushFailures + 1
    /\ mppEncodeInputQueue' = PushedFront(encodeHeld, mppEncodeInputQueue)
    /\ encodeHeld' = NoOutput
    /\ encPc' = "wait"
    /\ NoFailure /\ EncLocal
    /\ UNCHANGED <<poolVars, inputDone, encoded, untold>>

GiveUpPush ==
    /\ encPc = "failed" /\ ~stop
    /\ pushFailures >= MaxPushRetry
    /\ pushFailures' = pushFailures + 1
    /\ QueueOutputToRecycle(encodeHeld) /\ encodeHeld' = NoOutput
    /\ Fail /\ EncExits
    /\ EncLocal
    /\ UNCHANGED <<mppEncodeInputQueue, encoded, untold>>

(* the buffer of an encoded frame is kept *)
ReleaseForgotten ==
    /\ encPc = "release"
    /\ encodeHeld' = NoOutput
    /\ encPc' = "wait"
    /\ NoFailure /\ EncLocal
    /\ UNCHANGED <<poolVars, mppEncodeInputQueue, pushFailures, inputDone, encoded, untold>>

ReleaseEncoded ==
    /\ encPc = "release"
    /\ QueueOutputToRecycle(encodeHeld) /\ encodeHeld' = NoOutput
    /\ encPc' = "wait"
    /\ NoFailure /\ EncLocal
    /\ UNCHANGED <<mppEncodeInputQueue, pushFailures, inputDone, encoded, untold>>

(***************************************************************************)
(* Recycle thread of the decoder's outputs, and main                       *)
(***************************************************************************)
RecLocal == UNCHANGED <<decodedCount, rgaConsumeQueue, mppEncodeInputQueue,
                        poolVars, rgaVars, encVars, stop, fatal, mainPc>>

RecycleTake ==
    /\ recPc = "run" /\ pendingOutputs = <<>> /\ mppRecycleOutputQueue # <<>>
    /\ pendingOutputs' = mppRecycleOutputQueue
    /\ mppRecycleOutputQueue' = <<>>
    /\ RecLocal
    /\ UNCHANGED <<recPc, returned>>

RecycleReturn ==
    /\ recPc = "run" /\ pendingOutputs # <<>>
    /\ returned' = returned \union {Head(pendingOutputs)}
    /\ pendingOutputs' = Tail(pendingOutputs)
    /\ RecLocal
    /\ UNCHANGED <<recPc, mppRecycleOutputQueue>>

(* the recycle thread does not wait for the RGA thread *)
ReadyToLeave == stop
MayLeave == stop /\ rgaDone

RecycleExit ==
    /\ recPc = "run" /\ pendingOutputs = <<>>
    /\ mppRecycleOutputQueue = <<>> /\ MayLeave
    /\ recPc' = "exited"
    /\ RecLocal
    /\ UNCHANGED <<mppRecycleOutputQueue, pendingOutputs, returned>>

(* After the joins main gives back what is in the two queues and clears    *)
(* the third: the frames in it stay with the decoder's holders.            *)
FinalDrain ==
    /\ mainPc = "run"
    /\ rgaPc = "exited" /\ encPc = "exited" /\ recPc = "exited"
    /\ returned' = returned \union Range(mppRecycleOutputQueue)
    /\ mppRecycleOutputQueue' = <<>>
    /\ available' = available \o mppEncodeInputQueue
    /\ inUse' = [o \in Output |-> inUse[o] /\ o \notin Range(mppEncodeInputQueue)]
    /\ content' = [o \in Output |-> IF o \in Range(mppEncodeInputQueue)
                                    THEN NoFrame ELSE content[o]]
    /\ mppEncodeInputQueue' = <<>>
    /\ rgaConsumeQueue' = <<>>
    /\ mainPc' = "done"
    /\ UNCHANGED <<decodedCount, poolReady, rgaVars, encVars, recPc,
                   pendingOutputs, stop, fatal>>

Rga ==
    \/ TakeDecoded \/ RgaExit \/ CopyStopped \/ CopyAcquires \/ CopyFails
    \/ BlitFails \/ BlitSucceeds \/ ImportSucceeds \/ ImportFails
    \/ HandOverStopped \/ HandOver \/ EnqueueEncodeInput \/ ReturnInput

EncodeInput ==
    \/ TakeEncodeInput \/ EncodeInputExit \/ EncodeStopped \/ EncodeProceeds
    \/ PushSucceeds \/ PushFails \/ RetryPush \/ GiveUpPush \/ ReleaseEncoded

RecycleOutputs == RecycleTake \/ RecycleReturn \/ RecycleExit

Finished == mainPc = "done" /\ UNCHANGED vars

Next ==
    \/ DeliverDecoded \/ RequestStop
    \/ Rga \/ EncodeInput \/ RecycleOutputs
    \/ FinalDrain \/ Finished

Spec == Init /\ [][Next]_vars

(* The threads are scheduled; the calls into RGA and MPP return, within    *)
(* the 500 ms timeouts given to MPP.                                       *)
FairSpec == Spec /\ WF_vars(Rga) /\ WF_vars(EncodeInput)
                 /\ WF_vars(RecycleOutputs) /\ WF_vars(FinalDrain)

-----------------------------------------------------------------------------
(* The types of the state. *)
TypeOK ==
    /\ decodedCount \in 0 .. MaxFrame
    /\ rgaConsumeQueue \in Seq(Frame) /\ mppRecycleOutputQueue \in Seq(Frame)
    /\ mppEncodeInputQueue \in Seq(Output)
    /\ poolReady \in BOOLEAN /\ available \in Seq(Output)
    /\ inUse \in [Output -> BOOLEAN]
    /\ content \in [Output -> Frame \union {NoFrame}]
    /\ rgaPc \in {"wait", "copy", "blit", "import", "handover", "enqueue",
                  "return", "exited"}
    /\ inputDesc \in Frame \union {NoFrame}
    /\ rgaOutput \in Output \union {NoOutput}
    /\ copyRetry \in 0 .. MaxCopyRetry
    /\ encoderIoReady \in BOOLEAN /\ rgaDone \in BOOLEAN
    /\ encPc \in {"wait", "check", "push", "failed", "release", "exited"}
    /\ encodeHeld \in Output \union {NoOutput}
    /\ pushFailures \in 0 .. MaxPushRetry + 1
    /\ inputDone \in BOOLEAN /\ encoded \in Seq(Frame)
    /\ untold \in SUBSET Frame
    /\ recPc \in {"run", "exited"} /\ pendingOutputs \in Seq(Frame)
    /\ returned \in SUBSET Frame
    /\ stop \in BOOLEAN /\ fatal \in BOOLEAN
    /\ mainPc \in {"run", "done"}

(* Outputs somebody is going to give back. *)
InHands == Range(mppEncodeInputQueue) \union ({rgaOutput, encodeHeld} \ {NoOutput})

(* The pool and the threads agree on every output: it is available once,   *)
(* or in use and in at most one place, and never both.  An output that was *)
(* available twice would be overwritten by the RGA while it is encoded.    *)
PoolConsistent ==
    /\ IsInjective(available) /\ IsInjective(mppEncodeInputQueue)
    /\ poolReady => Range(available) = {o \in Output : ~inUse[o]}
    /\ \A o \in InHands : inUse[o]
    /\ rgaOutput # NoOutput =>
          rgaOutput # encodeHeld /\ rgaOutput \notin Range(mppEncodeInputQueue)
    /\ encodeHeld \notin Range(mppEncodeInputQueue)

(* An output is lost to the pool, in use and in nobody's hands, only when  *)
(* the process is stopping.  When main is done at most one is missing, the *)
(* one whose copy the RGA thread had finished when it saw the stop: all    *)
(* others, those in the queue and being retried included, were given back. *)
OutputsKept ==
    /\ {o \in Output : inUse[o]} = InHands \/ stop
    /\ mainPc = "done" /\ poolReady => Len(available) >= OutputCount - 1

(* The encoder gets every frame the decoder delivered, in order, up to the *)
(* stop, however often a push is put off and retried, the pool runs dry or *)
(* a copy fails; and once, but for a frame it took while the push failed.  *)
EncodedInOrder ==
    \A i \in DOMAIN encoded :
       LET last == IF i = 1 THEN 0 ELSE encoded[i - 1] IN
       encoded[i] = last + 1 \/ (encoded[i] = last /\ last \in untold)

(* The frames waiting for the encoder keep their content and their order,  *)
(* the one put back for a retry included: nobody recycles or overwrites an *)
(* output that is still to be encoded.                                     *)
Waiting == IF encPc \in {"check", "push", "failed"}
           THEN <<encodeHeld>> \o mppEncodeInputQueue ELSE mppEncodeInputQueue
ContentKept ==
    /\ \A i \in DOMAIN Waiting : content[Waiting[i]] # NoFrame
    /\ \A i, j \in DOMAIN Waiting :
          i < j => content[Waiting[i]] < content[Waiting[j]]

(* The frames whose copies wait for the encoder.                           *)
Copies == [i \in 1 .. Len(Waiting) |-> content[Waiting[i]]]

(* The frame whose copy is not handed over or given up yet.                *)
Copied == IF rgaPc = "return" THEN NoFrame ELSE inputDesc

(* Pushes in a row that failed, the one just made included.                *)
Refusals ==
    CASE encPc = "failed" -> pushFailures + 1
      [] encPc = "exited" -> 0
      [] OTHER -> pushFailures

Relay == INSTANCE FrameRelay WITH
    Capacity <- OutputCount, MaxRetry <- MaxPushRetry,
    delivered <- decodedCount, source <- rgaConsumeQueue,
    inHand <- Copied, admitted <- (rgaPc = "enqueue"),
    waiting <- Copies,
    offering <- (encPc = "push"), refusals <- Refusals,
    taken <- encoded, stopping <- stop

(* The three threads together are a relay: whatever the pool, the retries  *)
(* and the order of their steps, a frame skipped, put back, offered once   *)
(* more or offered with the content of another is one the relay allows.    *)
ImplementsRelay == Relay!Spec

(* A delivered frame's descriptor is in exactly one place until it is back *)
(* with the decoder; the recycle thread leaves nothing behind, because it  *)
(* waits for the RGA thread to be done.                                    *)
FramesReturned ==
    /\ \A s \in {rgaConsumeQueue, mppRecycleOutputQueue, pendingOutputs} :
          IsInjective(s) /\ Range(s) \intersect (returned \union {inputDesc}) = {}
    /\ recPc = "exited" => mppRecycleOutputQueue = <<>> /\ pendingOutputs = <<>>
    /\ mainPc = "run" =>
          1 .. decodedCount = returned \union Range(rgaConsumeQueue)
              \union Range(mppRecycleOutputQueue) \union Range(pendingOutputs)
              \union ({inputDesc} \ {NoFrame})

(* Every delivered frame goes back to the decoder, whatever happens to its *)
(* copy, until the process stops.                                          *)
DecodedReturns ==
    \A f \in Frame : decodedCount >= f ~> (f \in returned \/ stop)

(* After a stop all three threads return and main drains. *)
FeedStops == stop ~> mainPc = "done"
=============================================================================
