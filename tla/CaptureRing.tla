----------------------------- MODULE CaptureRing -----------------------------
(***************************************************************************)
(* The ring of camera buffers shared by the V4L2 driver, the capture       *)
(* thread and the decode thread of main.cpp: a buffer is queued in the     *)
(* driver, filled by the sensor, dequeued by the capture thread, handed    *)
(* over through readyQueue, decoded, handed back through recycleQueue and  *)
(* queued in the driver again by the capture thread.                       *)
(*                                                                         *)
(* A step is what happens between two points where another thread can      *)
(* interfere: one critical section of ready_mutex or recycle_mutex, one    *)
(* ioctl on the camera, one call of the decoder.  The waits on ready_cv    *)
(* are guards here; the window between testing the predicate and blocking  *)
(* is the subject of module Shutdown.                                      *)
(***************************************************************************)
EXTENDS Integers, Sequences, FiniteSets, Functions

CONSTANTS
    Buffer,      \* the buffers the driver granted: FrameDescArray[0 .. NumBuffers-1]
    ReadyDepth,  \* kMaxReadyQueueDepth, 12 in the code whatever was granted
    MaxTs,       \* bound of the model: frame timestamps saturate here
    NoBuf        \* the null FrameDesc pointer

ASSUME RingAssumption ==
    /\ IsFiniteSet(Buffer) /\ Buffer # {}
    /\ ReadyDepth \in Nat \ {0}
    /\ MaxTs \in Nat
    /\ NoBuf \notin Buffer

VARIABLES
    queued,        \* buffers lent to the driver and still empty
    done,          \* filled buffers waiting in the driver, oldest first
    stamp,         \* stamp[b]: when the driver filled b last
    clock,         \* the driver's clock
    pts,           \* FrameDesc.pts_us, -1 when reset
    cpuSync,       \* FrameDesc.cpuSyncReadActive
    readyQueue, recycleQueue,
    recycledBatch, \* recycled_batch, local to the capture loop
    current,       \* CurrentFrameDesc of the camera
    droppedDesc,   \* dropped_desc, local to the capture loop
    held,          \* frame_desc of the decode thread
    decoded,       \* timestamp of the last frame given to MppDecode
    capPc, decPc,  \* where the two threads are
    stop, fatal,   \* stop_requested, fatal_error
    owner          \* auxiliary: who has the buffer; no guard reads it

driverVars  == <<queued, done, stamp, clock>>
captureVars == <<recycledBatch, current, droppedDesc, capPc>>
decodeVars  == <<held, decoded, decPc>>
vars == <<queued, done, stamp, clock, pts, cpuSync, readyQueue, recycleQueue,
          recycledBatch, current, droppedDesc, held, decoded, capPc, decPc,
          stop, fatal, owner>>

Place == {"queued", "done", "batch", "current", "ready", "dropped", "held",
          "recycle", "lost"}
Owned(b, p) == owner' = [owner EXCEPT ![b] = p]
Timestamp == 0 .. MaxTs

(* init_camera_buffer queued every granted buffer, STREAMON followed, and  *)
(* then the threads were started.                                          *)
Init ==
    /\ queued = Buffer /\ done = <<>>
    /\ stamp = [b \in Buffer |-> 0] /\ clock = 0
    /\ pts = [b \in Buffer |-> -1]
    /\ cpuSync = [b \in Buffer |-> FALSE]
    /\ readyQueue = <<>> /\ recycleQueue = <<>> /\ recycledBatch = <<>>
    /\ current = NoBuf /\ droppedDesc = NoBuf /\ held = NoBuf
    /\ decoded = -1
    /\ capPc = "drain" /\ decPc = "wait"
    /\ stop = FALSE /\ fatal = FALSE
    /\ owner = [b \in Buffer |-> "queued"]

-----------------------------------------------------------------------------
(***************************************************************************)
(* Variants of the steps below with an error in them.  No specification    *)
(* uses them; they show which property notices which error.                *)
(***************************************************************************)
(* a failed requeue is logged, and the rest of the batch skipped *)
RequeueFailureIgnored ==
    /\ capPc = "requeue" /\ recycledBatch # <<>>
    /\ owner' = [b \in Buffer |-> IF owner[b] = "batch" THEN "lost" ELSE owner[b]]
    /\ recycledBatch' = <<>>
    /\ UNCHANGED <<pts, cpuSync, readyQueue, recycleQueue, current, droppedDesc,
                   capPc, stop, fatal>>
    /\ UNCHANGED driverVars /\ UNCHANGED decodeVars

(* CurrentFrameDesc is not set *)
ReadForgetsCurrent ==
    /\ capPc = "read" /\ done # <<>>
    /\ LET b == Head(done) IN
       /\ pts' = [pts EXCEPT ![b] = stamp[b]]
       /\ cpuSync' = [cpuSync EXCEPT ![b] = TRUE]
       /\ Owned(b, "current")
    /\ done' = Tail(done)
    /\ capPc' = "push"
    /\ UNCHANGED <<queued, stamp, clock, readyQueue, recycleQueue,
                   recycledBatch, current, droppedDesc, stop, fatal>>
    /\ UNCHANGED decodeVars

(* > for >= in the test of the depth *)
PushReadyOneTooMany ==
    /\ capPc = "push"
    /\ Len(readyQueue) <= ReadyDepth
    /\ readyQueue' = Append(readyQueue, current)
    /\ Owned(current, "ready")
    /\ capPc' = "drain"
    /\ UNCHANGED <<pts, cpuSync, recycleQueue, recycledBatch, current,
                   droppedDesc, stop, fatal>>
    /\ UNCHANGED driverVars /\ UNCHANGED decodeVars

(* front() without pop_front(), and back() for front() *)
PushReadyKeepsDropped ==
    /\ capPc = "push"
    /\ Len(readyQueue) >= ReadyDepth
    /\ readyQueue' = Append(readyQueue, current)
    /\ droppedDesc' = Head(readyQueue)
    /\ owner' = [owner EXCEPT ![current] = "ready", ![Head(readyQueue)] = "dropped"]
    /\ capPc' = "drop"
    /\ UNCHANGED <<pts, cpuSync, recycleQueue, recycledBatch, current, stop, fatal>>
    /\ UNCHANGED driverVars /\ UNCHANGED decodeVars

PushReadyDropsNewest ==
    /\ capPc = "push"
    /\ Len(readyQueue) >= ReadyDepth
    /\ LET n == Len(readyQueue) IN
       /\ readyQueue' = Append(SubSeq(readyQueue, 1, n - 1), current)
       /\ droppedDesc' = readyQueue[n]
       /\ owner' = [owner EXCEPT ![current] = "ready", ![readyQueue[n]] = "dropped"]
    /\ capPc' = "drop"
    /\ UNCHANGED <<pts, cpuSync, recycleQueue, recycledBatch, current, stop, fatal>>
    /\ UNCHANGED driverVars /\ UNCHANGED decodeVars

(* the decode thread serves the newest frame first *)
TakeNewest ==
    /\ decPc = "wait" /\ readyQueue # <<>>
    /\ LET n == Len(readyQueue) IN
       /\ held' = readyQueue[n]
       /\ readyQueue' = SubSeq(readyQueue, 1, n - 1)
       /\ Owned(readyQueue[n], "held")
    /\ decPc' = "decode"
    /\ UNCHANGED <<pts, cpuSync, recycleQueue, stop, fatal, decoded>>
    /\ UNCHANGED driverVars /\ UNCHANGED captureVars

(* fatal_error where stop_requested is meant *)
DecodeExitsOnFatal ==
    /\ decPc = "wait" /\ readyQueue = <<>> /\ fatal
    /\ decPc' = "exited"
    /\ UNCHANGED <<pts, cpuSync, readyQueue, recycleQueue, stop, fatal, owner,
                   held, decoded>>
    /\ UNCHANGED driverVars /\ UNCHANGED captureVars

(* the hardware starts while the CPU read window is open *)
DecodeWithoutSync ==
    /\ decPc = "decode"
    /\ decoded' = pts[held]
    /\ decPc' = "hardware"
    /\ UNCHANGED <<pts, cpuSync, readyQueue, recycleQueue, stop, fatal, owner, held>>
    /\ UNCHANGED driverVars /\ UNCHANGED captureVars

(* continue after a failed decode, past the push to recycleQueue *)
RejectSkipsRecycle ==
    /\ decPc = "decode"
    /\ held' = NoBuf
    /\ decPc' = "wait"
    /\ UNCHANGED <<pts, cpuSync, readyQueue, recycleQueue, stop, fatal, owner,
                   decoded>>
    /\ UNCHANGED driverVars /\ UNCHANGED captureVars

-----------------------------------------------------------------------------
(***************************************************************************)
(* The V4L2 driver (external) and the rest of the process                  *)
(***************************************************************************)
Fill(b) ==
    /\ b \in queued
    /\ queued' = queued \ {b}
    /\ done' = Append(done, b)
    /\ \E t \in Timestamp : t >= clock /\ t <= clock + 1 /\ clock' = t
    /\ stamp' = [stamp EXCEPT ![b] = clock']
    /\ Owned(b, "done")
    /\ UNCHANGED <<pts, cpuSync, readyQueue, recycleQueue, stop, fatal>>
    /\ UNCHANGED captureVars /\ UNCHANGED decodeVars

(* Ctrl+C, or a fatal error of another thread. *)
RequestStop ==
    /\ ~stop
    /\ stop' = TRUE
    /\ UNCHANGED <<pts, cpuSync, readyQueue, recycleQueue, fatal, owner>>
    /\ UNCHANGED driverVars /\ UNCHANGED captureVars /\ UNCHANGED decodeVars

(***************************************************************************)
(* Capture thread                                                          *)
(***************************************************************************)
CaptureExit ==
    /\ capPc \in {"drain", "requeue"}
    /\ stop
    /\ capPc = "requeue" => recycledBatch = <<>>
    /\ capPc' = "exited"
    /\ UNCHANGED <<pts, cpuSync, readyQueue, recycleQueue, stop, fatal, owner,
                   recycledBatch, current, droppedDesc>>
    /\ UNCHANGED driverVars /\ UNCHANGED decodeVars

DrainRecycleQueue ==
    /\ capPc = "drain" /\ ~stop
    /\ recycledBatch' = recycleQueue
    /\ recycleQueue' = <<>>
    /\ droppedDesc' = NoBuf
    /\ capPc' = "requeue"
    /\ owner' = [b \in Buffer |-> IF owner[b] = "recycle" THEN "batch" ELSE owner[b]]
    /\ UNCHANGED <<pts, cpuSync, readyQueue, current, stop, fatal>>
    /\ UNCHANGED driverVars /\ UNCHANGED decodeVars

(* requeue_buffer: end the CPU read window, QBUF, reset the descriptor. *)
RequeueBuffer ==
    /\ capPc = "requeue" /\ recycledBatch # <<>>
    /\ LET b == Head(recycledBatch) IN
       /\ cpuSync' = [cpuSync EXCEPT ![b] = FALSE]
       /\ queued' = queued \union {b}
       /\ pts' = [pts EXCEPT ![b] = -1]
       /\ current' = IF current = b THEN NoBuf ELSE current
       /\ Owned(b, "queued")
    /\ recycledBatch' = Tail(recycledBatch)
    /\ UNCHANGED <<done, stamp, clock, readyQueue, recycleQueue, droppedDesc,
                   capPc, stop, fatal>>
    /\ UNCHANGED decodeVars

(* The sync ioctl or QBUF failed: the batch is abandoned. *)
RequeueFails ==
    /\ capPc = "requeue" /\ recycledBatch # <<>>
    /\ LET b == Head(recycledBatch) IN
       \E ended \in BOOLEAN :
          cpuSync' = [cpuSync EXCEPT ![b] = @ /\ ~ended]
    /\ owner' = [b \in Buffer |-> IF owner[b] = "batch" THEN "lost" ELSE owner[b]]
    /\ recycledBatch' = <<>>
    /\ fatal' = TRUE /\ stop' = TRUE
    /\ capPc' = "exited"
    /\ UNCHANGED <<pts, readyQueue, recycleQueue, current, droppedDesc>>
    /\ UNCHANGED driverVars /\ UNCHANGED decodeVars

(* The batch is done and no stop was seen: block in poll. *)
BeginRead ==
    /\ capPc = "requeue" /\ recycledBatch = <<>> /\ ~stop
    /\ current' = NoBuf
    /\ capPc' = "read"
    /\ UNCHANGED <<pts, cpuSync, readyQueue, recycleQueue, recycledBatch,
                   droppedDesc, stop, fatal, owner>>
    /\ UNCHANGED driverVars /\ UNCHANGED decodeVars

(* EINTR, EAGAIN or an event other than POLLIN. *)
ReadRetryable ==
    /\ capPc = "read"
    /\ capPc' = "drain"
    /\ UNCHANGED <<pts, cpuSync, readyQueue, recycleQueue, recycledBatch,
                   current, droppedDesc, stop, fatal, owner>>
    /\ UNCHANGED driverVars /\ UNCHANGED decodeVars

(* dequeue_buffer: DQBUF, take over the timestamp, open the CPU window. *)
ReadFrame ==
    /\ capPc = "read" /\ done # <<>>
    /\ LET b == Head(done) IN
       /\ pts' = [pts EXCEPT ![b] = stamp[b]]
       /\ cpuSync' = [cpuSync EXCEPT ![b] = TRUE]
       /\ current' = b
       /\ Owned(b, "current")
    /\ done' = Tail(done)
    /\ capPc' = "push"
    /\ UNCHANGED <<queued, stamp, clock, readyQueue, recycleQueue,
                   recycledBatch, droppedDesc, stop, fatal>>
    /\ UNCHANGED decodeVars

(* Ten seconds without a filled buffer, an error of poll or of DQBUF, or an *)
(* event DQBUF cannot serve.                                                *)
ReadFails ==
    /\ capPc = "read"
    /\ fatal' = TRUE /\ stop' = TRUE
    /\ capPc' = "exited"
    /\ UNCHANGED <<pts, cpuSync, readyQueue, recycleQueue, recycledBatch,
                   current, droppedDesc, owner>>
    /\ UNCHANGED driverVars /\ UNCHANGED decodeVars

(* DQBUF succeeded, the sync ioctl failed: the buffer stays dequeued. *)
ReadLosesFrame ==
    /\ capPc = "read" /\ done # <<>>
    /\ done' = Tail(done)
    /\ Owned(Head(done), "lost")
    /\ fatal' = TRUE /\ stop' = TRUE
    /\ capPc' = "exited"
    /\ UNCHANGED <<queued, stamp, clock, pts, cpuSync, readyQueue,
                   recycleQueue, recycledBatch, current, droppedDesc>>
    /\ UNCHANGED decodeVars

(* A frame above kMaxFrameSize goes back to the driver, and the stream ends. *)
(* Its QBUF may fail too.                                                    *)
ReadOversized ==
    /\ capPc = "read" /\ done # <<>>
    /\ LET b == Head(done) IN
       /\ pts' = [pts EXCEPT ![b] = stamp[b]]
       /\ \/ queued' = queued \union {b} /\ Owned(b, "queued")
          \/ UNCHANGED queued /\ Owned(b, "lost")
    /\ done' = Tail(done)
    /\ fatal' = TRUE /\ stop' = TRUE
    /\ capPc' = "exited"
    /\ UNCHANGED <<stamp, clock, cpuSync, readyQueue, recycleQueue,
                   recycledBatch, current, droppedDesc>>
    /\ UNCHANGED decodeVars

(* Under ready_mutex: drop the oldest frame of a full queue, append. *)
PushReady ==
    /\ capPc = "push"
    /\ Len(readyQueue) < ReadyDepth
    /\ readyQueue' = Append(readyQueue, current)
    /\ Owned(current, "ready")
    /\ capPc' = "drain"
    /\ UNCHANGED <<pts, cpuSync, recycleQueue, recycledBatch, current,
                   droppedDesc, stop, fatal>>
    /\ UNCHANGED driverVars /\ UNCHANGED decodeVars

PushReadyDropOldest ==
    /\ capPc = "push"
    /\ Len(readyQueue) >= ReadyDepth
    /\ readyQueue' = Append(Tail(readyQueue), current)
    /\ droppedDesc' = Head(readyQueue)
    /\ owner' = [owner EXCEPT ![current] = "ready", ![Head(readyQueue)] = "dropped"]
    /\ capPc' = "drop"
    /\ UNCHANGED <<pts, cpuSync, recycleQueue, recycledBatch, current, stop, fatal>>
    /\ UNCHANGED driverVars /\ UNCHANGED decodeVars

RecycleDropped ==
    /\ capPc = "drop"
    /\ recycleQueue' = Append(recycleQueue, droppedDesc)
    /\ Owned(droppedDesc, "recycle")
    /\ capPc' = "drain"
    /\ UNCHANGED <<pts, cpuSync, readyQueue, recycledBatch, current,
                   droppedDesc, stop, fatal>>
    /\ UNCHANGED driverVars /\ UNCHANGED decodeVars

(***************************************************************************)
(* Decode thread                                                           *)
(***************************************************************************)
TakeReady ==
    /\ decPc = "wait" /\ readyQueue # <<>>
    /\ held' = Head(readyQueue)
    /\ readyQueue' = Tail(readyQueue)
    /\ Owned(Head(readyQueue), "held")
    /\ decPc' = "decode"
    /\ UNCHANGED <<pts, cpuSync, recycleQueue, stop, fatal, decoded>>
    /\ UNCHANGED driverVars /\ UNCHANGED captureVars

DecodeExit ==
    /\ decPc = "wait" /\ readyQueue = <<>> /\ stop
    /\ decPc' = "exited"
    /\ UNCHANGED <<pts, cpuSync, readyQueue, recycleQueue, stop, fatal, owner,
                   held, decoded>>
    /\ UNCHANGED driverVars /\ UNCHANGED captureVars

(* MppDecode closes the CPU window before it submits the buffer. *)
DecodeBegin ==
    /\ decPc = "decode"
    /\ cpuSync' = [cpuSync EXCEPT ![held] = FALSE]
    /\ decoded' = pts[held]
    /\ decPc' = "hardware"
    /\ UNCHANGED <<pts, readyQueue, recycleQueue, stop, fatal, owner, held>>
    /\ UNCHANGED driverVars /\ UNCHANGED captureVars

(* An early return of MppDecode: no JPEG, bad size, or the sync ioctl failed. *)
DecodeRejects ==
    /\ decPc = "decode"
    /\ decPc' = "recycle"
    /\ UNCHANGED <<pts, cpuSync, readyQueue, recycleQueue, stop, fatal, owner,
                   held, decoded>>
    /\ UNCHANGED driverVars /\ UNCHANGED captureVars

(* The decoder is done with the buffer, or failed. *)
DecodeEnd ==
    /\ decPc = "hardware"
    /\ decPc' = "recycle"
    /\ UNCHANGED <<pts, cpuSync, readyQueue, recycleQueue, stop, fatal, owner,
                   held, decoded>>
    /\ UNCHANGED driverVars /\ UNCHANGED captureVars

RecycleFrame ==
    /\ decPc = "recycle"
    /\ recycleQueue' = Append(recycleQueue, held)
    /\ Owned(held, "recycle")
    /\ held' = NoBuf
    /\ decPc' = "wait"
    /\ UNCHANGED <<pts, cpuSync, readyQueue, stop, fatal, decoded>>
    /\ UNCHANGED driverVars /\ UNCHANGED captureVars

Capture ==
    \/ CaptureExit \/ DrainRecycleQueue \/ RequeueBuffer \/ RequeueFails
    \/ BeginRead \/ ReadRetryable \/ ReadFrame \/ ReadFails \/ ReadLosesFrame
    \/ ReadOversized \/ PushReady \/ PushReadyDropOldest \/ RecycleDropped

Decode ==
    \/ TakeReady \/ DecodeExit \/ DecodeBegin \/ DecodeRejects \/ DecodeEnd
    \/ RecycleFrame

(* Both threads have returned and main goes on to release the camera. *)
Joined ==
    /\ capPc = "exited" /\ decPc = "exited"
    /\ UNCHANGED vars

Next ==
    \/ \E b \in Buffer : Fill(b)
    \/ RequestStop
    \/ Capture
    \/ Decode
    \/ Joined

Spec == Init /\ [][Next]_vars

(* The threads are scheduled, and poll returns: at the latest after its    *)
(* timeout of ten seconds.                                                 *)
FairSpec == Spec /\ WF_vars(Capture) /\ WF_vars(Decode)

-----------------------------------------------------------------------------
(* The types of the state. *)
TypeOK ==
    /\ queued \in SUBSET Buffer
    /\ done \in Seq(Buffer)
    /\ stamp \in [Buffer -> Timestamp]
    /\ clock \in Timestamp
    /\ pts \in [Buffer -> Timestamp \union {-1}]
    /\ cpuSync \in [Buffer -> BOOLEAN]
    /\ readyQueue \in Seq(Buffer)
    /\ recycleQueue \in Seq(Buffer)
    /\ recycledBatch \in Seq(Buffer)
    /\ current \in Buffer \union {NoBuf}
    /\ droppedDesc \in Buffer \union {NoBuf}
    /\ held \in Buffer \union {NoBuf}
    /\ decoded \in Timestamp \union {-1}
    /\ capPc \in {"drain", "requeue", "read", "push", "drop", "exited"}
    /\ decPc \in {"wait", "decode", "hardware", "recycle", "exited"}
    /\ stop \in BOOLEAN /\ fatal \in BOOLEAN
    /\ owner \in [Buffer -> Place]

OwnedBy(p) == {b \in Buffer : owner[b] = p}

(* The descriptor a thread works on is there while it needs it. *)
SlotsFilled ==
    /\ capPc = "push" => current # NoBuf
    /\ capPc = "drop" => droppedDesc # NoBuf
    /\ decPc \in {"decode", "hardware", "recycle"} <=> held # NoBuf

(* A queue and the places outside the queues hold what they are said to.  *)
QueueHolds(s, p) == IsInjective(s) /\ Range(s) = OwnedBy(p)
SlotHolds(occupied, b, p) == OwnedBy(p) = IF occupied THEN {b} ELSE {}

(* Every buffer is in exactly one place, once: in the driver, in one of    *)
(* the queues of main.cpp, or in the hands of one thread.  A buffer queued *)
(* twice would be filled by the driver while it is decoded, one that is    *)
(* nowhere is never filled again.                                          *)
Ownership ==
    /\ queued = OwnedBy("queued")
    /\ QueueHolds(done, "done")
    /\ QueueHolds(recycledBatch, "batch")
    /\ QueueHolds(readyQueue, "ready")
    /\ QueueHolds(recycleQueue, "recycle")
    /\ SlotHolds(capPc = "push", current, "current")
    /\ SlotHolds(capPc = "drop", droppedDesc, "dropped")
    /\ SlotHolds(decPc \in {"decode", "hardware", "recycle"}, held, "held")

(* A buffer leaves the ring only when the process is going down with a     *)
(* failure: no error path of the capture loop drops one and goes on.       *)
LostOnlyOnFailure == OwnedBy("lost") # {} => fatal /\ stop

(* When the capture thread blocks in poll the driver has a buffer to fill  *)
(* or a filled one to return, so the poll does not time out because the    *)
(* pipeline itself holds everything: dropping the oldest frame at          *)
(* kMaxReadyQueueDepth must leave the driver a buffer however slow the     *)
(* decoder is.                                                             *)
DriverNeverStarves == capPc = "read" => queued # {} \/ done # <<>>

(* The CPU read window opened by dequeue_buffer is closed, by whichever of *)
(* the two threads comes first, before the driver or the decoder hardware  *)
(* touches the buffer, and is open while the decode thread scans the JPEG. *)
CpuWindow ==
    /\ \A b \in queued \union Range(done) : ~cpuSync[b]
    /\ decPc = "hardware" => ~cpuSync[held]
    /\ decPc = "decode" => cpuSync[held]

(* A frame on its way to the decoder still has the content it was captured *)
(* with: the driver did not fill the buffer again behind its back.         *)
ContentIntact ==
    \A b \in Range(readyQueue) \union OwnedBy("held") : pts[b] = stamp[b]

(* Frames are decoded in the order of capture, whatever was dropped. *)
FramesInOrder == [][decoded' >= decoded]_vars

(* The frame that a full readyQueue gives up is the oldest: none that      *)
(* stays, the new one included, was captured before it.                    *)
DropsOldest ==
    capPc = "drop" =>
        \A i \in DOMAIN readyQueue : pts[droppedDesc] <= pts[readyQueue[i]]

(* A buffer the pipeline took comes back to the driver, also when its frame *)
(* was dropped or could not be decoded, until the process stops.            *)
BufferReturns(b) ==
    (owner[b] \notin {"queued", "done"}) ~> (owner[b] = "queued" \/ stop)

(* After a stop both threads return; the decode thread first empties       *)
(* readyQueue.                                                             *)
ThreadsExit == stop ~> (capPc = "exited" /\ decPc = "exited")

(***************************************************************************)
(* The ring as a channel of frames: a frame is the instant it was filled,  *)
(* and the buffers of a queue stand for the frames in them.                *)
(***************************************************************************)
Stamps(s, at) == [i \in 1 .. Len(s) |-> at[s[i]]]

Fifo == INSTANCE FrameFifo WITH
    Frame   <- Timestamp,
    Depth   <- ReadyDepth,
    source  <- Stamps(IF capPc = "push" THEN <<current>> \o done ELSE done, stamp),
    waiting <- Stamps(readyQueue, stamp),
    inHand  <- IF held = NoBuf THEN -1 ELSE stamp[held],
    closed  <- (capPc = "exited")

(* The ring implements the channel: whatever the threads interleave, the   *)
(* decoder is given every captured frame once and in order, but those      *)
(* pushed out, oldest first, of a full readyQueue; and the stream ends     *)
(* with the first frame that is lost in any other way.                     *)
ImplementsFifo == Fifo!Spec
=============================================================================
