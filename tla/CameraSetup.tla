----------------------------- MODULE CameraSetup -----------------------------
(***************************************************************************)
(* The life of a V4L2_Camera: camera_GlobalInit opens the device, checks   *)
(* and configures it, sets a pool of dma-bufs up, sets the exposure and    *)
(* starts the stream, and undoes what it did when a step fails; the        *)
(* destructor undoes what is left.  The ring in use is module CaptureRing. *)
(*                                                                         *)
(* A step is a group of system calls that fail alike; what is acquired or  *)
(* released has a step of its own where the code can fail in between.      *)
(***************************************************************************)
EXTENDS Resources

CONSTANT Rates   \* the time per frame <<numerator, denominator>> drivers report

ASSUME CameraAssumption == Rates \subseteq Nat \X Nat

VARIABLES
    streamingSupport,  \* isStreamingSupport
    activeConfig,      \* ActiveConfig: valid, the rate, whether it has a size
    granted,           \* reqbuf.count, local to init_camera_buffer
    numBuffers,        \* NumBuffers
    afterDeinit        \* where deinit_camera_buffer returns to

setupVars  == <<streamingSupport, activeConfig, granted>>
cameraVars == <<setupVars, numBuffers, afterDeinit>>

Device     == One("camera")          \* known: camera_fd >= 0
Slots      == One("camera_slots")    \* what VIDIOC_REQBUFS granted
Stream     == One("camera_stream")   \* known: isStreamOn
Memory(i)  == <<"camera_memory", i>>    \* known: FrameDescArray[i].fd >= 0
Mapping(i) == <<"camera_mapping", i>>   \* known: FrameDescArray[i].base
CpuRead(i) == <<"camera_read", i>>      \* known: cpuSyncReadActive
Queued(i)  == <<"camera_queued", i>>

(* What the driver forgets when it is told to forget the one before. *)
OfStream == All("camera_queued")
OfSlots  == {Stream} \union OfStream
OfDevice == {Slots} \union OfSlots

NoConfig == [valid |-> FALSE, rate |-> <<0, 0>>, sized |-> FALSE]

CameraInit ==
    /\ streamingSupport = FALSE
    /\ activeConfig = NoConfig
    /\ granted = 0 /\ numBuffers = 0
    /\ afterDeinit = "none"

-----------------------------------------------------------------------------
(* Variants with an error in them, used by no specification. *)
(* the device is not closed after a failure *)
RollbackLeavesDevice ==
    /\ At("camera_rollback")
    /\ Forget({Device, Stream})
    /\ streamingSupport' = FALSE
    /\ Goto("failed")
    /\ UNCHANGED <<ledger, loop, activeConfig, granted, numBuffers, afterDeinit>>

(* the last buffer is not queued *)
QueueSkipsLast ==
    /\ At("camera_queue") /\ loop >= numBuffers - 1
    /\ Goto("camera_exposure")
    /\ UNCHANGED <<ledger, known, loop, cameraVars>>

-----------------------------------------------------------------------------
(***************************************************************************)
(* camera_GlobalInit.  The object is fresh, so its first test passes.      *)
(***************************************************************************)
OpenCamera ==
    /\ At("camera") /\ Device \notin known /\ Stream \notin known /\ numBuffers = 0
    /\ \/ Acquire({}, {Device}) /\ Keep({Device}) /\ Goto("camera_probe")
       \/ UNCHANGED <<ledger, known>> /\ Goto("failed")
    /\ UNCHANGED <<loop, cameraVars>>

(* check_cameraCapabilities: capture, streaming, MJPEG, size and rate. *)
ProbeCapabilities ==
    /\ At("camera_probe")
    /\ \E streaming, all \in BOOLEAN :
          /\ all => streaming
          /\ streamingSupport' = streaming
          /\ Goto(IF all THEN "camera_configure" ELSE "camera_rollback")
    /\ activeConfig' = NoConfig
    /\ Forget({Stream})
    /\ Use({Device})
    /\ UNCHANGED <<loop, granted, numBuffers, afterDeinit>>

(* S_FMT and S_PARM, each read back: the driver may change size and rate,  *)
(* not the format, and the numerator of the rate must not be zero.         *)
ApplyFormat ==
    /\ At("camera_configure")
    /\ \E rate \in Rates, sized, accepted \in BOOLEAN :
          LET valid == accepted /\ rate[1] # 0 IN
          /\ activeConfig' = [valid |-> valid, rate |-> rate, sized |-> sized]
          /\ Goto(IF valid THEN "camera_request" ELSE "camera_rollback")
    /\ Use({Device})
    /\ UNCHANGED <<known, loop, streamingSupport, granted, numBuffers, afterDeinit>>

(* init_camera_buffer.  The driver may grant less or more than was asked   *)
(* for.  More than FrameDescArray holds is an error, and the slots stay    *)
(* granted until the device is closed; none is an error as well.           *)
RequestBuffers ==
    /\ At("camera_request") /\ Device \in known /\ streamingSupport /\ numBuffers = 0
    /\ Forget(All("camera_memory") \union All("camera_mapping") \union All("camera_read"))
    /\ \E n \in 0 .. MaxAlloca + 1 :
          /\ granted' = n
          /\ Acquire({Device}, IF n = 0 THEN {} ELSE {Slots})
          /\ Goto(IF n \in 1 .. MaxAlloca THEN "camera_allocate" ELSE "camera_rollback")
    /\ loop' = 0
    /\ UNCHANGED <<streamingSupport, activeConfig, numBuffers, afterDeinit>>

(* alloc_dma_buf_fd: allocate from the heap, then map. *)
AllocMemory ==
    /\ At("camera_allocate") /\ loop < granted
    /\ Acquire({}, {Memory(loop)})
    /\ Goto("camera_map")
    /\ UNCHANGED <<known, loop, cameraVars>>

MapMemory ==
    /\ At("camera_map")
    /\ Acquire({Memory(loop)}, {Mapping(loop)})
    /\ Keep({Memory(loop), Mapping(loop)})
    /\ numBuffers' = numBuffers + 1
    /\ loop' = loop + 1
    /\ Goto("camera_allocate")
    /\ UNCHANGED <<setupVars, afterDeinit>>

DeinitThen(label) ==
    /\ Goto("camera_deinit") /\ loop' = 0
    /\ afterDeinit' = label
    /\ UNCHANGED <<setupVars, numBuffers>>

AllocFails ==
    /\ At("camera_allocate") /\ loop < granted
    /\ DeinitThen("camera_rollback")
    /\ UNCHANGED <<ledger, known>>

MapFails ==
    /\ At("camera_map")
    /\ TryDrop({Memory(loop)}, {})
    /\ DeinitThen("camera_rollback")
    /\ UNCHANGED known

AllAllocated ==
    /\ At("camera_allocate") /\ loop = granted
    /\ loop' = 0
    /\ Goto("camera_queue")
    /\ UNCHANGED <<ledger, known, cameraVars>>

QueueBuffer ==
    /\ At("camera_queue") /\ loop < numBuffers
    /\ Acquire({Device, Slots, Memory(loop)}, {Queued(loop)})
    /\ loop' = loop + 1
    /\ UNCHANGED <<pc, known, cameraVars>>

AllQueued ==
    /\ At("camera_queue") /\ loop = numBuffers
    /\ Goto("camera_exposure")
    /\ UNCHANGED <<ledger, known, loop, cameraVars>>

(* set_exposure_time(0), as main calls it: one of the automatic modes is   *)
(* there and accepted; which one is left out.                              *)
SetExposure ==
    /\ At("camera_exposure")
    /\ Use({Device})
    /\ Goto("camera_start")
    /\ UNCHANGED <<known, loop, cameraVars>>

(* capture_stream_switch(true) *)
StartStream ==
    /\ At("camera_start") /\ Device \in known /\ streamingSupport /\ Stream \notin known
    /\ Acquire({Device, Slots}, {Stream})
    /\ Keep({Stream})
    /\ Goto("ok")
    /\ UNCHANGED <<loop, cameraVars>>

(* A step between the buffers' allocation and the running stream fails. *)
QueueOrStartFails ==
    /\ \/ At("camera_queue") /\ loop < numBuffers
       \/ At("camera_exposure")
       \/ At("camera_start")
    /\ Use({Device})
    /\ DeinitThen("camera_rollback")
    /\ UNCHANGED known

(***************************************************************************)
(* deinit_camera_buffer                                                    *)
(***************************************************************************)
(* Nothing was allocated: the early return, which leaves the driver's      *)
(* slots to the close of the device.                                       *)
DeinitNothing ==
    /\ At("camera_deinit") /\ numBuffers = 0
    /\ Goto(afterDeinit)
    /\ UNCHANGED <<ledger, known, loop, cameraVars>>

(* End the CPU read, unmap, close; each may fail. *)
ReleaseBuffer ==
    /\ At("camera_deinit") /\ loop < numBuffers
    /\ LET owned == known \intersect {CpuRead(loop), Mapping(loop), Memory(loop)} IN
       TryDrop(owned, {}) /\ Forget(owned)
    /\ loop' = loop + 1
    /\ UNCHANGED <<pc, cameraVars>>

(* REQBUFS(0), which the driver refuses while it streams. *)
ReleaseSlots ==
    /\ At("camera_deinit") /\ numBuffers > 0 /\ loop = numBuffers
    /\ IF Stream \in held THEN Use({Device, Slots}) ELSE TryDrop({Slots}, OfSlots)
    /\ numBuffers' = 0
    /\ Goto(afterDeinit)
    /\ UNCHANGED <<known, loop, setupVars, afterDeinit>>

(* The label fail of camera_GlobalInit.  The descriptor is given up        *)
(* whether close succeeds or not.                                          *)
CloseOnFailure ==
    /\ At("camera_rollback")
    /\ TryDrop({Device}, OfDevice)
    /\ Forget({Device, Stream})
    /\ streamingSupport' = FALSE
    /\ Goto("failed")
    /\ UNCHANGED <<loop, activeConfig, granted, numBuffers, afterDeinit>>

(***************************************************************************)
(* ~V4L2_Camera                                                            *)
(***************************************************************************)
(* capture_stream_switch(false) drops what is queued.  When it fails the   *)
(* destructor goes on and releases the buffers under the running stream.   *)
StopStream ==
    /\ At("destroy_camera")
    /\ IF Stream \in known
       THEN TryDrop({Stream}, OfStream) /\ Forget({Stream} \ held')
       ELSE UNCHANGED <<ledger, known>>
    /\ DeinitThen("camera_close")

CloseCamera ==
    /\ At("camera_close")
    /\ IF Device \in known
       THEN /\ TryDrop({Device}, OfDevice)
            /\ Forget({Device, Stream} \ held')
       ELSE UNCHANGED <<ledger, known>>
    /\ streamingSupport' = (streamingSupport /\ Device \in known')
    /\ Goto("destroyed")
    /\ UNCHANGED <<loop, activeConfig, granted, numBuffers, afterDeinit>>

CameraStep ==
    \/ OpenCamera \/ ProbeCapabilities \/ ApplyFormat \/ RequestBuffers
    \/ AllocMemory \/ MapMemory \/ AllocFails \/ MapFails \/ AllAllocated
    \/ QueueBuffer \/ AllQueued \/ SetExposure \/ StartStream \/ QueueOrStartFails
    \/ DeinitNothing \/ ReleaseBuffer \/ ReleaseSlots \/ CloseOnFailure
    \/ StopStream \/ CloseCamera
=============================================================================
