------------------------------- MODULE Process -------------------------------
(***************************************************************************)
(* The life of the process: main constructs and initialises the objects of *)
(* the pipeline one after the other, runs it, closes the publisher when    *)
(* the threads have joined, and leaves the rest to the destructors, which  *)
(* run in the reverse order; a failure on the way runs the destructors of  *)
(* what is there.  ZLM's threads serve signalling requests meanwhile.      *)
(*                                                                         *)
(* The objects are modules CameraSetup, DecoderSetup, RgaSetup,            *)
(* EncoderSetup and ZlmService; what the running threads do with them is   *)
(* the subject of the other modules.  What happens here while they run is  *)
(* what the RGA thread acquires on its first frames.                       *)
(***************************************************************************)
EXTENDS ZlmService

VARIABLE built   \* how many of the objects are constructed

vars == <<mainVars, cameraVars, decoderVars, rgaVars, ioReady, serviceVars,
          requestVars, built>>

Objects == <<"camera", "decoder", "rga", "encoder", "publisher">>

Destructor ==
    [camera |-> "destroy_camera", decoder |-> "destroy_decoder", rga |-> "destroy_rga",
     encoder |-> "destroy_encoder", publisher |-> "destroy_publisher"]

Init ==
    /\ held = {} /\ known = {} /\ misused = {} /\ refused = {}
    /\ pc = "main" /\ loop = 0 /\ built = 0
    /\ CameraInit /\ DecoderInit /\ RgaStart /\ EncoderInit /\ ServiceInit

-----------------------------------------------------------------------------
(* The next object: its constructor and the calls main makes on it. *)
ConstructNext ==
    /\ pc \in {"main", "ok"} /\ built < Len(Objects)
    /\ Goto(Objects[built + 1])
    /\ built' = built + 1
    /\ UNCHANGED <<ledger, known, loop>>

AllConstructed ==
    /\ At("ok") /\ built = Len(Objects)
    /\ Goto("rate")
    /\ UNCHANGED <<ledger, known, loop, built>>

(* Ctrl+C or a fatal error; the threads return and are joined.  Some       *)
(* camera buffers are out of the driver then, some of them with their CPU  *)
(* read open, and some decoded frames were not given back.                 *)
StopAndJoin ==
    /\ pc \in {"running", "stop"}
    /\ \E out \in SUBSET (0 .. numBuffers - 1), lent \in SUBSET Entries :
       \E reading \in SUBSET out :
          /\ held' = (held \ Each("camera_queued", out))
                     \union Each("camera_read", reading) \union Each("decoder_lent", lent)
          /\ known' = known \union Each("camera_read", reading)
                            \union Each("decoder_lent", lent)
    /\ CloseThen("closed")
    /\ UNCHANGED <<misused, refused, loop, httpPort, rtcPort, candidatePort,
                   webRtcReady, listening, initialized, frameIntervalUs, built>>

(* main returns: the destructors, in reverse. *)
DestroyNext ==
    /\ pc \in {"failed", "closed", "destroyed"} /\ built > 0
    /\ Goto(Destructor[Objects[built]])
    /\ built' = built - 1
    /\ UNCHANGED <<ledger, known, loop>>

Return ==
    /\ pc \in {"failed", "closed", "destroyed"} /\ built = 0
    /\ Goto("returned")
    /\ UNCHANGED <<ledger, known, loop, built>>

NotCamera  == <<decoderVars, rgaVars, ioReady, serviceVars>>
NotDecoder == <<cameraVars, rgaVars, ioReady, serviceVars>>
NotRga     == <<cameraVars, decoderVars, ioReady, serviceVars>>
NotEncoder == <<cameraVars, decoderVars, rgaVars, serviceVars>>
NotService == <<cameraVars, decoderVars, rgaVars, ioReady>>

MainStep ==
    \/ CameraStep  /\ UNCHANGED <<NotCamera, built>>
    \/ DecoderStep /\ UNCHANGED <<NotDecoder, built>>
    \/ RgaStep     /\ UNCHANGED <<NotRga, built>>
    \/ EncoderStep /\ UNCHANGED <<NotEncoder, built>>
    \/ ServiceStep /\ UNCHANGED <<NotService, built>>
    \/ StopAndJoin /\ UNCHANGED NotService
    \/ ConstructNext  /\ UNCHANGED <<NotService, serviceVars>>
    \/ AllConstructed /\ UNCHANGED <<NotService, serviceVars>>
    \/ DestroyNext    /\ UNCHANGED <<NotService, serviceVars>>
    \/ Return         /\ UNCHANGED <<NotService, serviceVars>>

Main == MainStep /\ UNCHANGED requestVars

(* The process is there. *)
Serving(r) ==
    /\ ~At("returned")
    /\ Handle(r)
    /\ UNCHANGED <<known, pc, loop, cameraVars, decoderVars, rgaVars, ioReady,
                   serviceVars, built>>

Arrival(r) ==
    /\ Dispatch(r)
    /\ UNCHANGED <<known, pc, loop, cameraVars, decoderVars, rgaVars, ioReady,
                   serviceVars, built>>

Returned == At("returned") /\ UNCHANGED vars

Next ==
    \/ Main
    \/ \E r \in Requests : Serving(r) \/ Arrival(r)
    \/ Returned

Spec == Init /\ [][Next]_vars

(* ZLM's threads are scheduled and its WebRTC stack calls back. *)
FairSpec == Spec /\ \A r \in Requests : WF_vars(Serving(r))

-----------------------------------------------------------------------------
(* The objects' own record is right whenever a call relies on it: nothing  *)
(* is used or released that is not held, released twice, or acquired over  *)
(* one that is held, on any path through start, rollback and destruction.  *)
NothingMisused == misused = {}

(* What a resource is made of or registered with. *)
Needs(resource) ==
    LET kind == resource[1]
        i    == resource[2]
    IN  CASE kind = "decoder_import"    -> {Context, Memory(i)}
          [] kind = "decoder_committed" -> {Group, OutMemory(i)}
          [] kind = "decoder_lent"      -> {Group, OutMemory(i), OutMapping(i)}
          [] kind = "decoder_group"     -> {Context}
          [] kind = "rga_source"        -> {OutMemory(loop)}
          [] kind = "rga_destination"   -> {PoolMemory(target)}
          [] kind = "encoder_import"    -> {EncContext, PoolMemory(i)}
          [] kind = "encoder_header"    -> {HeaderGroup}
          [] kind = "encoder_config"    -> {EncContext}
          [] OTHER -> {}

(* A resource outlives what was made of it: importers go before the        *)
(* exporter of their memory, lent outputs before the pool, groups and      *)
(* configurations before the context, whatever the order of destruction    *)
(* and wherever the start failed.                                          *)
NeedsHeld == \A resource \in held : Needs(resource) \subseteq held

(* When main returns nothing is left, but what the kernel refused to take  *)
(* back, what hangs on that, and requests still in ZLM's hands.            *)
NothingLeft ==
    At("returned") =>
        held \subseteq refused
                       \union (IF Device \in refused THEN OfDevice ELSE {})
                       \union Each("zlm_invoker", Requests)

(* The pipeline starts in the state the other modules take for granted:    *)
(* every buffer the driver granted is mapped, queued and imported at its   *)
(* own index, every output is committed, the stream is on, the encoder has *)
(* its header buffer, time stamps advance, and the address WebRTC answers  *)
(* advertise is the one the server listens on.                             *)
ReadyToRun ==
    At("running") =>
        /\ \A i \in 0 .. granted - 1 :
              {Memory(i), Mapping(i), Queued(i), Import(i)} \subseteq held \intersect
                                                                 (known \union {Queued(i)})
        /\ granted > 0 /\ numBuffers = granted
        /\ All("decoder_committed") \subseteq held
        /\ {Device, Slots, Stream, Context, Group, EncContext, EncCfg, Header, Media}
              \subseteq held
        /\ frameIntervalUs \in 1 .. Second
        /\ webRtcReady => candidatePort = rtcPort /\ rtcPort # 0

(* A request is answered once, and the clone of its invoker lives from the *)
(* test of the service to the response, also when main closes the service  *)
(* in between.                                                             *)
OneAnswer ==
    \A r \in Requests :
       /\ answers[r] = IF request[r] = "done" THEN 1 ELSE 0
       /\ Clone(r) \in held <=> request[r] \in {"cloned", "asked"}

(* A request that was dispatched gets its response, unless the process     *)
(* ends first.                                                             *)
RequestsAnswered ==
    \A r \in Requests : request[r] = "new" ~> (request[r] = "done" \/ At("returned"))
=============================================================================
