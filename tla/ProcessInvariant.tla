--------------------------- MODULE ProcessInvariant ---------------------------
(***************************************************************************)
(* The inductive invariant behind the safety properties of Process, in a   *)
(* part for main's place and one for each object.  An object's part says,  *)
(* for every label of the object, how far its resources are, and for the   *)
(* labels of the others whether it is up or down.                          *)
(***************************************************************************)
EXTENDS Process

CameraStart ==
    {"camera", "camera_probe", "camera_configure", "camera_request", "camera_allocate",
     "camera_map", "camera_queue", "camera_exposure", "camera_start", "camera_rollback"}
CameraEnd == {"destroy_camera", "camera_close"}
CameraLabels == CameraStart \union CameraEnd \union {"camera_deinit"}

DecoderStart ==
    {"decoder", "decoder_init", "decoder_config", "decoder_undo", "decoder_size",
     "decoder_group", "decoder_allocate", "decoder_map", "decoder_commit",
     "decoder_import"}
DecoderEnd == {"destroy_decoder", "decoder_destroy"}
DecoderLabels == DecoderStart \union DecoderEnd \union {"decoder_clear", "decoder_release"}

RgaRun == {"rga_allocate", "rga_map", "rga_source", "rga_destination", "rga_operation"}
RgaLabels == {"rga", "rga_release", "destroy_rga"} \union RgaRun

EncoderStart ==
    {"encoder", "encoder_init", "encoder_timeouts", "encoder_undo",
     "encoder_header_group", "encoder_header", "encoder_config"}
EncoderRun == {"encoder_import", "encoder_import_all"}
EncoderEnd == {"destroy_encoder", "encoder_put_imports", "encoder_destroy"}
EncoderLabels == EncoderStart \union EncoderRun \union EncoderEnd

ServiceStart ==
    {"publisher", "zlm_rtsp", "zlm_rtc", "zlm_listen", "zlm_option", "zlm_media",
     "zlm_track"}
ServiceClose == {"zlm_close", "zlm_close_media", "zlm_close_servers", "zlm_close_flags"}
ServiceLabels == ServiceStart \union ServiceClose \union {"destroy_publisher"}

Running == {"rate", "running", "stop"} \union RgaRun \union EncoderRun
MainLabels == {"main", "ok", "failed", "closed", "destroyed", "returned",
               "rate", "running", "stop"}

(* Where main is tells how many objects there are. *)
Control ==
    /\ built \in {0, 1, 2, 3, 4, 5}
    /\ pc \in MainLabels \union CameraLabels \union DecoderLabels \union RgaLabels
                         \union EncoderLabels \union ServiceLabels
    /\ pc \in {"main", "returned"} => built = 0
    /\ pc \in {"ok", "failed"} => built # 0
    /\ pc = "destroyed" => built # 5
    /\ pc \in Running \union {"closed"} => built = 5
    /\ pc \in CameraStart => built = 1
    /\ pc \in CameraEnd => built = 0
    /\ pc = "camera_deinit" =>
          \/ afterDeinit = "camera_rollback" /\ built = 1
          \/ afterDeinit = "camera_close" /\ built = 0
    /\ pc \in DecoderStart => built = 2
    /\ pc \in DecoderEnd => built = 1
    /\ pc \in {"decoder_clear", "decoder_release"} =>
          \/ afterRelease = "failed" /\ built = 2
          \/ afterRelease = "decoder_destroy" /\ built = 1
    /\ pc = "rga" => built = 3
    /\ pc = "destroy_rga" => built = 2
    /\ pc = "rga_release" =>
          \/ afterPool = "running" /\ built = 5
          \/ afterPool = "destroyed" /\ built = 2
    /\ pc \in EncoderStart => built = 4
    /\ pc \in EncoderEnd => built = 3
    /\ pc \in ServiceStart => built = 5
    /\ pc = "destroy_publisher" => built = 4
    /\ pc \in ServiceClose =>
          \/ afterClose \in {"failed", "closed"} /\ built = 5
          \/ afterClose = "destroyed" /\ built = 4

-----------------------------------------------------------------------------
(* The resources of each object. *)
CameraResources ==
    {Device, Slots, Stream} \union All("camera_memory") \union All("camera_mapping")
        \union All("camera_read") \union All("camera_queued")
DecoderResources ==
    {Context, DecCfg, Group} \union All("decoder_memory") \union All("decoder_mapping")
        \union All("decoder_committed") \union All("decoder_import")
        \union All("decoder_lent")
RgaResources ==
    {SrcHandle, DstHandle} \union All("rga_memory") \union All("rga_mapping")
EncoderResources ==
    {EncContext, EncCfg, HeaderGroup, Header, EncGroup} \union All("encoder_import")
ServiceResources == {Http, Rtsp, Rtc, Option, Media}
Clones == Each("zlm_invoker", Requests)

Universe == CameraResources \union DecoderResources \union RgaResources
                 \union EncoderResources \union ServiceResources \union Clones

Ledger ==
    /\ held \subseteq Universe
    /\ known \subseteq held
    /\ misused = {}

Same(resource)  == resource \in held <=> resource \in known
Owned(resource) == resource \in held => resource \in known \union refused

-----------------------------------------------------------------------------
(* The camera is down before its construction, after its destruction and   *)
(* when its own start failed.                                              *)
CameraDown == built = 0 \/ (built = 1 /\ pc = "failed")

(* Every granted buffer is in the driver. *)
Streaming ==
    \/ pc \in {"camera_exposure", "camera_start", "ok", "rga", "rate", "running"}
                  \union DecoderStart \union RgaRun \union EncoderStart
                  \union EncoderRun \union ServiceStart
    \/ pc = "rga_release" /\ afterPool = "running"

CameraTyped ==
    /\ numBuffers \in Nat /\ numBuffers <= MaxAlloca
    /\ granted \in Nat
    /\ activeConfig.rate \in Rates \union {<<0, 0>>}

CameraHandles ==
    /\ Owned(Device) /\ Same(Stream)
    /\ \A i \in Entries :
          /\ Memory(i) \in held => Memory(i) \in known \union refused
                                   \/ (pc = "camera_map" /\ i = loop)
          /\ Owned(Mapping(i)) /\ Owned(CpuRead(i))
    /\ \A x \in {Slots, Stream} \union OfStream : x \in held => Device \in held
    /\ \A x \in {Slots} \union OfStream : x \notin known

CameraBuffers ==
    /\ \A i \in Entries : \A x \in {Memory(i), Mapping(i), CpuRead(i)} :
          x \in known => i < numBuffers /\ (pc = "camera_deinit" => i >= loop)
    /\ pc # "camera_deinit" =>
          \A i \in Entries : i < numBuffers => Memory(i) \in known /\ Mapping(i) \in known
    /\ numBuffers > 0 \/ pc \in {"camera_allocate", "camera_map"} =>
          Device \in known /\ Slots \in held

CameraPlace ==
    /\ pc \in {"main", "camera", "camera_probe", "camera_configure", "camera_request"} =>
          numBuffers = 0 /\ Slots \notin held /\ \A i \in Entries : Queued(i) \notin held
    /\ (pc \in CameraStart \union {"main"}) \/ (pc = "camera_deinit" /\ built = 1) =>
          Stream \notin known
    /\ (pc \in CameraStart \ {"camera"}) \/ (pc = "camera_deinit" /\ built = 1) =>
          Device \in known
    /\ pc \in {"camera_allocate", "camera_map"} =>
          /\ loop = numBuffers /\ loop <= granted /\ granted > 0 /\ granted <= MaxAlloca
          /\ \A i \in Entries : Queued(i) \notin held
    /\ pc = "camera_map" => loop < granted /\ Memory(loop) \in held
    /\ pc = "camera_queue" =>
          /\ numBuffers = granted /\ numBuffers > 0 /\ loop \in Nat /\ loop <= numBuffers
          /\ \A i \in Entries : Queued(i) \in held <=> i < loop
    /\ pc \in {"camera_exposure", "camera_start"} => numBuffers = granted /\ numBuffers > 0
    /\ pc = "camera_deinit" => loop \in Nat /\ loop <= numBuffers
    /\ pc \in {"camera_rollback", "camera_close"} => numBuffers = 0
    /\ Streaming => \A i \in Entries : Queued(i) \in held <=> i < numBuffers

CameraElsewhere ==
    pc \notin CameraLabels =>
       IF CameraDown THEN numBuffers = 0 /\ (Device \in known => Device \in refused)
                     ELSE numBuffers = granted /\ numBuffers > 0 /\ Stream \in known

CameraInv == CameraTyped /\ CameraHandles /\ CameraBuffers /\ CameraPlace /\ CameraElsewhere

-----------------------------------------------------------------------------
DecoderDown == built \in {0, 1} \/ (built = 2 /\ pc = "failed")

NoOutputs ==
    \A i \in Entries : /\ OutMemory(i) \notin known /\ OutMapping(i) \notin known
                       /\ Committed(i) \notin held /\ Lent(i) \notin held
NoImports == \A i \in Entries : Import(i) \notin known

AllOutputs ==
    \A i \in Entries : /\ OutMemory(i) \in known /\ OutMapping(i) \in known
                       /\ Committed(i) \in held

DecoderHandles ==
    /\ Same(Context) /\ Same(DecCfg) /\ Same(Group)
    /\ \A i \in Entries :
          /\ Same(Import(i)) /\ Same(Lent(i)) /\ Committed(i) \notin known
          /\ OutMemory(i) \in held => OutMemory(i) \in known \union refused
                                      \/ (pc = "decoder_map" /\ i = loop)
          /\ Owned(OutMapping(i))

DecoderNeeds ==
    /\ DecCfg \in known => pc = "decoder_config"
    /\ Group \in known => Context \in known
    /\ Group \notin known => NoOutputs
    /\ \A i \in Entries :
          /\ Committed(i) \in held => OutMemory(i) \in known
          /\ Lent(i) \in held => /\ OutMemory(i) \in known /\ OutMapping(i) \in known
                                 /\ pc \notin DecoderLabels \ {"destroy_decoder"}
          /\ Import(i) \in known => /\ Context \in known /\ i < numBuffers
                                    /\ pc \notin DecoderLabels
                                                    \ {"decoder_import", "destroy_decoder"}

DecoderPlace ==
    /\ pc \in DecoderStart \ {"decoder"} => Context \in known
    /\ pc = "decoder_config" => DecCfg \in known
    /\ pc \in {"decoder", "decoder_init", "decoder_config", "decoder_undo",
               "decoder_size", "decoder_group", "decoder_destroy"} => Group \notin known
    /\ pc \in {"decoder_allocate", "decoder_map", "decoder_commit", "decoder_import",
               "decoder_clear", "decoder_release"} => Group \in known
    /\ pc \in {"decoder_allocate", "decoder_map", "decoder_commit", "decoder_release"} =>
          loop \in Nat /\ loop <= MaxAlloca
    /\ pc \in {"decoder_map", "decoder_commit"} => loop < MaxAlloca
    /\ pc = "decoder_map" => OutMemory(loop) \in held
    /\ pc \in {"decoder_allocate", "decoder_map"} =>
          \A i \in Entries : /\ OutMemory(i) \in known <=> i < loop
                             /\ OutMapping(i) \in known <=> i < loop
                             /\ Committed(i) \in held <=> i < loop
    /\ pc = "decoder_commit" =>
          \A i \in Entries : /\ OutMemory(i) \in known <=> i <= loop
                             /\ OutMapping(i) \in known <=> i <= loop
                             /\ Committed(i) \in held <=> i < loop
    /\ pc = "decoder_import" =>
          /\ AllOutputs /\ loop \in Nat /\ loop <= numBuffers
          /\ \A i \in Entries : Import(i) \in known <=> i < loop
    /\ pc = "decoder_release" =>
          \A i \in Entries : /\ OutMemory(i) \in known => i >= loop
                             /\ OutMapping(i) \in known => i >= loop
                             /\ Committed(i) \notin held

DecoderElsewhere ==
    pc \notin DecoderLabels =>
       IF DecoderDown
       THEN Group \notin known /\ NoImports /\ (built # 2 => Context \notin known)
       ELSE /\ Group \in known /\ AllOutputs
            /\ \A i \in Entries : i < numBuffers => Import(i) \in known

DecoderInv == DecoderHandles /\ DecoderNeeds /\ DecoderPlace /\ DecoderElsewhere

-----------------------------------------------------------------------------
RgaHandles ==
    /\ Same(SrcHandle) /\ Same(DstHandle)
    /\ \A i \in Entries :
          /\ PoolMemory(i) \in held => PoolMemory(i) \in known \union refused
                                       \/ (pc = "rga_map" /\ i = target)
          /\ Owned(PoolMapping(i))

RgaPool ==
    /\ poolReady /\ pc # "rga_release" =>
          \A i \in Entries : PoolMemory(i) \in known /\ PoolMapping(i) \in known
    /\ ~poolReady /\ pc \notin {"rga_allocate", "rga_map", "rga_release"} =>
          \A i \in Entries : PoolMemory(i) \notin known /\ PoolMapping(i) \notin known
    /\ pc \in {"rga_allocate", "rga_map"} =>
          \A i \in Entries : /\ PoolMemory(i) \in known <=> i < target
                             /\ PoolMapping(i) \in known <=> i < target
    /\ pc = "rga_release" =>
          \A i \in Entries : /\ PoolMemory(i) \in known => i >= target
                             /\ PoolMapping(i) \in known => i >= target

RgaPlace ==
    /\ poolReady \in BOOLEAN
    /\ pc \in {"rga_allocate", "rga_map", "rga_release"} =>
          target \in Nat /\ target <= MaxAlloca
    /\ pc = "rga_map" => target < MaxAlloca /\ PoolMemory(target) \in held
    /\ pc \in {"rga_allocate", "rga_map"} => ~poolReady
    /\ pc \in {"rga_source", "rga_destination", "rga_operation"} =>
          poolReady /\ target \in Entries
    /\ pc \in RgaRun => loop \in Entries
    /\ SrcHandle \in known => pc \in {"rga_destination", "rga_operation"}
    /\ DstHandle \in known => pc = "rga_operation"
    /\ pc \notin RgaLabels /\ built \in {0, 1, 2} => ~poolReady

RgaInv == RgaHandles /\ RgaPool /\ RgaPlace

-----------------------------------------------------------------------------
EncoderDown == built \in {0, 1, 2, 3} \/ (built = 4 /\ pc = "failed")

NotImported == EncGroup \notin known /\ \A i \in Entries : EncImport(i) \notin known
NoHeader    == HeaderGroup \notin known /\ Header \notin known

EncoderHandles ==
    /\ Same(EncContext) /\ Same(EncCfg) /\ Same(HeaderGroup) /\ Same(Header)
    /\ Same(EncGroup)
    /\ \A i \in Entries : Same(EncImport(i))

EncoderNeeds ==
    /\ EncCfg \in known => EncContext \in known
    /\ Header \in known => HeaderGroup \in known
    /\ ~ioReady /\ pc # "encoder_import_all" => NotImported
    /\ \A i \in Entries : EncImport(i) \in known =>
          EncContext \in known /\ poolReady /\ pc # "rga_release"

EncoderPlace ==
    /\ ioReady \in BOOLEAN
    /\ pc \in EncoderStart \union {"encoder_import_all", "encoder_destroy"} => ~ioReady
    /\ pc = "encoder" => EncCfg \notin known
    /\ pc = "encoder_init" => EncContext \in known /\ EncCfg \notin known
    /\ pc \in {"encoder_timeouts", "encoder_header_group", "encoder_header",
               "encoder_config"} => EncCfg \in known
    /\ pc \in {"encoder", "encoder_init", "encoder_timeouts", "encoder_undo",
               "encoder_header_group"} => NoHeader
    /\ pc = "encoder_header" => HeaderGroup \in known /\ Header \notin known
    /\ pc = "encoder_config" => Header \in known
    /\ pc \in EncoderRun => poolReady /\ EncCfg \in known /\ Header \in known
    /\ pc = "encoder_import_all" =>
          /\ EncGroup \in known /\ loop \in Nat /\ loop <= MaxAlloca
          /\ \A i \in Entries : EncImport(i) \in known <=> i < loop
    /\ pc \in {"encoder_put_imports", "encoder_destroy"} => EncCfg \notin known /\ NoHeader

EncoderElsewhere ==
    pc \notin EncoderLabels =>
       IF EncoderDown
       THEN ~ioReady /\ (built # 4 => EncContext \notin known /\ NoHeader)
       ELSE EncCfg \in known /\ Header \in known

EncoderInv == EncoderHandles /\ EncoderNeeds /\ EncoderPlace /\ EncoderElsewhere

-----------------------------------------------------------------------------
ServiceDown == built # 5 \/ pc \in {"failed", "closed"}

NoServers == Http \notin held /\ Rtsp \notin held /\ Rtc \notin held

ServicePlace ==
    /\ Same(Media)
    /\ \A x \in {Http, Rtsp, Rtc, Option} : x \notin known
    /\ Option \in held <=> pc = "zlm_media"
    /\ pc = "publisher" => Http \notin held
    /\ pc \in {"publisher", "zlm_rtsp"} => Rtsp \notin held
    /\ pc \in {"publisher", "zlm_rtsp", "zlm_rtc"} => Rtc \notin held
    /\ pc = "zlm_close_flags" => NoServers
    /\ pc \in (ServiceStart \ {"zlm_track"}) \union {"zlm_close_servers", "zlm_close_flags"} =>
          Media \notin held
    /\ pc = "zlm_track" => Media \in held
    /\ pc \notin ServiceLabels =>
          IF ServiceDown THEN NoServers /\ Media \notin held ELSE Media \in held

ServiceValues ==
    /\ frameIntervalUs \in 1 .. Second
    /\ webRtcReady \in BOOLEAN
    /\ webRtcReady => candidatePort = rtcPort /\ rtcPort # 0

ServiceInv == ServicePlace /\ ServiceValues

RequestsInv ==
    /\ request \in [Requests -> {"none", "new", "ready", "cloned", "asked", "done"}]
    /\ answers \in [Requests -> Nat]
    /\ OneAnswer
    /\ \A r \in Requests : Clone(r) \notin known

-----------------------------------------------------------------------------
ProcessInv ==
    /\ Control /\ Ledger
    /\ CameraInv /\ DecoderInv /\ RgaInv /\ EncoderInv /\ ServiceInv
    /\ RequestsInv
=============================================================================
