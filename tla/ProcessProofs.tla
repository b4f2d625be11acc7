--------------------------- MODULE ProcessProofs ---------------------------
(***************************************************************************)
(* The safety properties of Process, for every number of buffers, of       *)
(* requests and of failures.  A step belongs to one object; its lemma      *)
(* shows that object's part of the invariant, main's place and the ledger, *)
(* and that only the object's kinds of resources change.  What the others  *)
(* say is kept follows from that once for all steps: see the frame lemmas. *)
(***************************************************************************)
EXTENDS ProcessInvariant, TLAPS

(* Abbreviations every proof below sees through: labels, the operations of *)
(* the ledger, and the invariant down to its named parts.                  *)
USE DEF At, Goto, ledger, Exchange, Use, Acquire, Drop, TryDrop, Keep, Forget, Release,
        MainLabels, CameraLabels, CameraStart, CameraEnd, DecoderLabels, DecoderStart,
        DecoderEnd, RgaLabels, RgaRun, EncoderLabels, EncoderStart, EncoderRun, EncoderEnd,
        ServiceLabels, ServiceStart, ServiceClose, Running,
        ProcessInv, CameraInv, DecoderInv, RgaInv, EncoderInv, ServiceInv

KindOf(x)  == x[1]
IndexOf(x) == x[2]

CameraKinds ==
    {"camera", "camera_slots", "camera_stream", "camera_memory", "camera_mapping",
     "camera_read", "camera_queued"}
DecoderKinds ==
    {"decoder_context", "decoder_config", "decoder_group", "decoder_memory",
     "decoder_mapping", "decoder_committed", "decoder_import", "decoder_lent"}
RgaKinds == {"rga_memory", "rga_mapping", "rga_source", "rga_destination"}
EncoderKinds ==
    {"encoder_context", "encoder_config", "encoder_header_group", "encoder_header",
     "encoder_group", "encoder_import"}
ServiceKinds == {"zlm_http", "zlm_rtsp", "zlm_rtc", "zlm_media_option", "zlm_media"}
RequestKinds == {"zlm_invoker"}

OnlyChanges(kinds) ==
    /\ refused \subseteq refused'
    /\ \A x : KindOf(x) \notin kinds => /\ x \in held' <=> x \in held
                                        /\ x \in known' <=> x \in known

(* The steps of an object: the labels they start from and lead to.         *)
CameraMoves ==
    pc \in CameraLabels /\ pc' \in CameraLabels \union {"ok", "failed", "destroyed"}

DecoderMoves ==
    /\ pc \in DecoderLabels /\ pc' \in DecoderLabels \union {"ok", "failed", "destroyed"}
    /\ pc' = "failed" => built = 2
    /\ Streaming' => Streaming

RgaMoves ==
    /\ pc \in RgaLabels \union {"running"}
    /\ pc' \in RgaLabels \union {"ok", "failed", "destroyed", "running", "encoder_import"}
    /\ pc' = "failed" => built = 3
    /\ Streaming' => Streaming
    /\ pc' = "encoder_import" => poolReady /\ poolReady' /\ built = 5
    /\ pc' = "rga_release" \/ poolReady' # poolReady =>
          ~poolReady \/ pc = "rga_release" \/ built = 2

EncoderMoves ==
    /\ pc \in EncoderLabels
    /\ pc' \in EncoderLabels \union {"ok", "failed", "destroyed", "running", "stop"}
    /\ pc' = "failed" => built = 4
    /\ Streaming' => Streaming

ServiceMoves ==
    /\ pc \in ServiceLabels \union {"rate"}
    /\ pc' \in ServiceLabels \union {"ok", "failed", "closed", "destroyed", "running"}
    /\ pc' \in {"failed", "closed"} => built = 5
    /\ Streaming' => Streaming

(* The entries of a pool are numbered from zero.                           *)
LEMMA Sizes ==
    /\ MaxAlloca \in Nat /\ MaxAlloca > 0
    /\ \A i \in Entries : i \in Nat /\ i < MaxAlloca
    /\ \A i \in Nat : i < MaxAlloca => i \in Entries
BY ResourcesAssumption DEF Entries

(* A resource of a kind with an index has that kind and an index of the    *)
(* set.                                                                    *)
LEMMA AllKind ==
    ASSUME NEW kind, NEW S, NEW x \in Each(kind, S)
    PROVE KindOf(x) = kind /\ IndexOf(x) \in S
<1> PICK i \in S : x = <<kind, i>> BY DEF Each
<1> QED BY DEF KindOf, IndexOf

(* A resource with an index is of a set of that kind when its index is of  *)
(* the set.                                                                *)
LEMMA AllHas == ASSUME NEW kind, NEW i, NEW S PROVE <<kind, i>> \in Each(kind, S) <=> i \in S
BY DEF Each

(* What kind the camera's resources are of, and that they are the          *)
(* camera's.                                                               *)
LEMMA CameraNames ==
  /\ KindOf(Device) = "camera" /\ KindOf(Slots) = "camera_slots"
  /\ KindOf(Stream) = "camera_stream"
  /\ \A i : /\ KindOf(Memory(i)) = "camera_memory" /\ IndexOf(Memory(i)) = i
            /\ KindOf(Mapping(i)) = "camera_mapping" /\ IndexOf(Mapping(i)) = i
            /\ KindOf(CpuRead(i)) = "camera_read" /\ IndexOf(CpuRead(i)) = i
            /\ KindOf(Queued(i)) = "camera_queued" /\ IndexOf(Queued(i)) = i
  /\ \A x \in OfStream : KindOf(x) = "camera_queued"
  /\ \A i : Queued(i) \in OfStream <=> i \in Entries
  /\ {Device, Slots, Stream} \subseteq CameraResources
  /\ \A i \in Entries : 
        {Memory(i), Mapping(i), CpuRead(i), Queued(i)} \subseteq CameraResources
<1>1. /\ KindOf(Device) = "camera" /\ KindOf(Slots) = "camera_slots"
      /\ KindOf(Stream) = "camera_stream"
  BY DEF KindOf, Device, Slots, Stream, One
<1>2.  \A i : /\ KindOf(Memory(i)) = "camera_memory" /\ IndexOf(Memory(i)) = i
            /\ KindOf(Mapping(i)) = "camera_mapping" /\ IndexOf(Mapping(i)) = i
            /\ KindOf(CpuRead(i)) = "camera_read" /\ IndexOf(CpuRead(i)) = i
            /\ KindOf(Queued(i)) = "camera_queued" /\ IndexOf(Queued(i)) = i
  BY DEF KindOf, IndexOf, Memory, Mapping, CpuRead, Queued
<1>3. \A x \in OfStream : KindOf(x) = "camera_queued" BY AllKind DEF OfStream, All
<1>4. \A i : Queued(i) \in OfStream <=> i \in Entries BY AllHas DEF Queued, OfStream, All
<1>5. {Device, Slots, Stream} \subseteq CameraResources BY DEF CameraResources
<1>6. \A i \in Entries : 
        {Memory(i), Mapping(i), CpuRead(i), Queued(i)} \subseteq CameraResources
  BY AllHas DEF CameraResources, Memory, Mapping, CpuRead, Queued, All
<1> QED BY <1>1, <1>2, <1>3, <1>4, <1>5, <1>6

(* The same for the decoder's.                                             *)
LEMMA DecoderNames ==
  /\ KindOf(Context) = "decoder_context" /\ KindOf(DecCfg) = "decoder_config"
  /\ KindOf(Group) = "decoder_group"
  /\ \A i : /\ KindOf(OutMemory(i)) = "decoder_memory" /\ IndexOf(OutMemory(i)) = i
            /\ KindOf(OutMapping(i)) = "decoder_mapping" /\ IndexOf(OutMapping(i)) = i
            /\ KindOf(Committed(i)) = "decoder_committed" /\ IndexOf(Committed(i)) = i
            /\ KindOf(Import(i)) = "decoder_import" /\ IndexOf(Import(i)) = i
            /\ KindOf(Lent(i)) = "decoder_lent" /\ IndexOf(Lent(i)) = i
            /\ Committed(i) \in All("decoder_committed") <=> i \in Entries
            /\ Import(i) \in All("decoder_import") <=> i \in Entries
            /\ Lent(i) \in All("decoder_lent") <=> i \in Entries
  /\ \A x \in All("decoder_committed") : KindOf(x) = "decoder_committed"
  /\ \A x \in All("decoder_import") : KindOf(x) = "decoder_import"
  /\ \A x \in All("decoder_lent") : KindOf(x) = "decoder_lent"
  /\ {Context, DecCfg, Group} \subseteq DecoderResources
  /\ \A i \in Entries : 
        {OutMemory(i), OutMapping(i), Committed(i), Import(i), Lent(i)}
           \subseteq DecoderResources
<1>1. KindOf(Context) = "decoder_context" /\ KindOf(DecCfg) = "decoder_config"
      /\ KindOf(Group) = "decoder_group"
  BY DEF KindOf, Context, DecCfg, Group, One
<1>2. \A i : /\ KindOf(OutMemory(i)) = "decoder_memory" /\ IndexOf(OutMemory(i)) = i
            /\ KindOf(OutMapping(i)) = "decoder_mapping" /\ IndexOf(OutMapping(i)) = i
            /\ KindOf(Committed(i)) = "decoder_committed" /\ IndexOf(Committed(i)) = i
            /\ KindOf(Import(i)) = "decoder_import" /\ IndexOf(Import(i)) = i
            /\ KindOf(Lent(i)) = "decoder_lent" /\ IndexOf(Lent(i)) = i
  BY DEF KindOf, IndexOf, OutMemory, OutMapping, Committed, Import, Lent
<1>3. \A i : /\ Committed(i) \in All("decoder_committed") <=> i \in Entries
             /\ Import(i) \in All("decoder_import") <=> i \in Entries
             /\ Lent(i) \in All("decoder_lent") <=> i \in Entries
  BY AllHas DEF All, Committed, Import, Lent
<1>4. /\ \A x \in All("decoder_committed") : KindOf(x) = "decoder_committed"
      /\ \A x \in All("decoder_import") : KindOf(x) = "decoder_import"
      /\ \A x \in All("decoder_lent") : KindOf(x) = "decoder_lent"
  BY AllKind DEF All
<1>5. {Context, DecCfg, Group} \subseteq DecoderResources BY DEF DecoderResources
<1>6. \A i \in Entries : 
        {OutMemory(i), OutMapping(i), Committed(i), Import(i), Lent(i)}
           \subseteq DecoderResources
  BY AllHas DEF DecoderResources, OutMemory, OutMapping, Committed, Import, Lent, All
<1> QED BY <1>1, <1>2, <1>3, <1>4, <1>5, <1>6

(* The same for the RGA's.                                                 *)
LEMMA RgaNames ==
  /\ KindOf(SrcHandle) = "rga_source" /\ KindOf(DstHandle) = "rga_destination"
  /\ \A i : /\ KindOf(PoolMemory(i)) = "rga_memory" /\ IndexOf(PoolMemory(i)) = i
            /\ KindOf(PoolMapping(i)) = "rga_mapping" /\ IndexOf(PoolMapping(i)) = i
  /\ {SrcHandle, DstHandle} \subseteq RgaResources
  /\ \A i \in Entries : {PoolMemory(i), PoolMapping(i)} \subseteq RgaResources
<1>1. KindOf(SrcHandle) = "rga_source" /\ KindOf(DstHandle) = "rga_destination"
  BY DEF KindOf, SrcHandle, DstHandle, One
<1>2. \A i : /\ KindOf(PoolMemory(i)) = "rga_memory" /\ IndexOf(PoolMemory(i)) = i
             /\ KindOf(PoolMapping(i)) = "rga_mapping" /\ IndexOf(PoolMapping(i)) = i
  BY DEF KindOf, IndexOf, PoolMemory, PoolMapping
<1>3. {SrcHandle, DstHandle} \subseteq RgaResources BY DEF RgaResources
<1>4. \A i \in Entries : {PoolMemory(i), PoolMapping(i)} \subseteq RgaResources
  BY AllHas DEF RgaResources, PoolMemory, PoolMapping, All
<1> QED BY <1>1, <1>2, <1>3, <1>4

(* The same for the encoder's.                                             *)
LEMMA EncoderNames ==
  /\ KindOf(EncContext) = "encoder_context" /\ KindOf(EncCfg) = "encoder_config"
  /\ KindOf(HeaderGroup) = "encoder_header_group" /\ KindOf(Header) = "encoder_header"
  /\ KindOf(EncGroup) = "encoder_group"
  /\ \A i : /\ KindOf(EncImport(i)) = "encoder_import" /\ IndexOf(EncImport(i)) = i
            /\ EncImport(i) \in All("encoder_import") <=> i \in Entries
  /\ \A x \in All("encoder_import") : KindOf(x) = "encoder_import"
  /\ {EncContext, EncCfg, HeaderGroup, Header, EncGroup} \subseteq EncoderResources
  /\ \A i \in Entries : EncImport(i) \in EncoderResources
<1>1. /\ KindOf(EncContext) = "encoder_context" /\ KindOf(EncCfg) = "encoder_config"
      /\ KindOf(HeaderGroup) = "encoder_header_group" /\ KindOf(Header) = "encoder_header"
      /\ KindOf(EncGroup) = "encoder_group"
  BY DEF KindOf, EncContext, EncCfg, HeaderGroup, Header, EncGroup, One
<1>2. \A i : KindOf(EncImport(i)) = "encoder_import" /\ IndexOf(EncImport(i)) = i
  BY DEF KindOf, IndexOf, EncImport
<1>3. \A i : EncImport(i) \in All("encoder_import") <=> i \in Entries
  BY AllHas DEF All, EncImport
<1>4. \A x \in All("encoder_import") : KindOf(x) = "encoder_import" BY AllKind DEF All
<1>5. {EncContext, EncCfg, HeaderGroup, Header, EncGroup} \subseteq EncoderResources
  BY DEF EncoderResources
<1>6. \A i \in Entries : EncImport(i) \in EncoderResources BY <1>3 DEF EncoderResources
<1> QED BY <1>1, <1>2, <1>3, <1>4, <1>5, <1>6

(* The same for the publisher's.                                           *)
LEMMA ServiceNames ==
  /\ KindOf(Http) = "zlm_http" /\ KindOf(Rtsp) = "zlm_rtsp" /\ KindOf(Rtc) = "zlm_rtc"
  /\ KindOf(Option) = "zlm_media_option" /\ KindOf(Media) = "zlm_media"
  /\ {Http, Rtsp, Rtc, Option, Media} \subseteq ServiceResources
BY DEF KindOf, Http, Rtsp, Rtc, Option, Media, One, ServiceResources

(* The clone of a request's invoker is one of the clones.                  *)
LEMMA CloneNames ==
  /\ \A r : KindOf(Clone(r)) = "zlm_invoker" /\ IndexOf(Clone(r)) = r
  /\ \A r \in Requests : Clone(r) \in Clones
BY AllHas DEF KindOf, IndexOf, Clone, Clones

-----------------------------------------------------------------------------
(* Opening the device (camera_GlobalInit): it is closed before, so the     *)
(* descriptor is held once, or the start fails with nothing held.          *)
LEMMA OpenCameraStep ==
    ASSUME ProcessInv, OpenCamera, UNCHANGED <<NotCamera, built>>
    PROVE  /\ CameraMoves /\ Control' /\ Ledger' /\ OnlyChanges(CameraKinds)
           /\ CameraInv'
<1>1. CameraMoves
  BY DEF CameraMoves, Streaming, OpenCamera, cameraVars, setupVars
<1>2. Control'
  BY DEF Control, OpenCamera, cameraVars, setupVars
<1>3. OnlyChanges(CameraKinds)
  BY CameraNames DEF OnlyChanges, CameraKinds, OpenCamera, cameraVars, setupVars
<1>4. Ledger'
  BY CameraNames, Sizes DEF Ledger, Universe, CameraHandles, CameraPlace, Owned, Same,
                            CameraBuffers, CameraTyped, OpenCamera, cameraVars, setupVars
<1>5. CameraTyped'
  BY CameraNames DEF CameraTyped, OpenCamera, cameraVars, setupVars
<1>6. CameraHandles'
  BY CameraNames DEF CameraHandles, Owned, Same, OpenCamera, cameraVars, setupVars
<1>7. CameraBuffers'
  BY CameraNames DEF CameraBuffers, OpenCamera, cameraVars, setupVars
<1>8. CameraPlace'
  BY CameraNames, Sizes DEF CameraPlace, CameraTyped, CameraBuffers, Streaming,
                            OpenCamera, cameraVars, setupVars
<1>9. CameraElsewhere'
  BY CameraNames, Sizes DEF CameraElsewhere, CameraPlace, CameraDown, CameraTyped,
                            CameraHandles, Same, Control, OpenCamera, cameraVars,
                            setupVars
<1> QED BY <1>1, <1>2, <1>3, <1>4, <1>5, <1>6, <1>7, <1>8, <1>9

(* Asking for the capabilities uses the open device and leaves everything  *)
(* in place.                                                               *)
LEMMA ProbeCapabilitiesStep ==
    ASSUME ProcessInv, ProbeCapabilities, UNCHANGED <<NotCamera, built>>
    PROVE  /\ CameraMoves /\ Control' /\ Ledger' /\ OnlyChanges(CameraKinds)
           /\ CameraInv'
<1>1. CameraMoves
  BY DEF CameraMoves, Streaming, ProbeCapabilities, cameraVars, setupVars, NoConfig
<1>2. Control'
  BY DEF Control, ProbeCapabilities, cameraVars, setupVars, NoConfig
<1>3. OnlyChanges(CameraKinds)
  BY CameraNames DEF OnlyChanges, CameraKinds, ProbeCapabilities, cameraVars, setupVars,
                     NoConfig
<1>4. Ledger'
  BY CameraNames, Sizes DEF Ledger, Universe, CameraHandles, CameraPlace, Owned, Same,
                            ProbeCapabilities, cameraVars, setupVars, NoConfig
<1>5. CameraTyped'
  BY CameraNames DEF CameraTyped, ProbeCapabilities, cameraVars, setupVars, NoConfig
<1>6. CameraHandles'
  BY CameraNames, Sizes DEF CameraHandles, Owned, Same, CameraPlace, ProbeCapabilities,
                            cameraVars, setupVars, NoConfig
<1>7. CameraBuffers'
  BY CameraNames DEF CameraBuffers, ProbeCapabilities, cameraVars, setupVars, NoConfig
<1>8. CameraPlace'
  BY CameraNames, Sizes DEF CameraPlace, CameraTyped, CameraBuffers, Streaming,
                            ProbeCapabilities, cameraVars, setupVars, NoConfig
<1>9. CameraElsewhere'
  BY CameraNames DEF CameraElsewhere, ProbeCapabilities, cameraVars, setupVars, NoConfig
<1> QED BY <1>1, <1>2, <1>3, <1>4, <1>5, <1>6, <1>7, <1>8, <1>9

(* Setting format and rate uses the open device; the rate kept is one the  *)
(* driver reports.                                                         *)
LEMMA ApplyFormatStep ==
    ASSUME ProcessInv, ApplyFormat, UNCHANGED <<NotCamera, built>>
    PROVE  /\ CameraMoves /\ Control' /\ Ledger' /\ OnlyChanges(CameraKinds)
           /\ CameraInv'
<1>1. CameraMoves
  BY DEF CameraMoves, Streaming, ApplyFormat, cameraVars, setupVars
<1>2. Control'
  BY DEF Control, ApplyFormat, cameraVars, setupVars
<1>3. OnlyChanges(CameraKinds)
  BY CameraNames DEF OnlyChanges, CameraKinds, ApplyFormat, cameraVars, setupVars
<1>4. Ledger'
  BY CameraNames, Sizes DEF Ledger, Universe, CameraHandles, CameraPlace, Owned, Same,
                            ApplyFormat, cameraVars, setupVars
<1>5. CameraTyped'
  BY CameraNames DEF CameraTyped, ApplyFormat, cameraVars, setupVars
<1>6. CameraHandles'
  BY CameraNames DEF CameraHandles, Owned, Same, ApplyFormat, cameraVars, setupVars
<1>7. CameraBuffers'
  BY CameraNames DEF CameraBuffers, ApplyFormat, cameraVars, setupVars
<1>8. CameraPlace'
  BY CameraNames, Sizes DEF CameraPlace, CameraTyped, CameraBuffers, Streaming,
                            ApplyFormat, cameraVars, setupVars
<1>9. CameraElsewhere'
  BY CameraNames DEF CameraElsewhere, ApplyFormat, cameraVars, setupVars
<1> QED BY <1>1, <1>2, <1>3, <1>4, <1>5, <1>6, <1>7, <1>8, <1>9

(* What RequestBuffers forgets is not there yet.                            *)
LEMMA RequestForgetsNothing ==
    ASSUME ProcessInv, RequestBuffers
    PROVE  known' = known
<1>1. ASSUME NEW x \in All("camera_memory") \union All("camera_mapping")
                       \union All("camera_read")
      PROVE x \notin known
  <2>1. PICK i \in Entries : x \in {Memory(i), Mapping(i), CpuRead(i)}
    BY <1>1 DEF All, Each, Memory, Mapping, CpuRead
  <2>2. numBuffers = 0 BY DEF RequestBuffers
  <2> QED BY <2>1, <2>2, Sizes DEF CameraBuffers
<1> QED BY <1>1 DEF RequestBuffers

(* REQBUFS grants the slots the loop that follows allocates for, or fails  *)
(* with the device open and no buffer.                                     *)
LEMMA RequestBuffersStep ==
    ASSUME ProcessInv, RequestBuffers, UNCHANGED <<NotCamera, built>>
    PROVE  /\ CameraMoves /\ Control' /\ Ledger' /\ OnlyChanges(CameraKinds)
           /\ CameraInv'
<1>1. CameraMoves
  BY DEF CameraMoves, Streaming, RequestBuffers, cameraVars, setupVars
<1>2. Control'
  BY DEF Control, RequestBuffers, cameraVars, setupVars
<1>3. OnlyChanges(CameraKinds)
  BY CameraNames, AllKind DEF OnlyChanges, CameraKinds, RequestBuffers, cameraVars,
                              setupVars, All
<1>4. Ledger'
  BY CameraNames, Sizes DEF Ledger, Universe, CameraHandles, CameraPlace, Owned, Same,
                            RequestBuffers, cameraVars, setupVars
<1>5. CameraTyped'
  BY CameraNames DEF CameraTyped, RequestBuffers, cameraVars, setupVars
<1>6. CameraHandles'
  <2>1. known' = known BY RequestForgetsNothing
  <2>2. PICK n \in 0 .. MaxAlloca + 1 :
           /\ granted' = n
           /\ Acquire({Device}, IF n = 0 THEN {} ELSE {Slots})
           /\ Goto(IF n \in 1 .. MaxAlloca THEN "camera_allocate" ELSE "camera_rollback")
    BY DEF RequestBuffers
  <2>3. pc = "camera_request" /\ numBuffers = 0 /\ numBuffers' = numBuffers /\ loop' = 0
        /\ Device \in known /\ Device \in held
    BY DEF RequestBuffers, Ledger
  <2>4. n \in 1 .. MaxAlloca => n # 0 /\ n \in Nat /\ n > 0 /\ n <= MaxAlloca
    BY Sizes
  <2> QED BY <2>1, <2>2, <2>3, <2>4, CameraNames, Sizes DEF CameraHandles, Owned, Same
<1>7. CameraBuffers'
  <2>1. known' = known BY RequestForgetsNothing
  <2>2. PICK n \in 0 .. MaxAlloca + 1 :
           /\ granted' = n
           /\ Acquire({Device}, IF n = 0 THEN {} ELSE {Slots})
           /\ Goto(IF n \in 1 .. MaxAlloca THEN "camera_allocate" ELSE "camera_rollback")
    BY DEF RequestBuffers
  <2>3. pc = "camera_request" /\ numBuffers = 0 /\ numBuffers' = numBuffers /\ loop' = 0
        /\ Device \in known /\ Device \in held
    BY DEF RequestBuffers, Ledger
  <2>4. n \in 1 .. MaxAlloca => n # 0 /\ n \in Nat /\ n > 0 /\ n <= MaxAlloca
    BY Sizes
  <2> QED BY <2>1, <2>2, <2>3, <2>4, CameraNames, Sizes DEF CameraBuffers, CameraTyped
<1>8. CameraPlace'
  <2>1. known' = known BY RequestForgetsNothing
  <2>2. PICK n \in 0 .. MaxAlloca + 1 :
           /\ granted' = n
           /\ Acquire({Device}, IF n = 0 THEN {} ELSE {Slots})
           /\ Goto(IF n \in 1 .. MaxAlloca THEN "camera_allocate" ELSE "camera_rollback")
    BY DEF RequestBuffers
  <2>3. pc = "camera_request" /\ numBuffers = 0 /\ numBuffers' = numBuffers /\ loop' = 0
        /\ Device \in known /\ Device \in held
    BY DEF RequestBuffers, Ledger
  <2>4. n \in 1 .. MaxAlloca => n # 0 /\ n \in Nat /\ n > 0 /\ n <= MaxAlloca
    BY Sizes
  <2> QED BY <2>1, <2>2, <2>3, <2>4, CameraNames, Sizes
          DEF CameraPlace, CameraTyped, CameraHandles, CameraBuffers, Streaming
<1>9. CameraElsewhere'
  BY CameraNames DEF CameraElsewhere, RequestBuffers, cameraVars, setupVars
<1> QED BY <1>1, <1>2, <1>3, <1>4, <1>5, <1>6, <1>7, <1>8, <1>9

(* A camera buffer's memory is allocated for the next index, which is not  *)
(* taken.                                                                  *)
LEMMA AllocMemoryStep ==
    ASSUME ProcessInv, AllocMemory, UNCHANGED <<NotCamera, built>>
    PROVE  /\ CameraMoves /\ Control' /\ Ledger' /\ OnlyChanges(CameraKinds)
           /\ CameraInv'
<1>1. CameraMoves
  BY DEF CameraMoves, Streaming, AllocMemory, cameraVars, setupVars
<1>2. Control'
  BY DEF Control, AllocMemory, cameraVars, setupVars
<1>3. OnlyChanges(CameraKinds)
  BY CameraNames DEF OnlyChanges, CameraKinds, AllocMemory, cameraVars, setupVars
<1>4. Ledger'
  BY CameraNames, Sizes DEF Ledger, Universe, CameraHandles, CameraPlace, Owned, Same,
                            CameraBuffers, CameraTyped, AllocMemory, cameraVars, setupVars
<1>5. CameraTyped'
  BY CameraNames DEF CameraTyped, AllocMemory, cameraVars, setupVars
<1>6. CameraHandles'
  BY CameraNames DEF CameraHandles, Owned, Same, AllocMemory, cameraVars, setupVars
<1>7. CameraBuffers'
  BY CameraNames DEF CameraBuffers, AllocMemory, cameraVars, setupVars
<1>8. CameraPlace'
  BY CameraNames, Sizes DEF CameraPlace, CameraTyped, CameraBuffers, Streaming,
                            AllocMemory, cameraVars, setupVars
<1>9. CameraElsewhere'
  BY CameraNames DEF CameraElsewhere, AllocMemory, cameraVars, setupVars
<1> QED BY <1>1, <1>2, <1>3, <1>4, <1>5, <1>6, <1>7, <1>8, <1>9

(* The memory just allocated is mapped, and the buffer counts from then    *)
(* on.                                                                     *)
LEMMA MapMemoryStep ==
    ASSUME ProcessInv, MapMemory, UNCHANGED <<NotCamera, built>>
    PROVE  /\ CameraMoves /\ Control' /\ Ledger' /\ OnlyChanges(CameraKinds)
           /\ CameraInv'
<1>1. CameraMoves
  BY DEF CameraMoves, Streaming, MapMemory, cameraVars, setupVars
<1>2. Control'
  BY DEF Control, MapMemory, cameraVars, setupVars
<1>3. OnlyChanges(CameraKinds)
  BY CameraNames DEF OnlyChanges, CameraKinds, MapMemory, cameraVars, setupVars
<1>4. Ledger'
  BY CameraNames, Sizes DEF Ledger, Universe, CameraHandles, CameraPlace, Owned, Same,
                            CameraBuffers, CameraTyped, MapMemory, cameraVars, setupVars
<1>5. CameraTyped'
  BY CameraNames, Sizes DEF MapMemory, cameraVars, setupVars, Ledger, Control,
                            CameraTyped, CameraHandles, CameraBuffers, CameraPlace,
                            CameraElsewhere, CameraDown, Streaming, Owned, Same
<1>6. CameraHandles'
  BY CameraNames DEF CameraHandles, Owned, Same, MapMemory, cameraVars, setupVars
<1>7. CameraBuffers'
  BY CameraNames, Sizes DEF CameraBuffers, CameraTyped, CameraPlace, MapMemory,
                            cameraVars, setupVars
<1>8. CameraPlace'
  BY CameraNames, Sizes DEF CameraPlace, CameraTyped, CameraBuffers, Streaming, MapMemory,
                            cameraVars, setupVars
<1>9. CameraElsewhere'
  BY CameraNames DEF CameraElsewhere, MapMemory, cameraVars, setupVars
<1> QED BY <1>1, <1>2, <1>3, <1>4, <1>5, <1>6, <1>7, <1>8, <1>9

(* A failed allocation leads to the release of the buffers before it.      *)
LEMMA AllocFailsStep ==
    ASSUME ProcessInv, AllocFails, UNCHANGED <<NotCamera, built>>
    PROVE  /\ CameraMoves /\ Control' /\ Ledger' /\ OnlyChanges(CameraKinds)
           /\ CameraInv'
<1>1. CameraMoves
  BY DEF CameraMoves, Streaming, AllocFails, DeinitThen, cameraVars, setupVars
<1>2. Control'
  BY DEF Control, AllocFails, DeinitThen, cameraVars, setupVars
<1>3. OnlyChanges(CameraKinds)
  BY CameraNames DEF OnlyChanges, CameraKinds, AllocFails, DeinitThen, cameraVars,
                     setupVars
<1>4. Ledger'
  BY CameraNames DEF Ledger, Universe, AllocFails, DeinitThen, cameraVars, setupVars
<1>5. CameraTyped'
  BY CameraNames DEF CameraTyped, AllocFails, DeinitThen, cameraVars, setupVars
<1>6. CameraHandles'
  BY CameraNames DEF CameraHandles, Owned, Same, AllocFails, DeinitThen, cameraVars,
                     setupVars
<1>7. CameraBuffers'
  BY CameraNames, Sizes DEF CameraBuffers, CameraTyped, CameraPlace, AllocFails,
                            DeinitThen, cameraVars, setupVars
<1>8. CameraPlace'
  BY CameraNames, Sizes DEF CameraPlace, CameraTyped, CameraBuffers, Streaming,
                            AllocFails, DeinitThen, cameraVars, setupVars
<1>9. CameraElsewhere'
  BY CameraNames DEF CameraElsewhere, AllocFails, DeinitThen, cameraVars, setupVars
<1> QED BY <1>1, <1>2, <1>3, <1>4, <1>5, <1>6, <1>7, <1>8, <1>9

(* A failed mapping closes the memory it was for; the buffers before it    *)
(* are released next.                                                      *)
LEMMA MapFailsStep ==
    ASSUME ProcessInv, MapFails, UNCHANGED <<NotCamera, built>>
    PROVE  /\ CameraMoves /\ Control' /\ Ledger' /\ OnlyChanges(CameraKinds)
           /\ CameraInv'
<1>1. CameraMoves
  BY DEF CameraMoves, Streaming, MapFails, DeinitThen, cameraVars, setupVars
<1>2. Control'
  BY DEF Control, MapFails, DeinitThen, cameraVars, setupVars
<1>3. OnlyChanges(CameraKinds)
  BY CameraNames DEF OnlyChanges, CameraKinds, MapFails, DeinitThen, cameraVars, setupVars
<1>4. Ledger'
  BY CameraNames, Sizes DEF Ledger, Universe, CameraHandles, CameraPlace, Owned, Same,
                            CameraBuffers, CameraTyped, MapFails, DeinitThen, cameraVars,
                            setupVars
<1>5. CameraTyped'
  BY CameraNames DEF CameraTyped, MapFails, DeinitThen, cameraVars, setupVars
<1>6. CameraHandles'
  BY CameraNames DEF CameraHandles, Owned, Same, MapFails, DeinitThen, cameraVars,
                     setupVars
<1>7. CameraBuffers'
  BY CameraNames, Sizes DEF CameraBuffers, CameraTyped, CameraPlace, MapFails, DeinitThen,
                            cameraVars, setupVars
<1>8. CameraPlace'
  BY CameraNames, Sizes DEF CameraPlace, CameraTyped, CameraBuffers, Streaming, MapFails,
                            DeinitThen, cameraVars, setupVars
<1>9. CameraElsewhere'
  BY CameraNames DEF CameraElsewhere, MapFails, DeinitThen, cameraVars, setupVars
<1> QED BY <1>1, <1>2, <1>3, <1>4, <1>5, <1>6, <1>7, <1>8, <1>9

(* When as many buffers are mapped as were granted, none is queued yet.    *)
LEMMA AllAllocatedStep ==
    ASSUME ProcessInv, AllAllocated, UNCHANGED <<NotCamera, built>>
    PROVE  /\ CameraMoves /\ Control' /\ Ledger' /\ OnlyChanges(CameraKinds)
           /\ CameraInv'
<1>1. CameraMoves
  BY DEF CameraMoves, Streaming, AllAllocated, cameraVars, setupVars
<1>2. Control'
  BY DEF Control, AllAllocated, cameraVars, setupVars
<1>3. OnlyChanges(CameraKinds)
  BY CameraNames DEF OnlyChanges, CameraKinds, AllAllocated, cameraVars, setupVars
<1>4. Ledger'
  BY CameraNames DEF Ledger, Universe, AllAllocated, cameraVars, setupVars
<1>5. CameraTyped'
  BY CameraNames DEF CameraTyped, AllAllocated, cameraVars, setupVars
<1>6. CameraHandles'
  BY CameraNames DEF CameraHandles, Owned, Same, AllAllocated, cameraVars, setupVars
<1>7. CameraBuffers'
  BY CameraNames DEF CameraBuffers, AllAllocated, cameraVars, setupVars
<1>8. CameraPlace'
  BY CameraNames, Sizes DEF CameraPlace, CameraTyped, CameraBuffers, Streaming,
                            AllAllocated, cameraVars, setupVars
<1>9. CameraElsewhere'
  BY CameraNames DEF CameraElsewhere, AllAllocated, cameraVars, setupVars
<1> QED BY <1>1, <1>2, <1>3, <1>4, <1>5, <1>6, <1>7, <1>8, <1>9

(* The next buffer goes into the driver once.                              *)
LEMMA QueueBufferStep ==
    ASSUME ProcessInv, QueueBuffer, UNCHANGED <<NotCamera, built>>
    PROVE  /\ CameraMoves /\ Control' /\ Ledger' /\ OnlyChanges(CameraKinds)
           /\ CameraInv'
<1>1. CameraMoves
  BY DEF CameraMoves, Streaming, QueueBuffer, cameraVars, setupVars
<1>2. Control'
  BY DEF Control, QueueBuffer, cameraVars, setupVars
<1>3. OnlyChanges(CameraKinds)
  BY CameraNames DEF OnlyChanges, CameraKinds, QueueBuffer, cameraVars, setupVars
<1>4. Ledger'
  BY CameraNames, Sizes DEF Ledger, Universe, CameraHandles, CameraPlace, Owned, Same,
                            CameraBuffers, CameraTyped, QueueBuffer, cameraVars, setupVars
<1>5. CameraTyped'
  BY CameraNames DEF CameraTyped, QueueBuffer, cameraVars, setupVars
<1>6. CameraHandles'
  BY CameraNames, Sizes DEF QueueBuffer, cameraVars, setupVars, Ledger, Control,
                            CameraTyped, CameraHandles, CameraBuffers, CameraPlace,
                            CameraElsewhere, CameraDown, Streaming, Owned, Same
<1>7. CameraBuffers'
  BY CameraNames DEF CameraBuffers, QueueBuffer, cameraVars, setupVars
<1>8. CameraPlace'
  BY CameraNames, Sizes DEF CameraPlace, CameraTyped, CameraBuffers, Streaming,
                            QueueBuffer, cameraVars, setupVars
<1>9. CameraElsewhere'
  BY CameraNames DEF CameraElsewhere, QueueBuffer, cameraVars, setupVars
<1> QED BY <1>1, <1>2, <1>3, <1>4, <1>5, <1>6, <1>7, <1>8, <1>9

(* After the loop every granted buffer is in the driver.                   *)
LEMMA AllQueuedStep ==
    ASSUME ProcessInv, AllQueued, UNCHANGED <<NotCamera, built>>
    PROVE  /\ CameraMoves /\ Control' /\ Ledger' /\ OnlyChanges(CameraKinds)
           /\ CameraInv'
<1>1. CameraMoves
  BY DEF CameraMoves, Streaming, AllQueued, cameraVars, setupVars
<1>2. Control'
  BY DEF Control, AllQueued, cameraVars, setupVars
<1>3. OnlyChanges(CameraKinds)
  BY CameraNames DEF OnlyChanges, CameraKinds, AllQueued, cameraVars, setupVars
<1>4. Ledger'
  BY CameraNames DEF Ledger, Universe, AllQueued, cameraVars, setupVars
<1>5. CameraTyped'
  BY CameraNames DEF CameraTyped, AllQueued, cameraVars, setupVars
<1>6. CameraHandles'
  BY CameraNames DEF CameraHandles, Owned, Same, AllQueued, cameraVars, setupVars
<1>7. CameraBuffers'
  BY CameraNames DEF CameraBuffers, AllQueued, cameraVars, setupVars
<1>8. CameraPlace'
  BY CameraNames DEF CameraPlace, AllQueued, cameraVars, setupVars
<1>9. CameraElsewhere'
  BY CameraNames DEF CameraElsewhere, AllQueued, cameraVars, setupVars
<1> QED BY <1>1, <1>2, <1>3, <1>4, <1>5, <1>6, <1>7, <1>8, <1>9

(* Setting the exposure uses the open device.                              *)
LEMMA SetExposureStep ==
    ASSUME ProcessInv, SetExposure, UNCHANGED <<NotCamera, built>>
    PROVE  /\ CameraMoves /\ Control' /\ Ledger' /\ OnlyChanges(CameraKinds)
           /\ CameraInv'
<1>1. CameraMoves
  BY DEF CameraMoves, Streaming, SetExposure, cameraVars, setupVars
<1>2. Control'
  BY DEF Control, SetExposure, cameraVars, setupVars
<1>3. OnlyChanges(CameraKinds)
  BY CameraNames DEF OnlyChanges, CameraKinds, SetExposure, cameraVars, setupVars
<1>4. Ledger'
  BY CameraNames, Sizes DEF Ledger, Universe, CameraHandles, CameraPlace, Owned, Same,
                            SetExposure, cameraVars, setupVars
<1>5. CameraTyped'
  BY CameraNames DEF CameraTyped, SetExposure, cameraVars, setupVars
<1>6. CameraHandles'
  BY CameraNames DEF CameraHandles, Owned, Same, SetExposure, cameraVars, setupVars
<1>7. CameraBuffers'
  BY CameraNames DEF CameraBuffers, SetExposure, cameraVars, setupVars
<1>8. CameraPlace'
  BY CameraNames, Sizes DEF CameraPlace, CameraTyped, CameraBuffers, Streaming,
                            SetExposure, cameraVars, setupVars
<1>9. CameraElsewhere'
  BY CameraNames DEF CameraElsewhere, SetExposure, cameraVars, setupVars
<1> QED BY <1>1, <1>2, <1>3, <1>4, <1>5, <1>6, <1>7, <1>8, <1>9

(* The stream starts with every granted buffer queued; the camera is up.   *)
LEMMA StartStreamStep ==
    ASSUME ProcessInv, StartStream, UNCHANGED <<NotCamera, built>>
    PROVE  /\ CameraMoves /\ Control' /\ Ledger' /\ OnlyChanges(CameraKinds)
           /\ CameraInv'
<1>1. CameraMoves
  BY DEF CameraMoves, Streaming, StartStream, cameraVars, setupVars
<1>2. Control'
  BY DEF Control, StartStream, cameraVars, setupVars
<1>3. OnlyChanges(CameraKinds)
  BY CameraNames DEF OnlyChanges, CameraKinds, StartStream, cameraVars, setupVars
<1>4. Ledger'
  BY CameraNames, Sizes DEF Ledger, Universe, CameraHandles, CameraPlace, Owned, Same,
                            CameraBuffers, CameraTyped, StartStream, cameraVars, setupVars
<1>5. CameraTyped'
  BY CameraNames DEF CameraTyped, StartStream, cameraVars, setupVars
<1>6. CameraHandles'
  BY CameraNames, Sizes DEF StartStream, cameraVars, setupVars, Ledger, Control,
                            CameraTyped, CameraHandles, CameraBuffers, CameraPlace,
                            CameraElsewhere, CameraDown, Streaming, Owned, Same
<1>7. CameraBuffers'
  BY CameraNames DEF CameraBuffers, StartStream, cameraVars, setupVars
<1>8. CameraPlace'
  BY CameraNames, Sizes DEF CameraPlace, CameraTyped, CameraBuffers, Streaming,
                            StartStream, cameraVars, setupVars
<1>9. CameraElsewhere'
  BY CameraNames, Sizes DEF CameraElsewhere, CameraPlace, CameraDown, CameraTyped,
                            CameraHandles, Same, Control, StartStream, cameraVars,
                            setupVars
<1> QED BY <1>1, <1>2, <1>3, <1>4, <1>5, <1>6, <1>7, <1>8, <1>9

(* A failure after the allocation leads to the release of every buffer.    *)
LEMMA QueueOrStartFailsStep ==
    ASSUME ProcessInv, QueueOrStartFails, UNCHANGED <<NotCamera, built>>
    PROVE  /\ CameraMoves /\ Control' /\ Ledger' /\ OnlyChanges(CameraKinds)
           /\ CameraInv'
<1>1. CameraMoves
  BY DEF CameraMoves, Streaming, QueueOrStartFails, DeinitThen, cameraVars, setupVars
<1>2. Control'
  BY DEF Control, QueueOrStartFails, DeinitThen, cameraVars, setupVars
<1>3. OnlyChanges(CameraKinds)
  BY CameraNames DEF OnlyChanges, CameraKinds, QueueOrStartFails, DeinitThen, cameraVars,
                     setupVars
<1>4. Ledger'
  BY CameraNames, Sizes DEF Ledger, Universe, CameraHandles, CameraPlace, Owned, Same,
                            QueueOrStartFails, DeinitThen, cameraVars, setupVars
<1>5. CameraTyped'
  BY CameraNames DEF CameraTyped, QueueOrStartFails, DeinitThen, cameraVars, setupVars
<1>6. CameraHandles'
  BY CameraNames DEF CameraHandles, Owned, Same, QueueOrStartFails, DeinitThen,
                     cameraVars, setupVars
<1>7. CameraBuffers'
  BY CameraNames, Sizes DEF CameraBuffers, CameraTyped, CameraPlace, QueueOrStartFails,
                            DeinitThen, cameraVars, setupVars
<1>8. CameraPlace'
  BY CameraNames, Sizes DEF CameraPlace, CameraTyped, CameraBuffers, Streaming,
                            QueueOrStartFails, DeinitThen, cameraVars, setupVars
<1>9. CameraElsewhere'
  BY CameraNames DEF CameraElsewhere, QueueOrStartFails, DeinitThen, cameraVars, setupVars
<1> QED BY <1>1, <1>2, <1>3, <1>4, <1>5, <1>6, <1>7, <1>8, <1>9

(* Without buffers there is nothing to release, and the slots stay for the *)
(* close.                                                                  *)
LEMMA DeinitNothingStep ==
    ASSUME ProcessInv, DeinitNothing, UNCHANGED <<NotCamera, built>>
    PROVE  /\ CameraMoves /\ Control' /\ Ledger' /\ OnlyChanges(CameraKinds)
           /\ CameraInv'
<1>1. CameraMoves
  BY DEF CameraMoves, Streaming, Control, DeinitNothing, cameraVars, setupVars
<1>2. Control'
  BY DEF Control, DeinitNothing, cameraVars, setupVars
<1>3. OnlyChanges(CameraKinds)
  BY CameraNames DEF OnlyChanges, CameraKinds, DeinitNothing, cameraVars, setupVars
<1>4. Ledger'
  BY CameraNames DEF Ledger, Universe, DeinitNothing, cameraVars, setupVars
<1>5. CameraTyped'
  BY CameraNames DEF CameraTyped, DeinitNothing, cameraVars, setupVars
<1>6. CameraHandles'
  BY CameraNames DEF CameraHandles, Owned, Same, DeinitNothing, cameraVars, setupVars
<1>7. CameraBuffers'
  BY CameraNames, Sizes DEF DeinitNothing, cameraVars, setupVars, Ledger, Control,
                            CameraTyped, CameraHandles, CameraBuffers, CameraPlace,
                            CameraElsewhere, CameraDown, Streaming, Owned, Same
<1>8. CameraPlace'
  BY CameraNames, Sizes DEF DeinitNothing, cameraVars, setupVars, Ledger, Control,
                            CameraTyped, CameraHandles, CameraBuffers, CameraPlace,
                            CameraElsewhere, CameraDown, Streaming, Owned, Same
<1>9. CameraElsewhere'
  BY CameraNames, Sizes DEF CameraElsewhere, CameraPlace, CameraDown, CameraTyped,
                            CameraHandles, Same, Control, DeinitNothing, cameraVars,
                            setupVars
<1> QED BY <1>1, <1>2, <1>3, <1>4, <1>5, <1>6, <1>7, <1>8, <1>9

(* The next buffer's CPU read, mapping and memory are released, each if it *)
(* is known, or refused and forgotten.                                     *)
LEMMA ReleaseBufferStep ==
    ASSUME ProcessInv, ReleaseBuffer, UNCHANGED <<NotCamera, built>>
    PROVE  /\ CameraMoves /\ Control' /\ Ledger' /\ OnlyChanges(CameraKinds)
           /\ CameraInv'
<1>1. CameraMoves
  BY DEF CameraMoves, Streaming, ReleaseBuffer, cameraVars, setupVars
<1>2. Control'
  BY DEF Control, ReleaseBuffer, cameraVars, setupVars
<1>3. OnlyChanges(CameraKinds)
  BY CameraNames DEF OnlyChanges, CameraKinds, ReleaseBuffer, cameraVars, setupVars
<1>4. Ledger'
  BY CameraNames DEF Ledger, Universe, ReleaseBuffer, cameraVars, setupVars
<1>5. CameraTyped'
  BY CameraNames DEF CameraTyped, ReleaseBuffer, cameraVars, setupVars
<1>6. CameraHandles'
  BY CameraNames DEF CameraHandles, Owned, Same, ReleaseBuffer, cameraVars, setupVars
<1>7. CameraBuffers'
  BY CameraNames, Sizes DEF CameraBuffers, CameraTyped, CameraPlace, ReleaseBuffer,
                            cameraVars, setupVars
<1>8. CameraPlace'
  BY CameraNames, Sizes DEF CameraPlace, CameraTyped, CameraBuffers, Streaming,
                            ReleaseBuffer, cameraVars, setupVars
<1>9. CameraElsewhere'
  BY CameraNames DEF CameraElsewhere, ReleaseBuffer, cameraVars, setupVars
<1> QED BY <1>1, <1>2, <1>3, <1>4, <1>5, <1>6, <1>7, <1>8, <1>9

(* After the last buffer the driver's slots go, or stay while it streams;  *)
(* no buffer is counted.                                                   *)
LEMMA ReleaseSlotsStep ==
    ASSUME ProcessInv, ReleaseSlots, UNCHANGED <<NotCamera, built>>
    PROVE  /\ CameraMoves /\ Control' /\ Ledger' /\ OnlyChanges(CameraKinds)
           /\ CameraInv'
<1>1. CameraMoves
  BY DEF CameraMoves, Streaming, Control, ReleaseSlots, cameraVars, setupVars, OfSlots
<1>2. Control'
  BY DEF Control, ReleaseSlots, cameraVars, setupVars, OfSlots
<1>3. OnlyChanges(CameraKinds)
  BY CameraNames DEF OnlyChanges, CameraKinds, ReleaseSlots, cameraVars, setupVars,
                     OfSlots
<1>4. Ledger'
  BY CameraNames, Sizes DEF Ledger, Universe, CameraHandles, CameraPlace, Owned, Same,
                            CameraBuffers, CameraTyped, ReleaseSlots, cameraVars,
                            setupVars, OfSlots
<1>5. CameraTyped'
  BY CameraNames, Sizes DEF CameraTyped, ReleaseSlots, cameraVars, setupVars, OfSlots
<1>6. CameraHandles'
  BY CameraNames DEF CameraHandles, Owned, Same, ReleaseSlots, cameraVars, setupVars,
                     OfSlots
<1>7. CameraBuffers'
  BY CameraNames, Sizes DEF ReleaseSlots, cameraVars, setupVars, OfSlots, Ledger, Control,
                            CameraTyped, CameraHandles, CameraBuffers, CameraPlace,
                            CameraElsewhere, CameraDown, Streaming, Owned, Same
<1>8. CameraPlace'
  BY CameraNames, Sizes DEF ReleaseSlots, cameraVars, setupVars, OfSlots, Ledger, Control,
                            CameraTyped, CameraHandles, CameraBuffers, CameraPlace,
                            CameraElsewhere, CameraDown, Streaming, Owned, Same
<1>9. CameraElsewhere'
  BY CameraNames, Sizes DEF CameraElsewhere, CameraPlace, CameraDown, CameraTyped,
                            CameraHandles, Same, Control, ReleaseSlots, cameraVars,
                            setupVars, OfSlots
<1> QED BY <1>1, <1>2, <1>3, <1>4, <1>5, <1>6, <1>7, <1>8, <1>9

(* Closing the device after a failure forgets it; what hangs on it goes    *)
(* with it, unless close fails.                                            *)
LEMMA CloseOnFailureStep ==
    ASSUME ProcessInv, CloseOnFailure, UNCHANGED <<NotCamera, built>>
    PROVE  /\ CameraMoves /\ Control' /\ Ledger' /\ OnlyChanges(CameraKinds)
           /\ CameraInv'
<1>1. CameraMoves
  BY DEF CameraMoves, Streaming, CloseOnFailure, cameraVars, setupVars, OfDevice, OfSlots
<1>2. Control'
  BY DEF Control, CloseOnFailure, cameraVars, setupVars, OfDevice, OfSlots
<1>3. OnlyChanges(CameraKinds)
  BY CameraNames DEF OnlyChanges, CameraKinds, CloseOnFailure, cameraVars, setupVars,
                     OfDevice, OfSlots
<1>4. Ledger'
  BY CameraNames, Sizes DEF Ledger, Universe, CameraHandles, CameraPlace, Owned, Same,
                            CameraBuffers, CameraTyped, CloseOnFailure, cameraVars,
                            setupVars, OfDevice, OfSlots
<1>5. CameraTyped'
  BY CameraNames DEF CameraTyped, CloseOnFailure, cameraVars, setupVars, OfDevice, OfSlots
<1>6. CameraHandles'
  BY CameraNames, Sizes DEF CameraHandles, Owned, Same, CameraPlace, CloseOnFailure,
                            cameraVars, setupVars, OfDevice, OfSlots
<1>7. CameraBuffers'
  BY CameraNames, Sizes DEF CameraBuffers, CameraTyped, CameraPlace, CloseOnFailure,
                            cameraVars, setupVars, OfDevice, OfSlots
<1>8. CameraPlace'
  BY CameraNames, Sizes DEF CameraPlace, CameraTyped, CameraBuffers, Streaming,
                            CloseOnFailure, cameraVars, setupVars, OfDevice, OfSlots
<1>9. CameraElsewhere'
  BY CameraNames, Sizes DEF CameraElsewhere, CameraPlace, CameraDown, CameraTyped,
                            CameraHandles, Same, Control, CloseOnFailure, cameraVars,
                            setupVars, OfDevice, OfSlots
<1> QED BY <1>1, <1>2, <1>3, <1>4, <1>5, <1>6, <1>7, <1>8, <1>9

(* Stopping the stream empties the driver's queue, or is refused and the   *)
(* destructor goes on.                                                     *)
LEMMA StopStreamStep ==
    ASSUME ProcessInv, StopStream, UNCHANGED <<NotCamera, built>>
    PROVE  /\ CameraMoves /\ Control' /\ Ledger' /\ OnlyChanges(CameraKinds)
           /\ CameraInv'
<1>1. CameraMoves
  BY DEF CameraMoves, Streaming, StopStream, DeinitThen, cameraVars, setupVars
<1>2. Control'
  BY DEF Control, StopStream, DeinitThen, cameraVars, setupVars
<1>3. OnlyChanges(CameraKinds)
  BY CameraNames DEF OnlyChanges, CameraKinds, StopStream, DeinitThen, cameraVars,
                     setupVars
<1>4. Ledger'
  BY CameraNames, Sizes DEF Ledger, Universe, CameraHandles, CameraPlace, Owned, Same,
                            CameraBuffers, CameraTyped, StopStream, DeinitThen,
                            cameraVars, setupVars
<1>5. CameraTyped'
  BY CameraNames DEF CameraTyped, StopStream, DeinitThen, cameraVars, setupVars
<1>6. CameraHandles'
  BY CameraNames DEF CameraHandles, Owned, Same, StopStream, DeinitThen, cameraVars,
                     setupVars
<1>7. CameraBuffers'
  <2>1. /\ pc = "destroy_camera" /\ pc' = "camera_deinit"
        /\ loop' = 0 /\ numBuffers' = numBuffers
        /\ \A x : x \notin {Stream} => x \in known' <=> x \in known
        /\ \A x : x \in held /\ x \notin {Stream} \union OfStream => x \in held'
    BY DEF StopStream, DeinitThen, setupVars
  <2> QED BY <2>1, CameraNames, Sizes DEF CameraBuffers, CameraTyped
<1>8. CameraPlace'
  BY CameraNames, Sizes DEF StopStream, DeinitThen, cameraVars, setupVars, Ledger,
                            Control, CameraTyped, CameraHandles, CameraBuffers,
                            CameraPlace, CameraElsewhere, CameraDown, Streaming, Owned,
                            Same
<1>9. CameraElsewhere'
  BY CameraNames DEF CameraElsewhere, StopStream, DeinitThen, cameraVars, setupVars
<1> QED BY <1>1, <1>2, <1>3, <1>4, <1>5, <1>6, <1>7, <1>8, <1>9

(* The destructor closes the device and forgets it unless close fails; the *)
(* camera is down.                                                         *)
LEMMA CloseCameraStep ==
    ASSUME ProcessInv, CloseCamera, UNCHANGED <<NotCamera, built>>
    PROVE  /\ CameraMoves /\ Control' /\ Ledger' /\ OnlyChanges(CameraKinds)
           /\ CameraInv'
<1>1. CameraMoves
  BY DEF CameraMoves, Streaming, CloseCamera, cameraVars, setupVars, OfDevice, OfSlots
<1>2. Control'
  BY DEF Control, CloseCamera, cameraVars, setupVars, OfDevice, OfSlots
<1>3. OnlyChanges(CameraKinds)
  BY CameraNames DEF OnlyChanges, CameraKinds, CloseCamera, cameraVars, setupVars,
                     OfDevice, OfSlots
<1>4. Ledger'
  BY CameraNames, Sizes DEF Ledger, Universe, CameraHandles, CameraPlace, Owned, Same,
                            CameraBuffers, CameraTyped, CloseCamera, cameraVars,
                            setupVars, OfDevice, OfSlots
<1>5. CameraTyped'
  BY CameraNames DEF CameraTyped, CloseCamera, cameraVars, setupVars, OfDevice, OfSlots
<1>6. CameraHandles'
  <2>1. CASE Device \in known
    <3>1. PICK stuck \in SUBSET {Device} :
             /\ held' = held \ (({Device} \ stuck) \union IF stuck = {} THEN OfDevice ELSE {})
             /\ refused' = refused \union stuck
      BY <2>1 DEF CloseCamera
    <3>2. known' = known \ ({Device, Stream} \ held')
      BY <2>1 DEF CloseCamera
    <3>3. pc = "camera_close" /\ pc' = "destroyed"
      BY DEF CloseCamera
    <3>4. Owned(Device)' /\ Same(Stream)'
      BY <3>1, <3>2, CameraNames DEF CameraHandles, Owned, Same, OfDevice, OfSlots, Ledger
    <3> QED BY <3>1, <3>2, <3>3, <3>4, CameraNames
            DEF CameraHandles, Owned, OfDevice, OfSlots
  <2>2. CASE Device \notin known
    BY <2>2, CameraNames DEF CameraHandles, Owned, Same, CloseCamera
  <2> QED BY <2>1, <2>2
<1>7. CameraBuffers'
  BY CameraNames, Sizes DEF CameraBuffers, CameraTyped, CameraPlace, CloseCamera,
                            cameraVars, setupVars, OfDevice, OfSlots
<1>8. CameraPlace'
  BY CameraNames, Sizes DEF CameraPlace, CameraTyped, CameraBuffers, Streaming,
                            CloseCamera, cameraVars, setupVars, OfDevice, OfSlots
<1>9. CameraElsewhere'
  BY CameraNames, Sizes DEF CameraElsewhere, CameraPlace, CameraDown, CameraTyped,
                            CameraHandles, Same, Control, CloseCamera, cameraVars,
                            setupVars, OfDevice, OfSlots
<1> QED BY <1>1, <1>2, <1>3, <1>4, <1>5, <1>6, <1>7, <1>8, <1>9

-----------------------------------------------------------------------------
(* mpp_create gives the context, or fails with nothing held.               *)
LEMMA CreateDecoderStep ==
    ASSUME ProcessInv, CreateDecoder, UNCHANGED <<NotDecoder, built>>
    PROVE  /\ DecoderMoves /\ Control' /\ Ledger' /\ OnlyChanges(DecoderKinds)
           /\ DecoderHandles' /\ DecoderNeeds' /\ DecoderPlace' /\ DecoderElsewhere'
<1>1. DecoderMoves
  BY DEF DecoderMoves, Streaming, Control, CreateDecoder, decoderVars
<1>2. Control'
  BY DEF Control, CreateDecoder, decoderVars
<1>3. OnlyChanges(DecoderKinds)
  BY DecoderNames DEF OnlyChanges, DecoderKinds, CreateDecoder, decoderVars
<1>4. Ledger'
  BY DecoderNames, Sizes DEF Ledger, Universe, DecoderHandles, DecoderPlace, Owned, Same,
                             CreateDecoder, decoderVars
<1>5. DecoderHandles'
  BY DecoderNames DEF DecoderHandles, Owned, Same, CreateDecoder, decoderVars
<1>6. DecoderNeeds'
  BY DecoderNames, Sizes DEF DecoderNeeds, DecoderHandles, Same, DecoderPlace, NoOutputs,
                             CreateDecoder, decoderVars
<1>7. DecoderPlace'
  BY DecoderNames DEF DecoderPlace, CreateDecoder, decoderVars
<1>8. DecoderElsewhere'
  BY DecoderNames, Sizes DEF DecoderElsewhere, DecoderPlace, DecoderNeeds, DecoderDown,
                             NoImports, NoOutputs, AllOutputs, Control, NotDecoder,
                             cameraVars, CameraTyped, CreateDecoder, decoderVars
<1> QED BY <1>1, <1>2, <1>3, <1>4, <1>5, <1>6, <1>7, <1>8

(* mpp_init and the configuration object: the context is known, the object *)
(* is acquired once.                                                       *)
LEMMA InitDecoderStep ==
    ASSUME ProcessInv, InitDecoder, UNCHANGED <<NotDecoder, built>>
    PROVE  /\ DecoderMoves /\ Control' /\ Ledger' /\ OnlyChanges(DecoderKinds)
           /\ DecoderHandles' /\ DecoderNeeds' /\ DecoderPlace' /\ DecoderElsewhere'
<1>1. DecoderMoves
  BY DEF DecoderMoves, Streaming, InitDecoder, decoderVars
<1>2. Control'
  BY DEF Control, InitDecoder, decoderVars
<1>3. OnlyChanges(DecoderKinds)
  BY DecoderNames DEF OnlyChanges, DecoderKinds, InitDecoder, decoderVars
<1>4. Ledger'
  BY DecoderNames, Sizes DEF Ledger, Universe, DecoderHandles, DecoderPlace, Owned, Same,
                             DecoderNeeds, NoOutputs, AllOutputs, NoImports,
                             CameraBuffers, InitDecoder, decoderVars
<1>5. DecoderHandles'
  BY DecoderNames DEF DecoderHandles, Owned, Same, InitDecoder, decoderVars
<1>6. DecoderNeeds'
  BY DecoderNames, Sizes DEF DecoderNeeds, DecoderHandles, Same, DecoderPlace, NoOutputs,
                             InitDecoder, decoderVars
<1>7. DecoderPlace'
  BY DecoderNames DEF DecoderPlace, InitDecoder, decoderVars
<1>8. DecoderElsewhere'
  BY DecoderNames DEF DecoderElsewhere, InitDecoder, decoderVars
<1> QED BY <1>1, <1>2, <1>3, <1>4, <1>5, <1>6, <1>7, <1>8

(* The configuration object is released on success and on failure.         *)
LEMMA ConfigDecoderStep ==
    ASSUME ProcessInv, ConfigDecoder, UNCHANGED <<NotDecoder, built>>
    PROVE  /\ DecoderMoves /\ Control' /\ Ledger' /\ OnlyChanges(DecoderKinds)
           /\ DecoderHandles' /\ DecoderNeeds' /\ DecoderPlace' /\ DecoderElsewhere'
<1>1. DecoderMoves
  BY DEF DecoderMoves, Streaming, ConfigDecoder, decoderVars
<1>2. Control'
  BY DEF Control, ConfigDecoder, decoderVars
<1>3. OnlyChanges(DecoderKinds)
  BY DecoderNames DEF OnlyChanges, DecoderKinds, ConfigDecoder, decoderVars
<1>4. Ledger'
  BY DecoderNames, Sizes DEF Ledger, Universe, DecoderHandles, DecoderPlace, Owned, Same,
                             ConfigDecoder, decoderVars
<1>5. DecoderHandles'
  BY DecoderNames DEF DecoderHandles, Owned, Same, ConfigDecoder, decoderVars
<1>6. DecoderNeeds'
  BY DecoderNames, Sizes DEF DecoderNeeds, DecoderHandles, Same, DecoderPlace, NoOutputs,
                             ConfigDecoder, decoderVars
<1>7. DecoderPlace'
  BY DecoderNames DEF DecoderPlace, ConfigDecoder, decoderVars
<1>8. DecoderElsewhere'
  BY DecoderNames DEF DecoderElsewhere, ConfigDecoder, decoderVars
<1> QED BY <1>1, <1>2, <1>3, <1>4, <1>5, <1>6, <1>7, <1>8

(* The rollback of DecInit destroys the context, which has no group.       *)
LEMMA UndoDecInitStep ==
    ASSUME ProcessInv, UndoDecInit, UNCHANGED <<NotDecoder, built>>
    PROVE  /\ DecoderMoves /\ Control' /\ Ledger' /\ OnlyChanges(DecoderKinds)
           /\ DecoderHandles' /\ DecoderNeeds' /\ DecoderPlace' /\ DecoderElsewhere'
<1>1. DecoderMoves
  BY DEF DecoderMoves, Streaming, Control, UndoDecInit, decoderVars
<1>2. Control'
  BY DEF Control, UndoDecInit, decoderVars
<1>3. OnlyChanges(DecoderKinds)
  BY DecoderNames DEF OnlyChanges, DecoderKinds, UndoDecInit, decoderVars
<1>4. Ledger'
  BY DecoderNames, Sizes DEF Ledger, Universe, DecoderHandles, DecoderPlace, Owned, Same,
                             UndoDecInit, decoderVars
<1>5. DecoderHandles'
  BY DecoderNames DEF DecoderHandles, Owned, Same, UndoDecInit, decoderVars
<1>6. DecoderNeeds'
  BY DecoderNames, Sizes DEF DecoderNeeds, DecoderHandles, Same, DecoderPlace, NoOutputs,
                             UndoDecInit, decoderVars
<1>7. DecoderPlace'
  BY DecoderNames DEF DecoderPlace, UndoDecInit, decoderVars
<1>8. DecoderElsewhere'
  BY DecoderNames, Sizes DEF DecoderElsewhere, DecoderPlace, DecoderNeeds, DecoderDown,
                             NoImports, NoOutputs, AllOutputs, Control, NotDecoder,
                             cameraVars, CameraTyped, UndoDecInit, decoderVars
<1> QED BY <1>1, <1>2, <1>3, <1>4, <1>5, <1>6, <1>7, <1>8

(* The size is set on the context DecInit made.                            *)
LEMMA DecConfigWidthHeightStep ==
    ASSUME ProcessInv, DecConfigWidthHeight, UNCHANGED <<NotDecoder, built>>
    PROVE  /\ DecoderMoves /\ Control' /\ Ledger' /\ OnlyChanges(DecoderKinds)
           /\ DecoderHandles' /\ DecoderNeeds' /\ DecoderPlace' /\ DecoderElsewhere'
<1>1. DecoderMoves
  BY DEF DecoderMoves, Streaming, Control, DecConfigWidthHeight, decoderVars
<1>2. Control'
  BY DEF Control, DecConfigWidthHeight, decoderVars
<1>3. OnlyChanges(DecoderKinds)
  BY DecoderNames DEF OnlyChanges, DecoderKinds, DecConfigWidthHeight, decoderVars
<1>4. Ledger'
  BY DecoderNames DEF Ledger, Universe, DecConfigWidthHeight, decoderVars
<1>5. DecoderHandles'
  BY DecoderNames DEF DecoderHandles, Owned, Same, DecConfigWidthHeight, decoderVars
<1>6. DecoderNeeds'
  BY DecoderNames, Sizes DEF DecoderNeeds, DecoderHandles, Same, DecoderPlace, NoOutputs,
                             DecConfigWidthHeight, decoderVars
<1>7. DecoderPlace'
  BY DecoderNames DEF DecoderPlace, DecConfigWidthHeight, decoderVars
<1>8. DecoderElsewhere'
  BY DecoderNames, Sizes DEF DecoderElsewhere, DecoderPlace, DecoderNeeds, DecoderDown,
                             NoImports, NoOutputs, AllOutputs, Control, NotDecoder,
                             cameraVars, CameraTyped, DecConfigWidthHeight, decoderVars
<1> QED BY <1>1, <1>2, <1>3, <1>4, <1>5, <1>6, <1>7, <1>8

(* The buffer group is made once, before any output.                       *)
LEMMA GetGroupStep ==
    ASSUME ProcessInv, GetGroup, UNCHANGED <<NotDecoder, built>>
    PROVE  /\ DecoderMoves /\ Control' /\ Ledger' /\ OnlyChanges(DecoderKinds)
           /\ DecoderHandles' /\ DecoderNeeds' /\ DecoderPlace' /\ DecoderElsewhere'
<1>1. DecoderMoves
  BY DEF DecoderMoves, Streaming, Control, GetGroup, decoderVars
<1>2. Control'
  BY DEF Control, GetGroup, decoderVars
<1>3. OnlyChanges(DecoderKinds)
  BY DecoderNames DEF OnlyChanges, DecoderKinds, GetGroup, decoderVars
<1>4. Ledger'
  BY DecoderNames, Sizes DEF Ledger, Universe, DecoderHandles, DecoderPlace, Owned, Same,
                             GetGroup, decoderVars
<1>5. DecoderHandles'
  BY DecoderNames DEF DecoderHandles, Owned, Same, GetGroup, decoderVars
<1>6. DecoderNeeds'
  BY DecoderNames, Sizes DEF DecoderNeeds, DecoderHandles, Same, DecoderPlace, NoOutputs,
                             GetGroup, decoderVars
<1>7. DecoderPlace'
  BY DecoderNames, Sizes DEF DecoderPlace, DecoderHandles, Same, DecoderNeeds, NoOutputs,
                             AllOutputs, GetGroup, decoderVars
<1>8. DecoderElsewhere'
  BY DecoderNames, Sizes DEF DecoderElsewhere, DecoderPlace, DecoderNeeds, DecoderDown,
                             NoImports, NoOutputs, AllOutputs, Control, NotDecoder,
                             cameraVars, CameraTyped, GetGroup, decoderVars
<1> QED BY <1>1, <1>2, <1>3, <1>4, <1>5, <1>6, <1>7, <1>8

(* A group that cannot be limited is released with nothing committed to    *)
(* it.                                                                     *)
LEMMA LimitFailsStep ==
    ASSUME ProcessInv, LimitFails, UNCHANGED <<NotDecoder, built>>
    PROVE  /\ DecoderMoves /\ Control' /\ Ledger' /\ OnlyChanges(DecoderKinds)
           /\ DecoderHandles' /\ DecoderNeeds' /\ DecoderPlace' /\ DecoderElsewhere'
<1>1. DecoderMoves
  BY DEF DecoderMoves, Streaming, Control, LimitFails, decoderVars
<1>2. Control'
  BY DEF Control, LimitFails, decoderVars
<1>3. OnlyChanges(DecoderKinds)
  BY DecoderNames DEF OnlyChanges, DecoderKinds, LimitFails, decoderVars
<1>4. Ledger'
  BY DecoderNames, Sizes DEF Ledger, Universe, DecoderHandles, DecoderPlace, Owned, Same,
                             LimitFails, decoderVars
<1>5. DecoderHandles'
  BY DecoderNames DEF DecoderHandles, Owned, Same, LimitFails, decoderVars
<1>6. DecoderNeeds'
  BY DecoderNames, Sizes DEF DecoderNeeds, DecoderHandles, Same, DecoderPlace, NoOutputs,
                             LimitFails, decoderVars
<1>7. DecoderPlace'
  BY DecoderNames DEF DecoderPlace, LimitFails, decoderVars
<1>8. DecoderElsewhere'
  BY DecoderNames, Sizes DEF DecoderElsewhere, DecoderPlace, DecoderNeeds, DecoderDown,
                             NoImports, NoOutputs, AllOutputs, Control, NotDecoder,
                             cameraVars, CameraTyped, LimitFails, decoderVars
<1> QED BY <1>1, <1>2, <1>3, <1>4, <1>5, <1>6, <1>7, <1>8

(* An output's memory is allocated for the next index, which is not taken. *)
LEMMA AllocOutputStep ==
    ASSUME ProcessInv, AllocOutput, UNCHANGED <<NotDecoder, built>>
    PROVE  /\ DecoderMoves /\ Control' /\ Ledger' /\ OnlyChanges(DecoderKinds)
           /\ DecoderHandles' /\ DecoderNeeds' /\ DecoderPlace' /\ DecoderElsewhere'
<1>1. DecoderMoves
  BY DEF DecoderMoves, Streaming, AllocOutput, decoderVars
<1>2. Control'
  BY DEF Control, AllocOutput, decoderVars
<1>3. OnlyChanges(DecoderKinds)
  BY DecoderNames DEF OnlyChanges, DecoderKinds, AllocOutput, decoderVars
<1>4. Ledger'
  BY DecoderNames, Sizes DEF Ledger, Universe, DecoderHandles, DecoderPlace, Owned, Same,
                             AllocOutput, decoderVars
<1>5. DecoderHandles'
  BY DecoderNames DEF DecoderHandles, Owned, Same, AllocOutput, decoderVars
<1>6. DecoderNeeds'
  BY DecoderNames, Sizes DEF DecoderNeeds, DecoderHandles, Same, DecoderPlace, NoOutputs,
                             AllocOutput, decoderVars
<1>7. DecoderPlace'
  BY DecoderNames DEF DecoderPlace, AllocOutput, decoderVars
<1>8. DecoderElsewhere'
  BY DecoderNames DEF DecoderElsewhere, AllocOutput, decoderVars
<1> QED BY <1>1, <1>2, <1>3, <1>4, <1>5, <1>6, <1>7, <1>8

(* The memory just allocated is mapped.                                    *)
LEMMA MapOutputStep ==
    ASSUME ProcessInv, MapOutput, UNCHANGED <<NotDecoder, built>>
    PROVE  /\ DecoderMoves /\ Control' /\ Ledger' /\ OnlyChanges(DecoderKinds)
           /\ DecoderHandles' /\ DecoderNeeds' /\ DecoderPlace' /\ DecoderElsewhere'
<1>1. DecoderMoves
  BY DEF DecoderMoves, Streaming, MapOutput, decoderVars
<1>2. Control'
  BY DEF Control, MapOutput, decoderVars
<1>3. OnlyChanges(DecoderKinds)
  BY DecoderNames DEF OnlyChanges, DecoderKinds, MapOutput, decoderVars
<1>4. Ledger'
  BY DecoderNames, Sizes DEF Ledger, Universe, DecoderHandles, DecoderPlace, Owned, Same,
                             MapOutput, decoderVars
<1>5. DecoderHandles'
  BY DecoderNames DEF DecoderHandles, Owned, Same, MapOutput, decoderVars
<1>6. DecoderNeeds'
  BY DecoderNames, Sizes DEF DecoderNeeds, DecoderHandles, Same, DecoderPlace, NoOutputs,
                             MapOutput, decoderVars
<1>7. DecoderPlace'
  BY DecoderNames, Sizes DEF DecoderPlace, DecoderHandles, Same, DecoderNeeds, NoOutputs,
                             AllOutputs, MapOutput, decoderVars
<1>8. DecoderElsewhere'
  BY DecoderNames DEF DecoderElsewhere, MapOutput, decoderVars
<1> QED BY <1>1, <1>2, <1>3, <1>4, <1>5, <1>6, <1>7, <1>8

(* The output is committed to the group at its own index.                  *)
LEMMA CommitOutputStep ==
    ASSUME ProcessInv, CommitOutput, UNCHANGED <<NotDecoder, built>>
    PROVE  /\ DecoderMoves /\ Control' /\ Ledger' /\ OnlyChanges(DecoderKinds)
           /\ DecoderHandles' /\ DecoderNeeds' /\ DecoderPlace' /\ DecoderElsewhere'
<1>1. DecoderMoves
  BY DEF DecoderMoves, Streaming, CommitOutput, decoderVars
<1>2. Control'
  BY DEF Control, CommitOutput, decoderVars
<1>3. OnlyChanges(DecoderKinds)
  BY DecoderNames DEF OnlyChanges, DecoderKinds, CommitOutput, decoderVars
<1>4. Ledger'
  BY DecoderNames, Sizes DEF Ledger, Universe, DecoderHandles, DecoderPlace, Owned, Same,
                             CommitOutput, decoderVars
<1>5. DecoderHandles'
  BY DecoderNames DEF DecoderHandles, Owned, Same, CommitOutput, decoderVars
<1>6. DecoderNeeds'
  BY DecoderNames, Sizes DEF DecoderNeeds, DecoderHandles, Same, DecoderPlace, NoOutputs,
                             CommitOutput, decoderVars
<1>7. DecoderPlace'
  BY DecoderNames, Sizes DEF DecoderPlace, DecoderHandles, Same, DecoderNeeds, NoOutputs,
                             AllOutputs, CommitOutput, decoderVars
<1>8. DecoderElsewhere'
  BY DecoderNames DEF DecoderElsewhere, CommitOutput, decoderVars
<1> QED BY <1>1, <1>2, <1>3, <1>4, <1>5, <1>6, <1>7, <1>8

(* A failed allocation or commit leads to the release of the outputs so    *)
(* far.                                                                    *)
LEMMA CommitFailsStep ==
    ASSUME ProcessInv, CommitFails, UNCHANGED <<NotDecoder, built>>
    PROVE  /\ DecoderMoves /\ Control' /\ Ledger' /\ OnlyChanges(DecoderKinds)
           /\ DecoderHandles' /\ DecoderNeeds' /\ DecoderPlace' /\ DecoderElsewhere'
<1>1. DecoderMoves
  BY DEF DecoderMoves, Streaming, CommitFails, ReleaseOutputsThen, decoderVars
<1>2. Control'
  BY DEF Control, CommitFails, ReleaseOutputsThen, decoderVars
<1>3. OnlyChanges(DecoderKinds)
  BY DecoderNames DEF OnlyChanges, DecoderKinds, CommitFails, ReleaseOutputsThen,
                      decoderVars
<1>4. Ledger'
  BY DecoderNames DEF Ledger, Universe, CommitFails, ReleaseOutputsThen, decoderVars
<1>5. DecoderHandles'
  BY DecoderNames DEF DecoderHandles, Owned, Same, CommitFails, ReleaseOutputsThen,
                      decoderVars
<1>6. DecoderNeeds'
  BY DecoderNames, Sizes DEF DecoderNeeds, DecoderHandles, Same, DecoderPlace, NoOutputs,
                             CommitFails, ReleaseOutputsThen, decoderVars
<1>7. DecoderPlace'
  BY DecoderNames DEF DecoderPlace, CommitFails, ReleaseOutputsThen, decoderVars
<1>8. DecoderElsewhere'
  BY DecoderNames DEF DecoderElsewhere, CommitFails, ReleaseOutputsThen, decoderVars
<1> QED BY <1>1, <1>2, <1>3, <1>4, <1>5, <1>6, <1>7, <1>8

(* A failed mapping closes the memory it was for; the outputs before it    *)
(* are released next.                                                      *)
LEMMA MapOutputFailsStep ==
    ASSUME ProcessInv, MapOutputFails, UNCHANGED <<NotDecoder, built>>
    PROVE  /\ DecoderMoves /\ Control' /\ Ledger' /\ OnlyChanges(DecoderKinds)
           /\ DecoderHandles' /\ DecoderNeeds' /\ DecoderPlace' /\ DecoderElsewhere'
<1>1. DecoderMoves
  BY DEF DecoderMoves, Streaming, MapOutputFails, ReleaseOutputsThen, decoderVars
<1>2. Control'
  BY DEF Control, MapOutputFails, ReleaseOutputsThen, decoderVars
<1>3. OnlyChanges(DecoderKinds)
  BY DecoderNames DEF OnlyChanges, DecoderKinds, MapOutputFails, ReleaseOutputsThen,
                      decoderVars
<1>4. Ledger'
  BY DecoderNames, Sizes DEF Ledger, Universe, DecoderHandles, DecoderPlace, Owned, Same,
                             MapOutputFails, ReleaseOutputsThen, decoderVars
<1>5. DecoderHandles'
  BY DecoderNames DEF DecoderHandles, Owned, Same, MapOutputFails, ReleaseOutputsThen,
                      decoderVars
<1>6. DecoderNeeds'
  BY DecoderNames, Sizes DEF DecoderNeeds, DecoderHandles, Same, DecoderPlace, NoOutputs,
                             MapOutputFails, ReleaseOutputsThen, decoderVars
<1>7. DecoderPlace'
  BY DecoderNames DEF DecoderPlace, MapOutputFails, ReleaseOutputsThen, decoderVars
<1>8. DecoderElsewhere'
  BY DecoderNames DEF DecoderElsewhere, MapOutputFails, ReleaseOutputsThen, decoderVars
<1> QED BY <1>1, <1>2, <1>3, <1>4, <1>5, <1>6, <1>7, <1>8

(* The group is given to the decoder with every output committed, or       *)
(* everything is released.                                                 *)
LEMMA AttachGroupStep ==
    ASSUME ProcessInv, AttachGroup, UNCHANGED <<NotDecoder, built>>
    PROVE  /\ DecoderMoves /\ Control' /\ Ledger' /\ OnlyChanges(DecoderKinds)
           /\ DecoderHandles' /\ DecoderNeeds' /\ DecoderPlace' /\ DecoderElsewhere'
<1>1. DecoderMoves
  BY DEF DecoderMoves, Streaming, AttachGroup, decoderVars
<1>2. Control'
  BY DEF Control, AttachGroup, decoderVars
<1>3. OnlyChanges(DecoderKinds)
  BY DecoderNames DEF OnlyChanges, DecoderKinds, AttachGroup, decoderVars
<1>4. Ledger'
  BY DecoderNames, Sizes DEF Ledger, Universe, DecoderHandles, DecoderPlace, Owned, Same,
                             AttachGroup, decoderVars
<1>5. DecoderHandles'
  BY DecoderNames DEF DecoderHandles, Owned, Same, AttachGroup, decoderVars
<1>6. DecoderNeeds'
  BY DecoderNames, Sizes DEF DecoderNeeds, DecoderHandles, Same, DecoderPlace, NoOutputs,
                             AttachGroup, decoderVars
<1>7. DecoderPlace'
  BY DecoderNames, Sizes DEF DecoderPlace, DecoderHandles, Same, DecoderNeeds, NoOutputs,
                             AllOutputs, NotDecoder, cameraVars, CameraTyped,
                             CameraBuffers, AttachGroup, decoderVars
<1>8. DecoderElsewhere'
  BY DecoderNames DEF DecoderElsewhere, AttachGroup, decoderVars
<1> QED BY <1>1, <1>2, <1>3, <1>4, <1>5, <1>6, <1>7, <1>8

(* The next camera buffer is imported at its own index while its memory is *)
(* there.                                                                  *)
LEMMA ImportCameraBufferStep ==
    ASSUME ProcessInv, ImportCameraBuffer, UNCHANGED <<NotDecoder, built>>
    PROVE  /\ DecoderMoves /\ Control' /\ Ledger' /\ OnlyChanges(DecoderKinds)
           /\ DecoderHandles' /\ DecoderNeeds' /\ DecoderPlace' /\ DecoderElsewhere'
<1>1. DecoderMoves
  BY DEF DecoderMoves, Streaming, ImportCameraBuffer, decoderVars
<1>2. Control'
  BY DEF Control, ImportCameraBuffer, decoderVars
<1>3. OnlyChanges(DecoderKinds)
  BY DecoderNames DEF OnlyChanges, DecoderKinds, ImportCameraBuffer, decoderVars
<1>4. Ledger'
  <2>1. /\ pc = "decoder_import" /\ loop \in Nat /\ loop < numBuffers
        /\ numBuffers \in Nat /\ numBuffers <= MaxAlloca
    BY DEF ImportCameraBuffer, DecoderPlace, CameraTyped
  <2>2. loop \in Entries BY <2>1, Sizes
  <2>3. Import(loop) \notin held
    BY <2>1, <2>2, Sizes DEF DecoderPlace, DecoderHandles, Same
  <2>4. Context \in held /\ Import(loop) \in Universe
    BY <2>1, <2>2, DecoderNames DEF DecoderPlace, Ledger, Universe
  <2>5. CASE Memory(loop) \in known
    BY <2>3, <2>4, <2>5 DEF Ledger, ImportCameraBuffer
  <2>6. CASE Memory(loop) \notin known
    BY <2>6 DEF Ledger, ImportCameraBuffer
  <2> QED BY <2>5, <2>6
<1>5. DecoderHandles'
  BY DecoderNames DEF DecoderHandles, Owned, Same, ImportCameraBuffer, decoderVars
<1>6. DecoderNeeds'
  BY DecoderNames, Sizes DEF DecoderNeeds, DecoderHandles, Same, DecoderPlace, NoOutputs,
                             NotDecoder, cameraVars, CameraTyped, CameraBuffers,
                             ImportCameraBuffer, decoderVars
<1>7. DecoderPlace'
  BY DecoderNames, Sizes DEF DecoderPlace, DecoderHandles, Same, DecoderNeeds, NoOutputs,
                             AllOutputs, NotDecoder, cameraVars, CameraTyped,
                             CameraBuffers, ImportCameraBuffer, decoderVars
<1>8. DecoderElsewhere'
  BY DecoderNames DEF DecoderElsewhere, ImportCameraBuffer, decoderVars
<1> QED BY <1>1, <1>2, <1>3, <1>4, <1>5, <1>6, <1>7, <1>8

(* A failed import puts the imports before it and leads to the release of  *)
(* the outputs.                                                            *)
LEMMA ImportFailsStep ==
    ASSUME ProcessInv, ImportFails, UNCHANGED <<NotDecoder, built>>
    PROVE  /\ DecoderMoves /\ Control' /\ Ledger' /\ OnlyChanges(DecoderKinds)
           /\ DecoderHandles' /\ DecoderNeeds' /\ DecoderPlace' /\ DecoderElsewhere'
<1>1. DecoderMoves
  BY DEF DecoderMoves, Streaming, ImportFails, ReleaseOutputsThen, decoderVars
<1>2. Control'
  BY DEF Control, ImportFails, ReleaseOutputsThen, decoderVars
<1>3. OnlyChanges(DecoderKinds)
  BY DecoderNames DEF OnlyChanges, DecoderKinds, ImportFails, ReleaseOutputsThen,
                      decoderVars
<1>4. Ledger'
  BY DecoderNames DEF Ledger, Universe, ImportFails, ReleaseOutputsThen, decoderVars
<1>5. DecoderHandles'
  BY DecoderNames DEF DecoderHandles, Owned, Same, ImportFails, ReleaseOutputsThen,
                      decoderVars
<1>6. DecoderNeeds'
  BY DecoderNames, Sizes DEF DecoderNeeds, DecoderHandles, Same, DecoderPlace, NoOutputs,
                             ImportFails, ReleaseOutputsThen, decoderVars
<1>7. DecoderPlace'
  BY DecoderNames DEF DecoderPlace, ImportFails, ReleaseOutputsThen, decoderVars
<1>8. DecoderElsewhere'
  BY DecoderNames DEF DecoderElsewhere, ImportFails, ReleaseOutputsThen, decoderVars
<1> QED BY <1>1, <1>2, <1>3, <1>4, <1>5, <1>6, <1>7, <1>8

(* After the loop every camera buffer is imported; the decoder is up.      *)
LEMMA AllImportedStep ==
    ASSUME ProcessInv, AllImported, UNCHANGED <<NotDecoder, built>>
    PROVE  /\ DecoderMoves /\ Control' /\ Ledger' /\ OnlyChanges(DecoderKinds)
           /\ DecoderHandles' /\ DecoderNeeds' /\ DecoderPlace' /\ DecoderElsewhere'
<1>1. DecoderMoves
  BY DEF DecoderMoves, Streaming, AllImported, decoderVars
<1>2. Control'
  BY DEF Control, AllImported, decoderVars
<1>3. OnlyChanges(DecoderKinds)
  BY DecoderNames DEF OnlyChanges, DecoderKinds, AllImported, decoderVars
<1>4. Ledger'
  BY DecoderNames DEF Ledger, Universe, AllImported, decoderVars
<1>5. DecoderHandles'
  BY DecoderNames DEF DecoderHandles, Owned, Same, AllImported, decoderVars
<1>6. DecoderNeeds'
  BY DecoderNames, Sizes DEF DecoderNeeds, DecoderHandles, Same, DecoderPlace, NoOutputs,
                             NotDecoder, cameraVars, CameraTyped, CameraBuffers,
                             AllImported, decoderVars
<1>7. DecoderPlace'
  BY DecoderNames DEF DecoderPlace, AllImported, decoderVars
<1>8. DecoderElsewhere'
  BY DecoderNames, Sizes DEF DecoderElsewhere, DecoderPlace, DecoderNeeds, DecoderDown,
                             NoImports, NoOutputs, AllOutputs, Control, NotDecoder,
                             cameraVars, CameraTyped, AllImported, decoderVars
<1> QED BY <1>1, <1>2, <1>3, <1>4, <1>5, <1>6, <1>7, <1>8

(* Clearing the group takes the outputs back before their memory is        *)
(* released.                                                               *)
LEMMA ClearGroupStep ==
    ASSUME ProcessInv, ClearGroup, UNCHANGED <<NotDecoder, built>>
    PROVE  /\ DecoderMoves /\ Control' /\ Ledger' /\ OnlyChanges(DecoderKinds)
           /\ DecoderHandles' /\ DecoderNeeds' /\ DecoderPlace' /\ DecoderElsewhere'
<1>1. DecoderMoves
  BY DEF DecoderMoves, Streaming, ClearGroup, decoderVars
<1>2. Control'
  BY DEF Control, ClearGroup, decoderVars
<1>3. OnlyChanges(DecoderKinds)
  BY DecoderNames DEF OnlyChanges, DecoderKinds, ClearGroup, decoderVars
<1>4. Ledger'
  <2>1. pc = "decoder_clear" /\ Group \in held
    BY DEF ClearGroup, DecoderPlace, Ledger
  <2>2. \A x \in All("decoder_committed") : x \notin known
    <3>1. TAKE x \in All("decoder_committed")
    <3>2. PICK i \in Entries : x = Committed(i) BY DEF All, Each, Committed
    <3> QED BY <3>2 DEF DecoderHandles
  <2> QED BY <2>1, <2>2 DEF Ledger, ClearGroup
<1>5. DecoderHandles'
  BY DecoderNames DEF DecoderHandles, Owned, Same, ClearGroup, decoderVars
<1>6. DecoderNeeds'
  BY DecoderNames, Sizes DEF DecoderNeeds, DecoderHandles, Same, DecoderPlace, NoOutputs,
                             ClearGroup, decoderVars
<1>7. DecoderPlace'
  BY DecoderNames, Sizes DEF DecoderPlace, DecoderHandles, Same, DecoderNeeds, NoOutputs,
                             AllOutputs, ClearGroup, decoderVars
<1>8. DecoderElsewhere'
  BY DecoderNames DEF DecoderElsewhere, ClearGroup, decoderVars
<1> QED BY <1>1, <1>2, <1>3, <1>4, <1>5, <1>6, <1>7, <1>8

(* The next output's mapping and memory are released, each if it is known. *)
LEMMA ReleaseOutputStep ==
    ASSUME ProcessInv, ReleaseOutput, UNCHANGED <<NotDecoder, built>>
    PROVE  /\ DecoderMoves /\ Control' /\ Ledger' /\ OnlyChanges(DecoderKinds)
           /\ DecoderHandles' /\ DecoderNeeds' /\ DecoderPlace' /\ DecoderElsewhere'
<1>1. DecoderMoves
  BY DEF DecoderMoves, Streaming, ReleaseOutput, decoderVars
<1>2. Control'
  BY DEF Control, ReleaseOutput, decoderVars
<1>3. OnlyChanges(DecoderKinds)
  BY DecoderNames DEF OnlyChanges, DecoderKinds, ReleaseOutput, decoderVars
<1>4. Ledger'
  BY DecoderNames DEF Ledger, Universe, ReleaseOutput, decoderVars
<1>5. DecoderHandles'
  BY DecoderNames DEF DecoderHandles, Owned, Same, ReleaseOutput, decoderVars
<1>6. DecoderNeeds'
  BY DecoderNames, Sizes DEF DecoderNeeds, DecoderHandles, Same, DecoderPlace, NoOutputs,
                             ReleaseOutput, decoderVars
<1>7. DecoderPlace'
  BY DecoderNames, Sizes DEF DecoderPlace, DecoderHandles, Same, DecoderNeeds, NoOutputs,
                             AllOutputs, ReleaseOutput, decoderVars
<1>8. DecoderElsewhere'
  BY DecoderNames DEF DecoderElsewhere, ReleaseOutput, decoderVars
<1> QED BY <1>1, <1>2, <1>3, <1>4, <1>5, <1>6, <1>7, <1>8

(* The group is put when the outputs are gone, and the context is still    *)
(* there.                                                                  *)
LEMMA PutGroupStep ==
    ASSUME ProcessInv, PutGroup, UNCHANGED <<NotDecoder, built>>
    PROVE  /\ DecoderMoves /\ Control' /\ Ledger' /\ OnlyChanges(DecoderKinds)
           /\ DecoderHandles' /\ DecoderNeeds' /\ DecoderPlace' /\ DecoderElsewhere'
<1>1. DecoderMoves
  BY DEF DecoderMoves, Streaming, Control, PutGroup, decoderVars
<1>2. Control'
  BY DEF Control, PutGroup, decoderVars
<1>3. OnlyChanges(DecoderKinds)
  BY DecoderNames DEF OnlyChanges, DecoderKinds, PutGroup, decoderVars
<1>4. Ledger'
  BY DecoderNames, Sizes DEF Ledger, Universe, DecoderHandles, DecoderPlace, Owned, Same,
                             PutGroup, decoderVars
<1>5. DecoderHandles'
  BY DecoderNames DEF DecoderHandles, Owned, Same, PutGroup, decoderVars
<1>6. DecoderNeeds'
  BY DecoderNames, Sizes DEF DecoderNeeds, DecoderHandles, Same, DecoderPlace, NoOutputs,
                             PutGroup, decoderVars
<1>7. DecoderPlace'
  BY DecoderNames, Sizes DEF PutGroup, decoderVars, Ledger, Control, DecoderHandles,
                             DecoderNeeds, DecoderPlace, DecoderElsewhere, DecoderDown,
                             NoImports, NoOutputs, AllOutputs, CameraTyped, CameraBuffers,
                             Owned, Same, NotDecoder, cameraVars
<1>8. DecoderElsewhere'
  BY DecoderNames, Sizes DEF DecoderElsewhere, DecoderPlace, DecoderNeeds, DecoderDown,
                             NoImports, NoOutputs, AllOutputs, Control, NotDecoder,
                             cameraVars, CameraTyped, PutGroup, decoderVars
<1> QED BY <1>1, <1>2, <1>3, <1>4, <1>5, <1>6, <1>7, <1>8

(* The destructor recycles the frames still out and puts the imports; the  *)
(* outputs go next if there is a group.                                    *)
LEMMA DestroyDecoderStep ==
    ASSUME ProcessInv, DestroyDecoder, UNCHANGED <<NotDecoder, built>>
    PROVE  /\ DecoderMoves /\ Control' /\ Ledger' /\ OnlyChanges(DecoderKinds)
           /\ DecoderHandles' /\ DecoderNeeds' /\ DecoderPlace' /\ DecoderElsewhere'
<1>1. DecoderMoves
  BY DEF DecoderMoves, Streaming, DestroyDecoder, decoderVars
<1>2. Control'
  BY DEF Control, DestroyDecoder, decoderVars
<1>3. OnlyChanges(DecoderKinds)
  BY DecoderNames DEF OnlyChanges, DecoderKinds, DestroyDecoder, decoderVars
<1>4. Ledger'
  BY DecoderNames DEF Ledger, Universe, DestroyDecoder, decoderVars
<1>5. DecoderHandles'
  BY DecoderNames DEF DecoderHandles, Owned, Same, DestroyDecoder, decoderVars
<1>6. DecoderNeeds'
  BY DecoderNames, Sizes DEF DecoderNeeds, DecoderHandles, Same, DecoderPlace, NoOutputs,
                             DestroyDecoder, decoderVars
<1>7. DecoderPlace'
  BY DecoderNames DEF DecoderPlace, DestroyDecoder, decoderVars
<1>8. DecoderElsewhere'
  BY DecoderNames DEF DecoderElsewhere, DestroyDecoder, decoderVars
<1> QED BY <1>1, <1>2, <1>3, <1>4, <1>5, <1>6, <1>7, <1>8

(* The context goes last; the decoder is down.                             *)
LEMMA DestroyContextStep ==
    ASSUME ProcessInv, DestroyContext, UNCHANGED <<NotDecoder, built>>
    PROVE  /\ DecoderMoves /\ Control' /\ Ledger' /\ OnlyChanges(DecoderKinds)
           /\ DecoderHandles' /\ DecoderNeeds' /\ DecoderPlace' /\ DecoderElsewhere'
<1>1. DecoderMoves
  BY DEF DecoderMoves, Streaming, DestroyContext, decoderVars
<1>2. Control'
  BY DEF Control, DestroyContext, decoderVars
<1>3. OnlyChanges(DecoderKinds)
  BY DecoderNames DEF OnlyChanges, DecoderKinds, DestroyContext, decoderVars
<1>4. Ledger'
  BY DecoderNames DEF Ledger, Universe, DestroyContext, decoderVars
<1>5. DecoderHandles'
  BY DecoderNames DEF DecoderHandles, Owned, Same, DestroyContext, decoderVars
<1>6. DecoderNeeds'
  BY DecoderNames, Sizes DEF DecoderNeeds, DecoderHandles, Same, DecoderPlace, NoOutputs,
                             DestroyContext, decoderVars
<1>7. DecoderPlace'
  BY DecoderNames DEF DecoderPlace, DestroyContext, decoderVars
<1>8. DecoderElsewhere'
  BY DecoderNames, Sizes DEF DecoderElsewhere, DecoderPlace, DecoderNeeds, DecoderDown,
                             NoImports, NoOutputs, AllOutputs, Control, NotDecoder,
                             cameraVars, CameraTyped, DestroyContext, decoderVars
<1> QED BY <1>1, <1>2, <1>3, <1>4, <1>5, <1>6, <1>7, <1>8

-----------------------------------------------------------------------------
(* The RGA's start acquires nothing.                                       *)
LEMMA RgaInitStep ==
    ASSUME ProcessInv, RgaInit, UNCHANGED <<NotRga, built>>
    PROVE  /\ RgaMoves /\ Control' /\ Ledger' /\ OnlyChanges(RgaKinds)
           /\ RgaHandles' /\ RgaPool' /\ RgaPlace'
<1>1. RgaMoves
  BY DEF RgaMoves, Streaming, Control, RgaInit, rgaVars
<1>2. Control'
  BY DEF Control, RgaInit, rgaVars
<1>3. OnlyChanges(RgaKinds)
  BY RgaNames, DecoderNames DEF OnlyChanges, RgaKinds, RgaInit, rgaVars
<1>4. Ledger'
  BY RgaNames, DecoderNames DEF Ledger, Universe, RgaInit, rgaVars
<1>5. RgaHandles'
  BY RgaNames, DecoderNames DEF RgaHandles, Owned, Same, RgaInit, rgaVars
<1>6. RgaPool'
  BY RgaNames, DecoderNames DEF RgaPool, RgaInit, rgaVars
<1>7. RgaPlace'
  BY RgaNames, DecoderNames, Sizes DEF RgaInit, rgaVars, Ledger, Control, RgaHandles,
                                       RgaPool, RgaPlace, Owned, Same
<1> QED BY <1>1, <1>2, <1>3, <1>4, <1>5, <1>6, <1>7

(* A decoded frame reaches the RGA thread, which allocates the output pool *)
(* first when it is not there.                                             *)
LEMMA TransformFrameStep ==
    ASSUME ProcessInv, NEW i \in Entries, TransformFrame(i), UNCHANGED <<NotRga, built>>
    PROVE  /\ RgaMoves /\ Control' /\ Ledger' /\ OnlyChanges(RgaKinds)
           /\ RgaHandles' /\ RgaPool' /\ RgaPlace'
<1>1. RgaMoves
  BY DEF RgaMoves, Streaming, TransformFrame, rgaVars
<1>2. Control'
  BY DEF Control, TransformFrame, rgaVars
<1>3. OnlyChanges(RgaKinds)
  BY RgaNames, DecoderNames DEF OnlyChanges, RgaKinds, TransformFrame, rgaVars
<1>4. Ledger'
  BY RgaNames, DecoderNames, Sizes DEF Ledger, Universe, RgaHandles, RgaPlace, RgaPool,
                                       Owned, Same, DecoderElsewhere, DecoderDown,
                                       AllOutputs, Control, TransformFrame, rgaVars
<1>5. RgaHandles'
  BY RgaNames, DecoderNames DEF RgaHandles, Owned, Same, TransformFrame, rgaVars
<1>6. RgaPool'
  BY RgaNames, DecoderNames, Sizes DEF RgaPool, RgaHandles, Same, RgaPlace,
                                       TransformFrame, rgaVars
<1>7. RgaPlace'
  BY RgaNames, DecoderNames, Sizes DEF RgaPlace, RgaHandles, Same, RgaPool,
                                       TransformFrame, rgaVars
<1> QED BY <1>1, <1>2, <1>3, <1>4, <1>5, <1>6, <1>7

(* A pool buffer's memory is allocated for the next index, which is not    *)
(* taken.                                                                  *)
LEMMA AllocPoolStep ==
    ASSUME ProcessInv, AllocPool, UNCHANGED <<NotRga, built>>
    PROVE  /\ RgaMoves /\ Control' /\ Ledger' /\ OnlyChanges(RgaKinds)
           /\ RgaHandles' /\ RgaPool' /\ RgaPlace'
<1>1. RgaMoves
  BY DEF RgaMoves, Streaming, AllocPool, rgaVars
<1>2. Control'
  BY DEF Control, AllocPool, rgaVars
<1>3. OnlyChanges(RgaKinds)
  BY RgaNames, DecoderNames DEF OnlyChanges, RgaKinds, AllocPool, rgaVars
<1>4. Ledger'
  BY RgaNames, DecoderNames, Sizes DEF Ledger, Universe, RgaHandles, RgaPlace, RgaPool,
                                       Owned, Same, DecoderElsewhere, DecoderDown,
                                       AllOutputs, AllocPool, rgaVars
<1>5. RgaHandles'
  BY RgaNames, DecoderNames DEF RgaHandles, Owned, Same, AllocPool, rgaVars
<1>6. RgaPool'
  BY RgaNames, DecoderNames DEF RgaPool, AllocPool, rgaVars
<1>7. RgaPlace'
  BY RgaNames, DecoderNames DEF RgaPlace, AllocPool, rgaVars
<1> QED BY <1>1, <1>2, <1>3, <1>4, <1>5, <1>6, <1>7

(* The memory just allocated is mapped.                                    *)
LEMMA MapPoolStep ==
    ASSUME ProcessInv, MapPool, UNCHANGED <<NotRga, built>>
    PROVE  /\ RgaMoves /\ Control' /\ Ledger' /\ OnlyChanges(RgaKinds)
           /\ RgaHandles' /\ RgaPool' /\ RgaPlace'
<1>1. RgaMoves
  BY DEF RgaMoves, Streaming, MapPool, rgaVars
<1>2. Control'
  BY DEF Control, MapPool, rgaVars
<1>3. OnlyChanges(RgaKinds)
  BY RgaNames, DecoderNames DEF OnlyChanges, RgaKinds, MapPool, rgaVars
<1>4. Ledger'
  BY RgaNames, DecoderNames, Sizes DEF Ledger, Universe, RgaHandles, RgaPlace, RgaPool,
                                       Owned, Same, DecoderElsewhere, DecoderDown,
                                       AllOutputs, MapPool, rgaVars
<1>5. RgaHandles'
  BY RgaNames, DecoderNames DEF RgaHandles, Owned, Same, MapPool, rgaVars
<1>6. RgaPool'
  BY RgaNames, DecoderNames, Sizes DEF RgaPool, RgaHandles, Same, RgaPlace, MapPool,
                                       rgaVars
<1>7. RgaPlace'
  BY RgaNames, DecoderNames, Sizes DEF RgaPlace, RgaHandles, Same, RgaPool, MapPool,
                                       rgaVars
<1> QED BY <1>1, <1>2, <1>3, <1>4, <1>5, <1>6, <1>7

(* After the loop the pool is there at every index.                        *)
LEMMA PoolAllocatedStep ==
    ASSUME ProcessInv, PoolAllocated, UNCHANGED <<NotRga, built>>
    PROVE  /\ RgaMoves /\ Control' /\ Ledger' /\ OnlyChanges(RgaKinds)
           /\ RgaHandles' /\ RgaPool' /\ RgaPlace'
<1>1. RgaMoves
  BY DEF RgaMoves, Streaming, PoolAllocated, rgaVars
<1>2. Control'
  BY DEF Control, PoolAllocated, rgaVars
<1>3. OnlyChanges(RgaKinds)
  BY RgaNames, DecoderNames DEF OnlyChanges, RgaKinds, PoolAllocated, rgaVars
<1>4. Ledger'
  BY RgaNames, DecoderNames DEF Ledger, Universe, PoolAllocated, rgaVars
<1>5. RgaHandles'
  BY RgaNames, DecoderNames DEF RgaHandles, Owned, Same, PoolAllocated, rgaVars
<1>6. RgaPool'
  BY RgaNames, DecoderNames, Sizes DEF RgaPool, RgaHandles, Same, RgaPlace, PoolAllocated,
                                       rgaVars
<1>7. RgaPlace'
  BY RgaNames, DecoderNames DEF RgaPlace, PoolAllocated, rgaVars
<1> QED BY <1>1, <1>2, <1>3, <1>4, <1>5, <1>6, <1>7

(* A failed allocation releases the pool buffers before it.                *)
LEMMA AllocPoolFailsStep ==
    ASSUME ProcessInv, AllocPoolFails, UNCHANGED <<NotRga, built>>
    PROVE  /\ RgaMoves /\ Control' /\ Ledger' /\ OnlyChanges(RgaKinds)
           /\ RgaHandles' /\ RgaPool' /\ RgaPlace'
<1>1. RgaMoves
  BY Sizes DEF RgaMoves, Streaming, Control, RgaHandles, RgaPool, RgaPlace,
               AllocPoolFails, ReleasePoolThen, rgaVars
<1>2. Control'
  BY DEF Control, AllocPoolFails, ReleasePoolThen, rgaVars
<1>3. OnlyChanges(RgaKinds)
  BY RgaNames, DecoderNames DEF OnlyChanges, RgaKinds, AllocPoolFails, ReleasePoolThen,
                                rgaVars
<1>4. Ledger'
  BY RgaNames, DecoderNames DEF Ledger, Universe, AllocPoolFails, ReleasePoolThen, rgaVars
<1>5. RgaHandles'
  BY RgaNames, DecoderNames DEF RgaHandles, Owned, Same, AllocPoolFails, ReleasePoolThen,
                                rgaVars
<1>6. RgaPool'
  BY RgaNames, DecoderNames, Sizes DEF RgaPool, RgaHandles, Same, RgaPlace,
                                       AllocPoolFails, ReleasePoolThen, rgaVars
<1>7. RgaPlace'
  BY RgaNames, DecoderNames, Sizes DEF RgaPlace, RgaHandles, Same, RgaPool,
                                       AllocPoolFails, ReleasePoolThen, rgaVars
<1> QED BY <1>1, <1>2, <1>3, <1>4, <1>5, <1>6, <1>7

(* A failed mapping closes the memory it was for; the pool buffers before  *)
(* it are released next.                                                   *)
LEMMA MapPoolFailsStep ==
    ASSUME ProcessInv, MapPoolFails, UNCHANGED <<NotRga, built>>
    PROVE  /\ RgaMoves /\ Control' /\ Ledger' /\ OnlyChanges(RgaKinds)
           /\ RgaHandles' /\ RgaPool' /\ RgaPlace'
<1>1. RgaMoves
  BY Sizes DEF RgaMoves, Streaming, Control, RgaHandles, RgaPool, RgaPlace, MapPoolFails,
               ReleasePoolThen, rgaVars
<1>2. Control'
  BY DEF Control, MapPoolFails, ReleasePoolThen, rgaVars
<1>3. OnlyChanges(RgaKinds)
  BY RgaNames, DecoderNames DEF OnlyChanges, RgaKinds, MapPoolFails, ReleasePoolThen,
                                rgaVars
<1>4. Ledger'
  BY RgaNames, DecoderNames, Sizes DEF Ledger, Universe, RgaHandles, RgaPlace, RgaPool,
                                       Owned, Same, DecoderElsewhere, DecoderDown,
                                       AllOutputs, MapPoolFails, ReleasePoolThen, rgaVars
<1>5. RgaHandles'
  BY RgaNames, DecoderNames DEF RgaHandles, Owned, Same, MapPoolFails, ReleasePoolThen,
                                rgaVars
<1>6. RgaPool'
  BY RgaNames, DecoderNames, Sizes DEF RgaPool, RgaHandles, Same, RgaPlace, MapPoolFails,
                                       ReleasePoolThen, rgaVars
<1>7. RgaPlace'
  BY RgaNames, DecoderNames, Sizes DEF RgaPlace, RgaHandles, Same, RgaPool, MapPoolFails,
                                       ReleasePoolThen, rgaVars
<1> QED BY <1>1, <1>2, <1>3, <1>4, <1>5, <1>6, <1>7

(* The decoder's output is imported into the RGA, or its mapping serves    *)
(* instead.                                                                *)
LEMMA BuildSourceStep ==
    ASSUME ProcessInv, BuildSource, UNCHANGED <<NotRga, built>>
    PROVE  /\ RgaMoves /\ Control' /\ Ledger' /\ OnlyChanges(RgaKinds)
           /\ RgaHandles' /\ RgaPool' /\ RgaPlace'
<1>1. RgaMoves
  BY DEF RgaMoves, Streaming, BuildSource, rgaVars
<1>2. Control'
  BY DEF Control, BuildSource, rgaVars
<1>3. OnlyChanges(RgaKinds)
  BY RgaNames, DecoderNames DEF OnlyChanges, RgaKinds, BuildSource, rgaVars
<1>4. Ledger'
  BY RgaNames, DecoderNames, Sizes DEF Ledger, Universe, RgaHandles, RgaPlace, RgaPool,
                                       Owned, Same, DecoderElsewhere, DecoderDown,
                                       AllOutputs, Control, BuildSource, rgaVars
<1>5. RgaHandles'
  BY RgaNames, DecoderNames DEF RgaHandles, Owned, Same, BuildSource, rgaVars
<1>6. RgaPool'
  BY RgaNames, DecoderNames DEF RgaPool, BuildSource, rgaVars
<1>7. RgaPlace'
  BY RgaNames, DecoderNames DEF RgaPlace, BuildSource, rgaVars
<1> QED BY <1>1, <1>2, <1>3, <1>4, <1>5, <1>6, <1>7

(* The pool's buffer is imported into the RGA, or its mapping serves       *)
(* instead.                                                                *)
LEMMA BuildDestinationStep ==
    ASSUME ProcessInv, BuildDestination, UNCHANGED <<NotRga, built>>
    PROVE  /\ RgaMoves /\ Control' /\ Ledger' /\ OnlyChanges(RgaKinds)
           /\ RgaHandles' /\ RgaPool' /\ RgaPlace'
<1>1. RgaMoves
  BY DEF RgaMoves, Streaming, BuildDestination, rgaVars
<1>2. Control'
  BY DEF Control, BuildDestination, rgaVars
<1>3. OnlyChanges(RgaKinds)
  BY RgaNames, DecoderNames DEF OnlyChanges, RgaKinds, BuildDestination, rgaVars
<1>4. Ledger'
  BY RgaNames, DecoderNames, Sizes DEF Ledger, Universe, RgaHandles, RgaPlace, RgaPool,
                                       Owned, Same, DecoderElsewhere, DecoderDown,
                                       AllOutputs, BuildDestination, rgaVars
<1>5. RgaHandles'
  BY RgaNames, DecoderNames DEF RgaHandles, Owned, Same, BuildDestination, rgaVars
<1>6. RgaPool'
  BY RgaNames, DecoderNames DEF RgaPool, BuildDestination, rgaVars
<1>7. RgaPlace'
  BY RgaNames, DecoderNames DEF RgaPlace, BuildDestination, rgaVars
<1> QED BY <1>1, <1>2, <1>3, <1>4, <1>5, <1>6, <1>7

(* Both handles are released after the operation, whatever its result.     *)
LEMMA OperateStep ==
    ASSUME ProcessInv, Operate, UNCHANGED <<NotRga, built>>
    PROVE  /\ RgaMoves /\ Control' /\ Ledger' /\ OnlyChanges(RgaKinds)
           /\ RgaHandles' /\ RgaPool' /\ RgaPlace'
<1>1. RgaMoves
  BY Sizes DEF RgaMoves, Streaming, Control, RgaHandles, RgaPool, RgaPlace, Operate,
               rgaVars
<1>2. Control'
  BY DEF Control, Operate, rgaVars
<1>3. OnlyChanges(RgaKinds)
  BY RgaNames, DecoderNames DEF OnlyChanges, RgaKinds, Operate, rgaVars
<1>4. Ledger'
  BY RgaNames, DecoderNames DEF Ledger, Universe, Operate, rgaVars
<1>5. RgaHandles'
  BY RgaNames, DecoderNames DEF RgaHandles, Owned, Same, Operate, rgaVars
<1>6. RgaPool'
  BY RgaNames, DecoderNames DEF RgaPool, Operate, rgaVars
<1>7. RgaPlace'
  BY RgaNames, DecoderNames, Sizes DEF Operate, rgaVars, Ledger, Control, RgaHandles,
                                       RgaPool, RgaPlace, Owned, Same
<1> QED BY <1>1, <1>2, <1>3, <1>4, <1>5, <1>6, <1>7

(* The next pool buffer's mapping and memory are released, each if it is   *)
(* known.                                                                  *)
LEMMA ReleasePoolStep ==
    ASSUME ProcessInv, ReleasePool, UNCHANGED <<NotRga, built>>
    PROVE  /\ RgaMoves /\ Control' /\ Ledger' /\ OnlyChanges(RgaKinds)
           /\ RgaHandles' /\ RgaPool' /\ RgaPlace'
<1>1. RgaMoves
  BY DEF RgaMoves, Streaming, ReleasePool, rgaVars
<1>2. Control'
  BY DEF Control, ReleasePool, rgaVars
<1>3. OnlyChanges(RgaKinds)
  BY RgaNames, DecoderNames DEF OnlyChanges, RgaKinds, ReleasePool, rgaVars
<1>4. Ledger'
  BY RgaNames, DecoderNames DEF Ledger, Universe, ReleasePool, rgaVars
<1>5. RgaHandles'
  BY RgaNames, DecoderNames DEF RgaHandles, Owned, Same, ReleasePool, rgaVars
<1>6. RgaPool'
  BY RgaNames, DecoderNames, Sizes DEF RgaPool, RgaHandles, Same, RgaPlace, ReleasePool,
                                       rgaVars
<1>7. RgaPlace'
  BY RgaNames, DecoderNames, Sizes DEF RgaPlace, RgaHandles, Same, RgaPool, ReleasePool,
                                       rgaVars
<1> QED BY <1>1, <1>2, <1>3, <1>4, <1>5, <1>6, <1>7

(* After the last one the pool is not there.                               *)
LEMMA PoolReleasedStep ==
    ASSUME ProcessInv, PoolReleased, UNCHANGED <<NotRga, built>>
    PROVE  /\ RgaMoves /\ Control' /\ Ledger' /\ OnlyChanges(RgaKinds)
           /\ RgaHandles' /\ RgaPool' /\ RgaPlace'
<1>1. RgaMoves
  BY DEF RgaMoves, Streaming, Control, PoolReleased, rgaVars
<1>2. Control'
  BY DEF Control, PoolReleased, rgaVars
<1>3. OnlyChanges(RgaKinds)
  BY RgaNames, DecoderNames DEF OnlyChanges, RgaKinds, PoolReleased, rgaVars
<1>4. Ledger'
  BY RgaNames, DecoderNames DEF Ledger, Universe, PoolReleased, rgaVars
<1>5. RgaHandles'
  BY RgaNames, DecoderNames DEF RgaHandles, Owned, Same, PoolReleased, rgaVars
<1>6. RgaPool'
  BY RgaNames, DecoderNames, Sizes DEF RgaPool, RgaHandles, Same, RgaPlace, PoolReleased,
                                       rgaVars
<1>7. RgaPlace'
  BY RgaNames, DecoderNames, Sizes DEF PoolReleased, rgaVars, Ledger, Control, RgaHandles,
                                       RgaPool, RgaPlace, Owned, Same
<1> QED BY <1>1, <1>2, <1>3, <1>4, <1>5, <1>6, <1>7

(* The destructor releases the pool; the encoder's imports of it went      *)
(* before.                                                                 *)
LEMMA DestroyRgaStep ==
    ASSUME ProcessInv, DestroyRga, UNCHANGED <<NotRga, built>>
    PROVE  /\ RgaMoves /\ Control' /\ Ledger' /\ OnlyChanges(RgaKinds)
           /\ RgaHandles' /\ RgaPool' /\ RgaPlace'
<1>1. RgaMoves
  BY DEF RgaMoves, Streaming, Control, DestroyRga, ReleasePoolThen, rgaVars
<1>2. Control'
  BY DEF Control, DestroyRga, ReleasePoolThen, rgaVars
<1>3. OnlyChanges(RgaKinds)
  BY RgaNames, DecoderNames DEF OnlyChanges, RgaKinds, DestroyRga, ReleasePoolThen,
                                rgaVars
<1>4. Ledger'
  BY RgaNames, DecoderNames DEF Ledger, Universe, DestroyRga, ReleasePoolThen, rgaVars
<1>5. RgaHandles'
  BY RgaNames, DecoderNames DEF RgaHandles, Owned, Same, DestroyRga, ReleasePoolThen,
                                rgaVars
<1>6. RgaPool'
  BY RgaNames, DecoderNames, Sizes DEF RgaPool, RgaHandles, Same, RgaPlace, DestroyRga,
                                       ReleasePoolThen, rgaVars
<1>7. RgaPlace'
  BY RgaNames, DecoderNames, Sizes DEF RgaPlace, RgaHandles, Same, RgaPool, DestroyRga,
                                       ReleasePoolThen, rgaVars
<1> QED BY <1>1, <1>2, <1>3, <1>4, <1>5, <1>6, <1>7

-----------------------------------------------------------------------------
(* mpp_create gives the context, or fails with nothing held.               *)
LEMMA CreateEncoderStep ==
    ASSUME ProcessInv, CreateEncoder, UNCHANGED <<NotEncoder, built>>
    PROVE  /\ EncoderMoves /\ Control' /\ Ledger' /\ OnlyChanges(EncoderKinds)
           /\ EncoderHandles' /\ EncoderNeeds' /\ EncoderPlace' /\ EncoderElsewhere'
<1>1. EncoderMoves
  BY DEF EncoderMoves, Streaming, Control, CreateEncoder
<1>2. Control'
  BY DEF Control, CreateEncoder
<1>3. OnlyChanges(EncoderKinds)
  BY EncoderNames, RgaNames DEF OnlyChanges, EncoderKinds, CreateEncoder
<1>4. Ledger'
  BY EncoderNames, RgaNames, Sizes DEF Ledger, Universe, EncoderHandles, EncoderPlace,
                                       EncoderNeeds, NotImported, NoHeader, Same,
                                       CreateEncoder
<1>5. EncoderHandles'
  BY EncoderNames, RgaNames DEF EncoderHandles, Same, CreateEncoder
<1>6. EncoderNeeds'
  BY EncoderNames, RgaNames, Sizes DEF EncoderNeeds, EncoderHandles, Same, EncoderPlace,
                                       NotImported, CreateEncoder
<1>7. EncoderPlace'
  BY EncoderNames, RgaNames, Sizes DEF EncoderPlace, EncoderHandles, Same, EncoderNeeds,
                                       NotImported, NoHeader, CreateEncoder
<1>8. EncoderElsewhere'
  BY EncoderNames, RgaNames, Sizes DEF EncoderElsewhere, EncoderPlace, EncoderNeeds,
                                       EncoderDown, NotImported, NoHeader, Control,
                                       CreateEncoder
<1> QED BY <1>1, <1>2, <1>3, <1>4, <1>5, <1>6, <1>7, <1>8

(* mpp_init and the configuration object, whose creation may fail with the *)
(* context known.                                                          *)
LEMMA InitEncoderStep ==
    ASSUME ProcessInv, InitEncoder, UNCHANGED <<NotEncoder, built>>
    PROVE  /\ EncoderMoves /\ Control' /\ Ledger' /\ OnlyChanges(EncoderKinds)
           /\ EncoderHandles' /\ EncoderNeeds' /\ EncoderPlace' /\ EncoderElsewhere'
<1>1. EncoderMoves
  BY DEF EncoderMoves, Streaming, InitEncoder
<1>2. Control'
  BY DEF Control, InitEncoder
<1>3. OnlyChanges(EncoderKinds)
  BY EncoderNames, RgaNames DEF OnlyChanges, EncoderKinds, InitEncoder
<1>4. Ledger'
  BY EncoderNames, RgaNames, Sizes DEF Ledger, Universe, EncoderHandles, EncoderPlace,
                                       EncoderNeeds, NotImported, NoHeader, Same,
                                       InitEncoder
<1>5. EncoderHandles'
  BY EncoderNames, RgaNames DEF EncoderHandles, Same, InitEncoder
<1>6. EncoderNeeds'
  BY EncoderNames, RgaNames, Sizes DEF EncoderNeeds, EncoderHandles, Same, EncoderPlace,
                                       NotImported, InitEncoder
<1>7. EncoderPlace'
  BY EncoderNames, RgaNames, Sizes DEF EncoderPlace, EncoderHandles, Same, EncoderNeeds,
                                       NotImported, NoHeader, InitEncoder
<1>8. EncoderElsewhere'
  BY EncoderNames, RgaNames DEF EncoderElsewhere, InitEncoder
<1> QED BY <1>1, <1>2, <1>3, <1>4, <1>5, <1>6, <1>7, <1>8

(* The time-outs are set, or the start is rolled back.                     *)
LEMMA SetTimeoutsStep ==
    ASSUME ProcessInv, SetTimeouts, UNCHANGED <<NotEncoder, built>>
    PROVE  /\ EncoderMoves /\ Control' /\ Ledger' /\ OnlyChanges(EncoderKinds)
           /\ EncoderHandles' /\ EncoderNeeds' /\ EncoderPlace' /\ EncoderElsewhere'
<1>1. EncoderMoves
  BY DEF EncoderMoves, Streaming, SetTimeouts
<1>2. Control'
  BY DEF Control, SetTimeouts
<1>3. OnlyChanges(EncoderKinds)
  BY EncoderNames, RgaNames DEF OnlyChanges, EncoderKinds, SetTimeouts
<1>4. Ledger'
  BY EncoderNames, RgaNames, Sizes DEF Ledger, Universe, EncoderHandles, EncoderPlace,
                                       EncoderNeeds, NotImported, NoHeader, Same,
                                       SetTimeouts
<1>5. EncoderHandles'
  BY EncoderNames, RgaNames DEF EncoderHandles, Same, SetTimeouts
<1>6. EncoderNeeds'
  BY EncoderNames, RgaNames, Sizes DEF EncoderNeeds, EncoderHandles, Same, EncoderPlace,
                                       NotImported, SetTimeouts
<1>7. EncoderPlace'
  BY EncoderNames, RgaNames, Sizes DEF EncoderPlace, EncoderHandles, Same, EncoderNeeds,
                                       NotImported, NoHeader, SetTimeouts
<1>8. EncoderElsewhere'
  BY EncoderNames, RgaNames DEF EncoderElsewhere, SetTimeouts
<1> QED BY <1>1, <1>2, <1>3, <1>4, <1>5, <1>6, <1>7, <1>8

(* The rollback of EncInit releases the configuration and the context.     *)
LEMMA UndoEncInitStep ==
    ASSUME ProcessInv, UndoEncInit, UNCHANGED <<NotEncoder, built>>
    PROVE  /\ EncoderMoves /\ Control' /\ Ledger' /\ OnlyChanges(EncoderKinds)
           /\ EncoderHandles' /\ EncoderNeeds' /\ EncoderPlace' /\ EncoderElsewhere'
<1>1. EncoderMoves
  BY DEF EncoderMoves, Streaming, Control, UndoEncInit
<1>2. Control'
  BY DEF Control, UndoEncInit
<1>3. OnlyChanges(EncoderKinds)
  BY EncoderNames, RgaNames DEF OnlyChanges, EncoderKinds, UndoEncInit
<1>4. Ledger'
  BY EncoderNames, RgaNames DEF Ledger, Universe, UndoEncInit
<1>5. EncoderHandles'
  BY EncoderNames, RgaNames DEF EncoderHandles, Same, UndoEncInit
<1>6. EncoderNeeds'
  BY EncoderNames, RgaNames, Sizes DEF EncoderNeeds, EncoderHandles, Same, EncoderPlace,
                                       NotImported, UndoEncInit
<1>7. EncoderPlace'
  BY EncoderNames, RgaNames DEF EncoderPlace, UndoEncInit
<1>8. EncoderElsewhere'
  BY EncoderNames, RgaNames, Sizes DEF EncoderElsewhere, EncoderPlace, EncoderNeeds,
                                       EncoderDown, NotImported, NoHeader, Control,
                                       UndoEncInit
<1> QED BY <1>1, <1>2, <1>3, <1>4, <1>5, <1>6, <1>7, <1>8

(* The group of the header buffer is made once.                            *)
LEMMA GetHeaderGroupStep ==
    ASSUME ProcessInv, GetHeaderGroup, UNCHANGED <<NotEncoder, built>>
    PROVE  /\ EncoderMoves /\ Control' /\ Ledger' /\ OnlyChanges(EncoderKinds)
           /\ EncoderHandles' /\ EncoderNeeds' /\ EncoderPlace' /\ EncoderElsewhere'
<1>1. EncoderMoves
  BY DEF EncoderMoves, Streaming, Control, GetHeaderGroup
<1>2. Control'
  BY DEF Control, GetHeaderGroup
<1>3. OnlyChanges(EncoderKinds)
  BY EncoderNames, RgaNames DEF OnlyChanges, EncoderKinds, GetHeaderGroup
<1>4. Ledger'
  BY EncoderNames, RgaNames, Sizes DEF Ledger, Universe, EncoderHandles, EncoderPlace,
                                       EncoderNeeds, NotImported, NoHeader, Same,
                                       GetHeaderGroup
<1>5. EncoderHandles'
  BY EncoderNames, RgaNames DEF EncoderHandles, Same, GetHeaderGroup
<1>6. EncoderNeeds'
  BY EncoderNames, RgaNames, Sizes DEF EncoderNeeds, EncoderHandles, Same, EncoderPlace,
                                       NotImported, GetHeaderGroup
<1>7. EncoderPlace'
  BY EncoderNames, RgaNames, Sizes DEF EncoderPlace, EncoderHandles, Same, EncoderNeeds,
                                       NotImported, NoHeader, GetHeaderGroup
<1>8. EncoderElsewhere'
  BY EncoderNames, RgaNames, Sizes DEF EncoderElsewhere, EncoderPlace, EncoderNeeds,
                                       EncoderDown, NotImported, NoHeader, Control,
                                       GetHeaderGroup
<1> QED BY <1>1, <1>2, <1>3, <1>4, <1>5, <1>6, <1>7, <1>8

(* The header buffer is taken from its group.                              *)
LEMMA GetHeaderStep ==
    ASSUME ProcessInv, GetHeader, UNCHANGED <<NotEncoder, built>>
    PROVE  /\ EncoderMoves /\ Control' /\ Ledger' /\ OnlyChanges(EncoderKinds)
           /\ EncoderHandles' /\ EncoderNeeds' /\ EncoderPlace' /\ EncoderElsewhere'
<1>1. EncoderMoves
  BY DEF EncoderMoves, Streaming, Control, GetHeader
<1>2. Control'
  BY DEF Control, GetHeader
<1>3. OnlyChanges(EncoderKinds)
  BY EncoderNames, RgaNames DEF OnlyChanges, EncoderKinds, GetHeader
<1>4. Ledger'
  BY EncoderNames, RgaNames, Sizes DEF Ledger, Universe, EncoderHandles, EncoderPlace,
                                       EncoderNeeds, NotImported, NoHeader, Same,
                                       GetHeader
<1>5. EncoderHandles'
  BY EncoderNames, RgaNames DEF EncoderHandles, Same, GetHeader
<1>6. EncoderNeeds'
  BY EncoderNames, RgaNames, Sizes DEF EncoderNeeds, EncoderHandles, Same, EncoderPlace,
                                       NotImported, GetHeader
<1>7. EncoderPlace'
  BY EncoderNames, RgaNames DEF EncoderPlace, GetHeader
<1>8. EncoderElsewhere'
  BY EncoderNames, RgaNames, Sizes DEF EncoderElsewhere, EncoderPlace, EncoderNeeds,
                                       EncoderDown, NotImported, NoHeader, Control,
                                       GetHeader
<1> QED BY <1>1, <1>2, <1>3, <1>4, <1>5, <1>6, <1>7, <1>8

(* The configuration is applied to the context; the encoder is up or its   *)
(* start failed.                                                           *)
LEMMA ApplyEncoderConfigStep ==
    ASSUME ProcessInv, ApplyEncoderConfig, UNCHANGED <<NotEncoder, built>>
    PROVE  /\ EncoderMoves /\ Control' /\ Ledger' /\ OnlyChanges(EncoderKinds)
           /\ EncoderHandles' /\ EncoderNeeds' /\ EncoderPlace' /\ EncoderElsewhere'
<1>1. EncoderMoves
  BY DEF EncoderMoves, Streaming, Control, ApplyEncoderConfig
<1>2. Control'
  BY DEF Control, ApplyEncoderConfig
<1>3. OnlyChanges(EncoderKinds)
  BY EncoderNames, RgaNames DEF OnlyChanges, EncoderKinds, ApplyEncoderConfig
<1>4. Ledger'
  BY EncoderNames, RgaNames, Sizes DEF Ledger, Universe, EncoderHandles, EncoderPlace,
                                       EncoderNeeds, NotImported, NoHeader, Same,
                                       ApplyEncoderConfig
<1>5. EncoderHandles'
  BY EncoderNames, RgaNames DEF EncoderHandles, Same, ApplyEncoderConfig
<1>6. EncoderNeeds'
  BY EncoderNames, RgaNames, Sizes DEF EncoderNeeds, EncoderHandles, Same, EncoderPlace,
                                       NotImported, ApplyEncoderConfig
<1>7. EncoderPlace'
  BY EncoderNames, RgaNames DEF EncoderPlace, ApplyEncoderConfig
<1>8. EncoderElsewhere'
  BY EncoderNames, RgaNames, Sizes DEF EncoderElsewhere, EncoderPlace, EncoderNeeds,
                                       EncoderDown, NotImported, NoHeader, Control,
                                       ApplyEncoderConfig
<1> QED BY <1>1, <1>2, <1>3, <1>4, <1>5, <1>6, <1>7, <1>8

(* The pool's buffers were imported on an earlier frame.                   *)
LEMMA PoolIsImportedStep ==
    ASSUME ProcessInv, PoolIsImported, UNCHANGED <<NotEncoder, built>>
    PROVE  /\ EncoderMoves /\ Control' /\ Ledger' /\ OnlyChanges(EncoderKinds)
           /\ EncoderHandles' /\ EncoderNeeds' /\ EncoderPlace' /\ EncoderElsewhere'
<1>1. EncoderMoves
  BY DEF EncoderMoves, Streaming, PoolIsImported
<1>2. Control'
  BY DEF Control, PoolIsImported
<1>3. OnlyChanges(EncoderKinds)
  BY EncoderNames, RgaNames DEF OnlyChanges, EncoderKinds, PoolIsImported
<1>4. Ledger'
  BY EncoderNames, RgaNames DEF Ledger, Universe, PoolIsImported
<1>5. EncoderHandles'
  BY EncoderNames, RgaNames DEF EncoderHandles, Same, PoolIsImported
<1>6. EncoderNeeds'
  BY EncoderNames, RgaNames, Sizes DEF EncoderNeeds, EncoderHandles, Same, EncoderPlace,
                                       NotImported, NotEncoder, rgaVars, EncoderElsewhere,
                                       EncoderDown, PoolIsImported
<1>7. EncoderPlace'
  BY EncoderNames, RgaNames DEF EncoderPlace, PoolIsImported
<1>8. EncoderElsewhere'
  BY EncoderNames, RgaNames, Sizes DEF EncoderElsewhere, EncoderPlace, EncoderNeeds,
                                       EncoderDown, NotImported, NoHeader, Control,
                                       PoolIsImported
<1> QED BY <1>1, <1>2, <1>3, <1>4, <1>5, <1>6, <1>7, <1>8

(* The group of the imports is made with the first output of the RGA, when *)
(* the pool is there.                                                      *)
LEMMA GetEncGroupStep ==
    ASSUME ProcessInv, GetEncGroup, UNCHANGED <<NotEncoder, built>>
    PROVE  /\ EncoderMoves /\ Control' /\ Ledger' /\ OnlyChanges(EncoderKinds)
           /\ EncoderHandles' /\ EncoderNeeds' /\ EncoderPlace' /\ EncoderElsewhere'
<1>1. EncoderMoves
  BY DEF EncoderMoves, Streaming, GetEncGroup
<1>2. Control'
  BY DEF Control, GetEncGroup
<1>3. OnlyChanges(EncoderKinds)
  BY EncoderNames, RgaNames DEF OnlyChanges, EncoderKinds, GetEncGroup
<1>4. Ledger'
  BY EncoderNames, RgaNames, Sizes DEF Ledger, Universe, EncoderHandles, EncoderPlace,
                                       EncoderNeeds, NotImported, NoHeader, Same,
                                       GetEncGroup
<1>5. EncoderHandles'
  BY EncoderNames, RgaNames DEF EncoderHandles, Same, GetEncGroup
<1>6. EncoderNeeds'
  BY EncoderNames, RgaNames, Sizes DEF EncoderNeeds, EncoderHandles, Same, EncoderPlace,
                                       NotImported, GetEncGroup
<1>7. EncoderPlace'
  BY EncoderNames, RgaNames, Sizes DEF EncoderPlace, EncoderHandles, Same, EncoderNeeds,
                                       NotImported, NoHeader, NotEncoder, rgaVars,
                                       GetEncGroup
<1>8. EncoderElsewhere'
  BY EncoderNames, RgaNames, Sizes DEF EncoderElsewhere, EncoderPlace, EncoderNeeds,
                                       EncoderDown, NotImported, NoHeader, Control,
                                       GetEncGroup
<1> QED BY <1>1, <1>2, <1>3, <1>4, <1>5, <1>6, <1>7, <1>8

(* The next pool buffer is imported at its own index while its memory is   *)
(* there.                                                                  *)
LEMMA ImportOutputStep ==
    ASSUME ProcessInv, ImportOutput, UNCHANGED <<NotEncoder, built>>
    PROVE  /\ EncoderMoves /\ Control' /\ Ledger' /\ OnlyChanges(EncoderKinds)
           /\ EncoderHandles' /\ EncoderNeeds' /\ EncoderPlace' /\ EncoderElsewhere'
<1>1. EncoderMoves
  BY DEF EncoderMoves, Streaming, ImportOutput
<1>2. Control'
  BY DEF Control, ImportOutput
<1>3. OnlyChanges(EncoderKinds)
  BY EncoderNames, RgaNames DEF OnlyChanges, EncoderKinds, ImportOutput
<1>4. Ledger'
  BY EncoderNames, RgaNames, Sizes DEF Ledger, Universe, EncoderHandles, EncoderPlace,
                                       EncoderNeeds, NotImported, NoHeader, Same, RgaPool,
                                       ImportOutput
<1>5. EncoderHandles'
  BY EncoderNames, RgaNames DEF EncoderHandles, Same, ImportOutput
<1>6. EncoderNeeds'
  BY EncoderNames, RgaNames, Sizes DEF EncoderNeeds, EncoderHandles, Same, EncoderPlace,
                                       NotImported, NotEncoder, rgaVars, EncoderElsewhere,
                                       EncoderDown, ImportOutput
<1>7. EncoderPlace'
  BY EncoderNames, RgaNames, Sizes DEF EncoderPlace, EncoderHandles, Same, EncoderNeeds,
                                       NotImported, NoHeader, NotEncoder, rgaVars,
                                       ImportOutput
<1>8. EncoderElsewhere'
  BY EncoderNames, RgaNames DEF EncoderElsewhere, ImportOutput
<1> QED BY <1>1, <1>2, <1>3, <1>4, <1>5, <1>6, <1>7, <1>8

(* A failed import puts the imports before it and the group, and the       *)
(* process stops.                                                          *)
LEMMA ImportOutputFailsStep ==
    ASSUME ProcessInv, ImportOutputFails, UNCHANGED <<NotEncoder, built>>
    PROVE  /\ EncoderMoves /\ Control' /\ Ledger' /\ OnlyChanges(EncoderKinds)
           /\ EncoderHandles' /\ EncoderNeeds' /\ EncoderPlace' /\ EncoderElsewhere'
<1>1. EncoderMoves
  BY DEF EncoderMoves, Streaming, ImportOutputFails
<1>2. Control'
  BY DEF Control, ImportOutputFails
<1>3. OnlyChanges(EncoderKinds)
  BY EncoderNames, RgaNames DEF OnlyChanges, EncoderKinds, ImportOutputFails
<1>4. Ledger'
  BY EncoderNames, RgaNames DEF Ledger, Universe, ImportOutputFails
<1>5. EncoderHandles'
  BY EncoderNames, RgaNames DEF EncoderHandles, Same, ImportOutputFails
<1>6. EncoderNeeds'
  BY EncoderNames, RgaNames, Sizes DEF EncoderNeeds, EncoderHandles, Same, EncoderPlace,
                                       NotImported, ImportOutputFails
<1>7. EncoderPlace'
  BY EncoderNames, RgaNames DEF EncoderPlace, ImportOutputFails
<1>8. EncoderElsewhere'
  BY EncoderNames, RgaNames, Sizes DEF EncoderElsewhere, EncoderPlace, EncoderNeeds,
                                       EncoderDown, NotImported, NoHeader, Control,
                                       ImportOutputFails
<1> QED BY <1>1, <1>2, <1>3, <1>4, <1>5, <1>6, <1>7, <1>8

(* After the loop every pool buffer is imported.                           *)
LEMMA PoolImportedStep ==
    ASSUME ProcessInv, PoolImported, UNCHANGED <<NotEncoder, built>>
    PROVE  /\ EncoderMoves /\ Control' /\ Ledger' /\ OnlyChanges(EncoderKinds)
           /\ EncoderHandles' /\ EncoderNeeds' /\ EncoderPlace' /\ EncoderElsewhere'
<1>1. EncoderMoves
  BY DEF EncoderMoves, Streaming, PoolImported
<1>2. Control'
  BY DEF Control, PoolImported
<1>3. OnlyChanges(EncoderKinds)
  BY EncoderNames, RgaNames DEF OnlyChanges, EncoderKinds, PoolImported
<1>4. Ledger'
  BY EncoderNames, RgaNames DEF Ledger, Universe, PoolImported
<1>5. EncoderHandles'
  BY EncoderNames, RgaNames DEF EncoderHandles, Same, PoolImported
<1>6. EncoderNeeds'
  BY EncoderNames, RgaNames, Sizes DEF EncoderNeeds, EncoderHandles, Same, EncoderPlace,
                                       NotImported, NotEncoder, rgaVars, EncoderElsewhere,
                                       EncoderDown, PoolImported
<1>7. EncoderPlace'
  BY EncoderNames, RgaNames DEF EncoderPlace, PoolImported
<1>8. EncoderElsewhere'
  BY EncoderNames, RgaNames, Sizes DEF EncoderElsewhere, EncoderPlace, EncoderNeeds,
                                       EncoderDown, NotImported, NoHeader, Control,
                                       PoolImported
<1> QED BY <1>1, <1>2, <1>3, <1>4, <1>5, <1>6, <1>7, <1>8

(* The destructor releases configuration, header and its group, each if it *)
(* is known.                                                               *)
LEMMA DestroyEncoderStep ==
    ASSUME ProcessInv, DestroyEncoder, UNCHANGED <<NotEncoder, built>>
    PROVE  /\ EncoderMoves /\ Control' /\ Ledger' /\ OnlyChanges(EncoderKinds)
           /\ EncoderHandles' /\ EncoderNeeds' /\ EncoderPlace' /\ EncoderElsewhere'
<1>1. EncoderMoves
  BY DEF EncoderMoves, Streaming, DestroyEncoder
<1>2. Control'
  BY DEF Control, DestroyEncoder
<1>3. OnlyChanges(EncoderKinds)
  BY EncoderNames, RgaNames DEF OnlyChanges, EncoderKinds, DestroyEncoder
<1>4. Ledger'
  BY EncoderNames, RgaNames DEF Ledger, Universe, DestroyEncoder
<1>5. EncoderHandles'
  BY EncoderNames, RgaNames DEF EncoderHandles, Same, DestroyEncoder
<1>6. EncoderNeeds'
  BY EncoderNames, RgaNames, Sizes DEF EncoderNeeds, EncoderHandles, Same, EncoderPlace,
                                       NotImported, NotEncoder, rgaVars, EncoderElsewhere,
                                       EncoderDown, DestroyEncoder
<1>7. EncoderPlace'
  BY EncoderNames, RgaNames, Sizes DEF EncoderPlace, EncoderHandles, Same, EncoderNeeds,
                                       NotImported, NoHeader, DestroyEncoder
<1>8. EncoderElsewhere'
  BY EncoderNames, RgaNames DEF EncoderElsewhere, DestroyEncoder
<1> QED BY <1>1, <1>2, <1>3, <1>4, <1>5, <1>6, <1>7, <1>8

(* The imports of the pool are put before the pool's memory goes.          *)
LEMMA PutImportsStep ==
    ASSUME ProcessInv, PutImports, UNCHANGED <<NotEncoder, built>>
    PROVE  /\ EncoderMoves /\ Control' /\ Ledger' /\ OnlyChanges(EncoderKinds)
           /\ EncoderHandles' /\ EncoderNeeds' /\ EncoderPlace' /\ EncoderElsewhere'
<1>1. EncoderMoves
  BY DEF EncoderMoves, Streaming, PutImports
<1>2. Control'
  BY DEF Control, PutImports
<1>3. OnlyChanges(EncoderKinds)
  BY EncoderNames, RgaNames DEF OnlyChanges, EncoderKinds, PutImports
<1>4. Ledger'
  BY EncoderNames, RgaNames DEF Ledger, Universe, PutImports
<1>5. EncoderHandles'
  BY EncoderNames, RgaNames DEF EncoderHandles, Same, PutImports
<1>6. EncoderNeeds'
  BY EncoderNames, RgaNames, Sizes DEF EncoderNeeds, EncoderHandles, Same, EncoderPlace,
                                       NotImported, PutImports
<1>7. EncoderPlace'
  BY EncoderNames, RgaNames, Sizes DEF EncoderPlace, EncoderHandles, Same, EncoderNeeds,
                                       NotImported, NoHeader, PutImports
<1>8. EncoderElsewhere'
  BY EncoderNames, RgaNames DEF EncoderElsewhere, PutImports
<1> QED BY <1>1, <1>2, <1>3, <1>4, <1>5, <1>6, <1>7, <1>8

(* The encoder's context goes last; the encoder is down.                   *)
LEMMA DestroyEncContextStep ==
    ASSUME ProcessInv, DestroyEncContext, UNCHANGED <<NotEncoder, built>>
    PROVE  /\ EncoderMoves /\ Control' /\ Ledger' /\ OnlyChanges(EncoderKinds)
           /\ EncoderHandles' /\ EncoderNeeds' /\ EncoderPlace' /\ EncoderElsewhere'
<1>1. EncoderMoves
  BY DEF EncoderMoves, Streaming, DestroyEncContext
<1>2. Control'
  BY DEF Control, DestroyEncContext
<1>3. OnlyChanges(EncoderKinds)
  BY EncoderNames, RgaNames DEF OnlyChanges, EncoderKinds, DestroyEncContext
<1>4. Ledger'
  BY EncoderNames, RgaNames DEF Ledger, Universe, DestroyEncContext
<1>5. EncoderHandles'
  BY EncoderNames, RgaNames DEF EncoderHandles, Same, DestroyEncContext
<1>6. EncoderNeeds'
  BY EncoderNames, RgaNames, Sizes DEF EncoderNeeds, EncoderHandles, Same, EncoderPlace,
                                       NotImported, DestroyEncContext
<1>7. EncoderPlace'
  BY EncoderNames, RgaNames DEF EncoderPlace, DestroyEncContext
<1>8. EncoderElsewhere'
  BY EncoderNames, RgaNames, Sizes DEF EncoderElsewhere, EncoderPlace, EncoderNeeds,
                                       EncoderDown, NotImported, NoHeader, Control,
                                       DestroyEncContext
<1> QED BY <1>1, <1>2, <1>3, <1>4, <1>5, <1>6, <1>7, <1>8

-----------------------------------------------------------------------------
(* The quotient of two numbers, the divisor being the lesser one.          *)
LEMMA Quotient ==
    ASSUME NEW n \in Nat, NEW d \in Nat, d > 0, d <= n
    PROVE  n \div d \in Nat /\ 1 <= n \div d /\ n \div d <= n
<1>1. n \div d \in Int OBVIOUS
<1>2. n = d * (n \div d) + (n % d) /\ n % d \in Nat /\ n % d < d OBVIOUS
<1>3. n \div d >= 0 OBVIOUS
<1>4. n \div d >= 1 BY <1>1, <1>2, <1>3
<1>5. n \div d <= n BY <1>1, <1>2, <1>3
<1> QED BY <1>1, <1>3, <1>4, <1>5

(* A rate of at least one frame per second has an interval between a       *)
(* microsecond and a second.                                               *)
LEMMA Interval == ASSUME NEW fps \in Nat, fps > 0 PROVE FrameInterval(fps) \in 1 .. Second
<1>1. Second \in Nat /\ Second > 0 BY DEF Second
<1>2. CASE fps > Second
  <2>1. FrameInterval(fps) = 1 BY <1>2 DEF FrameInterval
  <2> QED BY <1>1, <2>1
<1>3. CASE ~(fps > Second)
  <2>1. Second \div fps \in Nat /\ 1 <= Second \div fps /\ Second \div fps <= Second
    BY <1>1, <1>3, Quotient
  <2>2. FrameInterval(fps) = Second \div fps BY <1>3 DEF FrameInterval
  <2> QED BY <1>1, <2>1, <2>2
<1> QED BY <1>2, <1>3

(* Whatever time per frame the camera reports, the rate made of it is      *)
(* positive.                                                               *)
LEMMA ExpectedRate ==
    ASSUME NEW rate \in Nat \X Nat PROVE ExpectedFps(rate) \in Nat /\ ExpectedFps(rate) > 0
<1>1. rate[1] \in Nat /\ rate[2] \in Nat OBVIOUS
<1>2. CASE rate[1] > 0 /\ rate[2] > 0 /\ rate[2] >= rate[1]
  BY <1>1, <1>2, Quotient DEF ExpectedFps
<1>3. CASE ~(rate[1] > 0 /\ rate[2] > 0 /\ rate[2] >= rate[1])
  BY <1>3 DEF ExpectedFps
<1> QED BY <1>2, <1>3

(* The HTTP server starts, or the initialisation fails with no server.     *)
LEMMA StartHttpStep ==
    ASSUME ProcessInv, StartHttp, UNCHANGED <<NotService, built>>
    PROVE  /\ ServiceMoves /\ Control' /\ Ledger' /\ OnlyChanges(ServiceKinds)
           /\ ServicePlace' /\ ServiceValues'
<1>1. ServiceMoves
  BY DEF ServiceMoves, Streaming, StartHttp, CloseThen
<1>2. Control'
  BY DEF Control, StartHttp, CloseThen
<1>3. OnlyChanges(ServiceKinds)
  BY ServiceNames DEF OnlyChanges, ServiceKinds, StartHttp, CloseThen
<1>4. Ledger'
  BY ServiceNames, Sizes DEF Ledger, Universe, ServicePlace, NoServers, Same, StartHttp,
                             CloseThen
<1>5. ServicePlace'
  BY ServiceNames DEF ServicePlace, Same, StartHttp, CloseThen
<1>6. ServiceValues'
  BY ServiceNames DEF ServiceValues, StartHttp, CloseThen
<1> QED BY <1>1, <1>2, <1>3, <1>4, <1>5, <1>6

(* The RTSP server starts, or what was started is closed.                  *)
LEMMA StartRtspStep ==
    ASSUME ProcessInv, StartRtsp, UNCHANGED <<NotService, built>>
    PROVE  /\ ServiceMoves /\ Control' /\ Ledger' /\ OnlyChanges(ServiceKinds)
           /\ ServicePlace' /\ ServiceValues'
<1>1. ServiceMoves
  BY DEF ServiceMoves, Streaming, StartRtsp, CloseThen
<1>2. Control'
  BY DEF Control, StartRtsp, CloseThen
<1>3. OnlyChanges(ServiceKinds)
  BY ServiceNames DEF OnlyChanges, ServiceKinds, StartRtsp, CloseThen
<1>4. Ledger'
  BY ServiceNames, Sizes DEF Ledger, Universe, ServicePlace, NoServers, Same, StartRtsp,
                             CloseThen
<1>5. ServicePlace'
  BY ServiceNames DEF ServicePlace, Same, StartRtsp, CloseThen
<1>6. ServiceValues'
  BY ServiceNames DEF ServiceValues, StartRtsp, CloseThen
<1> QED BY <1>1, <1>2, <1>3, <1>4, <1>5, <1>6

(* The WebRTC server starts on the port the answers will advertise, or     *)
(* requests are refused.                                                   *)
LEMMA StartRtcStep ==
    ASSUME ProcessInv, StartRtc, UNCHANGED <<NotService, built>>
    PROVE  /\ ServiceMoves /\ Control' /\ Ledger' /\ OnlyChanges(ServiceKinds)
           /\ ServicePlace' /\ ServiceValues'
<1>1. ServiceMoves
  BY DEF ServiceMoves, Streaming, StartRtc
<1>2. Control'
  BY DEF Control, StartRtc
<1>3. OnlyChanges(ServiceKinds)
  BY ServiceNames DEF OnlyChanges, ServiceKinds, StartRtc
<1>4. Ledger'
  BY ServiceNames, Sizes DEF Ledger, Universe, ServicePlace, NoServers, Same, StartRtc
<1>5. ServicePlace'
  BY ServiceNames DEF ServicePlace, Same, StartRtc
<1>6. ServiceValues'
  BY ServiceNames DEF ServiceValues, StartRtc
<1> QED BY <1>1, <1>2, <1>3, <1>4, <1>5, <1>6

(* Listening for events holds nothing.                                     *)
LEMMA ListenEventsStep ==
    ASSUME ProcessInv, ListenEvents, UNCHANGED <<NotService, built>>
    PROVE  /\ ServiceMoves /\ Control' /\ Ledger' /\ OnlyChanges(ServiceKinds)
           /\ ServicePlace' /\ ServiceValues'
<1>1. ServiceMoves
  BY DEF ServiceMoves, Streaming, ListenEvents
<1>2. Control'
  BY DEF Control, ListenEvents
<1>3. OnlyChanges(ServiceKinds)
  BY ServiceNames DEF OnlyChanges, ServiceKinds, ListenEvents
<1>4. Ledger'
  BY ServiceNames DEF Ledger, Universe, ListenEvents
<1>5. ServicePlace'
  BY ServiceNames DEF ServicePlace, Same, ListenEvents
<1>6. ServiceValues'
  BY ServiceNames DEF ServiceValues, ListenEvents
<1> QED BY <1>1, <1>2, <1>3, <1>4, <1>5, <1>6

(* The option the media is made with is held until it is made.             *)
LEMMA CreateOptionStep ==
    ASSUME ProcessInv, CreateOption, UNCHANGED <<NotService, built>>
    PROVE  /\ ServiceMoves /\ Control' /\ Ledger' /\ OnlyChanges(ServiceKinds)
           /\ ServicePlace' /\ ServiceValues'
<1>1. ServiceMoves
  BY DEF ServiceMoves, Streaming, CreateOption, CloseThen
<1>2. Control'
  BY DEF Control, CreateOption, CloseThen
<1>3. OnlyChanges(ServiceKinds)
  BY ServiceNames DEF OnlyChanges, ServiceKinds, CreateOption, CloseThen
<1>4. Ledger'
  BY ServiceNames, Sizes DEF Ledger, Universe, ServicePlace, NoServers, Same,
                             CreateOption, CloseThen
<1>5. ServicePlace'
  BY ServiceNames DEF ServicePlace, Same, CreateOption, CloseThen
<1>6. ServiceValues'
  BY ServiceNames DEF ServiceValues, CreateOption, CloseThen
<1> QED BY <1>1, <1>2, <1>3, <1>4, <1>5, <1>6

(* The media is made with the option, which is released in any case.       *)
LEMMA CreateMediaStep ==
    ASSUME ProcessInv, CreateMedia, UNCHANGED <<NotService, built>>
    PROVE  /\ ServiceMoves /\ Control' /\ Ledger' /\ OnlyChanges(ServiceKinds)
           /\ ServicePlace' /\ ServiceValues'
<1>1. ServiceMoves
  BY DEF ServiceMoves, Streaming, CreateMedia, CloseThen
<1>2. Control'
  BY DEF Control, CreateMedia, CloseThen
<1>3. OnlyChanges(ServiceKinds)
  BY ServiceNames DEF OnlyChanges, ServiceKinds, CreateMedia, CloseThen
<1>4. Ledger'
  BY ServiceNames, Sizes DEF Ledger, Universe, ServicePlace, NoServers, Same, CreateMedia,
                             CloseThen
<1>5. ServicePlace'
  BY ServiceNames DEF ServicePlace, Same, CreateMedia, CloseThen
<1>6. ServiceValues'
  BY ServiceNames DEF ServiceValues, CreateMedia, CloseThen
<1> QED BY <1>1, <1>2, <1>3, <1>4, <1>5, <1>6

(* The track is added to the media, or the service is closed again.        *)
LEMMA AddTrackStep ==
    ASSUME ProcessInv, AddTrack, UNCHANGED <<NotService, built>>
    PROVE  /\ ServiceMoves /\ Control' /\ Ledger' /\ OnlyChanges(ServiceKinds)
           /\ ServicePlace' /\ ServiceValues'
<1>1. ServiceMoves
  BY DEF ServiceMoves, Streaming, AddTrack, CloseThen
<1>2. Control'
  BY DEF Control, AddTrack, CloseThen
<1>3. OnlyChanges(ServiceKinds)
  BY ServiceNames DEF OnlyChanges, ServiceKinds, AddTrack, CloseThen
<1>4. Ledger'
  BY ServiceNames, Sizes DEF Ledger, Universe, ServicePlace, NoServers, Same, AddTrack,
                             CloseThen
<1>5. ServicePlace'
  BY ServiceNames, Sizes DEF ServicePlace, Same, ServiceDown, NoServers, Control, Ledger,
                             AddTrack, CloseThen
<1>6. ServiceValues'
  BY ServiceNames DEF ServiceValues, AddTrack, CloseThen
<1> QED BY <1>1, <1>2, <1>3, <1>4, <1>5, <1>6

(* The rate main passes on gives an interval from one microsecond to one   *)
(* second.                                                                 *)
LEMMA SetExpectedFpsStep ==
    ASSUME ProcessInv, SetExpectedFps, UNCHANGED <<NotService, built>>
    PROVE  /\ ServiceMoves /\ Control' /\ Ledger' /\ OnlyChanges(ServiceKinds)
           /\ ServicePlace' /\ ServiceValues'
<1>1. ServiceMoves
  BY DEF ServiceMoves, Streaming, SetExpectedFps
<1>2. Control'
  BY DEF Control, SetExpectedFps
<1>3. OnlyChanges(ServiceKinds)
  BY ServiceNames DEF OnlyChanges, ServiceKinds, SetExpectedFps
<1>4. Ledger'
  BY ServiceNames DEF Ledger, Universe, SetExpectedFps
<1>5. ServicePlace'
  BY ServiceNames, Sizes DEF ServicePlace, Same, ServiceDown, NoServers, SetExpectedFps
<1>6. ServiceValues'
  <2>1. activeConfig.rate \in Nat \X Nat
    <3>1. activeConfig.rate \in Rates \/ activeConfig.rate = <<0, 0>> BY DEF CameraTyped
    <3>2. <<0, 0>> \in Nat \X Nat OBVIOUS
    <3> QED BY <3>1, <3>2, CameraAssumption
  <2>2. frameIntervalUs' \in 1 .. Second
    BY <2>1, ExpectedRate, Interval DEF SetExpectedFps
  <2> QED BY <2>2 DEF ServiceValues, SetExpectedFps
<1> QED BY <1>1, <1>2, <1>3, <1>4, <1>5, <1>6

(* Closing the service starts with the events.                             *)
LEMMA CloseEventsStep ==
    ASSUME ProcessInv, CloseEvents, UNCHANGED <<NotService, built>>
    PROVE  /\ ServiceMoves /\ Control' /\ Ledger' /\ OnlyChanges(ServiceKinds)
           /\ ServicePlace' /\ ServiceValues'
<1>1. ServiceMoves
  BY DEF ServiceMoves, Streaming, CloseEvents
<1>2. Control'
  BY DEF Control, CloseEvents
<1>3. OnlyChanges(ServiceKinds)
  BY ServiceNames DEF OnlyChanges, ServiceKinds, CloseEvents
<1>4. Ledger'
  BY ServiceNames DEF Ledger, Universe, CloseEvents
<1>5. ServicePlace'
  BY ServiceNames DEF ServicePlace, Same, CloseEvents
<1>6. ServiceValues'
  BY ServiceNames DEF ServiceValues, CloseEvents
<1> QED BY <1>1, <1>2, <1>3, <1>4, <1>5, <1>6

(* The media is released if it is known.                                   *)
LEMMA CloseMediaStep ==
    ASSUME ProcessInv, CloseMedia, UNCHANGED <<NotService, built>>
    PROVE  /\ ServiceMoves /\ Control' /\ Ledger' /\ OnlyChanges(ServiceKinds)
           /\ ServicePlace' /\ ServiceValues'
<1>1. ServiceMoves
  BY DEF ServiceMoves, Streaming, CloseMedia, serviceVars
<1>2. Control'
  BY DEF Control, CloseMedia, serviceVars
<1>3. OnlyChanges(ServiceKinds)
  BY ServiceNames DEF OnlyChanges, ServiceKinds, CloseMedia, serviceVars
<1>4. Ledger'
  BY ServiceNames DEF Ledger, Universe, CloseMedia, serviceVars
<1>5. ServicePlace'
  BY ServiceNames DEF ServicePlace, Same, CloseMedia, serviceVars
<1>6. ServiceValues'
  BY ServiceNames DEF ServiceValues, CloseMedia, serviceVars
<1> QED BY <1>1, <1>2, <1>3, <1>4, <1>5, <1>6

(* The servers stop, all of them.                                          *)
LEMMA StopServersStep ==
    ASSUME ProcessInv, StopServers, UNCHANGED <<NotService, built>>
    PROVE  /\ ServiceMoves /\ Control' /\ Ledger' /\ OnlyChanges(ServiceKinds)
           /\ ServicePlace' /\ ServiceValues'
<1>1. ServiceMoves
  BY DEF ServiceMoves, Streaming, StopServers, serviceVars
<1>2. Control'
  BY DEF Control, StopServers, serviceVars
<1>3. OnlyChanges(ServiceKinds)
  BY ServiceNames DEF OnlyChanges, ServiceKinds, StopServers, serviceVars
<1>4. Ledger'
  BY ServiceNames, Sizes DEF Ledger, Universe, ServicePlace, NoServers, Same, StopServers,
                             serviceVars
<1>5. ServicePlace'
  BY ServiceNames, Sizes DEF ServicePlace, Same, ServiceDown, NoServers, StopServers,
                             serviceVars
<1>6. ServiceValues'
  BY ServiceNames DEF ServiceValues, StopServers, serviceVars
<1> QED BY <1>1, <1>2, <1>3, <1>4, <1>5, <1>6

(* The flags are reset when the media and the servers are gone.            *)
LEMMA CloseFlagsStep ==
    ASSUME ProcessInv, CloseFlags, UNCHANGED <<NotService, built>>
    PROVE  /\ ServiceMoves /\ Control' /\ Ledger' /\ OnlyChanges(ServiceKinds)
           /\ ServicePlace' /\ ServiceValues'
<1>1. ServiceMoves
  BY DEF ServiceMoves, Streaming, Control, CloseFlags
<1>2. Control'
  BY DEF Control, CloseFlags
<1>3. OnlyChanges(ServiceKinds)
  BY ServiceNames DEF OnlyChanges, ServiceKinds, CloseFlags
<1>4. Ledger'
  BY ServiceNames DEF Ledger, Universe, CloseFlags
<1>5. ServicePlace'
  BY ServiceNames, Sizes DEF ServicePlace, Same, ServiceDown, NoServers, Control, Ledger,
                             CloseFlags
<1>6. ServiceValues'
  BY ServiceNames DEF ServiceValues, CloseFlags
<1> QED BY <1>1, <1>2, <1>3, <1>4, <1>5, <1>6

(* The destructor closes the service once more.                            *)
LEMMA DestroyPublisherStep ==
    ASSUME ProcessInv, DestroyPublisher, UNCHANGED <<NotService, built>>
    PROVE  /\ ServiceMoves /\ Control' /\ Ledger' /\ OnlyChanges(ServiceKinds)
           /\ ServicePlace' /\ ServiceValues'
<1>1. ServiceMoves
  BY DEF ServiceMoves, Streaming, DestroyPublisher, CloseThen
<1>2. Control'
  BY DEF Control, DestroyPublisher, CloseThen
<1>3. OnlyChanges(ServiceKinds)
  BY ServiceNames DEF OnlyChanges, ServiceKinds, DestroyPublisher, CloseThen
<1>4. Ledger'
  BY ServiceNames DEF Ledger, Universe, DestroyPublisher, CloseThen
<1>5. ServicePlace'
  BY ServiceNames DEF ServicePlace, Same, DestroyPublisher, CloseThen
<1>6. ServiceValues'
  BY ServiceNames DEF ServiceValues, DestroyPublisher, CloseThen
<1> QED BY <1>1, <1>2, <1>3, <1>4, <1>5, <1>6

-----------------------------------------------------------------------------
(* What the steps of the other objects leave alone.                        *)
LEMMA CameraFrame ==
    ASSUME ProcessInv, NEW kinds, OnlyChanges(kinds), kinds \intersect CameraKinds = {},
           UNCHANGED cameraVars,
           pc \notin CameraLabels, pc' \notin CameraLabels \union {"main"},
           CameraDown' <=> CameraDown, Streaming' => Streaming
    PROVE  CameraInv'
<1>1. /\ \A i : \A x \in {Device, Slots, Stream, Memory(i), Mapping(i), CpuRead(i), Queued(i)} :
            /\ x \in held' <=> x \in held
            /\ x \in known' <=> x \in known
      /\ \A x \in OfStream : /\ x \in held' <=> x \in held
                             /\ x \in known' <=> x \in known
      /\ refused \subseteq refused'
  BY CameraNames DEF OnlyChanges, CameraKinds
<1>2. numBuffers' = numBuffers /\ granted' = granted /\ activeConfig' = activeConfig
  BY DEF cameraVars, setupVars
<1>3. CameraTyped' BY <1>2 DEF CameraTyped
<1>4. CameraHandles' BY <1>1 DEF CameraHandles, Owned, Same
<1>5. CameraBuffers' BY <1>1, <1>2 DEF CameraBuffers
<1>6. CameraPlace' BY <1>1, <1>2 DEF CameraPlace
<1>7. CameraElsewhere' BY <1>1, <1>2 DEF CameraElsewhere
<1> QED BY <1>3, <1>4, <1>5, <1>6, <1>7

(* The decoder's part after a step of another object: the camera's buffers *)
(* are not reallocated while the decoder is up.                            *)
LEMMA DecoderFrame ==
    ASSUME ProcessInv, NEW kinds, OnlyChanges(kinds), kinds \intersect DecoderKinds = {},
           UNCHANGED <<decoderVars, built>>,
           pc \notin DecoderLabels, pc' \notin DecoderLabels,
           DecoderDown' <=> DecoderDown,
           DecoderDown \/ numBuffers' = numBuffers
    PROVE  DecoderInv'
<1>1. /\ \A i : \A x \in {Context, DecCfg, Group, OutMemory(i), OutMapping(i), Committed(i),
                          Import(i), Lent(i)} :
            /\ x \in held' <=> x \in held
            /\ x \in known' <=> x \in known
      /\ refused \subseteq refused'
  BY DecoderNames DEF OnlyChanges, DecoderKinds
<1>2. NoOutputs => NoOutputs' BY <1>1 DEF NoOutputs
<1>3. DecoderHandles' BY <1>1 DEF DecoderHandles, Owned, Same
<1>4. DecoderElsewhere' BY <1>1 DEF DecoderElsewhere, AllOutputs, NoImports
<1>5. DecoderNeeds'
  <2>1. ASSUME NEW i \in Entries, Import(i) \in known' PROVE i < numBuffers'
    BY <1>1, <2>1 DEF DecoderNeeds, DecoderElsewhere, NoImports
  <2> QED BY <1>1, <1>2, <2>1 DEF DecoderNeeds
<1>6. DecoderPlace' BY DEF DecoderPlace
<1> QED BY <1>3, <1>4, <1>5, <1>6

(* The RGA's part after a step of another object.                          *)
LEMMA RgaFrame ==
    ASSUME ProcessInv, NEW kinds, OnlyChanges(kinds), kinds \intersect RgaKinds = {},
           UNCHANGED <<rgaVars, built>>,
           pc \notin RgaLabels, pc' \notin RgaLabels
    PROVE  RgaInv'
<1>1. /\ \A i : \A x \in {SrcHandle, DstHandle, PoolMemory(i), PoolMapping(i)} :
            /\ x \in held' <=> x \in held
            /\ x \in known' <=> x \in known
      /\ refused \subseteq refused' /\ poolReady' = poolReady
  BY RgaNames DEF OnlyChanges, RgaKinds, rgaVars
<1>2. RgaHandles' BY <1>1 DEF RgaHandles, Owned, Same
<1>3. RgaPool' BY <1>1 DEF RgaPool
<1>4. RgaPlace' BY <1>1 DEF RgaPlace
<1> QED BY <1>2, <1>3, <1>4

(* The encoder's part after a step of another object: the pool is not      *)
(* released while the encoder has imports of it.                           *)
LEMMA EncoderFrame ==
    ASSUME ProcessInv, NEW kinds, OnlyChanges(kinds), kinds \intersect EncoderKinds = {},
           UNCHANGED <<ioReady, built>>,
           pc \notin EncoderLabels, pc' \notin EncoderLabels \ {"encoder_import"},
           EncoderDown' <=> EncoderDown,
           pc' = "encoder_import" => poolReady' /\ built = 5,
           pc' = "rga_release" \/ poolReady' # poolReady =>
              ~poolReady \/ pc = "rga_release" \/ built = 2
    PROVE  EncoderInv'
<1>1. /\ \A i : \A x \in {EncContext, EncCfg, HeaderGroup, Header, EncGroup, EncImport(i)} :
            /\ x \in held' <=> x \in held
            /\ x \in known' <=> x \in known
  BY EncoderNames DEF OnlyChanges, EncoderKinds
<1>2. EncoderHandles' BY <1>1 DEF EncoderHandles, Same
<1>3. NotImported => NotImported' BY <1>1 DEF NotImported
<1>4. EncoderNeeds'
  <2>1. ASSUME NEW i \in Entries, EncImport(i) \in known'
        PROVE  EncContext \in known' /\ poolReady' /\ pc' # "rga_release"
    BY <1>1, <2>1 DEF EncoderNeeds, EncoderElsewhere, EncoderDown, RgaPlace
  <2> QED BY <1>1, <1>3, <2>1 DEF EncoderNeeds
<1>5. EncoderPlace' BY <1>1 DEF EncoderPlace, EncoderElsewhere, EncoderDown
<1>6. EncoderElsewhere' BY <1>1 DEF EncoderElsewhere, NoHeader
<1> QED BY <1>2, <1>4, <1>5, <1>6

(* The publisher's part after a step of another object.                    *)
LEMMA ServiceFrame ==
    ASSUME ProcessInv, NEW kinds, OnlyChanges(kinds), kinds \intersect ServiceKinds = {},
           UNCHANGED <<serviceVars, built>>,
           pc \notin ServiceLabels, pc' \notin ServiceLabels,
           ServiceDown' <=> ServiceDown
    PROVE  ServiceInv'
<1>1. /\ \A x \in {Http, Rtsp, Rtc, Option, Media} :
            /\ x \in held' <=> x \in held
            /\ x \in known' <=> x \in known
  BY ServiceNames DEF OnlyChanges, ServiceKinds
<1>2. ServicePlace' BY <1>1 DEF ServicePlace, Same, NoServers
<1>3. ServiceValues' BY DEF ServiceValues, serviceVars
<1> QED BY <1>2, <1>3

(* The requests' part after a step of main: no step of an object touches   *)
(* an invoker.                                                             *)
LEMMA RequestsFrame ==
    ASSUME ProcessInv, NEW kinds, OnlyChanges(kinds), kinds \intersect RequestKinds = {},
           UNCHANGED requestVars
    PROVE  RequestsInv'
<1>1. \A r : /\ Clone(r) \in held' <=> Clone(r) \in held
             /\ Clone(r) \in known' <=> Clone(r) \in known
  BY CloneNames DEF OnlyChanges, RequestKinds
<1> QED BY <1>1 DEF RequestsInv, OneAnswer, requestVars

-----------------------------------------------------------------------------
(* Kinds of different objects differ.                                      *)
LEMMA KindsDiffer ==
    /\ CameraKinds \intersect (DecoderKinds \union RgaKinds \union EncoderKinds
                               \union ServiceKinds \union RequestKinds) = {}
    /\ DecoderKinds \intersect (CameraKinds \union RgaKinds \union EncoderKinds
                                \union ServiceKinds \union RequestKinds) = {}
    /\ RgaKinds \intersect (CameraKinds \union DecoderKinds \union EncoderKinds
                            \union ServiceKinds \union RequestKinds) = {}
    /\ EncoderKinds \intersect (CameraKinds \union DecoderKinds \union RgaKinds
                                \union ServiceKinds \union RequestKinds) = {}
    /\ ServiceKinds \intersect (CameraKinds \union DecoderKinds \union RgaKinds
                                \union EncoderKinds \union RequestKinds) = {}
BY DEF CameraKinds, DecoderKinds, RgaKinds, EncoderKinds, ServiceKinds, RequestKinds

(* A step of the camera keeps the invariant.                               *)
LEMMA CameraKeepsInv ==
    ASSUME ProcessInv, CameraStep, UNCHANGED <<NotCamera, built>>, UNCHANGED requestVars
    PROVE  ProcessInv'
<1>1. CameraMoves /\ Control' /\ Ledger' /\ OnlyChanges(CameraKinds) /\ CameraInv'
  <2>1. CASE OpenCamera BY <2>1, OpenCameraStep
  <2>2. CASE ProbeCapabilities BY <2>2, ProbeCapabilitiesStep
  <2>3. CASE ApplyFormat BY <2>3, ApplyFormatStep
  <2>4. CASE RequestBuffers BY <2>4, RequestBuffersStep
  <2>5. CASE AllocMemory BY <2>5, AllocMemoryStep
  <2>6. CASE MapMemory BY <2>6, MapMemoryStep
  <2>7. CASE AllocFails BY <2>7, AllocFailsStep
  <2>8. CASE MapFails BY <2>8, MapFailsStep
  <2>9. CASE AllAllocated BY <2>9, AllAllocatedStep
  <2>10. CASE QueueBuffer BY <2>10, QueueBufferStep
  <2>11. CASE AllQueued BY <2>11, AllQueuedStep
  <2>12. CASE SetExposure BY <2>12, SetExposureStep
  <2>13. CASE StartStream BY <2>13, StartStreamStep
  <2>14. CASE QueueOrStartFails BY <2>14, QueueOrStartFailsStep
  <2>15. CASE DeinitNothing BY <2>15, DeinitNothingStep
  <2>16. CASE ReleaseBuffer BY <2>16, ReleaseBufferStep
  <2>17. CASE ReleaseSlots BY <2>17, ReleaseSlotsStep
  <2>18. CASE CloseOnFailure BY <2>18, CloseOnFailureStep
  <2>19. CASE StopStream BY <2>19, StopStreamStep
  <2>20. CASE CloseCamera BY <2>20, CloseCameraStep
  <2> QED BY <2>1, <2>2, <2>3, <2>4, <2>5, <2>6, <2>7, <2>8, <2>9, <2>10, <2>11, <2>12,
             <2>13, <2>14, <2>15, <2>16, <2>17, <2>18, <2>19, <2>20 DEF CameraStep
<1>2. DecoderInv'
  BY <1>1, DecoderFrame, KindsDiffer DEF CameraMoves, Control, DecoderDown, NotCamera,
                                         cameraVars
<1>3. RgaInv'
  BY <1>1, RgaFrame, KindsDiffer DEF CameraMoves, Control, NotCamera
<1>4. EncoderInv'
  BY <1>1, EncoderFrame, KindsDiffer DEF CameraMoves, Control, EncoderDown, NotCamera,
                                         rgaVars
<1>5. ServiceInv'
  BY <1>1, ServiceFrame, KindsDiffer DEF CameraMoves, Control, ServiceDown, NotCamera
<1>6. RequestsInv'
  BY <1>1, RequestsFrame, KindsDiffer
<1> QED BY <1>1, <1>2, <1>3, <1>4, <1>5, <1>6

(* A step of the decoder keeps the invariant.                              *)
LEMMA DecoderKeepsInv ==
    ASSUME ProcessInv, DecoderStep, UNCHANGED <<NotDecoder, built>>, UNCHANGED requestVars
    PROVE  ProcessInv'
<1>1. DecoderMoves /\ Control' /\ Ledger' /\ OnlyChanges(DecoderKinds) /\ DecoderInv'
  <2>1. CASE CreateDecoder BY <2>1, CreateDecoderStep
  <2>2. CASE InitDecoder BY <2>2, InitDecoderStep
  <2>3. CASE ConfigDecoder BY <2>3, ConfigDecoderStep
  <2>4. CASE UndoDecInit BY <2>4, UndoDecInitStep
  <2>5. CASE DecConfigWidthHeight BY <2>5, DecConfigWidthHeightStep
  <2>6. CASE GetGroup BY <2>6, GetGroupStep
  <2>7. CASE LimitFails BY <2>7, LimitFailsStep
  <2>8. CASE AllocOutput BY <2>8, AllocOutputStep
  <2>9. CASE MapOutput BY <2>9, MapOutputStep
  <2>10. CASE CommitOutput BY <2>10, CommitOutputStep
  <2>11. CASE CommitFails BY <2>11, CommitFailsStep
  <2>12. CASE MapOutputFails BY <2>12, MapOutputFailsStep
  <2>13. CASE AttachGroup BY <2>13, AttachGroupStep
  <2>14. CASE ImportCameraBuffer BY <2>14, ImportCameraBufferStep
  <2>15. CASE ImportFails BY <2>15, ImportFailsStep
  <2>16. CASE AllImported BY <2>16, AllImportedStep
  <2>17. CASE ClearGroup BY <2>17, ClearGroupStep
  <2>18. CASE ReleaseOutput BY <2>18, ReleaseOutputStep
  <2>19. CASE PutGroup BY <2>19, PutGroupStep
  <2>20. CASE DestroyDecoder BY <2>20, DestroyDecoderStep
  <2>21. CASE DestroyContext BY <2>21, DestroyContextStep
  <2> QED BY <2>1, <2>2, <2>3, <2>4, <2>5, <2>6, <2>7, <2>8, <2>9, <2>10, <2>11, <2>12,
             <2>13, <2>14, <2>15, <2>16, <2>17, <2>18, <2>19, <2>20, <2>21 DEF DecoderStep
<1>2. CameraInv'
  BY <1>1, CameraFrame, KindsDiffer DEF DecoderMoves, Control, CameraDown, Streaming,
                                        NotDecoder
<1>3. RgaInv'
  BY <1>1, RgaFrame, KindsDiffer DEF DecoderMoves, Control, NotDecoder
<1>4. EncoderInv'
  BY <1>1, EncoderFrame, KindsDiffer DEF DecoderMoves, Control, EncoderDown, NotDecoder,
                                         rgaVars
<1>5. ServiceInv'
  BY <1>1, ServiceFrame, KindsDiffer DEF DecoderMoves, Control, ServiceDown, NotDecoder
<1>6. RequestsInv'
  BY <1>1, RequestsFrame, KindsDiffer
<1> QED BY <1>1, <1>2, <1>3, <1>4, <1>5, <1>6

(* A step of the RGA keeps the invariant.                                  *)
LEMMA RgaKeepsInv ==
    ASSUME ProcessInv, RgaStep, UNCHANGED <<NotRga, built>>, UNCHANGED requestVars
    PROVE  ProcessInv'
<1>1. RgaMoves /\ Control' /\ Ledger' /\ OnlyChanges(RgaKinds) /\ RgaInv'
  <2>1. CASE RgaInit BY <2>1, RgaInitStep
  <2>2. CASE \E i \in Entries : TransformFrame(i) BY <2>2, TransformFrameStep
  <2>3. CASE AllocPool BY <2>3, AllocPoolStep
  <2>4. CASE MapPool BY <2>4, MapPoolStep
  <2>5. CASE PoolAllocated BY <2>5, PoolAllocatedStep
  <2>6. CASE AllocPoolFails BY <2>6, AllocPoolFailsStep
  <2>7. CASE MapPoolFails BY <2>7, MapPoolFailsStep
  <2>8. CASE BuildSource BY <2>8, BuildSourceStep
  <2>9. CASE BuildDestination BY <2>9, BuildDestinationStep
  <2>10. CASE Operate BY <2>10, OperateStep
  <2>11. CASE ReleasePool BY <2>11, ReleasePoolStep
  <2>12. CASE PoolReleased BY <2>12, PoolReleasedStep
  <2>13. CASE DestroyRga BY <2>13, DestroyRgaStep
  <2> QED BY <2>1, <2>2, <2>3, <2>4, <2>5, <2>6, <2>7, <2>8, <2>9, <2>10, <2>11, <2>12,
             <2>13 DEF RgaStep
<1>2. CameraInv'
  BY <1>1, CameraFrame, KindsDiffer DEF RgaMoves, Control, CameraDown, Streaming, NotRga
<1>3. DecoderInv'
  BY <1>1, DecoderFrame, KindsDiffer DEF RgaMoves, Control, DecoderDown, NotRga,
                                         cameraVars
<1>4. EncoderInv'
  BY <1>1, EncoderFrame, KindsDiffer DEF RgaMoves, Control, EncoderDown, NotRga, rgaVars
<1>5. ServiceInv'
  BY <1>1, ServiceFrame, KindsDiffer DEF RgaMoves, Control, ServiceDown, NotRga
<1>6. RequestsInv'
  BY <1>1, RequestsFrame, KindsDiffer
<1> QED BY <1>1, <1>2, <1>3, <1>4, <1>5, <1>6

(* A step of the encoder keeps the invariant.                              *)
LEMMA EncoderKeepsInv ==
    ASSUME ProcessInv, EncoderStep, UNCHANGED <<NotEncoder, built>>, UNCHANGED requestVars
    PROVE  ProcessInv'
<1>1. EncoderMoves /\ Control' /\ Ledger' /\ OnlyChanges(EncoderKinds) /\ EncoderInv'
  <2>1. CASE CreateEncoder BY <2>1, CreateEncoderStep
  <2>2. CASE InitEncoder BY <2>2, InitEncoderStep
  <2>3. CASE SetTimeouts BY <2>3, SetTimeoutsStep
  <2>4. CASE UndoEncInit BY <2>4, UndoEncInitStep
  <2>5. CASE GetHeaderGroup BY <2>5, GetHeaderGroupStep
  <2>6. CASE GetHeader BY <2>6, GetHeaderStep
  <2>7. CASE ApplyEncoderConfig BY <2>7, ApplyEncoderConfigStep
  <2>8. CASE PoolIsImported BY <2>8, PoolIsImportedStep
  <2>9. CASE GetEncGroup BY <2>9, GetEncGroupStep
  <2>10. CASE ImportOutput BY <2>10, ImportOutputStep
  <2>11. CASE ImportOutputFails BY <2>11, ImportOutputFailsStep
  <2>12. CASE PoolImported BY <2>12, PoolImportedStep
  <2>13. CASE DestroyEncoder BY <2>13, DestroyEncoderStep
  <2>14. CASE PutImports BY <2>14, PutImportsStep
  <2>15. CASE DestroyEncContext BY <2>15, DestroyEncContextStep
  <2> QED BY <2>1, <2>2, <2>3, <2>4, <2>5, <2>6, <2>7, <2>8, <2>9, <2>10, <2>11, <2>12,
             <2>13, <2>14, <2>15 DEF EncoderStep
<1>2. CameraInv'
  BY <1>1, CameraFrame, KindsDiffer DEF EncoderMoves, Control, CameraDown, Streaming,
                                        NotEncoder
<1>3. DecoderInv'
  BY <1>1, DecoderFrame, KindsDiffer DEF EncoderMoves, Control, DecoderDown, NotEncoder,
                                         cameraVars
<1>4. RgaInv'
  BY <1>1, RgaFrame, KindsDiffer DEF EncoderMoves, Control, NotEncoder
<1>5. ServiceInv'
  BY <1>1, ServiceFrame, KindsDiffer DEF EncoderMoves, Control, ServiceDown, NotEncoder
<1>6. RequestsInv'
  BY <1>1, RequestsFrame, KindsDiffer
<1> QED BY <1>1, <1>2, <1>3, <1>4, <1>5, <1>6

(* A step of the publisher keeps the invariant.                            *)
LEMMA ServiceKeepsInv ==
    ASSUME ProcessInv, ServiceStep, UNCHANGED <<NotService, built>>, UNCHANGED requestVars
    PROVE  ProcessInv'
<1>1. ServiceMoves /\ Control' /\ Ledger' /\ OnlyChanges(ServiceKinds) /\ ServiceInv'
  <2>1. CASE StartHttp BY <2>1, StartHttpStep
  <2>2. CASE StartRtsp BY <2>2, StartRtspStep
  <2>3. CASE StartRtc BY <2>3, StartRtcStep
  <2>4. CASE ListenEvents BY <2>4, ListenEventsStep
  <2>5. CASE CreateOption BY <2>5, CreateOptionStep
  <2>6. CASE CreateMedia BY <2>6, CreateMediaStep
  <2>7. CASE AddTrack BY <2>7, AddTrackStep
  <2>8. CASE SetExpectedFps BY <2>8, SetExpectedFpsStep
  <2>9. CASE CloseEvents BY <2>9, CloseEventsStep
  <2>10. CASE CloseMedia BY <2>10, CloseMediaStep
  <2>11. CASE StopServers BY <2>11, StopServersStep
  <2>12. CASE CloseFlags BY <2>12, CloseFlagsStep
  <2>13. CASE DestroyPublisher BY <2>13, DestroyPublisherStep
  <2> QED BY <2>1, <2>2, <2>3, <2>4, <2>5, <2>6, <2>7, <2>8, <2>9, <2>10, <2>11, <2>12,
             <2>13 DEF ServiceStep
<1>2. CameraInv'
  BY <1>1, CameraFrame, KindsDiffer DEF ServiceMoves, Control, CameraDown, Streaming,
                                        NotService
<1>3. DecoderInv'
  BY <1>1, DecoderFrame, KindsDiffer DEF ServiceMoves, Control, DecoderDown, NotService,
                                         cameraVars
<1>4. RgaInv'
  BY <1>1, RgaFrame, KindsDiffer DEF ServiceMoves, Control, NotService
<1>5. EncoderInv'
  BY <1>1, EncoderFrame, KindsDiffer DEF ServiceMoves, Control, EncoderDown, NotService,
                                         rgaVars
<1>6. RequestsInv'
  BY <1>1, RequestsFrame, KindsDiffer
<1> QED BY <1>1, <1>2, <1>3, <1>4, <1>5, <1>6

-----------------------------------------------------------------------------
(* Threads that were stopped leave camera buffers out of the driver and    *)
(* frames unreturned, which the destructors account for.                   *)
LEMMA StopKeepsInv ==
    ASSUME ProcessInv, StopAndJoin, UNCHANGED NotService, UNCHANGED requestVars
    PROVE  ProcessInv'
<1>1. PICK out \in SUBSET (0 .. numBuffers - 1), lent \in SUBSET Entries :
         \E reading \in SUBSET out :
            /\ held' = (held \ Each("camera_queued", out))
                       \union Each("camera_read", reading) \union Each("decoder_lent", lent)
            /\ known' = known \union Each("camera_read", reading)
                              \union Each("decoder_lent", lent)
  BY DEF StopAndJoin
<1>2. PICK reading \in SUBSET out :
         /\ held' = (held \ Each("camera_queued", out))
                    \union Each("camera_read", reading) \union Each("decoder_lent", lent)
         /\ known' = known \union Each("camera_read", reading)
                           \union Each("decoder_lent", lent)
  BY <1>1
<1>3. /\ built = 5 /\ built' = 5 /\ pc \in {"running", "stop"} /\ pc' = "zlm_close"
      /\ afterClose' = "closed" /\ misused' = misused /\ refused' = refused /\ loop' = loop
  BY DEF StopAndJoin, CloseThen, Control
<1>4. /\ numBuffers \in Nat /\ numBuffers > 0 /\ numBuffers <= MaxAlloca
      /\ Device \in known /\ Group \in known /\ AllOutputs
  BY <1>3 DEF CameraTyped, CameraElsewhere, CameraDown, CameraBuffers, DecoderElsewhere,
              DecoderDown
<1>5. \A i \in out : i \in Entries /\ i < numBuffers
  BY <1>1, <1>4, Sizes
<1>6. OnlyChanges({"camera_queued", "camera_read", "decoder_lent"})
  BY <1>2, <1>3, AllKind DEF OnlyChanges
<1>7. \A i : /\ Queued(i) \in held' <=> Queued(i) \in held /\ i \notin out
             /\ Queued(i) \in known' <=> Queued(i) \in known
             /\ CpuRead(i) \in held' <=> CpuRead(i) \in held \/ i \in reading
             /\ CpuRead(i) \in known' <=> CpuRead(i) \in known \/ i \in reading
             /\ Lent(i) \in held' <=> Lent(i) \in held \/ i \in lent
             /\ Lent(i) \in known' <=> Lent(i) \in known \/ i \in lent
  <2>1. \A i : /\ Queued(i) \in Each("camera_queued", out) <=> i \in out
               /\ CpuRead(i) \in Each("camera_read", reading) <=> i \in reading
               /\ Lent(i) \in Each("decoder_lent", lent) <=> i \in lent
    BY AllHas DEF Queued, CpuRead, Lent
  <2>2. /\ \A x \in Each("camera_queued", out) : KindOf(x) = "camera_queued"
        /\ \A x \in Each("camera_read", reading) : KindOf(x) = "camera_read"
        /\ \A x \in Each("decoder_lent", lent) : KindOf(x) = "decoder_lent"
    BY AllKind
  <2> QED BY <1>2, <2>1, <2>2, CameraNames, DecoderNames
<1>8. /\ \A i : \A x \in {Device, Slots, Stream, Memory(i), Mapping(i)} :
            (x \in held' <=> x \in held) /\ (x \in known' <=> x \in known)
      /\ \A i : \A x \in {Context, DecCfg, Group, OutMemory(i), OutMapping(i), Committed(i),
                          Import(i)} :
            (x \in held' <=> x \in held) /\ (x \in known' <=> x \in known)
      /\ \A x \in OfStream : x \in held' => x \in held
      /\ \A x \in OfStream : x \in known' => x \in known
  <2>1. \A x : KindOf(x) \notin {"camera_queued", "camera_read", "decoder_lent"} =>
                  (x \in held' <=> x \in held) /\ (x \in known' <=> x \in known)
    BY <1>6 DEF OnlyChanges
  <2>2. \A x \in OfStream : (x \in held' => x \in held) /\ (x \in known' => x \in known)
    BY <1>2, AllKind, CameraNames
  <2> QED BY <2>1, <2>2, CameraNames, DecoderNames
<1>9. /\ numBuffers' = numBuffers /\ granted' = granted /\ activeConfig' = activeConfig
      /\ afterDeinit' = afterDeinit /\ afterRelease' = afterRelease /\ afterPool' = afterPool
  BY DEF NotService, cameraVars, setupVars, decoderVars, rgaVars
<1>10. Control' BY <1>3 DEF Control
<1>11. Ledger'
  <2>1. Each("camera_read", reading) \subseteq Universe
    BY <1>5, AllHas, CameraNames DEF Each, Universe, CameraResources, All
  <2>2. Each("decoder_lent", lent) \subseteq Universe
    BY DEF Each, Universe, DecoderResources, All
  <2>3. \A x \in Each("camera_queued", out) : x \notin known
    <3>1. TAKE x \in Each("camera_queued", out)
    <3>2. x \in OfStream BY <1>5 DEF Each, OfStream, All
    <3> QED BY <3>2 DEF CameraHandles
  <2> QED BY <1>2, <1>3, <2>1, <2>2, <2>3 DEF Ledger
<1>12. CameraInv'
  <2>1. CameraTyped' BY <1>9 DEF CameraTyped
  <2>2. CameraHandles' BY <1>3, <1>7, <1>8, <1>9 DEF CameraHandles, Owned, Same
  <2>3. CameraBuffers' BY <1>3, <1>5, <1>7, <1>8, <1>9 DEF CameraBuffers
  <2>4. CameraPlace' BY <1>3 DEF CameraPlace, Streaming
  <2>5. CameraElsewhere' BY <1>3, <1>8, <1>9 DEF CameraElsewhere, CameraDown
  <2> QED BY <2>1, <2>2, <2>3, <2>4, <2>5
<1>13. DecoderInv'
  <2>1. DecoderHandles' BY <1>3, <1>7, <1>8, <1>9 DEF DecoderHandles, Owned, Same
  <2>2. DecoderNeeds'
    BY <1>3, <1>4, <1>7, <1>8, <1>9 DEF DecoderNeeds, NoOutputs, AllOutputs
  <2>3. DecoderPlace' BY <1>3 DEF DecoderPlace
  <2>4. DecoderElsewhere'
    BY <1>3, <1>4, <1>8, <1>9 DEF DecoderElsewhere, DecoderDown, AllOutputs
  <2> QED BY <2>1, <2>2, <2>3, <2>4
<1>14. RgaInv'
  BY <1>3, <1>6, RgaFrame DEF RgaKinds, NotService
<1>15. EncoderInv'
  BY <1>3, <1>6, EncoderFrame DEF EncoderKinds, NotService, EncoderDown, rgaVars
<1>16. ServiceInv'
  <2>1. \A x \in {Http, Rtsp, Rtc, Option, Media} :
           (x \in held' <=> x \in held) /\ (x \in known' <=> x \in known)
    BY <1>6, ServiceNames DEF OnlyChanges
  <2>2. ServicePlace' BY <1>3, <2>1 DEF ServicePlace, Same
  <2>3. ServiceValues' BY DEF ServiceValues, StopAndJoin
  <2> QED BY <2>2, <2>3
<1>17. RequestsInv' BY <1>6, RequestsFrame DEF RequestKinds
<1> QED BY <1>10, <1>11, <1>12, <1>13, <1>14, <1>15, <1>16, <1>17

(* Between the objects main only goes on to the next one.                  *)
LEMMA ControlKeepsInv ==
    ASSUME ProcessInv, ConstructNext \/ AllConstructed \/ DestroyNext \/ Return,
           UNCHANGED <<NotService, serviceVars>>, UNCHANGED requestVars
    PROVE  ProcessInv'
<1>1. /\ held' = held /\ known' = known /\ misused' = misused /\ refused' = refused
      /\ loop' = loop
  BY DEF ConstructNext, AllConstructed, DestroyNext, Return
<1>2. /\ numBuffers' = numBuffers /\ granted' = granted /\ activeConfig' = activeConfig
      /\ afterDeinit' = afterDeinit /\ afterRelease' = afterRelease /\ afterPool' = afterPool
      /\ poolReady' = poolReady /\ target' = target /\ ioReady' = ioReady
      /\ afterClose' = afterClose /\ request' = request /\ answers' = answers
      /\ frameIntervalUs' = frameIntervalUs /\ webRtcReady' = webRtcReady
      /\ candidatePort' = candidatePort /\ rtcPort' = rtcPort
  BY DEF NotService, cameraVars, setupVars, decoderVars, rgaVars, serviceVars, requestVars
<1>3. \/ pc = "main" /\ built = 0 /\ pc' = "camera" /\ built' = 1
      \/ pc = "ok" /\ built = 1 /\ pc' = "decoder" /\ built' = 2
      \/ pc = "ok" /\ built = 2 /\ pc' = "rga" /\ built' = 3
      \/ pc = "ok" /\ built = 3 /\ pc' = "encoder" /\ built' = 4
      \/ pc = "ok" /\ built = 4 /\ pc' = "publisher" /\ built' = 5
      \/ pc = "ok" /\ built = 5 /\ pc' = "rate" /\ built' = 5
      \/ pc \in {"failed", "destroyed"} /\ built = 1 /\ pc' = "destroy_camera" /\ built' = 0
      \/ pc \in {"failed", "destroyed"} /\ built = 2 /\ pc' = "destroy_decoder" /\ built' = 1
      \/ pc \in {"failed", "destroyed"} /\ built = 3 /\ pc' = "destroy_rga" /\ built' = 2
      \/ pc \in {"failed", "destroyed"} /\ built = 4 /\ pc' = "destroy_encoder" /\ built' = 3
      \/ pc \in {"failed", "closed"} /\ built = 5 /\ pc' = "destroy_publisher" /\ built' = 4
      \/ pc = "destroyed" /\ built = 0 /\ pc' = "returned" /\ built' = 0
  <2>1. CASE ConstructNext BY <2>1 DEF ConstructNext, Objects, Control
  <2>2. CASE AllConstructed BY <2>2 DEF AllConstructed, Objects, Control
  <2>3. CASE DestroyNext BY <2>3 DEF DestroyNext, Destructor, Objects, Control
  <2>4. CASE Return BY <2>4 DEF Return, Control
  <2> QED BY <2>1, <2>2, <2>3, <2>4
<1>4. Control' BY <1>3 DEF Control
<1>5. Ledger' BY <1>1 DEF Ledger
<1>6. CameraInv'
  <2>1. CameraTyped' BY <1>2 DEF CameraTyped
  <2>2. CameraHandles' BY <1>1, <1>3 DEF CameraHandles, Owned, Same
  <2>3. CameraBuffers' BY <1>1, <1>2, <1>3 DEF CameraBuffers
  <2>4. CameraPlace' BY <1>1, <1>2, <1>3
                     DEF CameraPlace, CameraElsewhere, CameraDown, Streaming
  <2>5. CameraElsewhere' BY <1>1, <1>2, <1>3 DEF CameraElsewhere, CameraDown
  <2> QED BY <2>1, <2>2, <2>3, <2>4, <2>5
<1>7. DecoderInv'
  <2>1. DecoderHandles' BY <1>1, <1>2, <1>3 DEF DecoderHandles, Owned, Same
  <2>2. DecoderNeeds' BY <1>1, <1>2, <1>3
                      DEF DecoderNeeds, NoOutputs, DecoderElsewhere, DecoderDown,
                          NoImports
  <2>3. DecoderPlace' BY <1>1, <1>2, <1>3 DEF DecoderPlace, DecoderElsewhere, DecoderDown
  <2>4. DecoderElsewhere' BY <1>1, <1>2, <1>3
                          DEF DecoderElsewhere, DecoderDown, NoImports, AllOutputs
  <2> QED BY <2>1, <2>2, <2>3, <2>4
<1>8. RgaInv'
  <2>1. RgaHandles' BY <1>1, <1>2, <1>3 DEF RgaHandles, Owned, Same
  <2>2. RgaPool' BY <1>1, <1>2, <1>3 DEF RgaPool
  <2>3. RgaPlace' BY <1>1, <1>2, <1>3 DEF RgaPlace
  <2> QED BY <2>1, <2>2, <2>3
<1>9. EncoderInv'
  <2>1. EncoderHandles' BY <1>1 DEF EncoderHandles, Same
  <2>2. EncoderNeeds' BY <1>1, <1>2, <1>3 DEF EncoderNeeds, NotImported
  <2>3. EncoderPlace' BY <1>1, <1>2, <1>3
                      DEF EncoderPlace, EncoderElsewhere, EncoderDown, NoHeader,
                          EncoderNeeds
  <2>4. EncoderElsewhere' BY <1>1, <1>2, <1>3 DEF EncoderElsewhere, EncoderDown, NoHeader
  <2> QED BY <2>1, <2>2, <2>3, <2>4
<1>10. ServiceInv'
  <2>1. ServicePlace' BY <1>1, <1>2, <1>3 DEF ServicePlace, Same, ServiceDown, NoServers
  <2>2. ServiceValues' BY <1>2 DEF ServiceValues
  <2> QED BY <2>1, <2>2
<1>11. RequestsInv' BY <1>1, <1>2 DEF RequestsInv, OneAnswer
<1> QED BY <1>4, <1>5, <1>6, <1>7, <1>8, <1>9, <1>10, <1>11

(* ZLM's threads change nothing but the request and the clone of its       *)
(* invoker.                                                                *)
LEMMA RequestStep ==
    ASSUME ProcessInv, NEW r \in Requests, Dispatch(r) \/ Handle(r), known' = known
    PROVE  Ledger' /\ OnlyChanges(RequestKinds) /\ RequestsInv'
<1>1. /\ Clone(r) \notin known /\ Clone(r) \in Universe
      /\ Clone(r) \in held <=> request[r] \in {"cloned", "asked"}
      /\ answers[r] = IF request[r] = "done" THEN 1 ELSE 0
  BY CloneNames DEF RequestsInv, OneAnswer, Universe
<1>2. \/ /\ held' = held
         /\ request[r] \in {"none", "new", "ready"}
         /\ request'[r] \in {"new", "ready", "done"}
      \/ /\ request[r] = "ready" /\ held' = held \union {Clone(r)}
         /\ request'[r] = "cloned"
      \/ /\ request[r] = "cloned" /\ held' = held
         /\ request'[r] = "asked"
      \/ /\ request[r] \in {"cloned", "asked"} /\ held' = held \ {Clone(r)}
         /\ request'[r] = "done"
  BY DEF Dispatch, Handle, TestReady, CloneInvoker, Reject, AskAnswer, Answer, Proceed,
         Respond, RequestsInv
<1>3. /\ misused' = misused /\ refused' = refused
  BY <1>1 DEF Dispatch, Handle, TestReady, CloneInvoker, Reject, AskAnswer, Answer, Ledger
<1>4. /\ request' = [request EXCEPT ![r] = request'[r]]
      /\ answers' = [answers EXCEPT ![r] = @ + IF request'[r] = "done" THEN 1 ELSE 0]
      /\ request[r] # "done"
  BY DEF Dispatch, Handle, TestReady, CloneInvoker, Reject, AskAnswer, Answer, Proceed,
         Respond, RequestsInv
<1>5. Ledger' BY <1>1, <1>2, <1>3 DEF Ledger
<1>6. OnlyChanges(RequestKinds) BY <1>2, <1>3, CloneNames DEF OnlyChanges, RequestKinds
<1>7. \A s \in Requests : s # r => (Clone(s) \in held' <=> Clone(s) \in held)
  BY <1>2, CloneNames
<1>8. RequestsInv' BY <1>1, <1>2, <1>4, <1>7 DEF RequestsInv, OneAnswer
<1> QED BY <1>5, <1>6, <1>8

(* They keep the invariant, whatever main is doing meanwhile.              *)
LEMMA RequestKeepsInv ==
    ASSUME ProcessInv, NEW r \in Requests, Serving(r) \/ Arrival(r)
    PROVE  ProcessInv'
<1>1. Ledger' /\ OnlyChanges(RequestKinds) /\ RequestsInv'
  BY RequestStep DEF Serving, Arrival
<1>2. /\ pc' = pc /\ loop' = loop /\ built' = built
      /\ UNCHANGED <<cameraVars, decoderVars, rgaVars, ioReady, serviceVars>>
  BY DEF Serving, Arrival
<1>3. Control' BY <1>2 DEF Control, cameraVars, decoderVars, rgaVars, serviceVars
<1>4. \A x : KindOf(x) # "zlm_invoker" =>
                 (x \in held' <=> x \in held) /\ (x \in known' <=> x \in known)
  BY <1>1 DEF OnlyChanges, RequestKinds
<1>5. refused \subseteq refused' BY <1>1 DEF OnlyChanges
<1>6. CameraInv'
  <2>1. /\ numBuffers' = numBuffers /\ granted' = granted /\ activeConfig' = activeConfig
        /\ afterDeinit' = afterDeinit /\ afterPool' = afterPool
    BY <1>2 DEF cameraVars, setupVars, rgaVars
  <2>2. /\ \A i : \A x \in {Device, Slots, Stream, Memory(i), Mapping(i), CpuRead(i), Queued(i)} :
              (x \in held' <=> x \in held) /\ (x \in known' <=> x \in known)
        /\ \A x \in OfStream : (x \in held' <=> x \in held) /\ (x \in known' <=> x \in known)
    BY <1>4, CameraNames
  <2>3. CameraTyped' BY <2>1 DEF CameraTyped
  <2>4. CameraHandles' BY <1>2, <1>5, <2>2 DEF CameraHandles, Owned, Same
  <2>5. CameraBuffers' BY <1>2, <2>1, <2>2 DEF CameraBuffers
  <2>6. CameraPlace' BY <1>2, <2>1, <2>2 DEF CameraPlace, Streaming
  <2>7. CameraElsewhere' BY <1>2, <1>5, <2>1, <2>2 DEF CameraElsewhere, CameraDown
  <2> QED BY <2>3, <2>4, <2>5, <2>6, <2>7
<1>7. DecoderInv'
  <2>1. \A i : \A x \in {Context, DecCfg, Group, OutMemory(i), OutMapping(i), Committed(i),
                         Import(i), Lent(i)} :
           (x \in held' <=> x \in held) /\ (x \in known' <=> x \in known)
    BY <1>4, DecoderNames
  <2>2. numBuffers' = numBuffers BY <1>2 DEF cameraVars
  <2>3. DecoderHandles' BY <1>2, <1>5, <2>1 DEF DecoderHandles, Owned, Same
  <2>4. DecoderNeeds' BY <1>2, <2>1, <2>2 DEF DecoderNeeds, NoOutputs
  <2>5. DecoderPlace' BY <1>2, <2>1, <2>2 DEF DecoderPlace, AllOutputs
  <2>6. DecoderElsewhere' BY <1>2, <2>1, <2>2
                          DEF DecoderElsewhere, DecoderDown, NoImports, AllOutputs
  <2> QED BY <2>3, <2>4, <2>5, <2>6
<1>8. RgaInv'
  <2>1. \A i : \A x \in {SrcHandle, DstHandle, PoolMemory(i), PoolMapping(i)} :
           (x \in held' <=> x \in held) /\ (x \in known' <=> x \in known)
    BY <1>4, RgaNames
  <2>2. poolReady' = poolReady /\ target' = target BY <1>2 DEF rgaVars
  <2>3. RgaHandles' BY <1>2, <1>5, <2>1, <2>2 DEF RgaHandles, Owned, Same
  <2>4. RgaPool' BY <1>2, <2>1, <2>2 DEF RgaPool
  <2>5. RgaPlace' BY <1>2, <2>1, <2>2 DEF RgaPlace
  <2> QED BY <2>3, <2>4, <2>5
<1>9. EncoderInv'
  <2>1. \A i : \A x \in {EncContext, EncCfg, HeaderGroup, Header, EncGroup, EncImport(i)} :
           (x \in held' <=> x \in held) /\ (x \in known' <=> x \in known)
    BY <1>4, EncoderNames
  <2>2. poolReady' = poolReady BY <1>2 DEF rgaVars
  <2>3. EncoderHandles' BY <2>1 DEF EncoderHandles, Same
  <2>4. EncoderNeeds' BY <1>2, <2>1, <2>2 DEF EncoderNeeds, NotImported
  <2>5. EncoderPlace' BY <1>2, <2>1, <2>2 DEF EncoderPlace, NoHeader
  <2>6. EncoderElsewhere' BY <1>2, <2>1 DEF EncoderElsewhere, EncoderDown, NoHeader
  <2> QED BY <2>3, <2>4, <2>5, <2>6
<1>10. ServiceInv'
  <2>1. \A x \in {Http, Rtsp, Rtc, Option, Media} :
           (x \in held' <=> x \in held) /\ (x \in known' <=> x \in known)
    BY <1>4, ServiceNames
  <2>2. ServicePlace' BY <1>2, <2>1 DEF ServicePlace, Same, ServiceDown, NoServers
  <2>3. ServiceValues' BY <1>2 DEF ServiceValues, serviceVars
  <2> QED BY <2>2, <2>3
<1> QED BY <1>1, <1>3, <1>6, <1>7, <1>8, <1>9, <1>10

-----------------------------------------------------------------------------
(* Main starts with nothing.                                               *)
LEMMA ProcessInvInit == ASSUME Init PROVE ProcessInv
<1>1. /\ held = {} /\ known = {} /\ misused = {} /\ refused = {}
      /\ pc = "main" /\ loop = 0 /\ built = 0
      /\ numBuffers = 0 /\ granted = 0 /\ activeConfig.rate = <<0, 0>>
      /\ poolReady = FALSE /\ ioReady = FALSE
  BY DEF Init, CameraInit, NoConfig, RgaStart, EncoderInit
<1>2. Control BY <1>1 DEF Control
<1>3. Ledger BY <1>1 DEF Ledger
<1>4. CameraInv
  BY <1>1, Sizes DEF CameraTyped, CameraHandles, CameraBuffers, CameraPlace,
              CameraElsewhere, CameraDown, Streaming, Owned, Same
<1>5. DecoderInv
  BY <1>1 DEF DecoderHandles, DecoderNeeds, DecoderPlace, DecoderElsewhere, DecoderDown,
              NoOutputs, NoImports, Owned, Same
<1>6. RgaInv BY <1>1 DEF RgaHandles, RgaPool, RgaPlace, Owned, Same
<1>7. EncoderInv
  BY <1>1 DEF EncoderHandles, EncoderNeeds, EncoderPlace, EncoderElsewhere, EncoderDown,
              NotImported, NoHeader, Same
<1>8. ServiceInv
  <2>1. ServicePlace BY <1>1 DEF ServicePlace, ServiceDown, NoServers, Same
  <2>2. frameIntervalUs \in 1 .. Second
    <3>1. frameIntervalUs = 33333 BY DEF Init, ServiceInit
    <3>2. Second \in Nat /\ 33333 <= Second BY DEF Second
    <3> QED BY <3>1, <3>2
  <2>3. webRtcReady = FALSE BY DEF Init, ServiceInit
  <2> QED BY <2>1, <2>2, <2>3 DEF ServiceValues
<1>9. RequestsInv
  <2>1. /\ request = [r \in Requests |-> "none"]
        /\ answers = [r \in Requests |-> 0]
    BY DEF Init, ServiceInit
  <2> QED BY <1>1, <2>1 DEF RequestsInv, OneAnswer
<1> QED BY <1>2, <1>3, <1>4, <1>5, <1>6, <1>7, <1>8, <1>9

(* What the invariant says is said of the variables alone.                 *)
LEMMA StutterKeepsInv == ASSUME ProcessInv, UNCHANGED vars PROVE ProcessInv'
<1>1. /\ held' = held /\ known' = known /\ misused' = misused /\ refused' = refused
      /\ pc' = pc /\ loop' = loop /\ built' = built
      /\ numBuffers' = numBuffers /\ granted' = granted /\ activeConfig' = activeConfig
      /\ afterDeinit' = afterDeinit /\ afterRelease' = afterRelease /\ afterPool' = afterPool
      /\ poolReady' = poolReady /\ target' = target /\ ioReady' = ioReady
      /\ afterClose' = afterClose /\ request' = request /\ answers' = answers
      /\ frameIntervalUs' = frameIntervalUs /\ webRtcReady' = webRtcReady
      /\ candidatePort' = candidatePort /\ rtcPort' = rtcPort
  BY DEF vars, mainVars, cameraVars, setupVars, decoderVars, rgaVars, serviceVars,
         requestVars
<1>2. Control' /\ Ledger' BY <1>1 DEF Control, Ledger
<1>3. CameraInv'
  BY <1>1 DEF CameraTyped, CameraHandles, CameraBuffers, CameraPlace, CameraElsewhere,
              CameraDown, Streaming, Owned, Same
<1>4. DecoderInv'
  BY <1>1 DEF DecoderHandles, DecoderNeeds, DecoderPlace, DecoderElsewhere, DecoderDown,
              NoOutputs, NoImports, AllOutputs, Owned, Same
<1>5. RgaInv' BY <1>1 DEF RgaHandles, RgaPool, RgaPlace, Owned, Same
<1>6. EncoderInv'
  BY <1>1 DEF EncoderHandles, EncoderNeeds, EncoderPlace, EncoderElsewhere, EncoderDown,
              NotImported, NoHeader, Same
<1>7. ServiceInv'
  BY <1>1 DEF ServicePlace, ServiceValues, ServiceDown, NoServers, Same
<1>8. RequestsInv' BY <1>1 DEF RequestsInv, OneAnswer
<1> QED BY <1>2, <1>3, <1>4, <1>5, <1>6, <1>7, <1>8

(* Every step of main and of ZLM's threads keeps the invariant.            *)
LEMMA ProcessInvStep == ASSUME ProcessInv, [Next]_vars PROVE ProcessInv'
<1>1. ASSUME Main PROVE ProcessInv'
  <2>1. UNCHANGED requestVars BY <1>1 DEF Main
  <2>2. CASE CameraStep /\ UNCHANGED <<NotCamera, built>> BY <2>1, <2>2, CameraKeepsInv
  <2>3. CASE DecoderStep /\ UNCHANGED <<NotDecoder, built>> BY <2>1, <2>3, DecoderKeepsInv
  <2>4. CASE RgaStep /\ UNCHANGED <<NotRga, built>> BY <2>1, <2>4, RgaKeepsInv
  <2>5. CASE EncoderStep /\ UNCHANGED <<NotEncoder, built>> BY <2>1, <2>5, EncoderKeepsInv
  <2>6. CASE ServiceStep /\ UNCHANGED <<NotService, built>> BY <2>1, <2>6, ServiceKeepsInv
  <2>7. CASE StopAndJoin /\ UNCHANGED NotService BY <2>1, <2>7, StopKeepsInv
  <2>8. CASE /\ ConstructNext \/ AllConstructed \/ DestroyNext \/ Return
             /\ UNCHANGED <<NotService, serviceVars>>
    BY <2>1, <2>8, ControlKeepsInv
  <2> QED BY <1>1, <2>2, <2>3, <2>4, <2>5, <2>6, <2>7, <2>8 DEF Main, MainStep
<1>2. ASSUME NEW r \in Requests, Serving(r) \/ Arrival(r) PROVE ProcessInv'
  BY <1>2, RequestKeepsInv
<1>3. CASE Returned BY <1>3, StutterKeepsInv DEF Returned
<1>4. CASE UNCHANGED vars BY <1>4, StutterKeepsInv
<1> QED BY <1>1, <1>2, <1>3, <1>4 DEF Next

(* The invariant holds in every state of the process.                      *)
THEOREM ProcessInvHolds == Spec => []ProcessInv
<1>1. Init => ProcessInv BY ProcessInvInit
<1>2. ProcessInv /\ [Next]_vars => ProcessInv' BY ProcessInvStep
<1> HIDE DEF ProcessInv
<1> QED BY <1>1, <1>2, PTL DEF Spec

(* Nothing is used or released that is not held, or acquired over one that *)
(* is, on any path through construction, failure, run and destruction.     *)
THEOREM NothingMisusedHolds == Spec => []NothingMisused
<1>1. ProcessInv => NothingMisused BY DEF Ledger, NothingMisused
<1> HIDE DEF ProcessInv
<1> QED BY <1>1, ProcessInvHolds, PTL

(* A request is answered once, and the clone of its invoker is there from  *)
(* the test to the response.                                               *)
THEOREM OneAnswerHolds == Spec => []OneAnswer
<1>1. ProcessInv => OneAnswer BY DEF RequestsInv
<1> HIDE DEF ProcessInv
<1> QED BY <1>1, ProcessInvHolds, PTL

(* What a resource needs, by its kind.                                     *)
LEMMA NeedsByKind ==
    /\ \A i : /\ Needs(Import(i)) = {Context, Memory(i)}
              /\ Needs(Committed(i)) = {Group, OutMemory(i)}
              /\ Needs(Lent(i)) = {Group, OutMemory(i), OutMapping(i)}
              /\ Needs(EncImport(i)) = {EncContext, PoolMemory(i)}
    /\ Needs(Group) = {Context}
    /\ Needs(SrcHandle) = {OutMemory(loop)}
    /\ Needs(DstHandle) = {PoolMemory(target)}
    /\ Needs(Header) = {HeaderGroup}
    /\ Needs(EncCfg) = {EncContext}
    /\ \A x : KindOf(x) \in CameraKinds \union ServiceKinds \union RequestKinds
                            \union {"decoder_context", "decoder_config", "decoder_memory",
                                    "decoder_mapping", "rga_memory", "rga_mapping",
                                    "encoder_context", "encoder_header_group",
                                    "encoder_group"} => Needs(x) = {}
<1>1. \A i : /\ Needs(Import(i)) = {Context, Memory(i)}
             /\ Needs(Committed(i)) = {Group, OutMemory(i)}
             /\ Needs(Lent(i)) = {Group, OutMemory(i), OutMapping(i)}
             /\ Needs(EncImport(i)) = {EncContext, PoolMemory(i)}
  BY DEF Needs, Import, Committed, Lent, EncImport
<1>2. /\ Needs(Group) = {Context}
      /\ Needs(SrcHandle) = {OutMemory(loop)}
      /\ Needs(DstHandle) = {PoolMemory(target)}
      /\ Needs(Header) = {HeaderGroup}
      /\ Needs(EncCfg) = {EncContext}
  BY DEF Needs, Group, SrcHandle, DstHandle, Header, EncCfg, One
<1>3. \A x : KindOf(x) \in CameraKinds \union ServiceKinds \union RequestKinds
                            \union {"decoder_context", "decoder_config", "decoder_memory",
                                    "decoder_mapping", "rga_memory", "rga_mapping",
                                    "encoder_context", "encoder_header_group",
                                    "encoder_group"} => Needs(x) = {}
  BY DEF Needs, KindOf, CameraKinds, ServiceKinds, RequestKinds
<1> QED BY <1>1, <1>2, <1>3

-----------------------------------------------------------------------------

(* A resource outlives what was made of it.                                *)
THEOREM NeedsHeldHolds == Spec => []NeedsHeld
<1>1. ASSUME ProcessInv, NEW x \in held PROVE Needs(x) \subseteq held
  <2>1. x \in Universe /\ known \subseteq held BY <1>1 DEF Ledger
  <2>2. CASE x \in CameraResources
    <3>1. KindOf(x) \in CameraKinds
      BY <2>2, CameraNames, AllKind DEF CameraResources, CameraKinds, All
    <3> QED BY <3>1, NeedsByKind
  <2>3. CASE x \in DecoderResources
    <3>1. CASE x \in {Context, DecCfg}
      BY <3>1, DecoderNames, NeedsByKind
    <3>2. CASE x = Group
      BY <1>1, <2>1, <3>2, NeedsByKind DEF DecoderHandles, DecoderNeeds, Same
    <3>3. CASE x \in All("decoder_memory") \union All("decoder_mapping")
      BY <3>3, AllKind, NeedsByKind DEF All
    <3>4. CASE x \in All("decoder_committed")
      <4>1. PICK i \in Entries : x = Committed(i) BY <3>4 DEF All, Each, Committed
      <4>2. OutMemory(i) \in known /\ Group \in known
        BY <1>1, <4>1 DEF DecoderNeeds, NoOutputs
      <4> QED BY <2>1, <4>1, <4>2, NeedsByKind
    <3>5. CASE x \in All("decoder_lent")
      <4>1. PICK i \in Entries : x = Lent(i) BY <3>5 DEF All, Each, Lent
      <4>2. OutMemory(i) \in known /\ OutMapping(i) \in known /\ Group \in known
        BY <1>1, <4>1 DEF DecoderNeeds, NoOutputs
      <4> QED BY <2>1, <4>1, <4>2, NeedsByKind
    <3>6. CASE x \in All("decoder_import")
      <4>1. PICK i \in Entries : x = Import(i) BY <3>6 DEF All, Each, Import
      <4>2. Import(i) \in known BY <1>1, <4>1 DEF DecoderHandles, Same
      <4>3. Context \in known /\ i < numBuffers BY <1>1, <4>2 DEF DecoderNeeds
      <4>4. pc # "camera_deinit"
        BY <1>1, <4>2 DEF Control, DecoderElsewhere, DecoderDown, NoImports
      <4>5. Memory(i) \in known BY <1>1, <4>3, <4>4 DEF CameraBuffers
      <4> QED BY <2>1, <4>1, <4>3, <4>5, NeedsByKind
    <3> QED BY <2>3, <3>1, <3>2, <3>3, <3>4, <3>5, <3>6 DEF DecoderResources
  <2>4. CASE x \in RgaResources
    <3>1. CASE x = SrcHandle
      <4>1. pc \in {"rga_destination", "rga_operation"} /\ loop \in Entries
        BY <1>1, <3>1 DEF RgaHandles, RgaPlace, Same
      <4>2. OutMemory(loop) \in known
        BY <1>1, <4>1 DEF Control, DecoderElsewhere, DecoderDown, AllOutputs
      <4> QED BY <2>1, <3>1, <4>2, NeedsByKind
    <3>2. CASE x = DstHandle
      <4>1. pc = "rga_operation" /\ target \in Entries /\ poolReady
        BY <1>1, <3>2 DEF RgaHandles, RgaPlace, Same
      <4>2. PoolMemory(target) \in known BY <1>1, <4>1 DEF RgaPool
      <4> QED BY <2>1, <3>2, <4>2, NeedsByKind
    <3>3. CASE x \in All("rga_memory") \union All("rga_mapping")
      BY <3>3, AllKind, NeedsByKind DEF All
    <3> QED BY <2>4, <3>1, <3>2, <3>3 DEF RgaResources
  <2>5. CASE x \in EncoderResources
    <3>1. CASE x \in {EncContext, HeaderGroup, EncGroup}
      BY <3>1, EncoderNames, NeedsByKind
    <3>2. CASE x = EncCfg
      BY <1>1, <2>1, <3>2, NeedsByKind DEF EncoderHandles, EncoderNeeds, Same
    <3>3. CASE x = Header
      BY <1>1, <2>1, <3>3, NeedsByKind DEF EncoderHandles, EncoderNeeds, Same
    <3>4. CASE x \in All("encoder_import")
      <4>1. PICK i \in Entries : x = EncImport(i) BY <3>4 DEF All, Each, EncImport
      <4>2. EncContext \in known /\ poolReady /\ pc # "rga_release"
        BY <1>1, <4>1 DEF EncoderHandles, EncoderNeeds, Same
      <4>3. PoolMemory(i) \in known BY <1>1, <4>2 DEF RgaPool
      <4> QED BY <2>1, <4>1, <4>2, <4>3, NeedsByKind
    <3> QED BY <2>5, <3>1, <3>2, <3>3, <3>4 DEF EncoderResources
  <2>6. CASE x \in ServiceResources
    BY <2>6, ServiceNames, NeedsByKind DEF ServiceResources, ServiceKinds
  <2>7. CASE x \in Clones
    BY <2>7, AllKind, NeedsByKind DEF Clones, RequestKinds
  <2> QED BY <2>1, <2>2, <2>3, <2>4, <2>5, <2>6, <2>7 DEF Universe
<1>2. ProcessInv => NeedsHeld BY <1>1 DEF NeedsHeld
<1> HIDE DEF ProcessInv
<1> QED BY <1>2, ProcessInvHolds, PTL

(* When main has returned nothing is left that the kernel did not refuse   *)
(* to take back.                                                           *)
THEOREM NothingLeftHolds == Spec => []NothingLeft
<1>1. ASSUME ProcessInv, pc = "returned", NEW x \in held
      PROVE  x \in refused \union (IF Device \in refused THEN OfDevice ELSE {})
                           \union Each("zlm_invoker", Requests)
  <2>1. built = 0 /\ x \in Universe BY <1>1 DEF Control, Ledger
  <2>2. CASE x \in CameraResources
    <3>1. numBuffers = 0 /\ (Device \in held => Device \in refused)
      BY <1>1, <2>1 DEF CameraElsewhere, CameraDown, CameraHandles, Owned
    <3>2. CASE x \in {Device, Slots, Stream} \union OfStream
      <4>1. Device \in held BY <1>1, <3>2 DEF CameraHandles
      <4> QED BY <3>1, <3>2, <4>1 DEF OfDevice, OfSlots
    <3>3. CASE x \in All("camera_memory") \union All("camera_mapping")
                                          \union All("camera_read")
      <4>1. PICK i \in Entries : x \in {Memory(i), Mapping(i), CpuRead(i)}
        BY <3>3 DEF All, Each, Memory, Mapping, CpuRead
      <4>2. x \notin known
        BY <1>1, <3>1, <4>1, Sizes DEF CameraBuffers
      <4> QED BY <1>1, <4>1, <4>2 DEF CameraHandles, Owned
    <3> QED BY <2>2, <3>2, <3>3 DEF CameraResources, OfStream
  <2>3. CASE x \in DecoderResources
    <3>1. /\ Context \notin held /\ Group \notin held /\ DecCfg \notin held
          /\ NoOutputs /\ NoImports
      BY <1>1, <2>1 DEF DecoderElsewhere, DecoderDown, DecoderHandles, DecoderNeeds, Same
    <3>2. PICK i \in Entries :
             x \in {OutMemory(i), OutMapping(i), Committed(i), Import(i), Lent(i)}
      BY <1>1, <2>3, <3>1 DEF DecoderResources, All, Each, OutMemory, OutMapping,
                              Committed, Import, Lent
    <3>3. x \notin {Committed(i), Import(i), Lent(i)}
      BY <1>1, <3>1 DEF NoOutputs, NoImports, DecoderHandles, Same
    <3>4. CASE x = OutMemory(i)
      BY <1>1, <3>1, <3>4 DEF NoOutputs, DecoderHandles
    <3>5. CASE x = OutMapping(i)
      BY <1>1, <3>1, <3>5 DEF NoOutputs, DecoderHandles, Owned
    <3> QED BY <3>2, <3>3, <3>4, <3>5
  <2>4. CASE x \in RgaResources
    <3>1. SrcHandle \notin held /\ DstHandle \notin held /\ ~poolReady
      BY <1>1, <2>1 DEF RgaPlace, RgaHandles, Same
    <3>2. PICK i \in Entries : x \in {PoolMemory(i), PoolMapping(i)}
      BY <1>1, <2>4, <3>1 DEF RgaResources, All, Each, PoolMemory, PoolMapping
    <3>3. PoolMemory(i) \notin known /\ PoolMapping(i) \notin known
      BY <1>1, <3>1 DEF RgaPool
    <3> QED BY <1>1, <3>2, <3>3 DEF RgaHandles, Owned
  <2>5. CASE x \in EncoderResources
    <3>1. /\ EncContext \notin known /\ EncCfg \notin known /\ NoHeader /\ NotImported
      BY <1>1, <2>1 DEF EncoderElsewhere, EncoderDown, EncoderNeeds
    <3>2. x \notin {EncContext, EncCfg, HeaderGroup, Header, EncGroup}
      BY <1>1, <3>1 DEF EncoderHandles, NoHeader, NotImported, Same
    <3>3. PICK i \in Entries : x = EncImport(i)
      BY <2>5, <3>2 DEF EncoderResources, All, Each, EncImport
    <3> QED BY <1>1, <3>1, <3>3 DEF EncoderHandles, NotImported, Same
  <2>6. CASE x \in ServiceResources
    BY <1>1, <2>1, <2>6 DEF ServiceResources, ServicePlace, ServiceDown, NoServers
  <2>7. CASE x \in Clones BY <2>7 DEF Clones
  <2> QED BY <2>1, <2>2, <2>3, <2>4, <2>5, <2>6, <2>7 DEF Universe
<1>2. ProcessInv => NothingLeft BY <1>1 DEF NothingLeft
<1> HIDE DEF ProcessInv
<1> QED BY <1>2, ProcessInvHolds, PTL

(* The pipeline starts in the state the other modules take for granted.    *)
THEOREM ReadyToRunHolds == Spec => []ReadyToRun
<1>1. ASSUME ProcessInv, pc = "running"
      PROVE  /\ \A i \in 0 .. granted - 1 :
                   {Memory(i), Mapping(i), Queued(i), Import(i)} \subseteq
                      held \intersect (known \union {Queued(i)})
             /\ granted > 0 /\ numBuffers = granted
             /\ All("decoder_committed") \subseteq held
             /\ {Device, Slots, Stream, Context, Group, EncContext, EncCfg, Header, Media}
                   \subseteq held
             /\ frameIntervalUs \in 1 .. Second
             /\ webRtcReady => candidatePort = rtcPort /\ rtcPort # 0
  <2>1. /\ built = 5 /\ numBuffers = granted /\ granted \in Nat /\ granted > 0
        /\ granted <= MaxAlloca /\ Stream \in known
    BY <1>1 DEF Control, CameraElsewhere, CameraDown, CameraTyped
  <2>2. Device \in known /\ Slots \in held BY <1>1, <2>1 DEF CameraBuffers
  <2>3. ASSUME NEW i \in 0 .. granted - 1
        PROVE  {Memory(i), Mapping(i), Queued(i), Import(i)} \subseteq
                  held \intersect (known \union {Queued(i)})
    <3>1. i \in Nat /\ i < numBuffers /\ i < MaxAlloca
      <4>1. i \in Nat /\ i < granted BY <2>1
      <4> QED BY <2>1, <4>1, Sizes
    <3>2. i \in Entries BY <3>1, Sizes
    <3>3. Memory(i) \in known /\ Mapping(i) \in known
      BY <1>1, <3>1, <3>2 DEF CameraBuffers
    <3>4. Queued(i) \in held BY <1>1, <3>1, <3>2 DEF CameraPlace, Streaming
    <3>5. Import(i) \in known
      BY <1>1, <2>1, <3>1, <3>2 DEF DecoderElsewhere, DecoderDown
    <3>6. known \subseteq held BY <1>1 DEF Ledger
    <3> QED BY <3>3, <3>4, <3>5, <3>6
  <2>4. Group \in known /\ Context \in known /\ AllOutputs
    BY <1>1, <2>1 DEF DecoderElsewhere, DecoderDown, DecoderNeeds
  <2>5. All("decoder_committed") \subseteq held
    BY <2>4 DEF AllOutputs, All, Each, Committed
  <2>6. EncCfg \in known /\ Header \in known /\ EncContext \in known
    BY <1>1, <2>1 DEF EncoderElsewhere, EncoderDown, EncoderNeeds
  <2>7. Media \in held BY <1>1, <2>1 DEF ServicePlace, ServiceDown
  <2>8. /\ frameIntervalUs \in 1 .. Second
        /\ webRtcReady => candidatePort = rtcPort /\ rtcPort # 0
    BY <1>1 DEF ServiceValues
  <2>9. known \subseteq held BY <1>1 DEF Ledger
  <2> QED BY <2>1, <2>2, <2>3, <2>4, <2>5, <2>6, <2>7, <2>8, <2>9
<1>2. ProcessInv => ReadyToRun BY <1>1 DEF ReadyToRun
<1> HIDE DEF ProcessInv
<1> QED BY <1>2, ProcessInvHolds, PTL
=============================================================================
