---------------------------- MODULE DecoderSetup -----------------------------
(***************************************************************************)
(* The life of an MppDecInstance: DecInit creates the MPP context,         *)
(* DecConfigWidthHeight fixes the geometry, DecAllocBuffer commits a pool  *)
(* of external output buffers and imports the camera's dma-bufs, each at   *)
(* its own index.  The decoder in use is module MppDecoder.                *)
(***************************************************************************)
EXTENDS CameraSetup

VARIABLES
    outSize,        \* OutSize > 0
    afterRelease    \* where the release of the output buffers returns to

decoderVars == <<outSize, afterRelease>>

Context == One("decoder_context")
DecCfg  == One("decoder_config")
Group   == One("decoder_group")
OutMemory(i)  == <<"decoder_memory", i>>
OutMapping(i) == <<"decoder_mapping", i>>
Committed(i)  == <<"decoder_committed", i>>
Import(i)     == <<"decoder_import", i>>
Lent(i)       == <<"decoder_lent", i>>    \* frame and buffer of a holder

DecoderInit == outSize = FALSE /\ afterRelease = "none"

-----------------------------------------------------------------------------
(* Variants with an error in them, used by no specification. *)
(* the outputs are freed before the holders return them *)
DestroyDecoderKeepsHolders ==
    /\ At("destroy_decoder")
    /\ Release(known \intersect All("decoder_import"))
    /\ Goto(IF Group \in known THEN "decoder_clear" ELSE "decoder_destroy")
    /\ afterRelease' = "decoder_destroy"
    /\ UNCHANGED <<loop, outSize>>

-----------------------------------------------------------------------------
(***************************************************************************)
(* DecInit                                                                 *)
(***************************************************************************)
CreateDecoder ==
    /\ At("decoder") /\ Context \notin known
    /\ \/ Acquire({}, {Context}) /\ Keep({Context}) /\ Goto("decoder_init")
       \/ UNCHANGED <<ledger, known>> /\ Goto("failed")
    /\ UNCHANGED <<loop, decoderVars>>

(* mpp_init, and the configuration object. *)
InitDecoder ==
    /\ At("decoder_init")
    /\ \/ Acquire({Context}, {DecCfg}) /\ Keep({DecCfg}) /\ Goto("decoder_config")
       \/ Use({Context}) /\ UNCHANGED known /\ Goto("decoder_undo")
    /\ UNCHANGED <<loop, decoderVars>>

(* No splitting parser and NV12 output; the object is freed in any case. *)
ConfigDecoder ==
    /\ At("decoder_config")
    /\ Exchange({Context}, {}, {DecCfg}) /\ Forget({DecCfg})
    /\ \/ Goto("decoder_size")
       \/ Goto("decoder_undo")
    /\ UNCHANGED <<loop, decoderVars>>

(* The label fail of DecInit, where there is no group yet. *)
UndoDecInit ==
    /\ At("decoder_undo")
    /\ Release({Context})
    /\ Goto("failed")
    /\ UNCHANGED <<loop, decoderVars>>

(* DecConfigWidthHeight *)
DecConfigWidthHeight ==
    /\ At("decoder_size")
    /\ outSize' = activeConfig.sized
    /\ Goto(IF activeConfig.sized THEN "decoder_group" ELSE "failed")
    /\ UNCHANGED <<ledger, known, loop, afterRelease>>

(***************************************************************************)
(* DecAllocBuffer                                                          *)
(***************************************************************************)
GetGroup ==
    /\ At("decoder_group") /\ Context \in known /\ Group \notin known
    /\ \/ Acquire({Context}, {Group}) /\ Keep({Group}) /\ Goto("decoder_allocate")
       \/ UNCHANGED <<ledger, known>> /\ Goto("failed")
    /\ loop' = 0
    /\ UNCHANGED decoderVars

(* mpp_buffer_group_limit_config, or the first clear of the group, fails. *)
LimitFails ==
    /\ At("decoder_allocate") /\ loop = 0
    /\ Release({Group})
    /\ Goto("failed")
    /\ UNCHANGED <<loop, decoderVars>>

(* CommitExternalOutputBuffers: for every entry, AllocDmaBufFD and commit. *)
AllocOutput ==
    /\ At("decoder_allocate") /\ loop < MaxAlloca /\ outSize
    /\ Acquire({}, {OutMemory(loop)})
    /\ Goto("decoder_map")
    /\ UNCHANGED <<known, loop, decoderVars>>

MapOutput ==
    /\ At("decoder_map")
    /\ Acquire({OutMemory(loop)}, {OutMapping(loop)})
    /\ Keep({OutMemory(loop), OutMapping(loop)})
    /\ Goto("decoder_commit")
    /\ UNCHANGED <<loop, decoderVars>>

CommitOutput ==
    /\ At("decoder_commit")
    /\ Acquire({Group, OutMemory(loop)}, {Committed(loop)})
    /\ loop' = loop + 1
    /\ Goto("decoder_allocate")
    /\ UNCHANGED <<known, decoderVars>>

ReleaseOutputsThen(label) ==
    /\ Goto("decoder_clear")
    /\ afterRelease' = label
    /\ UNCHANGED <<loop, outSize>>

CommitFails ==
    /\ \/ At("decoder_allocate") /\ loop < MaxAlloca
       \/ At("decoder_commit")
    /\ ReleaseOutputsThen("failed")
    /\ UNCHANGED <<ledger, known>>

MapOutputFails ==
    /\ At("decoder_map")
    /\ TryDrop({OutMemory(loop)}, {})
    /\ ReleaseOutputsThen("failed")
    /\ UNCHANGED known

(* The group is given to the decoder. *)
AttachGroup ==
    /\ At("decoder_allocate") /\ loop = MaxAlloca
    /\ Use({Context, Group})
    /\ loop' = 0
    /\ \/ Goto("decoder_import") /\ UNCHANGED afterRelease
       \/ Goto("decoder_clear") /\ afterRelease' = "failed"
    /\ UNCHANGED <<known, outSize>>

(* A descriptor without a buffer is skipped; index i goes to slot i. *)
ImportCameraBuffer ==
    /\ At("decoder_import") /\ loop < numBuffers
    /\ IF Memory(loop) \in known
       THEN Acquire({Context, Memory(loop)}, {Import(loop)}) /\ Keep({Import(loop)})
       ELSE UNCHANGED <<ledger, known>>
    /\ loop' = loop + 1
    /\ UNCHANGED <<pc, decoderVars>>

(* cleanup_import_resources *)
ImportFails ==
    /\ At("decoder_import") /\ loop < numBuffers
    /\ Release(known \intersect All("decoder_import"))
    /\ ReleaseOutputsThen("failed")

AllImported ==
    /\ At("decoder_import") /\ loop = numBuffers
    /\ Goto("ok")
    /\ UNCHANGED <<ledger, known, loop, decoderVars>>

(***************************************************************************)
(* mpp_buffer_group_clear, ReleaseExternalOutputBuffers and the put of the *)
(* group, which every path that gives the outputs up goes through; the     *)
(* holders were recycled before.                                           *)
(***************************************************************************)
ClearGroup ==
    /\ At("decoder_clear")
    /\ Exchange({Group}, {}, held \intersect All("decoder_committed"))
    /\ loop' = 0
    /\ Goto("decoder_release")
    /\ UNCHANGED <<known, decoderVars>>

ReleaseOutput ==
    /\ At("decoder_release") /\ loop < MaxAlloca
    /\ LET owned == known \intersect {OutMapping(loop), OutMemory(loop)} IN
       TryDrop(owned, {}) /\ Forget(owned)
    /\ loop' = loop + 1
    /\ UNCHANGED <<pc, decoderVars>>

PutGroup ==
    /\ At("decoder_release") /\ loop = MaxAlloca
    /\ Release({Group})
    /\ Goto(afterRelease)
    /\ UNCHANGED <<loop, decoderVars>>

(***************************************************************************)
(* ~MppDecInstance: every holder still out is recycled, the imports are    *)
(* put, then the outputs go, and the context last.                         *)
(***************************************************************************)
DestroyDecoder ==
    /\ At("destroy_decoder")
    /\ Release(known \intersect (All("decoder_lent") \union All("decoder_import")))
    /\ Goto(IF Group \in known THEN "decoder_clear" ELSE "decoder_destroy")
    /\ afterRelease' = "decoder_destroy"
    /\ UNCHANGED <<loop, outSize>>

DestroyContext ==
    /\ At("decoder_destroy")
    /\ Release(known \intersect {Context})
    /\ Goto("destroyed")
    /\ UNCHANGED <<loop, decoderVars>>

DecoderStep ==
    \/ CreateDecoder \/ InitDecoder \/ ConfigDecoder \/ UndoDecInit
    \/ DecConfigWidthHeight \/ GetGroup \/ LimitFails \/ AllocOutput \/ MapOutput
    \/ CommitOutput \/ CommitFails \/ MapOutputFails \/ AttachGroup
    \/ ImportCameraBuffer \/ ImportFails \/ AllImported \/ ClearGroup
    \/ ReleaseOutput \/ PutGroup \/ DestroyDecoder \/ DestroyContext
=============================================================================
