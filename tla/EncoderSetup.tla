---------------------------- MODULE EncoderSetup -----------------------------
(***************************************************************************)
(* The life of an MppEncInstance: EncInit creates the MPP context,         *)
(* EncConfigWidthHeight configures it and gets the buffer of the stream    *)
(* header, AllocBufferForIO imports the RGA's output pool when the first   *)
(* converted frame is there, the destructor puts everything back.  The     *)
(* encoder in use is in modules EncodeFeed and EncodeOutput.               *)
(***************************************************************************)
EXTENDS RgaSetup

VARIABLE ioReady   \* AllocBufferDone_, and encoder_io_ready of the RGA thread

EncContext  == One("encoder_context")
EncCfg      == One("encoder_config")
HeaderGroup == One("encoder_header_group")
Header      == One("encoder_header")
EncGroup    == One("encoder_group")
EncImport(i) == <<"encoder_import", i>>

EncoderInit == ioReady = FALSE

-----------------------------------------------------------------------------
(***************************************************************************)
(* EncInit                                                                 *)
(***************************************************************************)
CreateEncoder ==
    /\ At("encoder") /\ EncContext \notin known
    /\ \/ Acquire({}, {EncContext}) /\ Keep({EncContext}) /\ Goto("encoder_init")
       \/ UNCHANGED <<ledger, known>> /\ Goto("failed")
    /\ UNCHANGED <<loop, ioReady>>

InitEncoder ==
    /\ At("encoder_init")
    /\ \/ Acquire({EncContext}, {EncCfg}) /\ Keep({EncCfg}) /\ Goto("encoder_timeouts")
       \/ Use({EncContext}) /\ UNCHANGED known /\ Goto("encoder_undo")
    /\ UNCHANGED <<loop, ioReady>>

(* Read the defaults, set the timeouts of both ports. *)
SetTimeouts ==
    /\ At("encoder_timeouts")
    /\ Use({EncContext, EncCfg})
    /\ \/ Goto("encoder_header_group")
       \/ Goto("encoder_undo")
    /\ UNCHANGED <<known, loop, ioReady>>

UndoEncInit ==
    /\ At("encoder_undo")
    /\ Release(known \intersect {EncCfg, EncContext})
    /\ Goto("failed")
    /\ UNCHANGED <<loop, ioReady>>

(***************************************************************************)
(* EncConfigWidthHeight.  A failure returns at once, and leaves what it    *)
(* got to the destructor.                                                  *)
(***************************************************************************)
GetHeaderGroup ==
    /\ At("encoder_header_group") /\ EncCfg \in known /\ activeConfig.sized
    /\ \/ Acquire({}, {HeaderGroup}) /\ Keep({HeaderGroup}) /\ Goto("encoder_header")
       \/ UNCHANGED <<ledger, known>> /\ Goto("failed")
    /\ UNCHANGED <<loop, ioReady>>

GetHeader ==
    /\ At("encoder_header")
    /\ \/ Acquire({HeaderGroup}, {Header}) /\ Keep({Header}) /\ Goto("encoder_config")
       \/ UNCHANGED <<ledger, known>> /\ Goto("failed")
    /\ UNCHANGED <<loop, ioReady>>

ApplyEncoderConfig ==
    /\ At("encoder_config")
    /\ Use({EncContext, EncCfg})
    /\ \/ Goto("ok")
       \/ Goto("failed")
    /\ UNCHANGED <<known, loop, ioReady>>

(***************************************************************************)
(* AllocBufferForIO, called by the RGA thread with the first output of the *)
(* RGA.  Its failure is fatal.                                             *)
(***************************************************************************)
PoolIsImported ==
    /\ At("encoder_import") /\ ioReady
    /\ Goto("running")
    /\ UNCHANGED <<ledger, known, loop, ioReady>>

GetEncGroup ==
    /\ At("encoder_import") /\ ~ioReady
    /\ \/ Acquire({}, {EncGroup}) /\ Keep({EncGroup}) /\ Goto("encoder_import_all")
       \/ UNCHANGED <<ledger, known>> /\ Goto("stop")
    /\ loop' = 0
    /\ UNCHANGED ioReady

(* EncoderImportBufferFromFD: entry i of the pool becomes buffer i. *)
ImportOutput ==
    /\ At("encoder_import_all") /\ loop < MaxAlloca /\ EncImport(loop) \notin known
    /\ Acquire({EncContext, PoolMemory(loop)}, {EncImport(loop)})
    /\ Keep({EncImport(loop)})
    /\ loop' = loop + 1
    /\ UNCHANGED <<pc, ioReady>>

ImportOutputFails ==
    /\ At("encoder_import_all") /\ loop < MaxAlloca
    /\ Release(known \intersect (All("encoder_import") \union {EncGroup}))
    /\ Goto("stop") /\ loop' = 0
    /\ UNCHANGED ioReady

PoolImported ==
    /\ At("encoder_import_all") /\ loop = MaxAlloca
    /\ ioReady' = TRUE
    /\ Goto("running") /\ loop' = 0
    /\ UNCHANGED <<ledger, known>>

(***************************************************************************)
(* ~MppEncInstance, in its order: header, its group and the configuration; *)
(* imports; pool; context.                                                 *)
(***************************************************************************)
DestroyEncoder ==
    /\ At("destroy_encoder")
    /\ Release(known \intersect {Header, HeaderGroup, EncCfg})
    /\ Goto("encoder_put_imports")
    /\ UNCHANGED <<loop, ioReady>>

PutImports ==
    /\ At("encoder_put_imports")
    /\ Release(known \intersect (All("encoder_import") \union {EncGroup}))
    /\ ioReady' = FALSE
    /\ Goto("encoder_destroy")
    /\ UNCHANGED loop

DestroyEncContext ==
    /\ At("encoder_destroy")
    /\ Release(known \intersect {EncContext})
    /\ Goto("destroyed")
    /\ UNCHANGED <<loop, ioReady>>

EncoderStep ==
    \/ CreateEncoder \/ InitEncoder \/ SetTimeouts \/ UndoEncInit
    \/ GetHeaderGroup \/ GetHeader \/ ApplyEncoderConfig
    \/ PoolIsImported \/ GetEncGroup \/ ImportOutput \/ ImportOutputFails
    \/ PoolImported \/ DestroyEncoder \/ PutImports \/ DestroyEncContext
=============================================================================
