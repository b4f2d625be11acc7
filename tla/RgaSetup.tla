------------------------------ MODULE RgaSetup -------------------------------
(***************************************************************************)
(* The life of an RgaInstance: RgaInit checks the runtime; the first frame *)
(* allocates the pool of output buffers; every frame imports its source    *)
(* and its destination into the RGA for the time of one operation; the     *)
(* destructor frees the pool.  The queue of free outputs is part of module *)
(* EncodeFeed.                                                             *)
(***************************************************************************)
EXTENDS DecoderSetup

VARIABLES
    rgaReady,    \* initialized_
    poolReady,   \* output_pool_ready_
    target,      \* dst of TransformInternal, an entry of the pool
    afterPool    \* where the release of the pool returns to

rgaVars == <<rgaReady, poolReady, target, afterPool>>

PoolMemory(i)  == <<"rga_memory", i>>    \* known: output_pool_[i].fd >= 0
PoolMapping(i) == <<"rga_mapping", i>>   \* known: output_pool_[i].base
SrcHandle == One("rga_source")           \* src_handle, dst_handle: 0 when the
DstHandle == One("rga_destination")      \* virtual address is used instead

RgaStart == rgaReady = FALSE /\ poolReady = FALSE /\ target = 0 /\ afterPool = "none"

-----------------------------------------------------------------------------
(* Variants with an error in them, used by no specification. *)
(* only the source is released after the operation *)
OperateKeepsDestination ==
    /\ At("rga_operation")
    /\ Release(known \intersect {SrcHandle})
    /\ \/ Goto("encoder_import")
       \/ Goto("running")
    /\ loop' = 0 /\ target' = 0
    /\ UNCHANGED <<rgaReady, poolReady, afterPool>>

-----------------------------------------------------------------------------
(* RgaInit: imcheckHeader. *)
RgaInit ==
    /\ At("rga")
    /\ rgaReady' \in BOOLEAN
    /\ Goto(IF rgaReady' THEN "ok" ELSE "failed")
    /\ UNCHANGED <<ledger, known, loop, poolReady, target, afterPool>>

(***************************************************************************)
(* TransformInternal, which the RGA thread calls for every decoded frame   *)
(* and again while it fails.  No other thread touches what it touches.     *)
(***************************************************************************)
(* The source is an output of the decoder.  Returns of null that change    *)
(* nothing, as when no output is free, are left out.                       *)
TransformFrame(i) ==
    /\ At("running") /\ rgaReady
    /\ Use({OutMemory(i)})
    /\ loop' = i
    /\ IF poolReady
       THEN Goto("rga_source") /\ target' \in Entries
       ELSE Goto("rga_allocate") /\ target' = 0
    /\ UNCHANGED <<known, rgaReady, poolReady, afterPool>>

(* InitOutputPoolIfNeeded: AllocDmaBufFD of entry target. *)
AllocPool ==
    /\ At("rga_allocate") /\ target < MaxAlloca
    /\ Acquire({}, {PoolMemory(target)})
    /\ Goto("rga_map")
    /\ UNCHANGED <<known, loop, rgaVars>>

MapPool ==
    /\ At("rga_map")
    /\ Acquire({PoolMemory(target)}, {PoolMapping(target)})
    /\ Keep({PoolMemory(target), PoolMapping(target)})
    /\ target' = target + 1
    /\ Goto("rga_allocate")
    /\ UNCHANGED <<loop, rgaReady, poolReady, afterPool>>

PoolAllocated ==
    /\ At("rga_allocate") /\ target = MaxAlloca
    /\ poolReady' = TRUE
    /\ target' \in Entries
    /\ Goto("rga_source")
    /\ UNCHANGED <<ledger, known, loop, rgaReady, afterPool>>

ReleasePoolThen(label) ==
    /\ Goto("rga_release")
    /\ target' = 0 /\ afterPool' = label
    /\ UNCHANGED <<loop, rgaReady, poolReady>>

AllocPoolFails ==
    /\ At("rga_allocate") /\ target < MaxAlloca
    /\ ReleasePoolThen("running")
    /\ UNCHANGED <<ledger, known>>

MapPoolFails ==
    /\ At("rga_map")
    /\ TryDrop({PoolMemory(target)}, {})
    /\ ReleasePoolThen("running")
    /\ UNCHANGED known

(* BuildRgaBuffer: the dma-buf is imported; when that fails the mapping    *)
(* serves instead, without a handle; without either the operation is given *)
(* up.  Both sides have a mapping here.                                    *)
BuildSource ==
    /\ At("rga_source")
    /\ \/ Acquire({OutMemory(loop)}, {SrcHandle}) /\ Keep({SrcHandle})
       \/ Use({OutMapping(loop)}) /\ UNCHANGED known
    /\ Goto("rga_destination")
    /\ UNCHANGED <<loop, rgaVars>>

BuildDestination ==
    /\ At("rga_destination")
    /\ \/ Acquire({PoolMemory(target)}, {DstHandle}) /\ Keep({DstHandle})
       \/ Use({PoolMapping(target)}) /\ UNCHANGED known
    /\ Goto("rga_operation")
    /\ UNCHANGED <<loop, rgaVars>>

(* imcopy, or imcvtcolor of another format; the handles are released       *)
(* whether it succeeds or not.                                             *)
Operate ==
    /\ At("rga_operation")
    /\ Release(known \intersect {SrcHandle, DstHandle})
    /\ \/ Goto("encoder_import")
       \/ Goto("running")
    /\ loop' = 0 /\ target' = 0
    /\ UNCHANGED <<rgaReady, poolReady, afterPool>>

(* ReleaseDmaBufFD of every entry, from a failed allocation or from the    *)
(* destructor.                                                             *)
ReleasePool ==
    /\ At("rga_release") /\ target < MaxAlloca
    /\ LET owned == known \intersect {PoolMapping(target), PoolMemory(target)} IN
       TryDrop(owned, {}) /\ Forget(owned)
    /\ target' = target + 1
    /\ UNCHANGED <<pc, loop, rgaReady, poolReady, afterPool>>

PoolReleased ==
    /\ At("rga_release") /\ target = MaxAlloca
    /\ poolReady' = FALSE
    /\ Goto(afterPool)
    /\ loop' = 0 /\ target' = 0 /\ afterPool' = "none"
    /\ UNCHANGED <<ledger, known, rgaReady>>

DestroyRga ==
    /\ At("destroy_rga")
    /\ ReleasePoolThen("destroyed")
    /\ UNCHANGED <<ledger, known>>

RgaStep ==
    \/ RgaInit \/ \E i \in Entries : TransformFrame(i)
    \/ AllocPool \/ MapPool \/ PoolAllocated \/ AllocPoolFails \/ MapPoolFails
    \/ BuildSource \/ BuildDestination \/ Operate
    \/ ReleasePool \/ PoolReleased \/ DestroyRga
=============================================================================
