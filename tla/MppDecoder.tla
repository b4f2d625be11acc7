----------------------------- MODULE MppDecoder -----------------------------
(***************************************************************************)
(* MppDecode and the life of its output buffers.  Each decode takes a      *)
(* holder and a buffer of the output group, submits a task to the hardware *)
(* and waits for an answer; the output descriptor that belongs to the      *)
(* buffer of the answered frame goes down the pipeline, and comes back     *)
(* through DecQueueOutputForRecycle, from another thread.  The hardware    *)
(* and its task queues are external; it may answer after the poll gave up. *)
(***************************************************************************)
EXTENDS Integers, Sequences, FiniteSets, Functions

CONSTANTS
    Count,        \* kMppOutputBufferCount: buffers of the group, and holders
    InputTasks,   \* tasks of the decoder's input port (external)
    MaxDecode     \* bound of the model: calls of MppDecode

ASSUME DecoderAssumption ==
    /\ Count \in Nat \ {0} /\ InputTasks \in Nat \ {0} /\ MaxDecode \in Nat

Index == 1 .. Count   \* buffers, their descriptors and the holders
None == 0             \* a null pointer, or a buffer of a destroyed group
Request == 1 .. MaxDecode
Task == [frame : Request, buf : Index \union {None}]
NoTask == [frame |-> 0, buf |-> None]

VARIABLES
    pc, request,      \* the decode thread and the call it is in
    freeHolders,      \* FreeHolderQueue
    pending,          \* PendingRecycleQueue
    inflight,         \* OutDesc2HolderMap: the holder of a descriptor, or None
    holderBuf,        \* DecodedTaskHolder.output_buf
    groupFree,        \* buffers mpp_buffer_get can return
    holder, outBuf,   \* locals of MppDecode
    got, outDesc,     \* the frame in the output task, its descriptor
    hw, outTasks,     \* tasks the hardware works on, and has answered
    inputFree,        \* tasks of the input port that can be dequeued
    delivered,        \* auxiliary: which request was answered by which frame
    disturbed         \* auxiliary: "timeout", "infoChange" if there was one

holderVars == <<freeHolders, pending, inflight, holderBuf, groupFree>>
hwVars     == <<hw, outTasks, inputFree>>
vars == <<pc, request, holderVars, holder, outBuf, got, outDesc, hwVars, delivered, disturbed>>

Init ==
    /\ pc = "idle" /\ request = 0
    /\ freeHolders = [h \in Index |-> h] /\ pending = <<>>
    /\ inflight = [d \in Index |-> None]
    /\ holderBuf = [h \in Index |-> None]
    /\ groupFree = Index
    /\ holder = None /\ outBuf = None /\ got = NoTask /\ outDesc = None
    /\ hw = <<>> /\ outTasks = <<>> /\ inputFree = InputTasks
    /\ delivered = <<>> /\ disturbed = {}

InFlight == {d \in Index : inflight[d] # None}

(* the buffers of the recycled holders are not put back *)
ReturnHoldersOnly ==
    /\ freeHolders' = freeHolders \o pending
    /\ holderBuf' = [h \in Index |-> IF h \in Range(pending) THEN None ELSE holderBuf[h]]
    /\ pending' = <<>>
    /\ UNCHANGED groupFree

(* DrainPendingRecycleQueue: frame and buffer are put, the holder is free. *)
DrainPendingRecycleQueue ==
    /\ freeHolders' = freeHolders \o pending
    /\ groupFree' = groupFree \union ({holderBuf[h] : h \in Range(pending)} \ {None})
    /\ holderBuf' = [h \in Index |-> IF h \in Range(pending) THEN None ELSE holderBuf[h]]
    /\ pending' = <<>>

(* fail: give back the tasks, release frame, buffer and holder.  The buffer *)
(* is put whether or not the hardware has answered the task.               *)
Fail ==
    /\ groupFree' = groupFree \union ({outBuf} \ {None})
    /\ freeHolders' = Append(freeHolders, holder)
    /\ holder' = None /\ outBuf' = None /\ got' = NoTask /\ outDesc' = None
    /\ pc' = "idle"
    /\ UNCHANGED <<pending, inflight, holderBuf>>

-----------------------------------------------------------------------------
StartDecode ==
    /\ pc = "idle" /\ request < MaxDecode
    /\ request' = request + 1
    /\ DrainPendingRecycleQueue
    /\ pc' = "check"
    /\ UNCHANGED <<inflight, holder, outBuf, got, outDesc, hwVars, delivered, disturbed>>

(* The early returns: bad arguments, no JPEG, sync or size errors. *)
RejectInput ==
    /\ pc = "check"
    /\ pc' = "idle"
    /\ UNCHANGED <<request, holderVars, holder, outBuf, got, outDesc, hwVars, delivered, disturbed>>

AcceptInput ==
    /\ pc = "check"
    /\ pc' = "holder"
    /\ UNCHANGED <<request, holderVars, holder, outBuf, got, outDesc, hwVars, delivered, disturbed>>

AcquireHolder ==
    /\ pc = "holder" /\ freeHolders # <<>>
    /\ holder' = Head(freeHolders)
    /\ freeHolders' = Tail(freeHolders)
    /\ pc' = "buffer"
    /\ UNCHANGED <<request, pending, inflight, holderBuf, groupFree, outBuf,
                   got, outDesc, hwVars, delivered, disturbed>>

(* the loop that waits for a holder does not drain *)
JustWait ==
    /\ pc = "holder" /\ freeHolders = <<>> /\ pending # <<>>
    /\ UNCHANGED vars

(* No holder is free: sleep, drain, look again. *)
WaitForHolder ==
    /\ pc = "holder" /\ freeHolders = <<>> /\ pending # <<>>
    /\ DrainPendingRecycleQueue
    /\ UNCHANGED <<pc, request, inflight, holder, outBuf, got, outDesc, hwVars, delivered, disturbed>>

GetBuffer ==
    /\ pc = "buffer"
    /\ \E b \in groupFree : outBuf' = b /\ groupFree' = groupFree \ {b}
    /\ pc' = "submit"
    /\ UNCHANGED <<request, freeHolders, pending, inflight, holderBuf, holder,
                   got, outDesc, hwVars, delivered, disturbed>>

(* No buffer, no input task within 500 ms, or an error of MPP. *)
PrepareFails ==
    /\ pc \in {"buffer", "submit"}
    /\ Fail
    /\ UNCHANGED <<request, hwVars, delivered, disturbed>>

Submit ==
    /\ pc = "submit" /\ inputFree > 0
    /\ inputFree' = inputFree - 1
    /\ hw' = Append(hw, [frame |-> request, buf |-> outBuf])
    /\ pc' = "await"
    /\ UNCHANGED <<request, holderVars, holder, outBuf, got, outDesc, outTasks, delivered, disturbed>>

(* The decoder hardware answers its tasks in order. *)
HwAnswers ==
    /\ hw # <<>>
    /\ outTasks' = Append(outTasks, Head(hw))
    /\ hw' = Tail(hw)
    /\ inputFree' = inputFree + 1
    /\ UNCHANGED <<pc, request, holderVars, holder, outBuf, got, outDesc, delivered, disturbed>>

(* the answered task is read but stays in the port *)
PeekAnswer ==
    /\ pc = "await" /\ outTasks # <<>>
    /\ got' = Head(outTasks)
    /\ pc' = "got"
    /\ UNCHANGED <<request, holderVars, holder, outBuf, outDesc, hwVars, delivered, disturbed>>

TakeAnswer ==
    /\ pc = "await" /\ outTasks # <<>>
    /\ got' = Head(outTasks)
    /\ outTasks' = Tail(outTasks)
    /\ pc' = "got"
    /\ UNCHANGED <<request, holderVars, holder, outBuf, outDesc, hw, inputFree, delivered, disturbed>>

(* The poll timed out; the task stays with the hardware. *)
AnswerTimeout ==
    /\ pc = "await" /\ outTasks = <<>>
    /\ Fail
    /\ disturbed' = disturbed \union {"timeout"}
    /\ UNCHANGED <<request, hwVars, delivered>>

(* Error or discard flag, unknown buffer, bad geometry or format, or an    *)
(* info change while outputs are in flight.                                *)
RejectAnswer ==
    /\ pc = "got"
    /\ Fail
    /\ UNCHANGED <<request, hwVars, delivered, disturbed>>

(* The group is cleared, its buffers freed and new ones committed.  What   *)
(* still refers to a buffer refers to a destroyed one.                     *)
InfoChange ==
    /\ pc = "got" /\ got.buf # None
    /\ InFlight = {}
    /\ freeHolders' = freeHolders \o pending /\ pending' = <<>>
    /\ holderBuf' = [h \in Index |-> None]
    /\ groupFree' = Index
    /\ got' = [got EXCEPT !.buf = None] /\ outBuf' = None
    /\ hw' = [i \in DOMAIN hw |-> [hw[i] EXCEPT !.buf = None]]
    /\ outTasks' = [i \in DOMAIN outTasks |-> [outTasks[i] EXCEPT !.buf = None]]
    /\ UNCHANGED <<pc, request, inflight, holder, outDesc, inputFree, delivered>>
    /\ disturbed' = disturbed \union {"infoChange"}

(* OutBufFD2Index_Map, then the output task is given back.  The fd of a    *)
(* destroyed buffer may be that of any new one by now.                     *)
MapAnswer ==
    /\ pc = "got"
    /\ \E d \in Index :
          /\ got.buf \in {d, None}
          /\ outDesc' = d
    /\ pc' = "reclaim"
    /\ UNCHANGED <<request, holderVars, holder, outBuf, got, hwVars, delivered, disturbed>>

(* The input task is dequeued, emptied and enqueued again. *)
ReclaimInput ==
    /\ pc = "reclaim" /\ inputFree > 0
    /\ pc' = "publish"
    /\ UNCHANGED <<request, holderVars, holder, outBuf, got, outDesc, hwVars, delivered, disturbed>>

ReclaimFails ==
    /\ pc = "reclaim"
    /\ Fail
    /\ UNCHANGED <<request, hwVars, delivered, disturbed>>

(* output_buf is not recorded *)
BufferForgotten(h, b) == holderBuf

BufferRecorded(h, b) == [holderBuf EXCEPT ![h] = b]

Publish ==
    /\ pc = "publish" /\ inflight[outDesc] = None
    /\ inflight' = [inflight EXCEPT ![outDesc] = holder]
    /\ holderBuf' = BufferRecorded(holder, outBuf)
    /\ delivered' = Append(delivered, [request |-> request, frame |-> got.frame])
    /\ holder' = None /\ outBuf' = None /\ got' = NoTask /\ outDesc' = None
    /\ pc' = "idle"
    /\ UNCHANGED <<request, freeHolders, pending, groupFree, hwVars, disturbed>>

DuplicateOutput ==
    /\ pc = "publish" /\ inflight[outDesc] # None
    /\ Fail
    /\ UNCHANGED <<request, hwVars, delivered, disturbed>>

(* The recycle thread, or the decode thread for invalid metadata. *)
DecQueueOutputForRecycle(d) ==
    /\ inflight[d] # None
    /\ pending' = Append(pending, inflight[d])
    /\ inflight' = [inflight EXCEPT ![d] = None]
    /\ UNCHANGED <<pc, request, freeHolders, holderBuf, groupFree, holder,
                   outBuf, got, outDesc, hwVars, delivered, disturbed>>

Decode ==
    \/ StartDecode \/ RejectInput \/ AcceptInput \/ AcquireHolder \/ WaitForHolder
    \/ GetBuffer \/ PrepareFails \/ Submit \/ TakeAnswer \/ AnswerTimeout
    \/ RejectAnswer \/ InfoChange \/ MapAnswer \/ ReclaimInput \/ ReclaimFails
    \/ Publish \/ DuplicateOutput

Next ==
    \/ Decode
    \/ HwAnswers
    \/ \E d \in Index : DecQueueOutputForRecycle(d)

Spec == Init /\ [][Next]_vars

(* The decode thread is scheduled, the hardware answers, and the threads   *)
(* downstream give every output back.                                      *)
FairSpec ==
    /\ Spec
    /\ WF_vars(Decode) /\ WF_vars(HwAnswers)
    /\ \A d \in Index : WF_vars(DecQueueOutputForRecycle(d))

-----------------------------------------------------------------------------
(* The types of the state. *)
TypeOK ==
    /\ pc \in {"idle", "check", "holder", "buffer", "submit", "await", "got", "reclaim", "publish"}
    /\ request \in 0 .. MaxDecode
    /\ freeHolders \in Seq(Index) /\ pending \in Seq(Index)
    /\ inflight \in [Index -> Index \union {None}]
    /\ holderBuf \in [Index -> Index \union {None}]
    /\ groupFree \in SUBSET Index
    /\ {holder, outBuf, outDesc} \subseteq Index \union {None}
    /\ got \in Task \union {NoTask}
    /\ hw \in Seq(Task) /\ outTasks \in Seq(Task)
    /\ inputFree \in 0 .. InputTasks
    /\ delivered \in Seq([request : Request, frame : Request])
    /\ disturbed \in SUBSET {"timeout", "infoChange"}

(* The holders recorded for outputs in flight, the buffers holders keep.    *)
Recorded == {inflight[d] : d \in InFlight}
Kept == {holderBuf[h] : h \in Index} \ {None}

(* Every holder is in exactly one place, once: free, with the running      *)
(* decode, recorded for one output in flight, or waiting to be recycled;   *)
(* and every buffer of the group is free or referred to by one owner:      *)
(* whatever fails, times out or is recycled by the other thread meanwhile. *)
HoldersConserved ==
    /\ IsInjective(freeHolders) /\ IsInjective(pending)
    /\ \A c, d \in InFlight : inflight[c] = inflight[d] => c = d
    /\ Range(freeHolders) \intersect (Range(pending) \union Recorded \union {holder}) = {}
    /\ Range(pending) \intersect (Recorded \union {holder}) = {}
    /\ holder \notin Recorded
    /\ Index \subseteq Range(freeHolders) \union Range(pending) \union Recorded \union {holder}

BuffersConserved ==
    /\ \A g, h \in Index : holderBuf[g] = holderBuf[h] => g = h \/ holderBuf[g] = None
    /\ groupFree \intersect (Kept \union {outBuf}) = {}
    /\ outBuf \notin Kept
    /\ Index \subseteq groupFree \union Kept \union {outBuf}

Conserved == HoldersConserved /\ BuffersConserved

(* The life of an output's buffer is in the hands of the program: while an *)
(* output is in flight its buffer is kept by the holder recorded for it,   *)
(* so that no decode can be given it and no hardware writes to it; and a   *)
(* buffer the hardware works on is not free.                               *)
LifetimeControlled ==
    /\ \A d \in InFlight : holderBuf[inflight[d]] = d
    /\ \A i \in DOMAIN hw : hw[i].buf \notin groupFree \union InFlight

(* That holds as long as the hardware answers in time and the format of    *)
(* the pictures does not change.                                           *)
LifetimeUntilDisturbed == disturbed = {} => LifetimeControlled

(* A call of MppDecode that succeeds delivers the frame it was given, not  *)
(* the answer to an earlier call, as long as no call has timed out.        *)
AnswersMatchUntilTimeout ==
    "timeout" \notin disturbed =>
        \A i \in DOMAIN delivered : delivered[i].frame = delivered[i].request

(* A frame is delivered at most once and frames keep their order, also     *)
(* when answers come late.                                                 *)
DeliveredInOrder ==
    \A i, j \in DOMAIN delivered : i < j => delivered[i].frame < delivered[j].frame

(* MppDecode returns, although it waits for a holder as long as it takes:  *)
(* the outputs that hold them come back.                                   *)
DecodeReturns == pc # "idle" ~> pc = "idle"
=============================================================================
