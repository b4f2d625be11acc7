-------------------------- MODULE MppDecoderProofs --------------------------
(***************************************************************************)
(* What holds of MppDecoder for every number of outputs and input tasks,   *)
(* whatever is late, rejected or recycled meanwhile.                       *)
(***************************************************************************)
EXTENDS MppDecoder, QueueLemmas

USE DecoderAssumption DEF DecoderAssumption

-----------------------------------------------------------------------------
(* Types                                                                    *)

(* Once the picture is accepted the call has a holder, and then a buffer,   *)
(* an answer and a descriptor; a task of the input port is free or with the *)
(* hardware.                                                                *)
Slots ==
    /\ pc # "idle" => request \in Request
    /\ pc \in {"buffer", "submit", "await", "got", "reclaim", "publish"} => holder \in Index
    /\ pc \in {"submit", "await"} => outBuf \in Index
    /\ pc \in {"got", "reclaim", "publish"} => got \in Task
    /\ pc \in {"reclaim", "publish"} => outDesc \in Index
    /\ inputFree + Len(hw) = InputTasks

TypeInv == TypeOK /\ Slots

LEMMA TypeInit == Init => TypeInv
<1> SUFFICES ASSUME Init PROVE TypeInv
  OBVIOUS
<1>1. /\ pending \in Seq(Index) /\ hw \in Seq(Task) /\ outTasks \in Seq(Task)
      /\ delivered \in Seq([request : Request, frame : Request])
      /\ Len(hw) = 0
  BY EmptyQueue DEF Init
<1>2. freeHolders \in Seq(Index)
  <2>1. freeHolders \in [1 .. Count -> Index]
    BY DEF Init, Index
  <2> QED BY <2>1, SeqDef
<1>3. /\ holder = None /\ outBuf = None /\ outDesc = None /\ got = NoTask
      /\ inputFree \in 0 .. InputTasks /\ request \in 0 .. MaxDecode
      /\ inflight \in [Index -> Index \union {None}]
      /\ holderBuf \in [Index -> Index \union {None}]
      /\ groupFree \in SUBSET Index
      /\ pc = "idle" /\ disturbed = {}
  BY DEF Init
<1>4. Slots
  BY <1>1, <1>3 DEF Slots, Init
<1> QED BY <1>1, <1>2, <1>3, <1>4 DEF TypeInv, TypeOK

(* What giving the recycled holders back does to the types. *)
LEMMA DrainTypes ==
    ASSUME TypeInv, DrainPendingRecycleQueue
    PROVE  /\ freeHolders' \in Seq(Index) /\ pending' \in Seq(Index)
           /\ holderBuf' \in [Index -> Index \union {None}]
           /\ groupFree' \in SUBSET Index
<1> USE DEF TypeInv, TypeOK
<1>1. freeHolders' \in Seq(Index) /\ pending' \in Seq(Index)
  BY ConcatProperties, EmptyQueue DEF DrainPendingRecycleQueue
<1>2. Range(pending) \subseteq Index
  BY LenProperties DEF Range
<1>3. groupFree' \in SUBSET Index
  BY <1>2 DEF DrainPendingRecycleQueue
<1> QED BY <1>1, <1>3 DEF DrainPendingRecycleQueue

(* Every failure after the holder was taken leaves the call the same way. *)
LEMMA FailTypes ==
    ASSUME TypeInv, Fail, holder \in Index, UNCHANGED <<request, hwVars, delivered>>,
           disturbed' \in SUBSET {"timeout", "infoChange"}
    PROVE  TypeInv'
<1>1. freeHolders' \in Seq(Index)
  BY AppendProperties DEF Fail, TypeInv, TypeOK
<1>2. groupFree' \in SUBSET Index
  BY DEF Fail, TypeInv, TypeOK
<1> QED BY <1>1, <1>2 DEF Fail, hwVars, TypeInv, TypeOK, Slots

(* The tasks of a destroyed group. *)
LEMMA Forgotten ==
    ASSUME NEW s \in Seq(Task)
    PROVE  LET r == [i \in DOMAIN s |-> [s[i] EXCEPT !.buf = None]] IN
           /\ r \in Seq(Task) /\ Len(r) = Len(s)
           /\ \A i \in 1 .. Len(s) : r[i].frame = s[i].frame
<1> DEFINE r == [i \in DOMAIN s |-> [s[i] EXCEPT !.buf = None]]
<1>1. Len(s) \in Nat /\ DOMAIN s = 1 .. Len(s) /\ \A i \in 1 .. Len(s) : s[i] \in Task
  BY LenProperties, ElementOfSeq
<1>2. \A i \in 1 .. Len(s) : [s[i] EXCEPT !.buf = None] \in Task
                             /\ [s[i] EXCEPT !.buf = None].frame = s[i].frame
  BY <1>1 DEF Task
<1>3. r \in [1 .. Len(s) -> Task]
  BY <1>1, <1>2
<1>4. r \in Seq(Task) /\ DOMAIN r = 1 .. Len(s)
  BY <1>1, <1>3, SeqDef
<1>5. Len(r) = Len(s)
  BY <1>1, <1>4, LenProperties
<1> QED BY <1>1, <1>2, <1>4, <1>5

LEMMA TypeStep == TypeInv /\ [Next]_vars => TypeInv'
<1> SUFFICES ASSUME TypeInv, [Next]_vars PROVE TypeInv'
  OBVIOUS
<1>0. TypeOK /\ Slots
  BY DEF TypeInv
<1> USE <1>0 DEF TypeInv, TypeOK, Slots
<1>1. CASE StartDecode
  <2>1. request' \in Request /\ request' \in 0 .. MaxDecode
    BY <1>1 DEF StartDecode, Request
  <2>2. /\ freeHolders' \in Seq(Index) /\ pending' \in Seq(Index)
        /\ holderBuf' \in [Index -> Index \union {None}]
        /\ groupFree' \in SUBSET Index
    BY <1>1, DrainTypes DEF StartDecode
  <2> QED BY <1>1, <2>1, <2>2 DEF StartDecode, hwVars
<1>2. CASE RejectInput
  BY <1>2 DEF RejectInput, holderVars, hwVars
<1>3. CASE AcceptInput
  BY <1>3 DEF AcceptInput, holderVars, hwVars
<1>4. CASE AcquireHolder
  <2>1. Head(freeHolders) \in Index /\ Tail(freeHolders) \in Seq(Index)
    BY <1>4, HeadTailProperties DEF AcquireHolder
  <2> QED BY <1>4, <2>1 DEF AcquireHolder, hwVars
<1>5. CASE WaitForHolder
  <2>1. /\ freeHolders' \in Seq(Index) /\ pending' \in Seq(Index)
        /\ holderBuf' \in [Index -> Index \union {None}]
        /\ groupFree' \in SUBSET Index
    BY <1>5, DrainTypes DEF WaitForHolder
  <2> QED BY <1>5, <2>1 DEF WaitForHolder, hwVars
<1>6. CASE GetBuffer
  BY <1>6 DEF GetBuffer, hwVars
<1>7. CASE PrepareFails
  BY <1>7, FailTypes DEF PrepareFails
<1>8. CASE Submit
  <2> DEFINE t == [frame |-> request, buf |-> outBuf]
  <2>1. t \in Task
    BY <1>8 DEF Submit, Task
  <2>2. hw' \in Seq(Task) /\ Len(hw') = Len(hw) + 1
    BY <1>8, <2>1, AppendProperties DEF Submit
  <2>3. inputFree' = inputFree - 1 /\ inputFree' \in 0 .. InputTasks
    BY <1>8 DEF Submit
  <2>4. inputFree' + Len(hw') = InputTasks
    <3>1. Len(hw) \in Nat /\ inputFree \in Nat /\ InputTasks \in Nat
      BY LenProperties
    <3>2. inputFree + Len(hw) = InputTasks
      BY <1>8 DEF Submit
    <3>3. Len(hw') = Len(hw) + 1 /\ inputFree' = inputFree - 1
      BY <2>2, <2>3
    <3> HIDE DEF TypeInv, TypeOK, Slots
    <3> HIDE <1>0
    <3> QED BY <3>1, <3>2, <3>3
  <2> QED BY <1>8, <2>2, <2>3, <2>4 DEF Submit, holderVars
<1>9. CASE HwAnswers
  <2>1. Head(hw) \in Task /\ hw' \in Seq(Task) /\ Len(hw') = Len(hw) - 1 /\ Len(hw') \in Nat
    BY <1>9, HeadTailProperties, LenProperties DEF HwAnswers
  <2>2. outTasks' \in Seq(Task)
    BY <1>9, <2>1, AppendProperties DEF HwAnswers
  <2>3. inputFree' + Len(hw') = InputTasks /\ inputFree' \in 0 .. InputTasks
    BY <1>9, <2>1 DEF HwAnswers
  <2> QED BY <1>9, <2>1, <2>2, <2>3 DEF HwAnswers, holderVars
<1>10. CASE TakeAnswer
  <2>1. Head(outTasks) \in Task /\ outTasks' \in Seq(Task)
    BY <1>10, HeadTailProperties DEF TakeAnswer
  <2> QED BY <1>10, <2>1 DEF TakeAnswer, holderVars
<1>11. CASE AnswerTimeout
  BY <1>11, FailTypes DEF AnswerTimeout
<1>12. CASE RejectAnswer
  BY <1>12, FailTypes DEF RejectAnswer
<1>13. CASE InfoChange
  <2>1. freeHolders' \in Seq(Index) /\ pending' \in Seq(Index)
    BY <1>13, ConcatProperties, EmptyQueue DEF InfoChange
  <2>2. got' \in Task
    BY <1>13 DEF InfoChange, Task
  <2>3. hw' \in Seq(Task) /\ Len(hw') = Len(hw) /\ outTasks' \in Seq(Task)
    BY <1>13, Forgotten DEF InfoChange
  <2> QED BY <1>13, <2>1, <2>2, <2>3 DEF InfoChange
<1>14. CASE MapAnswer
  BY <1>14 DEF MapAnswer, holderVars, hwVars
<1>15. CASE ReclaimInput
  BY <1>15 DEF ReclaimInput, holderVars, hwVars
<1>16. CASE ReclaimFails
  BY <1>16, FailTypes DEF ReclaimFails
<1>17. CASE Publish
  <2>1. holder \in Index /\ outDesc \in Index /\ request \in Request /\ got \in Task
    BY <1>17 DEF Publish
  <2>2. delivered' \in Seq([request : Request, frame : Request])
    <3>1. [request |-> request, frame |-> got.frame] \in [request : Request, frame : Request]
      BY <2>1 DEF Task
    <3> QED BY <1>17, <3>1, AppendProperties DEF Publish
  <2>3. /\ inflight' \in [Index -> Index \union {None}]
        /\ holderBuf' \in [Index -> Index \union {None}]
    BY <1>17, <2>1 DEF Publish, BufferRecorded
  <2> QED BY <1>17, <2>2, <2>3 DEF Publish, hwVars
<1>18. CASE DuplicateOutput
  BY <1>18, FailTypes DEF DuplicateOutput
<1>19. ASSUME NEW d \in Index, DecQueueOutputForRecycle(d) PROVE TypeInv'
  <2>1. inflight[d] \in Index
    BY <1>19 DEF DecQueueOutputForRecycle
  <2>2. pending' \in Seq(Index)
    BY <1>19, <2>1, AppendProperties DEF DecQueueOutputForRecycle
  <2> QED BY <1>19, <2>2 DEF DecQueueOutputForRecycle, hwVars
<1>20. CASE UNCHANGED vars
  BY <1>20 DEF vars, holderVars, hwVars
<1> QED
  BY <1>1, <1>2, <1>3, <1>4, <1>5, <1>6, <1>7, <1>8, <1>9, <1>10, <1>11, <1>12, <1>13, <1>14, <1>15, <1>16, <1>17, <1>18, <1>19, <1>20
  DEF Next, Decode

(* The types of the decoder's state hold in every behaviour. *)
THEOREM DecoderTypeCorrect == Spec => []TypeOK
<1>1. TypeInv => TypeOK
  BY DEF TypeInv
<1> QED BY TypeInit, TypeStep, <1>1, PTL DEF Spec

-----------------------------------------------------------------------------
(* The order of the answers                                                 *)

(* The frames of a sequence of tasks, or of deliveries, increase.           *)
Increasing(s) == \A i, j \in 1 .. Len(s) : i < j => s[i].frame < s[j].frame

LEMMA IncreasingAppend ==
    ASSUME NEW S, NEW s \in Seq(S), NEW x \in S, Increasing(s),
           \A i \in 1 .. Len(s) : s[i].frame < x.frame
    PROVE  Increasing(Append(s, x))
<1> DEFINE a == Append(s, x)
<1>1. /\ Len(s) \in Nat /\ Len(a) = Len(s) + 1
      /\ \A i \in 1 .. Len(s) : a[i] = s[i]
      /\ a[Len(s) + 1] = x
  BY AppendProperties, LenProperties
<1> HIDE DEF a
<1>2. Increasing(a)
  <2> SUFFICES ASSUME NEW i \in 1 .. Len(a), NEW j \in 1 .. Len(a), i < j
               PROVE  a[i].frame < a[j].frame
    BY DEF Increasing
  <2>1. i \in 1 .. Len(s) /\ a[i] = s[i]
    BY <1>1
  <2>2. CASE j = Len(s) + 1
    BY <2>1, <2>2, <1>1
  <2>3. CASE j # Len(s) + 1
    <3>1. j \in 1 .. Len(s) /\ a[j] = s[j]
      BY <2>3, <1>1
    <3> QED BY <2>1, <3>1 DEF Increasing
  <2> QED BY <2>2, <2>3
<1> QED BY <1>2 DEF a

LEMMA IncreasingTail ==
    ASSUME NEW S, NEW s \in Seq(S), s # <<>>, Increasing(s)
    PROVE  /\ Increasing(Tail(s))
           /\ \A i \in 1 .. Len(Tail(s)) : Head(s).frame < Tail(s)[i].frame
<1>1. /\ Len(s) \in Nat \ {0} /\ Head(s) = s[1]
      /\ Len(Tail(s)) = Len(s) - 1
      /\ \A i \in 1 .. Len(Tail(s)) : Tail(s)[i] = s[i + 1]
  BY EmptySeq, LenProperties, HeadTailProperties
<1>2. \A i \in 1 .. Len(Tail(s)) : i + 1 \in 1 .. Len(s) /\ 1 < i + 1 /\ 1 \in 1 .. Len(s)
  BY <1>1
<1>3. Increasing(Tail(s))
  <2> SUFFICES ASSUME NEW i \in 1 .. Len(Tail(s)), NEW j \in 1 .. Len(Tail(s)), i < j
               PROVE  Tail(s)[i].frame < Tail(s)[j].frame
    BY DEF Increasing
  <2>1. i + 1 \in 1 .. Len(s) /\ j + 1 \in 1 .. Len(s) /\ i + 1 < j + 1
    BY <1>1
  <2> QED BY <2>1, <1>1 DEF Increasing
<1> QED BY <1>1, <1>2, <1>3 DEF Increasing

(* Deliveries, the answer at hand, the answers in the output port and the   *)
(* tasks of the hardware belong to ever later calls.                        *)
Holding == pc \in {"got", "reclaim", "publish"}
Preparing == pc \in {"check", "holder", "buffer", "submit"}
Before(f) == f <= request /\ (Preparing => f < request)

OrderInv ==
    /\ Increasing(delivered) /\ Increasing(outTasks) /\ Increasing(hw)
    /\ \A i \in 1 .. Len(outTasks), j \in 1 .. Len(hw) : outTasks[i].frame < hw[j].frame
    /\ \A i \in 1 .. Len(delivered) :
          /\ \A j \in 1 .. Len(outTasks) : delivered[i].frame < outTasks[j].frame
          /\ \A j \in 1 .. Len(hw) : delivered[i].frame < hw[j].frame
          /\ Holding => delivered[i].frame < got.frame
          /\ Before(delivered[i].frame)
    /\ Holding =>
          /\ got.frame <= request
          /\ \A j \in 1 .. Len(outTasks) : got.frame < outTasks[j].frame
          /\ \A j \in 1 .. Len(hw) : got.frame < hw[j].frame
    /\ \A j \in 1 .. Len(outTasks) : Before(outTasks[j].frame)
    /\ \A j \in 1 .. Len(hw) : Before(hw[j].frame)

LEMMA OrderInit == Init => OrderInv
BY EmptyQueue DEF Init, OrderInv, Increasing, Holding, Preparing

LEMMA FrameTypes ==
    ASSUME TypeInv
    PROVE  /\ request \in Nat /\ Len(hw) \in Nat /\ Len(outTasks) \in Nat /\ Len(delivered) \in Nat
           /\ \A i \in 1 .. Len(hw) : hw[i].frame \in Nat
           /\ \A i \in 1 .. Len(outTasks) : outTasks[i].frame \in Nat
           /\ \A i \in 1 .. Len(delivered) : delivered[i].frame \in Nat
           /\ got.frame \in Nat
<1>1. /\ \A i \in 1 .. Len(hw) : hw[i] \in Task
      /\ \A i \in 1 .. Len(outTasks) : outTasks[i] \in Task
      /\ \A i \in 1 .. Len(delivered) : delivered[i] \in [request : Request, frame : Request]
  BY ElementOfSeq DEF TypeInv, TypeOK
<1>2. /\ Len(hw) \in Nat /\ Len(outTasks) \in Nat /\ Len(delivered) \in Nat /\ request \in Nat
  BY LenProperties DEF TypeInv, TypeOK
<1>3. got.frame \in Nat
  BY DEF TypeInv, TypeOK, Task, NoTask, Request
<1>4. /\ \A i \in 1 .. Len(hw) : hw[i].frame \in Nat
      /\ \A i \in 1 .. Len(outTasks) : outTasks[i].frame \in Nat
      /\ \A i \in 1 .. Len(delivered) : delivered[i].frame \in Nat
  BY <1>1 DEF Task, Request
<1> QED BY <1>2, <1>3, <1>4

(* A call that goes on without touching a task, or that is over.            *)
LEMMA OrderQuiet ==
    ASSUME TypeInv, OrderInv, UNCHANGED <<request, hw, outTasks, delivered>>,
           Holding' => Holding /\ got'.frame = got.frame,
           Preparing' => Preparing
    PROVE  OrderInv'
BY FrameTypes DEF OrderInv, Increasing, Before

LEMMA OrderStep == TypeInv /\ OrderInv /\ [Next]_vars => OrderInv'
<1> SUFFICES ASSUME TypeInv, OrderInv, [Next]_vars PROVE OrderInv'
  OBVIOUS
<1>t. /\ request \in Nat /\ Len(hw) \in Nat /\ Len(outTasks) \in Nat /\ Len(delivered) \in Nat
      /\ \A i \in 1 .. Len(hw) : hw[i].frame \in Nat
      /\ \A i \in 1 .. Len(outTasks) : outTasks[i].frame \in Nat
      /\ \A i \in 1 .. Len(delivered) : delivered[i].frame \in Nat
      /\ got.frame \in Nat
  BY FrameTypes
<1>s. /\ hw \in Seq(Task) /\ outTasks \in Seq(Task)
      /\ delivered \in Seq([request : Request, frame : Request])
      /\ pc # "idle" => request \in Request
      /\ Holding => got \in Task
  BY DEF TypeInv, TypeOK, Slots, Holding
<1> USE DEF Holding, Preparing
<1>1. CASE StartDecode
  <2>1. UNCHANGED <<hw, outTasks, delivered>> /\ request' = request + 1 /\ ~Holding'
    BY <1>1 DEF StartDecode, hwVars
  <2> QED BY <2>1, <1>t DEF OrderInv, Increasing, Before
<1>2. CASE RejectInput
  BY <1>2, OrderQuiet DEF RejectInput, hwVars
<1>3. CASE AcceptInput
  BY <1>3, OrderQuiet DEF AcceptInput, hwVars
<1>4. CASE AcquireHolder
  BY <1>4, OrderQuiet DEF AcquireHolder, hwVars
<1>5. CASE WaitForHolder
  BY <1>5, OrderQuiet DEF WaitForHolder, hwVars
<1>6. CASE GetBuffer
  BY <1>6, OrderQuiet DEF GetBuffer, hwVars
<1>7. CASE PrepareFails
  BY <1>7, OrderQuiet DEF PrepareFails, hwVars, Fail
<1>8. CASE Submit
  <2> DEFINE t == [frame |-> request, buf |-> outBuf]
  <2>1. /\ t \in Task /\ t.frame = request
        /\ hw' = Append(hw, t)
        /\ UNCHANGED <<request, outTasks, delivered>>
        /\ Preparing /\ ~Preparing' /\ ~Holding'
    BY <1>8 DEF Submit, TypeInv, Slots, Task
  <2> HIDE DEF t
  <2>2. \A i \in 1 .. Len(hw) : hw[i].frame < t.frame
    BY <2>1, <1>t DEF OrderInv, Before
  <2>3. Increasing(hw')
    BY <2>1, <2>2, <1>s, IncreasingAppend DEF OrderInv
  <2>4. /\ Len(hw') = Len(hw) + 1
        /\ \A i \in 1 .. Len(hw) : hw'[i] = hw[i]
        /\ hw'[Len(hw) + 1] = t
    BY <2>1, <1>s, AppendProperties
  <2>5. \A j \in 1 .. Len(hw') : j \in 1 .. Len(hw) \/ hw'[j].frame = request
    BY <2>1, <2>4, <1>t
  <2> QED BY <2>1, <2>3, <2>4, <2>5, <1>t DEF OrderInv, Before, Increasing
<1>9. CASE HwAnswers
  <2> DEFINE t == Head(hw)
  <2>1. /\ hw # <<>> /\ hw' = Tail(hw) /\ outTasks' = Append(outTasks, t)
        /\ UNCHANGED <<request, delivered, pc, got>>
    BY <1>9 DEF HwAnswers
  <2>2. /\ t \in Task /\ t = hw[1] /\ 1 \in 1 .. Len(hw)
        /\ Len(hw') = Len(hw) - 1
        /\ \A i \in 1 .. Len(hw') : hw'[i] = hw[i + 1] /\ i + 1 \in 1 .. Len(hw)
    <3>1. Len(hw) # 0
      BY <2>1, <1>s, EmptySeq
    <3>2. t \in Task /\ Len(hw') = Len(hw) - 1 /\ \A i \in 1 .. Len(hw') : hw'[i] = hw[i + 1]
      BY <2>1, <1>s, HeadTailProperties
    <3>3. t = hw[1]
      BY <2>1, <1>s
    <3> QED BY <3>1, <3>2, <3>3, <1>t
  <2>3. /\ Len(outTasks') = Len(outTasks) + 1
        /\ \A i \in 1 .. Len(outTasks) : outTasks'[i] = outTasks[i]
        /\ outTasks'[Len(outTasks) + 1] = t
    BY <2>1, <2>2, <1>s, AppendProperties
  <2>4. Increasing(hw') /\ \A i \in 1 .. Len(hw') : t.frame < hw'[i].frame
    BY <2>1, <1>s, IncreasingTail DEF OrderInv
  <2> HIDE DEF t
  <2>5. Increasing(outTasks')
    <3>1. \A i \in 1 .. Len(outTasks) : outTasks[i].frame < t.frame
      BY <2>2 DEF OrderInv
    <3> QED BY <2>1, <2>2, <3>1, <1>s, IncreasingAppend DEF OrderInv
  <2>6. \A j \in 1 .. Len(outTasks') :
           (j \in 1 .. Len(outTasks) /\ outTasks'[j] = outTasks[j]) \/ outTasks'[j] = hw[1]
    BY <2>2, <2>3, <1>t
  <2>7. hw[1].frame \in Nat /\ \A i \in 1 .. Len(hw') : hw'[i].frame = hw[i + 1].frame
    BY <2>2, <1>t
  <2>8. /\ \A i \in 1 .. Len(outTasks'), j \in 1 .. Len(hw') : outTasks'[i].frame < hw'[j].frame
        /\ \A j \in 1 .. Len(outTasks') : Before(outTasks'[j].frame)
        /\ \A j \in 1 .. Len(hw') : Before(hw'[j].frame)
    BY <2>2, <2>4, <2>6, <2>7, <1>t DEF OrderInv, Before
  <2>9. \A i \in 1 .. Len(delivered) :
          /\ \A j \in 1 .. Len(outTasks') : delivered[i].frame < outTasks'[j].frame
          /\ \A j \in 1 .. Len(hw') : delivered[i].frame < hw'[j].frame
    BY <2>2, <2>6, <2>7 DEF OrderInv
  <2>10. Holding =>
          /\ \A j \in 1 .. Len(outTasks') : got.frame < outTasks'[j].frame
          /\ \A j \in 1 .. Len(hw') : got.frame < hw'[j].frame
    BY <2>2, <2>6, <2>7 DEF OrderInv
  <2> QED BY <2>1, <2>4, <2>5, <2>8, <2>9, <2>10 DEF OrderInv, Before
<1>10. CASE TakeAnswer
  <2>1. /\ outTasks # <<>> /\ outTasks' = Tail(outTasks) /\ got' = Head(outTasks)
        /\ UNCHANGED <<request, delivered, hw>>
        /\ Holding' /\ ~Preparing /\ ~Preparing'
    BY <1>10 DEF TakeAnswer
  <2>2. /\ got' = outTasks[1] /\ 1 \in 1 .. Len(outTasks)
        /\ Len(outTasks') = Len(outTasks) - 1
        /\ \A i \in 1 .. Len(outTasks') : outTasks'[i] = outTasks[i + 1] /\ i + 1 \in 1 .. Len(outTasks)
    <3>1. Len(outTasks) # 0
      BY <2>1, <1>s, EmptySeq
    <3>2. /\ Len(outTasks') = Len(outTasks) - 1
          /\ \A i \in 1 .. Len(outTasks') : outTasks'[i] = outTasks[i + 1]
      BY <2>1, <1>s, HeadTailProperties
    <3>3. got' = outTasks[1]
      BY <2>1, <1>s
    <3> QED BY <3>1, <3>2, <3>3, <1>t
  <2>3. Increasing(outTasks') /\ \A i \in 1 .. Len(outTasks') : got'.frame < outTasks'[i].frame
    BY <2>1, <1>s, IncreasingTail DEF OrderInv
  <2> QED BY <2>1, <2>2, <2>3, <1>t DEF OrderInv, Before
<1>11. CASE AnswerTimeout
  BY <1>11, OrderQuiet DEF AnswerTimeout, hwVars, Fail
<1>12. CASE RejectAnswer
  BY <1>12, OrderQuiet DEF RejectAnswer, hwVars, Fail
<1>13. CASE InfoChange
  <2>1. /\ hw' = [i \in DOMAIN hw |-> [hw[i] EXCEPT !.buf = None]]
        /\ outTasks' = [i \in DOMAIN outTasks |-> [outTasks[i] EXCEPT !.buf = None]]
        /\ UNCHANGED <<request, delivered, pc>>
        /\ got' = [got EXCEPT !.buf = None] /\ Holding
    BY <1>13 DEF InfoChange
  <2>2. /\ Len(hw') = Len(hw) /\ \A i \in 1 .. Len(hw) : hw'[i].frame = hw[i].frame
        /\ Len(outTasks') = Len(outTasks)
        /\ \A i \in 1 .. Len(outTasks) : outTasks'[i].frame = outTasks[i].frame
    BY <2>1, <1>s, Forgotten
  <2>3. got'.frame = got.frame
    BY <2>1, <1>s DEF Task
  <2> QED BY <2>1, <2>2, <2>3, <1>t DEF OrderInv, Before, Increasing
<1>14. CASE MapAnswer
  BY <1>14, OrderQuiet DEF MapAnswer, hwVars
<1>15. CASE ReclaimInput
  BY <1>15, OrderQuiet DEF ReclaimInput, hwVars
<1>16. CASE ReclaimFails
  BY <1>16, OrderQuiet DEF ReclaimFails, hwVars, Fail
<1>17. CASE Publish
  <2> DEFINE x == [request |-> request, frame |-> got.frame]
  <2>1. /\ x.frame = got.frame /\ Holding /\ ~Holding' /\ ~Preparing'
        /\ delivered' = Append(delivered, x)
        /\ UNCHANGED <<request, hw, outTasks>>
    BY <1>17 DEF Publish, hwVars
  <2>2. x \in [request : Request, frame : Request]
    BY <2>1, <1>s DEF Task
  <2> HIDE DEF x
  <2>3. Increasing(delivered')
    <3>1. \A i \in 1 .. Len(delivered) : delivered[i].frame < x.frame
      BY <2>1 DEF OrderInv
    <3> QED BY <2>1, <2>2, <3>1, <1>s, IncreasingAppend DEF OrderInv
  <2>4. /\ Len(delivered') = Len(delivered) + 1
        /\ \A i \in 1 .. Len(delivered) : delivered'[i] = delivered[i]
        /\ delivered'[Len(delivered) + 1] = x
    BY <2>1, <2>2, <1>s, AppendProperties
  <2>5. \A i \in 1 .. Len(delivered') :
           (i \in 1 .. Len(delivered) /\ delivered'[i] = delivered[i]) \/ delivered'[i].frame = got.frame
    BY <2>1, <2>4, <1>t
  <2> QED BY <2>1, <2>3, <2>5, <1>t DEF OrderInv, Before
<1>18. CASE DuplicateOutput
  BY <1>18, OrderQuiet DEF DuplicateOutput, hwVars, Fail
<1>19. ASSUME NEW d \in Index, DecQueueOutputForRecycle(d) PROVE OrderInv'
  BY <1>19, OrderQuiet DEF DecQueueOutputForRecycle, hwVars
<1>20. CASE UNCHANGED vars
  BY <1>20, OrderQuiet DEF vars, hwVars
<1> QED
  BY <1>1, <1>2, <1>3, <1>4, <1>5, <1>6, <1>7, <1>8, <1>9, <1>10, <1>11, <1>12, <1>13, <1>14, <1>15, <1>16, <1>17, <1>18, <1>19, <1>20
  DEF Next, Decode

(* MppDecode delivers no frame twice and none before an earlier one, also   *)
(* when answers come after the poll has given up.                           *)
THEOREM DeliveredInOrderHolds == Spec => []DeliveredInOrder
<1> DEFINE Inv == TypeInv /\ OrderInv
<1>1. Init => Inv
  BY TypeInit, OrderInit
<1>2. Inv /\ [Next]_vars => Inv'
  BY TypeStep, OrderStep
<1>3. Inv => DeliveredInOrder
  <2> SUFFICES ASSUME Inv PROVE DeliveredInOrder
    OBVIOUS
  <2>1. DOMAIN delivered = 1 .. Len(delivered)
    BY LenProperties DEF TypeInv, TypeOK
  <2> QED BY <2>1 DEF OrderInv, Increasing, DeliveredInOrder
<1> QED BY <1>1, <1>2, <1>3, PTL DEF Spec

-----------------------------------------------------------------------------
(* The answer to this call                                                  *)

(* As long as no poll has given up, a call that waits has one task with the *)
(* hardware or answered, its own, and no task is left behind by any call.   *)
AloneInv ==
    "timeout" \notin disturbed =>
       /\ pc # "await" => Len(hw) = 0 /\ Len(outTasks) = 0
       /\ pc = "await" =>
             /\ Len(hw) + Len(outTasks) = 1
             /\ \A i \in 1 .. Len(hw) : hw[i].frame = request
             /\ \A i \in 1 .. Len(outTasks) : outTasks[i].frame = request
       /\ Holding => got.frame = request
       /\ \A i \in 1 .. Len(delivered) : delivered[i].frame = delivered[i].request

LEMMA AloneInit == Init => AloneInv
BY EmptyQueue DEF Init, AloneInv, Holding

LEMMA AloneQuiet ==
    ASSUME AloneInv, UNCHANGED <<request, hw, outTasks, delivered, disturbed>>,
           pc # "await", pc' # "await",
           Holding' => Holding /\ got' = got
    PROVE  AloneInv'
BY DEF AloneInv

LEMMA AloneStep == TypeInv /\ AloneInv /\ [Next]_vars => AloneInv'
<1> SUFFICES ASSUME TypeInv, AloneInv, [Next]_vars PROVE AloneInv'
  OBVIOUS
<1>t. /\ Len(hw) \in Nat /\ Len(outTasks) \in Nat /\ Len(delivered) \in Nat
  BY FrameTypes
<1>s. /\ hw \in Seq(Task) /\ outTasks \in Seq(Task)
      /\ delivered \in Seq([request : Request, frame : Request])
      /\ pc # "idle" => request \in Request
      /\ Holding => got \in Task
  BY DEF TypeInv, TypeOK, Slots, Holding
<1> USE DEF Holding
<1>1. CASE StartDecode
  BY <1>1 DEF StartDecode, hwVars, AloneInv
<1>2. CASE RejectInput
  BY <1>2, AloneQuiet DEF RejectInput, hwVars
<1>3. CASE AcceptInput
  BY <1>3, AloneQuiet DEF AcceptInput, hwVars
<1>4. CASE AcquireHolder
  BY <1>4, AloneQuiet DEF AcquireHolder, hwVars
<1>5. CASE WaitForHolder
  BY <1>5, AloneQuiet DEF WaitForHolder, hwVars
<1>6. CASE GetBuffer
  BY <1>6, AloneQuiet DEF GetBuffer, hwVars
<1>7. CASE PrepareFails
  BY <1>7, AloneQuiet DEF PrepareFails, hwVars, Fail
<1>8. CASE Submit
  <2> DEFINE t == [frame |-> request, buf |-> outBuf]
  <2>1. /\ t \in Task /\ t.frame = request
        /\ hw' = Append(hw, t) /\ pc = "submit" /\ pc' = "await"
        /\ UNCHANGED <<request, outTasks, delivered, disturbed>>
    BY <1>8 DEF Submit, TypeInv, Slots, Task
  <2> HIDE DEF t
  <2>2. Len(hw') = Len(hw) + 1 /\ hw'[Len(hw) + 1] = t
    BY <2>1, <1>s, AppendProperties
  <2> QED BY <2>1, <2>2, <1>t DEF AloneInv
<1>9. CASE HwAnswers
  <2>1. /\ hw # <<>> /\ hw' = Tail(hw) /\ outTasks' = Append(outTasks, Head(hw))
        /\ UNCHANGED <<request, delivered, pc, got, disturbed>>
    BY <1>9 DEF HwAnswers
  <2>2. /\ Len(hw) # 0 /\ Head(hw) = hw[1] /\ Len(hw') = Len(hw) - 1 /\ Head(hw) \in Task
    <3>1. Len(hw) # 0
      BY <2>1, <1>s, EmptySeq
    <3>2. Head(hw) \in Task /\ Len(hw') = Len(hw) - 1
      BY <2>1, <1>s, HeadTailProperties
    <3> QED BY <2>1, <3>1, <3>2, <1>s
  <2>3. Len(outTasks') = Len(outTasks) + 1 /\ outTasks'[Len(outTasks) + 1] = hw[1]
    BY <2>1, <2>2, <1>s, AppendProperties
  <2>4. SUFFICES ASSUME "timeout" \notin disturbed PROVE AloneInv'
    BY <2>1 DEF AloneInv
  <2>5. pc = "await" /\ Len(hw) = 1 /\ Len(outTasks) = 0 /\ hw[1].frame = request
    BY <2>2, <2>4, <1>t DEF AloneInv
  <2>6. Len(hw') = 0 /\ Len(outTasks') = 1 /\ outTasks'[1].frame = request
    BY <2>2, <2>3, <2>5
  <2> QED BY <2>1, <2>5, <2>6 DEF AloneInv
<1>10. CASE TakeAnswer
  <2>1. /\ outTasks # <<>> /\ outTasks' = Tail(outTasks) /\ got' = Head(outTasks)
        /\ UNCHANGED <<request, delivered, hw, disturbed>>
        /\ pc = "await" /\ pc' = "got"
    BY <1>10 DEF TakeAnswer
  <2>2. Len(outTasks) # 0 /\ got' = outTasks[1] /\ Len(outTasks') = Len(outTasks) - 1
    <3>1. Len(outTasks) # 0
      BY <2>1, <1>s, EmptySeq
    <3>2. Len(outTasks') = Len(outTasks) - 1
      BY <2>1, <1>s, HeadTailProperties
    <3> QED BY <2>1, <3>1, <3>2, <1>s
  <2> QED BY <2>1, <2>2, <1>t DEF AloneInv
<1>11. CASE AnswerTimeout
  BY <1>11 DEF AnswerTimeout, AloneInv
<1>12. CASE RejectAnswer
  BY <1>12, AloneQuiet DEF RejectAnswer, hwVars, Fail
<1>13. CASE InfoChange
  <2>1. /\ hw' = [i \in DOMAIN hw |-> [hw[i] EXCEPT !.buf = None]]
        /\ outTasks' = [i \in DOMAIN outTasks |-> [outTasks[i] EXCEPT !.buf = None]]
        /\ UNCHANGED <<request, delivered, pc>>
        /\ got' = [got EXCEPT !.buf = None] /\ pc = "got"
        /\ disturbed' = disturbed \union {"infoChange"}
    BY <1>13 DEF InfoChange
  <2>2. Len(hw') = Len(hw) /\ Len(outTasks') = Len(outTasks)
    BY <2>1, <1>s, Forgotten
  <2>3. got'.frame = got.frame
    BY <2>1, <1>s DEF Task
  <2> QED BY <2>1, <2>2, <2>3 DEF AloneInv
<1>14. CASE MapAnswer
  BY <1>14, AloneQuiet DEF MapAnswer, hwVars
<1>15. CASE ReclaimInput
  BY <1>15, AloneQuiet DEF ReclaimInput, hwVars
<1>16. CASE ReclaimFails
  BY <1>16, AloneQuiet DEF ReclaimFails, hwVars, Fail
<1>17. CASE Publish
  <2> DEFINE x == [request |-> request, frame |-> got.frame]
  <2>1. /\ x.frame = got.frame /\ x.request = request /\ pc = "publish" /\ pc' = "idle"
        /\ delivered' = Append(delivered, x)
        /\ UNCHANGED <<request, hw, outTasks, disturbed>>
    BY <1>17 DEF Publish, hwVars
  <2>2. x \in [request : Request, frame : Request]
    BY <2>1, <1>s DEF Task
  <2> HIDE DEF x
  <2>3. /\ Len(delivered') = Len(delivered) + 1
        /\ \A i \in 1 .. Len(delivered) : delivered'[i] = delivered[i]
        /\ delivered'[Len(delivered) + 1] = x
    BY <2>1, <2>2, <1>s, AppendProperties
  <2>4. \A i \in 1 .. Len(delivered') :
           (i \in 1 .. Len(delivered) /\ delivered'[i] = delivered[i]) \/ delivered'[i] = x
    BY <2>3, <1>t
  <2> QED BY <2>1, <2>4 DEF AloneInv
<1>18. CASE DuplicateOutput
  BY <1>18, AloneQuiet DEF DuplicateOutput, hwVars, Fail
<1>19. ASSUME NEW d \in Index, DecQueueOutputForRecycle(d) PROVE AloneInv'
  BY <1>19 DEF DecQueueOutputForRecycle, hwVars, AloneInv
<1>20. CASE UNCHANGED vars
  BY <1>20 DEF vars, hwVars, AloneInv
<1> QED
  BY <1>1, <1>2, <1>3, <1>4, <1>5, <1>6, <1>7, <1>8, <1>9, <1>10, <1>11, <1>12, <1>13, <1>14, <1>15, <1>16, <1>17, <1>18, <1>19, <1>20
  DEF Next, Decode

(* Until a poll gives up, what a call of MppDecode delivers is the picture  *)
(* it was given.                                                            *)
THEOREM AnswersMatch == Spec => []AnswersMatchUntilTimeout
<1> DEFINE Inv == TypeInv /\ AloneInv
<1>1. Init => Inv
  BY TypeInit, AloneInit
<1>2. Inv /\ [Next]_vars => Inv'
  BY TypeStep, AloneStep
<1>3. Inv => AnswersMatchUntilTimeout
  <2> SUFFICES ASSUME Inv PROVE AnswersMatchUntilTimeout
    OBVIOUS
  <2>1. DOMAIN delivered = 1 .. Len(delivered)
    BY LenProperties DEF TypeInv, TypeOK
  <2> QED BY <2>1 DEF AloneInv, AnswersMatchUntilTimeout
<1> QED BY <1>1, <1>2, <1>3, PTL DEF Spec

-----------------------------------------------------------------------------
(* Holders and buffers                                                      *)

(* A call that has not come so far holds nothing; a buffer is kept only by  *)
(* holders that are recorded or wait to be recycled.                        *)
EmptyHanded ==
    /\ pc \in {"idle", "check", "holder"} => holder = None
    /\ pc \in {"idle", "check", "holder", "buffer"} => outBuf = None
KeepInv == \A h \in Index : holderBuf[h] # None => h \in Range(pending) \union Recorded

ConsInv == HoldersConserved /\ BuffersConserved /\ EmptyHanded /\ KeepInv

LEMMA NoneApart == None \notin Index
BY DEF None, Index

LEMMA ConsInit == Init => ConsInv
<1> SUFFICES ASSUME Init PROVE ConsInv
  OBVIOUS
<1>1. /\ freeHolders = [h \in Index |-> h] /\ pending = <<>> /\ holder = None /\ outBuf = None
      /\ inflight = [d \in Index |-> None] /\ holderBuf = [h \in Index |-> None]
      /\ groupFree = Index
  BY DEF Init
<1>2. InFlight = {} /\ Recorded = {} /\ Kept = {}
  BY <1>1 DEF InFlight, Recorded, Kept
<1>3. IsInjective(freeHolders) /\ Range(freeHolders) = Index
  BY <1>1 DEF IsInjective, Range
<1>4. IsInjective(pending) /\ Range(pending) = {}
  BY <1>1, EmptyQueue
<1> QED BY <1>1, <1>2, <1>3, <1>4, NoneApart
  DEF ConsInv, HoldersConserved, BuffersConserved, EmptyHanded, KeepInv

(* Giving the recycled holders back, before a call or while it waits.       *)
LEMMA DrainConserves ==
    ASSUME TypeInv, ConsInv, DrainPendingRecycleQueue,
           UNCHANGED <<inflight, holder, outBuf>>
    PROVE  HoldersConserved' /\ BuffersConserved' /\ KeepInv'
<1>t. /\ freeHolders \in Seq(Index) /\ pending \in Seq(Index)
      /\ holderBuf \in [Index -> Index \union {None}]
      /\ inflight \in [Index -> Index \union {None}]
      /\ groupFree \in SUBSET Index
  BY DEF TypeInv, TypeOK
<1>1. /\ freeHolders' = freeHolders \o pending /\ pending' = <<>>
      /\ groupFree' = groupFree \union ({holderBuf[h] : h \in Range(pending)} \ {None})
      /\ holderBuf' = [h \in Index |-> IF h \in Range(pending) THEN None ELSE holderBuf[h]]
  BY DEF DrainPendingRecycleQueue
<1>2. /\ IsInjective(freeHolders') /\ Range(freeHolders') = Range(freeHolders) \union Range(pending)
  BY <1>t, <1>1, ConcatDistinct DEF ConsInv, HoldersConserved
<1>3. IsInjective(pending') /\ Range(pending') = {}
  BY <1>1, EmptyQueue
<1>4. InFlight' = InFlight /\ Recorded' = Recorded
  BY DEF InFlight, Recorded
<1>5. HoldersConserved'
  BY <1>2, <1>3, <1>4 DEF ConsInv, HoldersConserved
<1>6. Range(pending) \subseteq Index
  BY <1>t, LenProperties DEF Range
<1>7. /\ \A h \in Index : holderBuf'[h] = IF h \in Range(pending) THEN None ELSE holderBuf[h]
      /\ None \notin Index
  BY <1>1, NoneApart
<1>8. /\ Kept' \subseteq Kept
      /\ Kept \subseteq Kept' \union ({holderBuf[h] : h \in Range(pending)} \ {None})
      /\ Kept' \intersect {holderBuf[h] : h \in Range(pending)} = {}
      /\ {holderBuf[h] : h \in Range(pending)} \ {None} \subseteq Kept
    BY <1>6, <1>7 DEF Kept, ConsInv, BuffersConserved
<1>9. BuffersConserved'
  <2>1. \A g, h \in Index : holderBuf'[g] = holderBuf'[h] => g = h \/ holderBuf'[g] = None
    BY <1>7 DEF ConsInv, BuffersConserved
  <2> QED BY <1>1, <1>8, <2>1 DEF ConsInv, BuffersConserved
<1>10. KeepInv'
  BY <1>3, <1>4, <1>7 DEF ConsInv, KeepInv
<1> QED BY <1>5, <1>9, <1>10

(* A failed call gives its holder and its buffer back.                      *)
LEMMA FailConserves ==
    ASSUME TypeInv, ConsInv, Fail, holder \in Index
    PROVE  ConsInv'
<1>t. /\ freeHolders \in Seq(Index) /\ groupFree \in SUBSET Index
      /\ outBuf \in Index \union {None}
  BY DEF TypeInv, TypeOK
<1>1. /\ groupFree' = groupFree \union ({outBuf} \ {None})
      /\ freeHolders' = Append(freeHolders, holder)
      /\ holder' = None /\ outBuf' = None /\ pc' = "idle"
      /\ UNCHANGED <<pending, inflight, holderBuf>>
  BY DEF Fail
<1>2. IsInjective(freeHolders') /\ Range(freeHolders') = Range(freeHolders) \union {holder}
  BY <1>t, <1>1, AppendDistinct DEF ConsInv, HoldersConserved
<1>3. InFlight' = InFlight /\ Recorded' = Recorded /\ Kept' = Kept
  BY <1>1 DEF InFlight, Recorded, Kept
<1>4. Range(freeHolders) \subseteq Index /\ Range(pending) \subseteq Index /\ Recorded \subseteq Index
  BY LenProperties DEF TypeInv, TypeOK, Range, Recorded, InFlight
<1>5. HoldersConserved'
  BY <1>1, <1>2, <1>3, <1>4, NoneApart DEF ConsInv, HoldersConserved
<1>6. BuffersConserved'
  BY <1>1, <1>3, <1>t, NoneApart DEF ConsInv, BuffersConserved, Kept
<1>7. EmptyHanded' /\ KeepInv'
  BY <1>1, <1>3 DEF ConsInv, EmptyHanded, KeepInv
<1> QED BY <1>5, <1>6, <1>7 DEF ConsInv

LEMMA ConsQuiet ==
    ASSUME ConsInv, UNCHANGED holderVars, UNCHANGED <<holder, outBuf>>,
           pc \in {"idle", "check", "holder"} \/ pc' \notin {"idle", "check", "holder"},
           pc \in {"idle", "check", "holder", "buffer"}
             \/ pc' \notin {"idle", "check", "holder", "buffer"}
    PROVE  ConsInv'
<1>1. InFlight' = InFlight /\ Recorded' = Recorded /\ Kept' = Kept
  BY DEF InFlight, Recorded, Kept, holderVars
<1> QED BY <1>1 DEF ConsInv, HoldersConserved, BuffersConserved, EmptyHanded, KeepInv, holderVars

LEMMA ConsStep == TypeInv /\ ConsInv /\ [Next]_vars => ConsInv'
<1> SUFFICES ASSUME TypeInv, ConsInv, [Next]_vars PROVE ConsInv'
  OBVIOUS
<1>t. /\ freeHolders \in Seq(Index) /\ pending \in Seq(Index)
      /\ holderBuf \in [Index -> Index \union {None}]
      /\ inflight \in [Index -> Index \union {None}]
      /\ groupFree \in SUBSET Index
      /\ outBuf \in Index \union {None} /\ holder \in Index \union {None}
      /\ pc \in {"buffer", "submit", "await", "got", "reclaim", "publish"} => holder \in Index
      /\ pc \in {"reclaim", "publish"} => outDesc \in Index
      /\ None \notin Index
  BY NoneApart DEF TypeInv, TypeOK, Slots
<1>r. Range(freeHolders) \subseteq Index /\ Range(pending) \subseteq Index /\ Recorded \subseteq Index
  BY LenProperties DEF TypeInv, TypeOK, Range, Recorded, InFlight
<1>1. CASE StartDecode
  <2>1. HoldersConserved' /\ BuffersConserved' /\ KeepInv'
    BY <1>1, DrainConserves DEF StartDecode
  <2> QED BY <1>1, <2>1 DEF StartDecode, ConsInv, EmptyHanded
<1>2. CASE RejectInput
  BY <1>2, ConsQuiet DEF RejectInput
<1>3. CASE AcceptInput
  BY <1>3, ConsQuiet DEF AcceptInput
<1>4. CASE AcquireHolder
  <2>1. /\ freeHolders # <<>> /\ holder' = Head(freeHolders) /\ freeHolders' = Tail(freeHolders)
        /\ UNCHANGED <<pending, inflight, holderBuf, groupFree, outBuf>>
        /\ holder = None /\ outBuf = None /\ pc' = "buffer"
    BY <1>4 DEF AcquireHolder, ConsInv, EmptyHanded
  <2>2. /\ Range(freeHolders) = Range(freeHolders') \union {holder'}
        /\ IsInjective(freeHolders')
        /\ Range(freeHolders') = Range(freeHolders) \ {holder'}
    BY <2>1, <1>t, TailDistinct DEF ConsInv, HoldersConserved
  <2>3. InFlight' = InFlight /\ Recorded' = Recorded /\ Kept' = Kept
    BY <2>1 DEF InFlight, Recorded, Kept
  <2>4. HoldersConserved'
    BY <2>1, <2>2, <2>3, <1>r, <1>t DEF ConsInv, HoldersConserved
  <2> QED BY <2>1, <2>3, <2>4 DEF ConsInv, BuffersConserved, EmptyHanded, KeepInv
<1>5. CASE WaitForHolder
  <2>1. HoldersConserved' /\ BuffersConserved' /\ KeepInv'
    BY <1>5, DrainConserves DEF WaitForHolder
  <2> QED BY <1>5, <2>1 DEF WaitForHolder, ConsInv, EmptyHanded
<1>6. CASE GetBuffer
  <2>1. PICK b \in groupFree : outBuf' = b /\ groupFree' = groupFree \ {b}
    BY <1>6 DEF GetBuffer
  <2>2. /\ UNCHANGED <<freeHolders, pending, inflight, holderBuf, holder>>
        /\ outBuf = None /\ pc' = "submit"
    BY <1>6 DEF GetBuffer, ConsInv, EmptyHanded
  <2>3. InFlight' = InFlight /\ Recorded' = Recorded /\ Kept' = Kept
    BY <2>2 DEF InFlight, Recorded, Kept
  <2>4. BuffersConserved'
    BY <2>1, <2>2, <2>3, <1>t DEF ConsInv, BuffersConserved
  <2> QED BY <2>2, <2>3, <2>4 DEF ConsInv, HoldersConserved, EmptyHanded, KeepInv
<1>7. CASE PrepareFails
  BY <1>7, <1>t, FailConserves DEF PrepareFails
<1>8. CASE Submit
  BY <1>8, ConsQuiet DEF Submit
<1>9. CASE HwAnswers
  BY <1>9, ConsQuiet DEF HwAnswers
<1>10. CASE TakeAnswer
  BY <1>10, ConsQuiet DEF TakeAnswer
<1>11. CASE AnswerTimeout
  BY <1>11, <1>t, FailConserves DEF AnswerTimeout
<1>12. CASE RejectAnswer
  BY <1>12, <1>t, FailConserves DEF RejectAnswer
<1>13. CASE InfoChange
  <2>1. /\ freeHolders' = freeHolders \o pending /\ pending' = <<>>
        /\ holderBuf' = [h \in Index |-> None] /\ groupFree' = Index
        /\ outBuf' = None /\ UNCHANGED <<pc, inflight, holder>>
        /\ pc = "got" /\ InFlight = {}
    BY <1>13 DEF InfoChange
  <2>2. /\ IsInjective(freeHolders')
        /\ Range(freeHolders') = Range(freeHolders) \union Range(pending)
    BY <2>1, <1>t, ConcatDistinct DEF ConsInv, HoldersConserved
  <2>3. IsInjective(pending') /\ Range(pending') = {}
    BY <2>1, EmptyQueue
  <2>4. InFlight' = InFlight /\ Recorded' = Recorded /\ Kept' = {}
    BY <2>1 DEF InFlight, Recorded, Kept
  <2>5. HoldersConserved'
    BY <2>1, <2>2, <2>3, <2>4 DEF ConsInv, HoldersConserved
  <2> QED BY <2>1, <2>4, <2>5, <1>t DEF ConsInv, BuffersConserved, EmptyHanded, KeepInv
<1>14. CASE MapAnswer
  BY <1>14, ConsQuiet DEF MapAnswer
<1>15. CASE ReclaimInput
  BY <1>15, ConsQuiet DEF ReclaimInput
<1>16. CASE ReclaimFails
  BY <1>16, <1>t, FailConserves DEF ReclaimFails
<1>17. CASE Publish
  <2>1. /\ inflight[outDesc] = None /\ outDesc \in Index /\ holder \in Index
        /\ inflight' = [inflight EXCEPT ![outDesc] = holder]
        /\ holderBuf' = [holderBuf EXCEPT ![holder] = outBuf]
        /\ holder' = None /\ outBuf' = None /\ pc' = "idle"
        /\ UNCHANGED <<freeHolders, pending, groupFree>>
    BY <1>17, <1>t DEF Publish, BufferRecorded
  <2>2. InFlight' = InFlight \union {outDesc} /\ outDesc \notin InFlight
    BY <2>1, <1>t DEF InFlight
  <2>3. /\ inflight'[outDesc] = holder
        /\ \A d \in InFlight : inflight'[d] = inflight[d]
    BY <2>1, <2>2, <1>t DEF InFlight
  <2>4. Recorded' = Recorded \union {holder}
    BY <2>2, <2>3 DEF Recorded
  <2>5. holder \notin Recorded /\ holder \notin Range(pending) /\ holder \notin Range(freeHolders)
    BY DEF ConsInv, HoldersConserved
  <2>6. \A c, d \in InFlight' : inflight'[c] = inflight'[d] => c = d
    <3>1. \A d \in InFlight : inflight[d] # holder
      BY <2>5 DEF Recorded
    <3> QED BY <2>2, <2>3, <3>1 DEF ConsInv, HoldersConserved
  <2>7. HoldersConserved'
    BY <2>1, <2>4, <2>5, <2>6, <1>t, <1>r DEF ConsInv, HoldersConserved
  <2>8. holderBuf[holder] = None
    BY <2>1, <2>5 DEF ConsInv, KeepInv
  <2>9. /\ holderBuf'[holder] = outBuf
        /\ \A h \in Index : h # holder => holderBuf'[h] = holderBuf[h]
    BY <2>1, <1>t
  <2>10. Kept' = Kept \union ({outBuf} \ {None})
    BY <2>1, <2>8, <2>9, <1>t DEF Kept
  <2>11. BuffersConserved'
    <3>1. \A g, h \in Index : holderBuf'[g] = holderBuf'[h] => g = h \/ holderBuf'[g] = None
      BY <2>8, <2>9 DEF ConsInv, BuffersConserved, Kept
    <3>2. /\ groupFree \intersect (Kept \union {outBuf}) = {}
          /\ Index \subseteq groupFree \union Kept \union {outBuf}
      BY DEF ConsInv, BuffersConserved
    <3>3. None \notin groupFree /\ None \notin Kept
      BY <1>t DEF Kept
    <3>4. groupFree' \intersect (Kept' \union {outBuf'}) = {}
      BY <2>1, <2>10, <3>2, <3>3
    <3>5. outBuf' \notin Kept'
      BY <2>1, <2>10, <3>3
    <3>6. Index \subseteq groupFree' \union Kept' \union {outBuf'}
      BY <2>1, <2>10, <3>2, <1>t
    <3> QED BY <3>1, <3>4, <3>5, <3>6 DEF BuffersConserved
  <2>12. KeepInv'
    BY <2>1, <2>4, <2>9 DEF ConsInv, KeepInv
  <2> QED BY <2>1, <2>7, <2>11, <2>12 DEF ConsInv, EmptyHanded
<1>18. CASE DuplicateOutput
  BY <1>18, <1>t, FailConserves DEF DuplicateOutput
<1>19. ASSUME NEW d \in Index, DecQueueOutputForRecycle(d) PROVE ConsInv'
  <2> DEFINE h == inflight[d]
  <2>1. /\ h \in Index /\ d \in InFlight
        /\ pending' = Append(pending, h)
        /\ inflight' = [inflight EXCEPT ![d] = None]
        /\ UNCHANGED <<pc, freeHolders, holderBuf, groupFree, holder, outBuf>>
    BY <1>19, <1>t DEF DecQueueOutputForRecycle, InFlight
  <2>2. h \in Recorded /\ h \notin Range(pending)
    BY <2>1 DEF Recorded, ConsInv, HoldersConserved
  <2>3. IsInjective(pending') /\ Range(pending') = Range(pending) \union {h}
    <3> HIDE DEF h
    <3> QED BY <2>1, <2>2, <1>t, AppendDistinct DEF ConsInv, HoldersConserved
  <2>4. InFlight' = InFlight \ {d} /\ \A c \in InFlight' : inflight'[c] = inflight[c]
    BY <2>1, <1>t DEF InFlight
  <2>5. Recorded' = Recorded \ {h}
    BY <2>1, <2>4 DEF Recorded, ConsInv, HoldersConserved
  <2>6. Kept' = Kept
    BY <2>1 DEF Kept
  <2> HIDE DEF h
  <2>7. HoldersConserved'
    BY <2>1, <2>2, <2>3, <2>4, <2>5 DEF ConsInv, HoldersConserved
  <2>8. KeepInv'
    BY <2>1, <2>3, <2>5 DEF ConsInv, KeepInv
  <2> QED BY <2>1, <2>6, <2>7, <2>8 DEF ConsInv, BuffersConserved, EmptyHanded
<1>20. CASE UNCHANGED vars
  BY <1>20, ConsQuiet DEF vars
<1> QED
  BY <1>1, <1>2, <1>3, <1>4, <1>5, <1>6, <1>7, <1>8, <1>9, <1>10, <1>11, <1>12, <1>13, <1>14, <1>15, <1>16, <1>17, <1>18, <1>19, <1>20
  DEF Next, Decode

(* No holder and no buffer of the output group is lost or owned twice,      *)
(* whatever fails or is recycled meanwhile.                                 *)
THEOREM ConservedHolds == Spec => []Conserved
<1> DEFINE Inv == TypeInv /\ ConsInv
<1>1. Init => Inv
  BY TypeInit, ConsInit
<1>2. Inv /\ [Next]_vars => Inv'
  BY TypeStep, ConsStep
<1>3. Inv => Conserved
  BY DEF ConsInv, Conserved
<1> QED BY <1>1, <1>2, <1>3, PTL DEF Spec

-----------------------------------------------------------------------------
(* The life of an output                                                    *)

(* Undisturbed, the task of a call, its answer and its descriptor are those *)
(* of the buffer the call got from the group.                               *)
LifeInv ==
    disturbed = {} =>
       /\ \A d \in InFlight : holderBuf[inflight[d]] = d
       /\ \A i \in 1 .. Len(hw) : hw[i].buf = outBuf
       /\ \A i \in 1 .. Len(outTasks) : outTasks[i].buf = outBuf
       /\ Holding => got.buf = outBuf /\ outBuf \in Index
       /\ pc \in {"reclaim", "publish"} => outDesc = outBuf

LEMMA LifeInit == Init => LifeInv
<1> SUFFICES ASSUME Init PROVE LifeInv
  OBVIOUS
<1>1. InFlight = {} /\ Len(hw) = 0 /\ Len(outTasks) = 0 /\ pc = "idle"
  BY EmptyQueue DEF Init, InFlight
<1> QED BY <1>1 DEF LifeInv, Holding

(* Recycled holders are not those recorded for outputs in flight. *)
LEMMA DrainLife ==
    ASSUME TypeInv, ConsInv, DrainPendingRecycleQueue, UNCHANGED inflight
    PROVE  /\ InFlight' = InFlight
           /\ \A d \in InFlight : holderBuf'[inflight'[d]] = holderBuf[inflight[d]]
<1>1. InFlight' = InFlight /\ \A d \in InFlight : inflight[d] \in Index /\ inflight[d] \in Recorded
  BY DEF InFlight, Recorded, TypeInv, TypeOK
<1>2. \A d \in InFlight : inflight[d] \notin Range(pending)
  BY <1>1 DEF ConsInv, HoldersConserved
<1> QED BY <1>1, <1>2 DEF DrainPendingRecycleQueue

LEMMA LifeQuiet ==
    ASSUME LifeInv, UNCHANGED <<inflight, holderBuf, hw, outTasks>>,
           disturbed \subseteq disturbed',
           outBuf' = outBuf \/ (disturbed' = {} => Len(hw) = 0 /\ Len(outTasks) = 0),
           Holding' => Holding /\ got' = got /\ outBuf' = outBuf,
           pc' \in {"reclaim", "publish"} => pc \in {"reclaim", "publish"} /\ outDesc' = outDesc
    PROVE  LifeInv'
<1>1. InFlight' = InFlight
  BY DEF InFlight
<1> SUFFICES ASSUME disturbed' = {} PROVE LifeInv'
  BY DEF LifeInv
<1>2. disturbed = {}
  OBVIOUS
<1>3. \A d \in InFlight' : holderBuf'[inflight'[d]] = d
  BY <1>1, <1>2 DEF LifeInv
<1>4. /\ \A i \in 1 .. Len(hw') : hw'[i].buf = outBuf'
      /\ \A i \in 1 .. Len(outTasks') : outTasks'[i].buf = outBuf'
  <2>1. CASE outBuf' = outBuf
    BY <2>1, <1>2 DEF LifeInv
  <2>2. CASE Len(hw) = 0 /\ Len(outTasks) = 0
    BY <2>2
  <2> QED BY <2>1, <2>2
<1>5. Holding' => got'.buf = outBuf' /\ outBuf' \in Index
  BY <1>2 DEF LifeInv
<1>6. pc' \in {"reclaim", "publish"} => outDesc' = outBuf'
  BY <1>2 DEF LifeInv, Holding
<1> QED BY <1>3, <1>4, <1>5, <1>6 DEF LifeInv

LEMMA LifeStep == TypeInv /\ ConsInv /\ AloneInv /\ LifeInv /\ [Next]_vars => LifeInv'
<1> SUFFICES ASSUME TypeInv, ConsInv, AloneInv, LifeInv, [Next]_vars PROVE LifeInv'
  OBVIOUS
<1>t. /\ Len(hw) \in Nat /\ Len(outTasks) \in Nat
      /\ hw \in Seq(Task) /\ outTasks \in Seq(Task)
      /\ holderBuf \in [Index -> Index \union {None}]
      /\ inflight \in [Index -> Index \union {None}]
      /\ pc \in {"submit", "await"} => outBuf \in Index
      /\ pc \in {"reclaim", "publish"} => outDesc \in Index
      /\ pc \in {"got", "reclaim", "publish"} => holder \in Index
      /\ None \notin Index
  BY LenProperties, NoneApart DEF TypeInv, TypeOK, Slots
(* the port is empty unless a call waits *)
<1>a. disturbed = {} /\ pc # "await" => Len(hw) = 0 /\ Len(outTasks) = 0
  BY DEF AloneInv
<1> USE DEF Holding
<1>1. CASE StartDecode
  <2>1. UNCHANGED <<hw, outTasks, outBuf, disturbed>> /\ pc' = "check"
    BY <1>1 DEF StartDecode, hwVars
  <2>2. /\ InFlight' = InFlight
        /\ \A d \in InFlight : holderBuf'[inflight'[d]] = holderBuf[inflight[d]]
    BY <1>1, DrainLife DEF StartDecode
  <2> QED BY <2>1, <2>2 DEF LifeInv
<1>2. CASE RejectInput
  BY <1>2, LifeQuiet DEF RejectInput, hwVars, holderVars
<1>3. CASE AcceptInput
  BY <1>3, LifeQuiet DEF AcceptInput, hwVars, holderVars
<1>4. CASE AcquireHolder
  BY <1>4, LifeQuiet DEF AcquireHolder, hwVars, holderVars
<1>5. CASE WaitForHolder
  <2>1. UNCHANGED <<hw, outTasks, outBuf, disturbed, pc>> /\ pc = "holder"
    BY <1>5 DEF WaitForHolder, hwVars
  <2>2. /\ InFlight' = InFlight
        /\ \A d \in InFlight : holderBuf'[inflight'[d]] = holderBuf[inflight[d]]
    BY <1>5, DrainLife DEF WaitForHolder
  <2> QED BY <2>1, <2>2 DEF LifeInv
<1>6. CASE GetBuffer
  BY <1>6, LifeQuiet, <1>a DEF GetBuffer, hwVars, holderVars
<1>7. CASE PrepareFails
  BY <1>7, <1>a, LifeQuiet DEF PrepareFails, Fail, hwVars
<1>8. CASE Submit
  <2> DEFINE t == [frame |-> request, buf |-> outBuf]
  <2>1. /\ t \in Task /\ t.buf = outBuf /\ pc = "submit" /\ pc' = "await"
        /\ hw' = Append(hw, t)
        /\ UNCHANGED <<inflight, holderBuf, outTasks, outBuf, disturbed>>
    BY <1>8 DEF Submit, TypeInv, Slots, Task, holderVars
  <2> HIDE DEF t
  <2>2. /\ Len(hw') = Len(hw) + 1 /\ hw'[Len(hw) + 1] = t
        /\ \A i \in 1 .. Len(hw) : hw'[i] = hw[i]
    BY <2>1, <1>t, AppendProperties
  <2>3. \A i \in 1 .. Len(hw') : i \in 1 .. Len(hw) \/ hw'[i] = t
    BY <2>2, <1>t
  <2>4. InFlight' = InFlight
    BY <2>1 DEF InFlight
  <2> QED BY <2>1, <2>2, <2>3, <2>4 DEF LifeInv
<1>9. CASE HwAnswers
  <2> DEFINE t == Head(hw)
  <2>1. /\ hw # <<>> /\ hw' = Tail(hw) /\ outTasks' = Append(outTasks, t)
        /\ UNCHANGED <<inflight, holderBuf, pc, got, outBuf, outDesc, disturbed>>
    BY <1>9 DEF HwAnswers, holderVars
  <2>2. /\ t \in Task /\ t = hw[1] /\ 1 \in 1 .. Len(hw)
        /\ Len(hw') = Len(hw) - 1
        /\ \A i \in 1 .. Len(hw') : hw'[i] = hw[i + 1] /\ i + 1 \in 1 .. Len(hw)
    <3>1. Len(hw) # 0
      BY <2>1, <1>t, EmptySeq
    <3>2. t \in Task /\ Len(hw') = Len(hw) - 1 /\ \A i \in 1 .. Len(hw') : hw'[i] = hw[i + 1]
      BY <2>1, <1>t, HeadTailProperties
    <3>3. t = hw[1]
      BY <2>1, <1>t
    <3> QED BY <3>1, <3>2, <3>3, <1>t
  <2> HIDE DEF t
  <2>3. /\ Len(outTasks') = Len(outTasks) + 1
        /\ \A i \in 1 .. Len(outTasks) : outTasks'[i] = outTasks[i]
        /\ outTasks'[Len(outTasks) + 1] = t
    BY <2>1, <2>2, <1>t, AppendProperties
  <2>4. \A j \in 1 .. Len(outTasks') :
           (j \in 1 .. Len(outTasks) /\ outTasks'[j] = outTasks[j]) \/ outTasks'[j] = hw[1]
    BY <2>2, <2>3, <1>t
  <2>5. InFlight' = InFlight
    BY <2>1 DEF InFlight
  <2> QED BY <2>1, <2>2, <2>4, <2>5 DEF LifeInv
<1>10. CASE TakeAnswer
  <2>1. /\ outTasks # <<>> /\ outTasks' = Tail(outTasks) /\ got' = Head(outTasks)
        /\ UNCHANGED <<inflight, holderBuf, hw, outBuf, disturbed>>
        /\ pc = "await" /\ pc' = "got"
    BY <1>10 DEF TakeAnswer, holderVars
  <2>2. /\ got' = outTasks[1] /\ 1 \in 1 .. Len(outTasks)
        /\ Len(outTasks') = Len(outTasks) - 1
        /\ \A i \in 1 .. Len(outTasks') : outTasks'[i] = outTasks[i + 1] /\ i + 1 \in 1 .. Len(outTasks)
    <3>1. Len(outTasks) # 0
      BY <2>1, <1>t, EmptySeq
    <3>2. /\ Len(outTasks') = Len(outTasks) - 1
          /\ \A i \in 1 .. Len(outTasks') : outTasks'[i] = outTasks[i + 1]
      BY <2>1, <1>t, HeadTailProperties
    <3>3. got' = outTasks[1]
      BY <2>1, <1>t
    <3> QED BY <3>1, <3>2, <3>3, <1>t
  <2>3. InFlight' = InFlight
    BY <2>1 DEF InFlight
  <2> QED BY <2>1, <2>2, <2>3, <1>t DEF LifeInv
<1>11. CASE AnswerTimeout
  BY <1>11 DEF AnswerTimeout, LifeInv
<1>12. CASE RejectAnswer
  BY <1>12, <1>a, LifeQuiet DEF RejectAnswer, Fail, hwVars
<1>13. CASE InfoChange
  BY <1>13 DEF InfoChange, LifeInv
<1>14. CASE MapAnswer
  <2>1. /\ UNCHANGED <<inflight, holderBuf, hw, outTasks, got, outBuf, disturbed>>
        /\ pc = "got" /\ pc' = "reclaim" /\ got.buf \in {outDesc', None}
    BY <1>14 DEF MapAnswer, hwVars, holderVars
  <2>2. InFlight' = InFlight
    BY <2>1 DEF InFlight
  <2> QED BY <2>1, <2>2, <1>t DEF LifeInv
<1>15. CASE ReclaimInput
  BY <1>15, LifeQuiet DEF ReclaimInput, hwVars, holderVars
<1>16. CASE ReclaimFails
  BY <1>16, <1>a, LifeQuiet DEF ReclaimFails, Fail, hwVars
<1>17. CASE Publish
  <2>1. /\ inflight[outDesc] = None /\ outDesc \in Index /\ holder \in Index
        /\ inflight' = [inflight EXCEPT ![outDesc] = holder]
        /\ holderBuf' = [holderBuf EXCEPT ![holder] = outBuf]
        /\ pc = "publish" /\ pc' = "idle"
        /\ UNCHANGED <<hw, outTasks, disturbed>>
    BY <1>17, <1>t DEF Publish, BufferRecorded, hwVars
  <2>2. InFlight' = InFlight \union {outDesc} /\ outDesc \notin InFlight
    BY <2>1, <1>t DEF InFlight
  <2>3. \A d \in InFlight : inflight[d] \in Index /\ inflight[d] # holder
    <3>1. \A d \in InFlight : inflight[d] \in Recorded /\ inflight[d] \in Index
      BY <1>t DEF Recorded, InFlight
    <3> QED BY <3>1 DEF ConsInv, HoldersConserved
  <2>4. /\ holderBuf'[inflight'[outDesc]] = outBuf
        /\ \A d \in InFlight : holderBuf'[inflight'[d]] = holderBuf[inflight[d]]
    BY <2>1, <2>2, <2>3, <1>t
  <2> QED BY <2>1, <2>2, <2>4, <1>a DEF LifeInv
<1>18. CASE DuplicateOutput
  BY <1>18, <1>a, LifeQuiet DEF DuplicateOutput, Fail, hwVars
<1>19. ASSUME NEW d \in Index, DecQueueOutputForRecycle(d) PROVE LifeInv'
  <2>1. /\ inflight' = [inflight EXCEPT ![d] = None]
        /\ UNCHANGED <<pc, holderBuf, hw, outTasks, got, outBuf, outDesc, disturbed>>
    BY <1>19 DEF DecQueueOutputForRecycle, hwVars
  <2>2. \A c \in InFlight' : c \in InFlight /\ inflight'[c] = inflight[c]
    BY <2>1, <1>t DEF InFlight
  <2> QED BY <2>1, <2>2 DEF LifeInv
<1>20. CASE UNCHANGED vars
  BY <1>20, LifeQuiet DEF vars, hwVars, holderVars
<1> QED
  BY <1>1, <1>2, <1>3, <1>4, <1>5, <1>6, <1>7, <1>8, <1>9, <1>10, <1>11, <1>12, <1>13, <1>14, <1>15, <1>16, <1>17, <1>18, <1>19, <1>20
  DEF Next, Decode

(* While the hardware answers in time and the format stays, an output in    *)
(* flight keeps its buffer from MppDecode and from the hardware.            *)
THEOREM LifetimeHolds == Spec => []LifetimeUntilDisturbed
<1> DEFINE Inv == TypeInv /\ ConsInv /\ AloneInv /\ LifeInv
<1>1. Init => Inv
  BY TypeInit, ConsInit, AloneInit, LifeInit
<1>2. Inv /\ [Next]_vars => Inv'
  BY TypeStep, ConsStep, AloneStep, LifeStep
<1>3. Inv => LifetimeUntilDisturbed
  <2> SUFFICES ASSUME Inv, disturbed = {} PROVE LifetimeControlled
    BY DEF LifetimeUntilDisturbed
  <2>1. \A d \in InFlight : holderBuf[inflight[d]] = d
    BY DEF LifeInv
  <2>2. ASSUME NEW i \in DOMAIN hw PROVE hw[i].buf \notin groupFree \union InFlight
    <3>1. i \in 1 .. Len(hw) /\ Len(hw) \in Nat
      BY LenProperties DEF TypeInv, TypeOK
    <3>2. hw[i].buf = outBuf /\ pc = "await" /\ outBuf \in Index
      BY <3>1 DEF LifeInv, AloneInv, TypeInv, Slots
    <3>3. outBuf \notin groupFree /\ outBuf \notin Kept
      BY DEF ConsInv, BuffersConserved
    <3>4. \A d \in InFlight : d \in Kept
      BY <2>1, NoneApart DEF Kept, InFlight, TypeInv, TypeOK
    <3> QED BY <3>2, <3>3, <3>4
  <2> QED BY <2>1, <2>2 DEF LifetimeControlled
<1> QED BY <1>1, <1>2, <1>3, PTL DEF Spec
=============================================================================
