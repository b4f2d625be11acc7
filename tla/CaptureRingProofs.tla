-------------------------- MODULE CaptureRingProofs --------------------------
(***************************************************************************)
(* What holds of CaptureRing for every number of granted buffers, every    *)
(* depth of readyQueue and every run of the two threads; and that the ring *)
(* implements the channel of FrameFifo.                                    *)
(***************************************************************************)
EXTENDS CaptureRing, QueueLemmas

USE RingAssumption DEF RingAssumption

-----------------------------------------------------------------------------
(* Types                                                                    *)

TypeInv == TypeOK /\ SlotsFilled

LEMMA TypeInit == Init => TypeInv
<1> SUFFICES ASSUME Init PROVE TypeInv
  OBVIOUS
<1>1. /\ done \in Seq(Buffer) /\ readyQueue \in Seq(Buffer)
      /\ recycleQueue \in Seq(Buffer) /\ recycledBatch \in Seq(Buffer)
  BY EmptyQueue DEF Init
<1>2. /\ stamp \in [Buffer -> Timestamp] /\ clock \in Timestamp
      /\ pts \in [Buffer -> Timestamp \union {-1}]
      /\ cpuSync \in [Buffer -> BOOLEAN]
      /\ owner \in [Buffer -> Place]
  BY DEF Init, Timestamp, Place
<1>3. SlotsFilled
  BY DEF Init, SlotsFilled
<1> QED
  BY <1>1, <1>2, <1>3 DEF Init, TypeInv, TypeOK

(* Every action keeps the types, and leaves no thread without the           *)
(* descriptor it works on.                                                  *)
LEMMA TypeStep == TypeInv /\ [Next]_vars => TypeInv'
<1> SUFFICES ASSUME TypeInv, [Next]_vars PROVE TypeInv'
  OBVIOUS
<1> USE DEF TypeInv, TypeOK, SlotsFilled, Timestamp, Place, Owned
<1>1. ASSUME NEW b \in Buffer, Fill(b) PROVE TypeInv'
  BY <1>1, AppendProperties DEF Fill, captureVars, decodeVars
<1>2. CASE RequestStop
  BY <1>2 DEF RequestStop, driverVars, captureVars, decodeVars
<1>3. CASE CaptureExit
  BY <1>3 DEF CaptureExit, driverVars, captureVars, decodeVars
<1>4. CASE DrainRecycleQueue
  BY <1>4, EmptyQueue DEF DrainRecycleQueue, driverVars, captureVars, decodeVars
<1>5. CASE RequeueBuffer
  BY <1>5, HeadTailProperties DEF RequeueBuffer, driverVars, captureVars, decodeVars
<1>6. CASE RequeueFails
  BY <1>6, HeadTailProperties, EmptyQueue DEF RequeueFails, driverVars, captureVars, decodeVars
<1>7. CASE BeginRead
  BY <1>7 DEF BeginRead, driverVars, captureVars, decodeVars
<1>8. CASE ReadRetryable
  BY <1>8 DEF ReadRetryable, driverVars, captureVars, decodeVars
<1>9. CASE ReadFrame
  BY <1>9, HeadTailProperties DEF ReadFrame, driverVars, captureVars, decodeVars
<1>10. CASE ReadFails
  BY <1>10 DEF ReadFails, driverVars, captureVars, decodeVars
<1>11. CASE ReadLosesFrame
  BY <1>11, HeadTailProperties DEF ReadLosesFrame, driverVars, captureVars, decodeVars
<1>12. CASE ReadOversized
  <2>1. done' \in Seq(Buffer) /\ Head(done) \in Buffer
    BY <1>12, HeadTailProperties DEF ReadOversized
  <2>2. queued' \in SUBSET Buffer /\ owner' \in [Buffer -> Place]
    BY <1>12, <2>1 DEF ReadOversized
  <2>3. pts' \in [Buffer -> Timestamp \union {-1}]
    BY <1>12, <2>1 DEF ReadOversized
  <2> QED BY <1>12, <2>1, <2>2, <2>3 DEF ReadOversized, decodeVars
<1>13. CASE PushReady
  BY <1>13, AppendProperties DEF PushReady, driverVars, captureVars, decodeVars
<1>14. CASE PushReadyDropOldest
  <2>1. current \in Buffer /\ readyQueue # <<>>
    BY <1>14, EmptyQueue DEF PushReadyDropOldest
  <2>2. readyQueue' \in Seq(Buffer) /\ Head(readyQueue) \in Buffer
    BY <1>14, <2>1, HeadTailProperties, AppendProperties DEF PushReadyDropOldest
  <2> QED BY <1>14, <2>1, <2>2 DEF PushReadyDropOldest, driverVars, captureVars, decodeVars
<1>15. CASE RecycleDropped
  BY <1>15, AppendProperties DEF RecycleDropped, driverVars, captureVars, decodeVars
<1>16. CASE TakeReady
  BY <1>16, HeadTailProperties DEF TakeReady, driverVars, captureVars, decodeVars
<1>17. CASE DecodeExit
  BY <1>17 DEF DecodeExit, driverVars, captureVars, decodeVars
<1>18. CASE DecodeBegin
  BY <1>18 DEF DecodeBegin, driverVars, captureVars, decodeVars
<1>19. CASE DecodeRejects
  BY <1>19 DEF DecodeRejects, driverVars, captureVars, decodeVars
<1>20. CASE DecodeEnd
  BY <1>20 DEF DecodeEnd, driverVars, captureVars, decodeVars
<1>21. CASE RecycleFrame
  BY <1>21, AppendProperties DEF RecycleFrame, driverVars, captureVars, decodeVars
<1>22. CASE Joined
  BY <1>22 DEF Joined, vars
<1>23. CASE UNCHANGED vars
  BY <1>23 DEF vars
<1> QED
  BY <1>1, <1>2, <1>3, <1>4, <1>5, <1>6, <1>7, <1>8, <1>9, <1>10, <1>11, <1>12, <1>13, <1>14, <1>15, <1>16, <1>17, <1>18, <1>19, <1>20, <1>21, <1>22, <1>23
  DEF Next, Capture, Decode

(* TypeOK holds in every behaviour. *)
THEOREM TypeCorrect == Spec => []TypeOK
<1>1. Init => TypeInv
  BY TypeInit
<1>2. TypeInv /\ [Next]_vars => TypeInv'
  BY TypeStep
<1>3. TypeInv => TypeOK
  BY DEF TypeInv
<1> QED
  BY <1>1, <1>2, <1>3, PTL DEF Spec

-----------------------------------------------------------------------------
(* Ownership                                                                *)

(* A batch exists only while it is being requeued, and a buffer is lost     *)
(* only by the step that ends the capture thread.                           *)
BatchInv == recycledBatch # <<>> => capPc = "requeue"
LostInv == OwnedBy("lost") # {} => fatal /\ stop /\ capPc = "exited"

OwnershipInv == TypeInv /\ Ownership /\ BatchInv /\ LostInv

(* When one buffer changes hands, only the two places it moves between      *)
(* change.                                                                  *)
LEMMA Moved ==
    ASSUME TypeOK, NEW b \in Buffer, NEW from, NEW to, from # to,
           owner[b] = from, Owned(b, to)
    PROVE  /\ OwnedBy(to)' = OwnedBy(to) \union {b} /\ b \notin OwnedBy(to)
           /\ OwnedBy(from)' = OwnedBy(from) \ {b} /\ b \in OwnedBy(from)
           /\ \A q : q # from /\ q # to => OwnedBy(q)' = OwnedBy(q)
BY DEF TypeOK, Owned, OwnedBy

(* Steps that move nothing leave every place as it was. *)
LEMMA Unmoved ==
    ASSUME UNCHANGED owner
    PROVE  \A q : OwnedBy(q)' = OwnedBy(q)
BY DEF OwnedBy

LEMMA OwnershipInit == Init => OwnershipInv
<1> SUFFICES ASSUME Init PROVE OwnershipInv
  OBVIOUS
<1>1. TypeInv
  BY TypeInit
<1>2. OwnedBy("queued") = Buffer /\ \A q : q # "queued" => OwnedBy(q) = {}
  BY DEF Init, OwnedBy
<1>3. Ownership
  BY <1>2, EmptyQueue DEF Init, Ownership, QueueHolds, SlotHolds
<1> QED
  BY <1>1, <1>2, <1>3 DEF OwnershipInv, BatchInv, LostInv, Init
(* Every action moves buffers the way the ownership invariant says. *)
LEMMA OwnershipStep == OwnershipInv /\ [Next]_vars => OwnershipInv'
<1> SUFFICES ASSUME OwnershipInv, [Next]_vars
             PROVE  Ownership' /\ BatchInv' /\ LostInv'
  BY TypeStep DEF OwnershipInv
<1>0. TypeInv /\ TypeOK /\ SlotsFilled /\ Ownership /\ BatchInv /\ LostInv
  BY DEF OwnershipInv, TypeInv
<1> USE <1>0 DEF Ownership, QueueHolds, SlotHolds, BatchInv, LostInv
<1>1. ASSUME NEW b \in Buffer, Fill(b)
      PROVE  Ownership' /\ BatchInv' /\ LostInv'
  <2>1. owner[b] = "queued" /\ Owned(b, "done")
    BY <1>1 DEF Fill, OwnedBy
  <2>2. /\ OwnedBy("done")' = OwnedBy("done") \union {b} /\ b \notin OwnedBy("done")
        /\ OwnedBy("queued")' = OwnedBy("queued") \ {b}
        /\ \A q : q # "queued" /\ q # "done" => OwnedBy(q)' = OwnedBy(q)
    BY <2>1, Moved
  <2>3. QueueHolds(done, "done")'
    <3>1. /\ done \in Seq(Buffer) /\ IsInjective(done)
          /\ b \in Buffer /\ b \notin Range(done)
          /\ done' = Append(done, b)
      BY <1>1, <2>2 DEF Fill, TypeOK
    <3>2. IsInjective(done') /\ Range(done') = Range(done) \union {b}
      BY <3>1, AppendDistinct
    <3> QED BY <3>2, <2>2
  <2> QED BY <1>1, <2>2, <2>3 DEF Fill, captureVars, decodeVars
<1>2. CASE RequestStop
  BY <1>2, Unmoved DEF RequestStop, driverVars, captureVars, decodeVars
<1>3. CASE CaptureExit
  BY <1>3, Unmoved DEF CaptureExit, driverVars, captureVars, decodeVars
<1>4. CASE DrainRecycleQueue
  <2>1. recycledBatch = <<>> /\ OwnedBy("batch") = {}
    BY <1>4, EmptyQueue DEF DrainRecycleQueue
  <2>2. /\ OwnedBy("batch")' = OwnedBy("recycle") /\ OwnedBy("recycle")' = {}
        /\ \A q : q # "batch" /\ q # "recycle" => OwnedBy(q)' = OwnedBy(q)
    BY <1>4, <2>1 DEF DrainRecycleQueue, OwnedBy, TypeOK
  <2>3. QueueHolds(recycleQueue, "recycle")' /\ QueueHolds(recycledBatch, "batch")'
    BY <1>4, <2>2, EmptyQueue DEF DrainRecycleQueue
  <2> QED BY <1>4, <2>2, <2>3 DEF DrainRecycleQueue, driverVars, decodeVars
<1>5. CASE RequeueBuffer
  <2> DEFINE b == Head(recycledBatch)
  <2>1. b \in Buffer /\ owner[b] = "batch" /\ Owned(b, "queued")
    BY <1>5, HeadInRange DEF RequeueBuffer, TypeOK, SlotsFilled, OwnedBy
  <2>2. /\ OwnedBy("queued")' = OwnedBy("queued") \union {b} /\ b \notin OwnedBy("queued")
        /\ OwnedBy("batch")' = OwnedBy("batch") \ {b} /\ b \in OwnedBy("batch")
        /\ \A q : q # "batch" /\ q # "queued" => OwnedBy(q)' = OwnedBy(q)
    BY <2>1, Moved
  <2>3. QueueHolds(recycledBatch, "batch")'
    BY <1>5, <2>1, <2>2, TailDistinct DEF RequeueBuffer, TypeOK
  <2> QED BY <1>5, <2>1, <2>2, <2>3 DEF RequeueBuffer, TypeOK, SlotsFilled, driverVars, captureVars, decodeVars
<1>6. CASE RequeueFails
  <2>1. /\ OwnedBy("batch")' = {} /\ OwnedBy("lost")' = OwnedBy("lost") \union OwnedBy("batch")
        /\ \A q : q # "batch" /\ q # "lost" => OwnedBy(q)' = OwnedBy(q)
    BY <1>6 DEF RequeueFails, OwnedBy, TypeOK
  <2>2. QueueHolds(recycledBatch, "batch")'
    BY <1>6, <2>1, EmptyQueue DEF RequeueFails
  <2> QED BY <1>6, <2>1, <2>2 DEF RequeueFails, driverVars, decodeVars
<1>7. CASE BeginRead
  BY <1>7, Unmoved DEF BeginRead, driverVars, captureVars, decodeVars
<1>8. CASE ReadRetryable
  BY <1>8, Unmoved DEF ReadRetryable, driverVars, captureVars, decodeVars
<1>9. CASE ReadFrame
  <2> DEFINE b == Head(done)
  <2>1. b \in Buffer /\ owner[b] = "done" /\ Owned(b, "current")
    BY <1>9, HeadInRange DEF ReadFrame, TypeOK, SlotsFilled, OwnedBy
  <2>2. /\ OwnedBy("current")' = OwnedBy("current") \union {b} /\ b \notin OwnedBy("current")
        /\ OwnedBy("done")' = OwnedBy("done") \ {b} /\ b \in OwnedBy("done")
        /\ \A q : q # "done" /\ q # "current" => OwnedBy(q)' = OwnedBy(q)
    BY <2>1, Moved
  <2>3. QueueHolds(done, "done")'
    BY <1>9, <2>1, <2>2, TailDistinct DEF ReadFrame, TypeOK
  <2> QED BY <1>9, <2>1, <2>2, <2>3 DEF ReadFrame, TypeOK, SlotsFilled, driverVars, captureVars, decodeVars
<1>10. CASE ReadFails
  BY <1>10, Unmoved DEF ReadFails, driverVars, captureVars, decodeVars
<1>11. CASE ReadLosesFrame
  <2> DEFINE b == Head(done)
  <2>1. b \in Buffer /\ owner[b] = "done" /\ Owned(b, "lost")
    BY <1>11, HeadInRange DEF ReadLosesFrame, TypeOK, SlotsFilled, OwnedBy
  <2>2. /\ OwnedBy("lost")' = OwnedBy("lost") \union {b} /\ b \notin OwnedBy("lost")
        /\ OwnedBy("done")' = OwnedBy("done") \ {b} /\ b \in OwnedBy("done")
        /\ \A q : q # "done" /\ q # "lost" => OwnedBy(q)' = OwnedBy(q)
    BY <2>1, Moved
  <2>3. QueueHolds(done, "done")'
    BY <1>11, <2>1, <2>2, TailDistinct DEF ReadLosesFrame, TypeOK
  <2> QED BY <1>11, <2>1, <2>2, <2>3 DEF ReadLosesFrame, TypeOK, SlotsFilled, driverVars, captureVars, decodeVars
<1>12. CASE ReadOversized
  <2> DEFINE b == Head(done)
  <2>1. b \in Buffer /\ owner[b] = "done"
    BY <1>12, HeadInRange DEF ReadOversized, TypeOK, OwnedBy
  <2>2. ASSUME NEW to \in {"queued", "lost"}, Owned(b, to),
               queued' = IF to = "queued" THEN queued \union {b} ELSE queued
        PROVE  Ownership' /\ BatchInv' /\ LostInv'
    <3>1. /\ OwnedBy(to)' = OwnedBy(to) \union {b}
          /\ OwnedBy("done")' = OwnedBy("done") \ {b}
          /\ \A q : q # "done" /\ q # to => OwnedBy(q)' = OwnedBy(q)
      BY <2>1, <2>2, Moved
    <3>2. QueueHolds(done, "done")'
      BY <1>12, <3>1, TailDistinct DEF ReadOversized, TypeOK
    <3> QED BY <1>12, <2>2, <3>1, <3>2 DEF ReadOversized, decodeVars
  <2> QED BY <1>12, <2>2 DEF ReadOversized
<1>13. CASE PushReady
  <2> DEFINE b == current
  <2>1. b \in Buffer /\ owner[b] = "current" /\ Owned(b, "ready")
    BY <1>13 DEF PushReady, TypeOK, SlotsFilled, OwnedBy
  <2>2. /\ OwnedBy("ready")' = OwnedBy("ready") \union {b} /\ b \notin OwnedBy("ready")
        /\ OwnedBy("current")' = OwnedBy("current") \ {b} /\ b \in OwnedBy("current")
        /\ \A q : q # "current" /\ q # "ready" => OwnedBy(q)' = OwnedBy(q)
    BY <2>1, Moved
  <2>3. QueueHolds(readyQueue, "ready")'
    <3>1. /\ readyQueue \in Seq(Buffer) /\ IsInjective(readyQueue)
          /\ b \in Buffer /\ b \notin Range(readyQueue)
          /\ readyQueue' = Append(readyQueue, b)
      BY <1>13, <2>1, <2>2 DEF PushReady, TypeOK
    <3>2. IsInjective(readyQueue') /\ Range(readyQueue') = Range(readyQueue) \union {b}
      BY <3>1, AppendDistinct
    <3> QED BY <3>2, <2>1, <2>2
  <2> QED BY <1>13, <2>1, <2>2, <2>3 DEF PushReady, TypeOK, SlotsFilled, driverVars, captureVars, decodeVars
<1>14. CASE PushReadyDropOldest
  <2> DEFINE c == current
             h == Head(readyQueue)
  <2>1. /\ readyQueue # <<>> /\ c \in Buffer /\ owner[c] = "current"
        /\ h \in Buffer /\ owner[h] = "ready"
    <3>1. readyQueue # <<>>
      BY <1>14, EmptyQueue DEF PushReadyDropOldest
    <3> QED BY <1>14, <3>1, HeadInRange DEF PushReadyDropOldest, TypeOK, SlotsFilled, OwnedBy
  <2>2. /\ OwnedBy("ready")' = (OwnedBy("ready") \ {h}) \union {c}
        /\ OwnedBy("dropped")' = OwnedBy("dropped") \union {h}
        /\ OwnedBy("current")' = OwnedBy("current") \ {c}
        /\ \A q : q \notin {"ready", "dropped", "current"} => OwnedBy(q)' = OwnedBy(q)
    BY <1>14, <2>1 DEF PushReadyDropOldest, OwnedBy, TypeOK
  <2>3. /\ Tail(readyQueue) \in Seq(Buffer) /\ IsInjective(Tail(readyQueue))
        /\ Range(Tail(readyQueue)) = OwnedBy("ready") \ {h}
    BY <2>1, TailDistinct DEF TypeOK
  <2>4. c \notin Range(Tail(readyQueue))
    BY <2>1, <2>3 DEF OwnedBy
  <2>5. QueueHolds(readyQueue, "ready")'
    <3>1. /\ Tail(readyQueue) \in Seq(Buffer) /\ IsInjective(Tail(readyQueue))
          /\ c \in Buffer /\ c \notin Range(Tail(readyQueue))
          /\ readyQueue' = Append(Tail(readyQueue), c)
      BY <1>14, <2>1, <2>2, <2>3, <2>4 DEF PushReadyDropOldest, TypeOK
    <3>2. \A t \in Seq(Buffer) : IsInjective(t) /\ c \notin Range(t) =>
            IsInjective(Append(t, c)) /\ Range(Append(t, c)) = Range(t) \union {c}
      BY <3>1, AppendDistinct
    <3>3. IsInjective(readyQueue') /\ Range(readyQueue') = Range(Tail(readyQueue)) \union {c}
      BY <3>1, <3>2, Zenon
    <3> QED BY <3>3, <2>2, <2>3
  <2> QED BY <1>14, <2>2, <2>5 DEF PushReadyDropOldest, driverVars, decodeVars
<1>15. CASE RecycleDropped
  <2> DEFINE b == droppedDesc
  <2>1. b \in Buffer /\ owner[b] = "dropped" /\ Owned(b, "recycle")
    BY <1>15 DEF RecycleDropped, TypeOK, SlotsFilled, OwnedBy
  <2>2. /\ OwnedBy("recycle")' = OwnedBy("recycle") \union {b} /\ b \notin OwnedBy("recycle")
        /\ OwnedBy("dropped")' = OwnedBy("dropped") \ {b} /\ b \in OwnedBy("dropped")
        /\ \A q : q # "dropped" /\ q # "recycle" => OwnedBy(q)' = OwnedBy(q)
    BY <2>1, Moved
  <2>3. QueueHolds(recycleQueue, "recycle")'
    <3>1. /\ recycleQueue \in Seq(Buffer) /\ IsInjective(recycleQueue)
          /\ b \in Buffer /\ b \notin Range(recycleQueue)
          /\ recycleQueue' = Append(recycleQueue, b)
      BY <1>15, <2>1, <2>2 DEF RecycleDropped, TypeOK
    <3>2. IsInjective(recycleQueue') /\ Range(recycleQueue') = Range(recycleQueue) \union {b}
      BY <3>1, AppendDistinct
    <3> QED BY <3>2, <2>1, <2>2
  <2> QED BY <1>15, <2>1, <2>2, <2>3 DEF RecycleDropped, TypeOK, SlotsFilled, driverVars, captureVars, decodeVars
<1>16. CASE TakeReady
  <2> DEFINE b == Head(readyQueue)
  <2>1. b \in Buffer /\ owner[b] = "ready" /\ Owned(b, "held")
    BY <1>16, HeadInRange DEF TakeReady, TypeOK, SlotsFilled, OwnedBy
  <2>2. /\ OwnedBy("held")' = OwnedBy("held") \union {b} /\ b \notin OwnedBy("held")
        /\ OwnedBy("ready")' = OwnedBy("ready") \ {b} /\ b \in OwnedBy("ready")
        /\ \A q : q # "ready" /\ q # "held" => OwnedBy(q)' = OwnedBy(q)
    BY <2>1, Moved
  <2>3. QueueHolds(readyQueue, "ready")'
    BY <1>16, <2>1, <2>2, TailDistinct DEF TakeReady, TypeOK
  <2> QED BY <1>16, <2>1, <2>2, <2>3 DEF TakeReady, TypeOK, SlotsFilled, driverVars, captureVars, decodeVars
<1>17. CASE DecodeExit
  BY <1>17, Unmoved DEF DecodeExit, driverVars, captureVars, decodeVars
<1>18. CASE DecodeBegin
  BY <1>18, Unmoved DEF DecodeBegin, driverVars, captureVars, decodeVars
<1>19. CASE DecodeRejects
  BY <1>19, Unmoved DEF DecodeRejects, driverVars, captureVars, decodeVars
<1>20. CASE DecodeEnd
  BY <1>20, Unmoved DEF DecodeEnd, driverVars, captureVars, decodeVars
<1>21. CASE RecycleFrame
  <2> DEFINE b == held
  <2>1. b \in Buffer /\ owner[b] = "held" /\ Owned(b, "recycle")
    BY <1>21 DEF RecycleFrame, TypeOK, SlotsFilled, OwnedBy
  <2>2. /\ OwnedBy("recycle")' = OwnedBy("recycle") \union {b} /\ b \notin OwnedBy("recycle")
        /\ OwnedBy("held")' = OwnedBy("held") \ {b} /\ b \in OwnedBy("held")
        /\ \A q : q # "held" /\ q # "recycle" => OwnedBy(q)' = OwnedBy(q)
    BY <2>1, Moved
  <2>3. QueueHolds(recycleQueue, "recycle")'
    <3>1. /\ recycleQueue \in Seq(Buffer) /\ IsInjective(recycleQueue)
          /\ b \in Buffer /\ b \notin Range(recycleQueue)
          /\ recycleQueue' = Append(recycleQueue, b)
      BY <1>21, <2>1, <2>2 DEF RecycleFrame, TypeOK
    <3>2. IsInjective(recycleQueue') /\ Range(recycleQueue') = Range(recycleQueue) \union {b}
      BY <3>1, AppendDistinct
    <3> QED BY <3>2, <2>1, <2>2
  <2> QED BY <1>21, <2>1, <2>2, <2>3 DEF RecycleFrame, TypeOK, SlotsFilled, driverVars, captureVars, decodeVars
<1>22. CASE Joined
  BY <1>22, Unmoved DEF Joined, vars
<1>23. CASE UNCHANGED vars
  BY <1>23, Unmoved DEF vars
<1> QED
  BY <1>1, <1>2, <1>3, <1>4, <1>5, <1>6, <1>7, <1>8, <1>9, <1>10, <1>11, <1>12, <1>13, <1>14, <1>15, <1>16, <1>17, <1>18, <1>19, <1>20, <1>21, <1>22, <1>23
  DEF Next, Capture, Decode

(* Every buffer is in exactly one place, whatever the order in which the    *)
(* two threads, the driver and the failures take their steps.               *)
THEOREM OwnershipHolds == Spec => []Ownership
<1>1. Init => OwnershipInv
  BY OwnershipInit
<1>2. OwnershipInv /\ [Next]_vars => OwnershipInv'
  BY OwnershipStep
<1>3. OwnershipInv => Ownership
  BY DEF OwnershipInv
<1> QED
  BY <1>1, <1>2, <1>3, PTL DEF Spec

(* No buffer leaves the ring while the process runs on. *)
THEOREM LostOnlyOnFailureHolds == Spec => []LostOnlyOnFailure
<1>1. Init => OwnershipInv
  BY OwnershipInit
<1>2. OwnershipInv /\ [Next]_vars => OwnershipInv'
  BY OwnershipStep
<1>3. OwnershipInv => LostOnlyOnFailure
  BY DEF OwnershipInv, LostInv, LostOnlyOnFailure
<1> QED
  BY <1>1, <1>2, <1>3, PTL DEF Spec
-----------------------------------------------------------------------------
(* The driver never starves                                                 *)

InHand == IF held = NoBuf THEN 0 ELSE 1

(* From the moment the capture thread has emptied recycleQueue until it     *)
(* returns from poll, frames only move on from readyQueue to the decode     *)
(* thread to recycleQueue, so that these hold one frame more than           *)
(* readyQueue alone can.                                                    *)
DepthInv ==
    /\ Len(readyQueue) <= ReadyDepth
    /\ capPc \in {"requeue", "read"} =>
         Len(readyQueue) + Len(recycleQueue) + InHand <= ReadyDepth + 1

LEMMA DepthInit == Init => DepthInv
<1> SUFFICES ASSUME Init PROVE DepthInv
  OBVIOUS
<1> QED BY EmptyQueue DEF Init, DepthInv, InHand

LEMMA DepthStep == TypeInv /\ DepthInv /\ [Next]_vars => DepthInv'
<1> SUFFICES ASSUME TypeInv, DepthInv, [Next]_vars PROVE DepthInv'
  OBVIOUS
<1>0. /\ readyQueue \in Seq(Buffer) /\ recycleQueue \in Seq(Buffer)
      /\ Len(readyQueue) \in Nat /\ Len(recycleQueue) \in Nat
      /\ ReadyDepth \in Nat \ {0}
  BY LenProperties DEF TypeInv, TypeOK
<1> USE <1>0 DEF DepthInv, InHand
<1>1. ASSUME NEW b \in Buffer, Fill(b) PROVE DepthInv'
  BY <1>1 DEF Fill, captureVars, decodeVars
<1>2. CASE RequestStop
  BY <1>2 DEF RequestStop, driverVars, captureVars, decodeVars
<1>3. CASE CaptureExit
  BY <1>3 DEF CaptureExit, driverVars, captureVars, decodeVars
<1>4. CASE DrainRecycleQueue
  <2>1. Len(recycleQueue') = 0 /\ readyQueue' = readyQueue /\ held' = held
    BY <1>4, EmptyQueue DEF DrainRecycleQueue, decodeVars
  <2> QED BY <2>1
<1>5. CASE RequeueBuffer
  BY <1>5 DEF RequeueBuffer, driverVars, captureVars, decodeVars
<1>6. CASE RequeueFails
  BY <1>6 DEF RequeueFails, decodeVars
<1>7. CASE BeginRead
  BY <1>7 DEF BeginRead, driverVars, captureVars, decodeVars
<1>8. CASE ReadRetryable
  BY <1>8 DEF ReadRetryable, driverVars, captureVars, decodeVars
<1>9. CASE ReadFrame
  BY <1>9 DEF ReadFrame, driverVars, captureVars, decodeVars
<1>10. CASE ReadFails
  BY <1>10 DEF ReadFails, driverVars, captureVars, decodeVars
<1>11. CASE ReadLosesFrame
  BY <1>11 DEF ReadLosesFrame, driverVars, captureVars, decodeVars
<1>12. CASE ReadOversized
  BY <1>12 DEF ReadOversized, driverVars, captureVars, decodeVars
<1>13. CASE PushReady
  <2>1. Len(readyQueue') = Len(readyQueue) + 1 /\ capPc' = "drain"
    BY <1>13, AppendProperties DEF PushReady, TypeInv, TypeOK, SlotsFilled
  <2> QED BY <1>13, <2>1 DEF PushReady
<1>14. CASE PushReadyDropOldest
  <2>1. current \in Buffer /\ readyQueue # <<>>
    BY <1>14, EmptyQueue DEF PushReadyDropOldest, TypeInv, TypeOK, SlotsFilled
  <2>2. Tail(readyQueue) \in Seq(Buffer) /\ Len(Tail(readyQueue)) = Len(readyQueue) - 1
    BY <2>1, HeadTailProperties
  <2>3. Len(readyQueue') = Len(readyQueue) /\ capPc' = "drop"
    BY <1>14, <2>1, <2>2, AppendProperties DEF PushReadyDropOldest
  <2> QED BY <2>3
<1>15. CASE RecycleDropped
  BY <1>15 DEF RecycleDropped, driverVars, captureVars, decodeVars
<1>16. CASE TakeReady
  <2>1. Len(readyQueue') = Len(readyQueue) - 1
    BY <1>16, HeadTailProperties DEF TakeReady
  <2>2. held = NoBuf /\ recycleQueue' = recycleQueue /\ capPc' = capPc
    BY <1>16 DEF TakeReady, TypeInv, SlotsFilled, captureVars
  <2> QED BY <2>1, <2>2
<1>17. CASE DecodeExit
  BY <1>17 DEF DecodeExit, driverVars, captureVars, decodeVars
<1>18. CASE DecodeBegin
  BY <1>18 DEF DecodeBegin, driverVars, captureVars, decodeVars
<1>19. CASE DecodeRejects
  BY <1>19 DEF DecodeRejects, driverVars, captureVars, decodeVars
<1>20. CASE DecodeEnd
  BY <1>20 DEF DecodeEnd, driverVars, captureVars, decodeVars
<1>21. CASE RecycleFrame
  <2>1. held \in Buffer
    BY <1>21 DEF RecycleFrame, TypeInv, TypeOK, SlotsFilled
  <2>2. Len(recycleQueue') = Len(recycleQueue) + 1
    BY <1>21, <2>1, AppendProperties DEF RecycleFrame
  <2>3. held # NoBuf /\ held' = NoBuf /\ readyQueue' = readyQueue /\ capPc' = capPc
    BY <1>21, <2>1 DEF RecycleFrame, captureVars
  <2> QED BY <2>2, <2>3
<1>22. CASE Joined
  BY <1>22 DEF Joined, vars
<1>23. CASE UNCHANGED vars
  BY <1>23 DEF vars
<1> QED
  BY <1>1, <1>2, <1>3, <1>4, <1>5, <1>6, <1>7, <1>8, <1>9, <1>10, <1>11, <1>12, <1>13, <1>14, <1>15, <1>16, <1>17, <1>18, <1>19, <1>20, <1>21, <1>22, <1>23
  DEF Next, Capture, Decode

(* A driver without a buffer means that the two queues and the decode       *)
(* thread hold all of them, which are too many.                             *)
LEMMA StarvationNeedsFewBuffers ==
    ASSUME OwnershipInv, DepthInv, Cardinality(Buffer) > ReadyDepth + 1
    PROVE  DriverNeverStarves
<1> SUFFICES ASSUME capPc = "read", queued = {}, done = <<>> PROVE FALSE
  BY DEF DriverNeverStarves
<1> USE DEF OwnershipInv, TypeInv
<1> DEFINE H == IF held = NoBuf THEN {} ELSE {held}
           Q == Range(readyQueue) \union Range(recycleQueue)
<1>1. /\ readyQueue \in Seq(Buffer) /\ recycleQueue \in Seq(Buffer)
      /\ Len(readyQueue) \in Nat /\ Len(recycleQueue) \in Nat
  BY LenProperties DEF TypeOK
<1>2. /\ OwnedBy("queued") = {} /\ OwnedBy("done") = {} /\ OwnedBy("batch") = {}
      /\ OwnedBy("current") = {} /\ OwnedBy("dropped") = {} /\ OwnedBy("lost") = {}
      /\ OwnedBy("ready") = Range(readyQueue)
      /\ OwnedBy("recycle") = Range(recycleQueue)
      /\ OwnedBy("held") \subseteq H
  BY EmptyQueue DEF Ownership, QueueHolds, SlotHolds, BatchInv, LostInv, SlotsFilled
<1>3. Buffer \subseteq Q \union H
  <2> SUFFICES ASSUME NEW b \in Buffer PROVE b \in Q \union H
    OBVIOUS
  <2>1. owner[b] \in Place /\ b \in OwnedBy(owner[b])
    BY DEF TypeOK, OwnedBy
  <2> QED BY <1>2, <2>1 DEF Place
<1>4. IsFiniteSet(Q) /\ Cardinality(Q) \in Nat
      /\ Cardinality(Q) <= Len(readyQueue) + Len(recycleQueue)
  <2> DEFINE R == Range(readyQueue)
             C == Range(recycleQueue)
  <2>1. /\ IsFiniteSet(R) /\ Cardinality(R) \in Nat /\ Cardinality(R) <= Len(readyQueue)
        /\ IsFiniteSet(C) /\ Cardinality(C) \in Nat /\ Cardinality(C) <= Len(recycleQueue)
    BY <1>1, RangeCardinality
  <2>2. IsFiniteSet(R \intersect C) /\ Cardinality(R \intersect C) \in Nat
    BY <2>1, FS_Intersection, FS_CardinalityType
  <2>3. IsFiniteSet(Q) /\ Cardinality(Q) = Cardinality(R) + Cardinality(C) - Cardinality(R \intersect C)
    BY <2>1, FS_Union
  <2> HIDE DEF R, C
  <2> QED BY <2>1, <2>2, <2>3, <1>1, FS_CardinalityType
<1>5. IsFiniteSet(H) /\ Cardinality(H) = InHand
  BY FS_EmptySet, FS_Singleton DEF InHand
<1>6. IsFiniteSet(Q \union H) /\ Cardinality(Q \union H) <= Cardinality(Q) + InHand
  <2>1. IsFiniteSet(Q \intersect H) /\ Cardinality(Q \intersect H) \in Nat
    BY <1>4, FS_Intersection, FS_CardinalityType
  <2>2. IsFiniteSet(Q \union H)
        /\ Cardinality(Q \union H) = Cardinality(Q) + Cardinality(H) - Cardinality(Q \intersect H)
    BY <1>4, <1>5, FS_Union
  <2>3. InHand \in Nat
    BY DEF InHand
  <2> HIDE DEF Q, H
  <2> QED BY <2>1, <2>2, <2>3, <1>4, <1>5
<1>7. Cardinality(Buffer) <= Cardinality(Q \union H) /\ Cardinality(Buffer) \in Nat
      /\ Cardinality(Q \union H) \in Nat
  BY <1>3, <1>6, FS_Subset, FS_CardinalityType
<1>8. Len(readyQueue) + Len(recycleQueue) + InHand <= ReadyDepth + 1
  BY DEF DepthInv
<1>9. InHand \in Nat
  BY DEF InHand
<1> HIDE DEF Q, H, OwnershipInv, TypeInv
<1> QED BY <1>1, <1>4, <1>6, <1>7, <1>8, <1>9

(* With two buffers more than readyQueue may hold, the driver always has    *)
(* one while the capture thread polls, however slow the decoder is.  The    *)
(* code requests 16 for a depth of 12, and accepts any number the driver    *)
(* grants.                                                                  *)
THEOREM DriverNeverStarvesHolds ==
    Cardinality(Buffer) > ReadyDepth + 1 => (Spec => []DriverNeverStarves)
<1> SUFFICES ASSUME Cardinality(Buffer) > ReadyDepth + 1
             PROVE  Spec => []DriverNeverStarves
  OBVIOUS
<1> DEFINE Inv == OwnershipInv /\ DepthInv
<1>1. Init => Inv
  BY OwnershipInit, DepthInit
<1>2. Inv /\ [Next]_vars => Inv'
  BY OwnershipStep, DepthStep DEF OwnershipInv
<1>3. Inv => DriverNeverStarves
  BY StarvationNeedsFewBuffers
<1> QED
  BY <1>1, <1>2, <1>3, PTL DEF Spec
-----------------------------------------------------------------------------
(* Access to the buffers, and their content                                 *)

(* Seen from the buffer: its CPU window is open on the way to the decoder   *)
(* and closed in the driver, and it keeps the timestamp it was filled with  *)
(* until it is given back.                                                  *)
AccessInv ==
    /\ \A b \in Buffer :
         /\ owner[b] \in {"queued", "done"} => ~cpuSync[b]
         /\ owner[b] \in {"current", "ready"} => cpuSync[b]
         /\ owner[b] \in {"current", "ready", "dropped", "held"} => pts[b] = stamp[b]
    /\ decPc = "decode" => cpuSync[held]
    /\ decPc = "hardware" => ~cpuSync[held]

LEMMA AccessInit == Init => AccessInv
BY DEF Init, AccessInv

LEMMA AccessStep == OwnershipInv /\ AccessInv /\ [Next]_vars => AccessInv'
<1> SUFFICES ASSUME OwnershipInv, AccessInv, [Next]_vars PROVE AccessInv'
  OBVIOUS
<1>0. TypeOK /\ SlotsFilled /\ Ownership
  BY DEF OwnershipInv, TypeInv
<1>h. /\ decPc \in {"decode", "hardware", "recycle"} => held \in Buffer /\ owner[held] = "held"
      /\ \A b \in Buffer : owner[b] = "held" => held = b /\ decPc \in {"decode", "hardware", "recycle"}
  BY <1>0 DEF Ownership, SlotHolds, OwnedBy, TypeOK, SlotsFilled
<1>t. /\ owner \in [Buffer -> Place] /\ cpuSync \in [Buffer -> BOOLEAN]
      /\ pts \in [Buffer -> Timestamp \union {-1}] /\ stamp \in [Buffer -> Timestamp]
  BY <1>0 DEF TypeOK
<1> USE <1>h, <1>t DEF AccessInv, Owned
<1>1. ASSUME NEW b \in Buffer, Fill(b) PROVE AccessInv'
  <2>1. owner[b] = "queued"
    BY <1>1, <1>0 DEF Fill, Ownership, OwnedBy
  <2>2. clock' \in Timestamp
    BY <1>1 DEF Fill
  <2> QED BY <1>1, <2>1, <2>2 DEF Fill, captureVars, decodeVars
<1>2. CASE RequestStop
  BY <1>2 DEF RequestStop, driverVars, captureVars, decodeVars
<1>3. CASE CaptureExit
  BY <1>3 DEF CaptureExit, driverVars, captureVars, decodeVars
<1>4. CASE DrainRecycleQueue
  BY <1>4 DEF DrainRecycleQueue, driverVars, captureVars, decodeVars
<1>5. CASE RequeueBuffer
  <2> DEFINE b == Head(recycledBatch)
  <2>1. b \in Buffer /\ owner[b] = "batch"
    BY <1>5, <1>0, HeadInRange DEF RequeueBuffer, TypeOK, Ownership, QueueHolds, OwnedBy
  <2> HIDE DEF b
  <2> QED BY <1>5, <2>1 DEF RequeueBuffer, b, driverVars, captureVars, decodeVars
<1>6. CASE RequeueFails
  <2> DEFINE b == Head(recycledBatch)
  <2>1. b \in Buffer /\ owner[b] = "batch"
    BY <1>6, <1>0, HeadInRange DEF RequeueFails, TypeOK, Ownership, QueueHolds, OwnedBy
  <2> HIDE DEF b
  <2> QED BY <1>6, <2>1 DEF RequeueFails, b, driverVars, captureVars, decodeVars
<1>7. CASE BeginRead
  BY <1>7 DEF BeginRead, driverVars, captureVars, decodeVars
<1>8. CASE ReadRetryable
  BY <1>8 DEF ReadRetryable, driverVars, captureVars, decodeVars
<1>9. CASE ReadFrame
  <2> DEFINE b == Head(done)
  <2>1. b \in Buffer /\ owner[b] = "done"
    BY <1>9, <1>0, HeadInRange DEF ReadFrame, TypeOK, Ownership, QueueHolds, OwnedBy
  <2> HIDE DEF b
  <2> QED BY <1>9, <2>1 DEF ReadFrame, b, driverVars, captureVars, decodeVars
<1>10. CASE ReadFails
  BY <1>10 DEF ReadFails, driverVars, captureVars, decodeVars
<1>11. CASE ReadLosesFrame
  <2> DEFINE b == Head(done)
  <2>1. b \in Buffer /\ owner[b] = "done"
    BY <1>11, <1>0, HeadInRange DEF ReadLosesFrame, TypeOK, Ownership, QueueHolds, OwnedBy
  <2> HIDE DEF b
  <2> QED BY <1>11, <2>1 DEF ReadLosesFrame, b, driverVars, captureVars, decodeVars
<1>12. CASE ReadOversized
  <2> DEFINE b == Head(done)
  <2>1. b \in Buffer /\ owner[b] = "done"
    BY <1>12, <1>0, HeadInRange DEF ReadOversized, TypeOK, Ownership, QueueHolds, OwnedBy
  <2> HIDE DEF b
  <2> QED BY <1>12, <2>1 DEF ReadOversized, b, driverVars, captureVars, decodeVars
<1>13. CASE PushReady
  <2>1. current \in Buffer /\ owner[current] = "current"
    BY <1>13, <1>0 DEF PushReady, TypeOK, SlotsFilled, Ownership, SlotHolds, OwnedBy
  <2> QED BY <1>13, <2>1 DEF PushReady, driverVars, captureVars, decodeVars
<1>14. CASE PushReadyDropOldest
  <2>1. current \in Buffer /\ owner[current] = "current"
    BY <1>14, <1>0 DEF PushReadyDropOldest, TypeOK, SlotsFilled, Ownership, SlotHolds, OwnedBy
  <2>2. readyQueue # <<>>
    BY <1>14, <1>0, EmptyQueue DEF PushReadyDropOldest
  <2>3. Head(readyQueue) \in Buffer /\ owner[Head(readyQueue)] = "ready"
    BY <2>2, <1>0, HeadInRange DEF TypeOK, Ownership, QueueHolds, OwnedBy
  <2> QED BY <1>14, <2>1, <2>3 DEF PushReadyDropOldest, driverVars, decodeVars
<1>15. CASE RecycleDropped
  <2>1. droppedDesc \in Buffer /\ owner[droppedDesc] = "dropped"
    BY <1>15, <1>0 DEF RecycleDropped, TypeOK, SlotsFilled, Ownership, SlotHolds, OwnedBy
  <2> QED BY <1>15, <2>1 DEF RecycleDropped, driverVars, captureVars, decodeVars
<1>16. CASE TakeReady
  <2> DEFINE b == Head(readyQueue)
  <2>1. b \in Buffer /\ owner[b] = "ready"
    BY <1>16, <1>0, HeadInRange DEF TakeReady, TypeOK, Ownership, QueueHolds, OwnedBy
  <2> HIDE DEF b
  <2> QED BY <1>16, <2>1 DEF TakeReady, b, driverVars, captureVars, decodeVars
<1>17. CASE DecodeExit
  BY <1>17 DEF DecodeExit, driverVars, captureVars, decodeVars
<1>18. CASE DecodeBegin
  BY <1>18 DEF DecodeBegin, driverVars, captureVars, decodeVars
<1>19. CASE DecodeRejects
  BY <1>19 DEF DecodeRejects, driverVars, captureVars, decodeVars
<1>20. CASE DecodeEnd
  BY <1>20 DEF DecodeEnd, driverVars, captureVars, decodeVars
<1>21. CASE RecycleFrame
  BY <1>21 DEF RecycleFrame, driverVars, captureVars, decodeVars
<1>22. CASE Joined
  BY <1>22 DEF Joined, vars
<1>23. CASE UNCHANGED vars
  BY <1>23 DEF vars
<1> QED
  BY <1>1, <1>2, <1>3, <1>4, <1>5, <1>6, <1>7, <1>8, <1>9, <1>10, <1>11, <1>12, <1>13, <1>14, <1>15, <1>16, <1>17, <1>18, <1>19, <1>20, <1>21, <1>22, <1>23
  DEF Next, Capture, Decode

(* Driver and decoder hardware never touch a buffer inside the CPU's read   *)
(* window, and the decode thread never scans a JPEG outside it.             *)
THEOREM CpuWindowHolds == Spec => []CpuWindow
<1> DEFINE Inv == OwnershipInv /\ AccessInv
<1>1. Init => Inv
  BY OwnershipInit, AccessInit
<1>2. Inv /\ [Next]_vars => Inv'
  BY OwnershipStep, AccessStep
<1>3. Inv => CpuWindow
  BY DEF OwnershipInv, AccessInv, Ownership, QueueHolds, OwnedBy, CpuWindow
<1> QED
  BY <1>1, <1>2, <1>3, PTL DEF Spec

(* A frame is decoded with the content it was captured with. *)
THEOREM ContentIntactHolds == Spec => []ContentIntact
<1> DEFINE Inv == OwnershipInv /\ AccessInv
<1>1. Init => Inv
  BY OwnershipInit, AccessInit
<1>2. Inv /\ [Next]_vars => Inv'
  BY OwnershipStep, AccessStep
<1>3. Inv => ContentIntact
  BY DEF OwnershipInv, AccessInv, Ownership, QueueHolds, OwnedBy, ContentIntact
<1> QED
  BY <1>1, <1>2, <1>3, PTL DEF Spec
-----------------------------------------------------------------------------
(* The order of the frames                                                  *)

(* How far a captured frame has to go before it is decoded; 0 for a buffer  *)
(* without such a frame.                                                    *)
stage == [b \in Buffer |->
    IF owner[b] = "done" THEN 4
    ELSE IF owner[b] = "current" THEN 3
    ELSE IF owner[b] = "ready" THEN 2
    ELSE IF owner[b] = "held" /\ decPc = "decode" THEN 1 ELSE 0]

(* Frames that are further behind are younger, and none is older than what  *)
(* was decoded last.                                                        *)
ClockInv == decoded <= clock /\ \A b \in Buffer : stamp[b] <= clock
StageInv == \A a, b \in Buffer : stage[a] > 0 /\ stage[a] < stage[b] => stamp[a] <= stamp[b]
DecodedInv == \A b \in Buffer : stage[b] > 0 => decoded <= stamp[b]
SortedInv == SortedBy(done, stamp) /\ SortedBy(readyQueue, stamp)
DropInv == capPc = "drop" =>
             \A b \in Buffer : stage[b] = 2 => stamp[droppedDesc] <= stamp[b]

OrderInv == ClockInv /\ StageInv /\ DecodedInv /\ SortedInv /\ DropInv

OrderTypes ==
    /\ stage \in [Buffer -> 0 .. 4] /\ stamp \in [Buffer -> Int]
    /\ clock \in Int /\ decoded \in Int

LEMMA OrderTypesHold == ASSUME TypeOK PROVE OrderTypes
<1>1. stage \in [Buffer -> 0 .. 4]
  BY DEF stage
<1>2. stamp \in [Buffer -> Int] /\ clock \in Int /\ decoded \in Int
  BY DEF TypeOK, Timestamp
<1> QED BY <1>1, <1>2 DEF OrderTypes

LEMMA OrderInit == Init => OrderInv
<1> SUFFICES ASSUME Init PROVE OrderInv
  OBVIOUS
<1>1. \A b \in Buffer : stage[b] = 0 /\ stamp[b] = 0
  BY DEF Init, stage
<1>2. SortedBy(<<>>, stamp)
  BY DEF SortedBy
<1> QED
  BY <1>1, <1>2 DEF Init, OrderInv, ClockInv, StageInv, DecodedInv, SortedInv, DropInv

(* A step that moves no frame towards the decoder keeps the order. *)
LEMMA OrderQuiet ==
    ASSUME OrderInv, OrderTypes,
           UNCHANGED <<stamp, clock, decoded, done, readyQueue>>,
           \A b \in Buffer : stage'[b] = stage[b] \/ stage'[b] = 0,
           capPc' = "drop" => capPc = "drop" /\ droppedDesc' = droppedDesc
    PROVE  OrderInv'
<1>1. ClockInv' /\ SortedInv'
  BY DEF OrderInv, ClockInv, SortedInv
<1>2. StageInv' /\ DecodedInv'
  BY DEF OrderInv, OrderTypes, StageInv, DecodedInv
<1>3. DropInv'
  BY DEF OrderInv, DropInv
<1> QED BY <1>1, <1>2, <1>3 DEF OrderInv

LEMMA OrderStep == OwnershipInv /\ AccessInv /\ OrderInv /\ [Next]_vars => OrderInv'
<1> SUFFICES ASSUME OwnershipInv, AccessInv, OrderInv, [Next]_vars PROVE OrderInv'
  OBVIOUS
<1>o. TypeOK /\ SlotsFilled /\ Ownership
  BY DEF OwnershipInv, TypeInv
<1>p. \A b \in Buffer : stage[b] \in 0 .. 4 /\ stage'[b] \in 0 .. 4
  BY DEF stage
<1>t. OrderTypes /\ owner \in [Buffer -> Place] /\ done \in Seq(Buffer) /\ readyQueue \in Seq(Buffer)
  BY <1>o, OrderTypesHold DEF TypeOK
<1>r. /\ Range(done) = {b \in Buffer : owner[b] = "done"}
      /\ Range(readyQueue) = {b \in Buffer : owner[b] = "ready"}
  BY <1>o DEF Ownership, QueueHolds, OwnedBy
<1>h. /\ decPc \in {"decode", "hardware", "recycle"} => held \in Buffer /\ owner[held] = "held"
      /\ \A b \in Buffer : owner[b] = "held" => held = b /\ decPc \in {"decode", "hardware", "recycle"}
  BY <1>o DEF Ownership, SlotHolds, OwnedBy, TypeOK, SlotsFilled
<1>c. /\ capPc = "push" => current \in Buffer /\ owner[current] = "current"
      /\ \A b \in Buffer : owner[b] = "current" => b = current /\ capPc = "push"
  BY <1>o DEF TypeOK, SlotsFilled, Ownership, SlotHolds, OwnedBy
<1>d. capPc = "drop" => droppedDesc \in Buffer /\ owner[droppedDesc] = "dropped"
  BY <1>o DEF TypeOK, SlotsFilled, Ownership, SlotHolds, OwnedBy
<1>s. /\ \A b \in Buffer : (stage[b] = 4 <=> owner[b] = "done") /\ (stage[b] = 3 <=> owner[b] = "current")
      /\ \A b \in Buffer : (stage[b] = 2 <=> owner[b] = "ready")
                        /\ (stage[b] = 1 <=> owner[b] = "held" /\ decPc = "decode")
  BY DEF stage
<1>i. ClockInv /\ StageInv /\ DecodedInv /\ SortedInv /\ DropInv
  BY DEF OrderInv
<1>1. ASSUME NEW b \in Buffer, Fill(b) PROVE OrderInv'
  <2>1. /\ owner[b] = "queued" /\ owner' = [owner EXCEPT ![b] = "done"]
        /\ clock' \in Int /\ clock' >= clock
        /\ stamp' = [stamp EXCEPT ![b] = clock'] /\ done' = Append(done, b)
        /\ UNCHANGED <<readyQueue, decoded, decPc, capPc, droppedDesc>>
    BY <1>1, <1>o DEF Fill, Owned, Ownership, OwnedBy, captureVars, decodeVars, Timestamp
  <2>2. stamp' \in [Buffer -> Int] /\ stamp'[b] = clock' /\ \A x \in Buffer \ {b} : stamp'[x] = stamp[x]
    BY <2>1, <1>t DEF OrderTypes
  <2>3. stage'[b] = 4 /\ \A x \in Buffer \ {b} : stage'[x] = stage[x]
    BY <2>1, <1>t DEF stage
  <2>4. b \notin Range(done) /\ b \notin Range(readyQueue)
    BY <2>1, <1>r
  <2>5. ClockInv'
    BY <2>1, <2>2, <1>i, <1>t DEF ClockInv, OrderTypes
  <2>6. StageInv'
    <3> SUFFICES ASSUME NEW x \in Buffer, NEW y \in Buffer, stage'[x] > 0, stage'[x] < stage'[y]
                 PROVE  stamp'[x] <= stamp'[y]
      BY DEF StageInv
    <3>1. CASE y = b
      BY <3>1, <2>2, <2>5 DEF ClockInv
    <3>2. CASE y # b
      <4>1. stage'[y] = stage[y] /\ stage[y] \in 0 .. 4
        BY <3>2, <2>3, <1>p
      <4>2. x # b
        BY <4>1, <2>3
      <4> QED BY <3>2, <4>2, <2>2, <2>3, <1>i DEF StageInv
    <3> QED BY <3>1, <3>2
  <2>7. DecodedInv'
    <3>1. decoded <= clock' /\ decoded' = decoded
      BY <2>1, <1>i, <1>t DEF ClockInv, OrderTypes
    <3> QED BY <3>1, <2>2, <2>3, <1>i DEF DecodedInv
  <2>8. SortedInv'
    <3>1. SortedBy(done, stamp') /\ SortedBy(readyQueue, stamp')
      BY <2>2, <2>4, <1>r, <1>i, SortedSame DEF SortedInv
    <3>2. \A x \in Range(done) : stamp'[x] <= stamp'[b]
      BY <2>2, <2>5, <1>r DEF ClockInv
    <3>3. SortedBy(Append(done, b), stamp')
      BY <2>2, <3>1, <3>2, <1>t, SortedAppend
    <3> QED BY <2>1, <3>1, <3>3 DEF SortedInv
  <2>9. DropInv'
    BY <2>1, <2>2, <2>3, <1>d, <1>i DEF DropInv
  <2> QED BY <2>5, <2>6, <2>7, <2>8, <2>9 DEF OrderInv
<1>2. CASE RequestStop
  <2>1. UNCHANGED <<stamp, clock, decoded, done, readyQueue>>
        /\ (capPc' = "drop" => capPc = "drop" /\ droppedDesc' = droppedDesc)
    BY <1>2 DEF RequestStop, driverVars, captureVars, decodeVars
  <2>2. \A b \in Buffer : stage'[b] = stage[b] \/ stage'[b] = 0
    BY <1>2, <1>t DEF RequestStop, driverVars, captureVars, decodeVars, stage, Owned
  <2> QED BY <2>1, <2>2, <1>t, OrderQuiet
<1>3. CASE CaptureExit
  <2>1. UNCHANGED <<stamp, clock, decoded, done, readyQueue>>
        /\ (capPc' = "drop" => capPc = "drop" /\ droppedDesc' = droppedDesc)
    BY <1>3 DEF CaptureExit, driverVars, captureVars, decodeVars
  <2>2. \A b \in Buffer : stage'[b] = stage[b] \/ stage'[b] = 0
    BY <1>3, <1>t DEF CaptureExit, driverVars, captureVars, decodeVars, stage, Owned
  <2> QED BY <2>1, <2>2, <1>t, OrderQuiet
<1>4. CASE DrainRecycleQueue
  <2>1. UNCHANGED <<stamp, clock, decoded, done, readyQueue>>
        /\ (capPc' = "drop" => capPc = "drop" /\ droppedDesc' = droppedDesc)
    BY <1>4 DEF DrainRecycleQueue, driverVars, captureVars, decodeVars
  <2>2. \A b \in Buffer : stage'[b] = stage[b] \/ stage'[b] = 0
    BY <1>4, <1>t DEF DrainRecycleQueue, driverVars, captureVars, decodeVars, stage, Owned
  <2> QED BY <2>1, <2>2, <1>t, OrderQuiet
<1>5. CASE RequeueBuffer
  <2>1. UNCHANGED <<stamp, clock, decoded, decPc, done, readyQueue>> /\ capPc' # "drop"
    BY <1>5 DEF RequeueBuffer, driverVars, decodeVars
  <2>2. \A x \in Buffer :
          owner'[x] = owner[x] \/ (owner[x] = "batch" /\ owner'[x] \in {"queued", "lost"})
    <3>1. Head(recycledBatch) \in Buffer /\ owner[Head(recycledBatch)] = "batch"
      BY <1>5, <1>o, HeadInRange DEF RequeueBuffer, TypeOK, Ownership, QueueHolds, OwnedBy
    <3>2. owner' = [owner EXCEPT ![Head(recycledBatch)] = "queued"]
      BY <1>5 DEF RequeueBuffer, Owned
    <3> QED BY <3>1, <3>2, <1>t
  <2>3. \A b \in Buffer : stage'[b] = stage[b]
    BY <2>1, <2>2 DEF stage
  <2> QED BY <2>1, <2>3, <1>t, OrderQuiet
<1>6. CASE RequeueFails
  <2>1. UNCHANGED <<stamp, clock, decoded, decPc, done, readyQueue>> /\ capPc' # "drop"
    BY <1>6 DEF RequeueFails, driverVars, decodeVars
  <2>2. \A x \in Buffer :
          owner'[x] = owner[x] \/ (owner[x] = "batch" /\ owner'[x] \in {"queued", "lost"})
    <3>1. owner' = [b \in Buffer |-> IF owner[b] = "batch" THEN "lost" ELSE owner[b]]
      BY <1>6 DEF RequeueFails
    <3> QED BY <3>1
  <2>3. \A b \in Buffer : stage'[b] = stage[b]
    BY <2>1, <2>2 DEF stage
  <2> QED BY <2>1, <2>3, <1>t, OrderQuiet
<1>7. CASE BeginRead
  <2>1. UNCHANGED <<stamp, clock, decoded, done, readyQueue>>
        /\ (capPc' = "drop" => capPc = "drop" /\ droppedDesc' = droppedDesc)
    BY <1>7 DEF BeginRead, driverVars, captureVars, decodeVars
  <2>2. \A b \in Buffer : stage'[b] = stage[b] \/ stage'[b] = 0
    BY <1>7, <1>t DEF BeginRead, driverVars, captureVars, decodeVars, stage, Owned
  <2> QED BY <2>1, <2>2, <1>t, OrderQuiet
<1>8. CASE ReadRetryable
  <2>1. UNCHANGED <<stamp, clock, decoded, done, readyQueue>>
        /\ (capPc' = "drop" => capPc = "drop" /\ droppedDesc' = droppedDesc)
    BY <1>8 DEF ReadRetryable, driverVars, captureVars, decodeVars
  <2>2. \A b \in Buffer : stage'[b] = stage[b] \/ stage'[b] = 0
    BY <1>8, <1>t DEF ReadRetryable, driverVars, captureVars, decodeVars, stage, Owned
  <2> QED BY <2>1, <2>2, <1>t, OrderQuiet
<1>9. CASE ReadFrame
  <2> DEFINE b == Head(done)
  <2>1. b \in Buffer /\ owner[b] = "done" /\ done # <<>>
    BY <1>9, <1>t, <1>r, HeadInRange DEF ReadFrame
  <2>2. /\ owner' = [owner EXCEPT ![b] = "current"] /\ done' = Tail(done)
        /\ UNCHANGED <<stamp, clock, readyQueue, decoded, decPc>>
        /\ capPc # "push" /\ capPc' # "drop"
    BY <1>9 DEF ReadFrame, Owned, decodeVars
  <2>3. SortedBy(Tail(done), stamp) /\ \A x \in Range(done) : stamp[b] <= stamp[x]
    BY <2>1, <1>i, <1>t, SortedTail DEF SortedInv
  <2> HIDE DEF b
  <2>4. stage'[b] = 3 /\ \A x \in Buffer \ {b} : stage'[x] = stage[x]
    BY <2>1, <2>2, <1>t DEF stage
  <2>5. stage[b] = 4 /\ \A x \in Buffer : stage[x] # 3 /\ (stage[x] = 4 => stamp[b] <= stamp[x])
    BY <2>1, <2>2, <2>3, <1>c, <1>r, <1>s
  <2>6. StageInv'
    <3> SUFFICES ASSUME NEW x \in Buffer, NEW y \in Buffer, stage'[x] > 0, stage'[x] < stage'[y]
                 PROVE  stamp[x] <= stamp[y]
      BY <2>2 DEF StageInv
    <3>1. CASE x = b
      <4>1. y # b /\ stage[y] = stage'[y] /\ stage[y] \in 0 .. 4 /\ stage[y] > 3
        BY <3>1, <2>4, <1>p
      <4> QED BY <4>1, <3>1, <2>5
    <3>2. CASE y = b
      <4>1. x # b /\ stage[x] = stage'[x] /\ stage[x] < 4
        BY <3>2, <2>4, <1>p
      <4> QED BY <4>1, <3>2, <2>5, <1>i DEF StageInv
    <3>3. CASE x # b /\ y # b
      BY <3>3, <2>4, <1>i DEF StageInv
    <3> QED BY <3>1, <3>2, <3>3
  <2>7. DecodedInv'
    BY <2>2, <2>4, <2>5, <1>i DEF DecodedInv
  <2>8. ClockInv' /\ SortedInv' /\ DropInv'
    BY <2>2, <2>3, <1>i DEF ClockInv, SortedInv, DropInv
  <2> QED BY <2>6, <2>7, <2>8 DEF OrderInv
<1>10. CASE ReadFails
  <2>1. UNCHANGED <<stamp, clock, decoded, done, readyQueue>>
        /\ (capPc' = "drop" => capPc = "drop" /\ droppedDesc' = droppedDesc)
    BY <1>10 DEF ReadFails, driverVars, captureVars, decodeVars
  <2>2. \A b \in Buffer : stage'[b] = stage[b] \/ stage'[b] = 0
    BY <1>10, <1>t DEF ReadFails, driverVars, captureVars, decodeVars, stage, Owned
  <2> QED BY <2>1, <2>2, <1>t, OrderQuiet
<1>11. CASE ReadLosesFrame
  <2> DEFINE b == Head(done)
  <2>1. b \in Buffer /\ owner[b] = "done" /\ done # <<>>
    BY <1>11, <1>t, <1>r, HeadInRange DEF ReadLosesFrame
  <2>2. /\ owner' = [owner EXCEPT ![b] = "lost"] \/ owner' = [owner EXCEPT ![b] = "queued"]
        /\ done' = Tail(done) /\ capPc' # "drop"
        /\ UNCHANGED <<stamp, clock, readyQueue, decoded, decPc>>
    BY <1>11 DEF ReadLosesFrame, Owned, decodeVars
  <2>3. SortedBy(Tail(done), stamp)
    BY <2>1, <1>i, <1>t, SortedTail DEF SortedInv
  <2> HIDE DEF b
  <2>4. stage'[b] = 0 /\ \A x \in Buffer \ {b} : stage'[x] = stage[x]
    BY <2>1, <2>2, <1>t DEF stage
  <2>5. StageInv'
    <3> SUFFICES ASSUME NEW x \in Buffer, NEW y \in Buffer, stage'[x] > 0, stage'[x] < stage'[y]
                 PROVE  stamp[x] <= stamp[y]
      BY <2>2 DEF StageInv
    <3>1. x # b /\ y # b
      BY <2>4, <1>p
    <3> QED BY <3>1, <2>4, <1>i DEF StageInv
  <2>7. DecodedInv'
    BY <2>2, <2>4, <1>i DEF DecodedInv
  <2>6. ClockInv' /\ SortedInv' /\ DropInv'
    BY <2>2, <2>3, <1>i DEF ClockInv, SortedInv, DropInv
  <2> QED BY <2>5, <2>6, <2>7 DEF OrderInv
<1>12. CASE ReadOversized
  <2> DEFINE b == Head(done)
  <2>1. b \in Buffer /\ owner[b] = "done" /\ done # <<>>
    BY <1>12, <1>t, <1>r, HeadInRange DEF ReadOversized
  <2>2. /\ owner' = [owner EXCEPT ![b] = "lost"] \/ owner' = [owner EXCEPT ![b] = "queued"]
        /\ done' = Tail(done) /\ capPc' # "drop"
        /\ UNCHANGED <<stamp, clock, readyQueue, decoded, decPc>>
    BY <1>12 DEF ReadOversized, Owned, decodeVars
  <2>3. SortedBy(Tail(done), stamp)
    BY <2>1, <1>i, <1>t, SortedTail DEF SortedInv
  <2> HIDE DEF b
  <2>4. stage'[b] = 0 /\ \A x \in Buffer \ {b} : stage'[x] = stage[x]
    BY <2>1, <2>2, <1>t DEF stage
  <2>5. StageInv'
    <3> SUFFICES ASSUME NEW x \in Buffer, NEW y \in Buffer, stage'[x] > 0, stage'[x] < stage'[y]
                 PROVE  stamp[x] <= stamp[y]
      BY <2>2 DEF StageInv
    <3>1. x # b /\ y # b
      BY <2>4, <1>p
    <3> QED BY <3>1, <2>4, <1>i DEF StageInv
  <2>7. DecodedInv'
    BY <2>2, <2>4, <1>i DEF DecodedInv
  <2>6. ClockInv' /\ SortedInv' /\ DropInv'
    BY <2>2, <2>3, <1>i DEF ClockInv, SortedInv, DropInv
  <2> QED BY <2>5, <2>6, <2>7 DEF OrderInv
<1>13. CASE PushReady
  <2>1. /\ owner' = [owner EXCEPT ![current] = "ready"]
        /\ readyQueue' = Append(readyQueue, current)
        /\ UNCHANGED <<done, stamp, clock, decoded, decPc>>
        /\ capPc = "push" /\ capPc' # "drop"
    BY <1>13 DEF PushReady, Owned, driverVars, decodeVars
  <2>2. current \in Buffer /\ stage[current] = 3 /\ \A x \in Buffer : stage[x] = 3 => x = current
    BY <2>1, <1>c, <1>s
  <2>3. stage'[current] = 2 /\ \A x \in Buffer \ {current} : stage'[x] = stage[x]
    BY <2>1, <2>2, <1>t DEF stage
  <2>4. StageInv'
    <3> SUFFICES ASSUME NEW x \in Buffer, NEW y \in Buffer, stage'[x] > 0, stage'[x] < stage'[y]
                 PROVE  stamp[x] <= stamp[y]
      BY <2>1 DEF StageInv
    <3>1. CASE x = current
      <4>1. y # current /\ stage[y] = stage'[y] /\ stage[y] > 3
        BY <3>1, <2>3, <2>2, <1>p
      <4> QED BY <4>1, <3>1, <2>2, <1>i DEF StageInv
    <3>2. CASE y = current
      <4>1. x # current /\ stage[x] = stage'[x] /\ stage[x] < 3
        BY <3>2, <2>3, <2>2, <1>p
      <4> QED BY <4>1, <3>2, <2>2, <1>i DEF StageInv
    <3>3. CASE x # current /\ y # current
      BY <3>3, <2>3, <1>i, <1>t, <1>p DEF StageInv, OrderTypes
    <3> QED BY <3>1, <3>2, <3>3
  <2>5. DecodedInv'
    BY <2>1, <2>2, <2>3, <1>i DEF DecodedInv
  <2>6. SortedInv'
    <3>1. \A x \in Range(readyQueue) : x \in Buffer /\ stage[x] = 2
      BY <1>r, <1>s
    <3>2. \A x \in Range(readyQueue) : stamp[x] <= stamp[current]
      BY <3>1, <2>2, <1>i DEF StageInv
    <3>3. SortedBy(Append(readyQueue, current), stamp)
      BY <3>2, <2>2, <1>i, <1>t, SortedAppend DEF SortedInv, OrderTypes
    <3> QED BY <2>1, <3>3, <1>i DEF SortedInv
  <2>7. ClockInv' /\ DropInv'
    BY <2>1, <1>i DEF ClockInv, DropInv
  <2> QED BY <2>4, <2>5, <2>6, <2>7 DEF OrderInv
<1>14. CASE PushReadyDropOldest
  <2> DEFINE h == Head(readyQueue)
             t == Tail(readyQueue)
  <2>1. readyQueue # <<>>
    BY <1>14, EmptyQueue DEF PushReadyDropOldest
  <2>2. /\ h \in Buffer /\ owner[h] = "ready"
        /\ t \in Seq(Buffer) /\ Range(t) \subseteq Range(readyQueue)
    BY <2>1, <1>t, <1>r, HeadInRange, TailDistinct
  <2>3. SortedBy(t, stamp) /\ \A x \in Range(readyQueue) : stamp[h] <= stamp[x]
    BY <2>1, <1>i, <1>t, SortedTail DEF SortedInv
  <2>4. /\ owner' = [owner EXCEPT ![current] = "ready", ![h] = "dropped"]
        /\ readyQueue' = Append(t, current) /\ droppedDesc' = h
        /\ UNCHANGED <<done, stamp, clock, decoded, decPc>>
        /\ capPc = "push"
    BY <1>14 DEF PushReadyDropOldest, driverVars, decodeVars
  <2> HIDE DEF h, t
  <2>5. /\ current \in Buffer /\ stage[current] = 3
        /\ \A x \in Buffer : stage[x] = 3 => x = current
        /\ h # current
    BY <2>2, <2>4, <1>c, <1>s
  <2>6. /\ stage'[current] = 2 /\ stage'[h] = 0
        /\ \A x \in Buffer \ {current, h} : stage'[x] = stage[x]
    BY <2>2, <2>4, <2>5, <1>t DEF stage
  <2>7. \A x \in Range(readyQueue) : x \in Buffer /\ stage[x] = 2
    BY <1>r, <1>s
  <2>8. \A x \in Range(readyQueue) : stamp[x] <= stamp[current]
    BY <2>5, <2>7, <1>i DEF StageInv
  <2>9. StageInv'
    <3> SUFFICES ASSUME NEW x \in Buffer, NEW y \in Buffer, stage'[x] > 0, stage'[x] < stage'[y]
                 PROVE  stamp[x] <= stamp[y]
      BY <2>4 DEF StageInv
    <3>0. x # h /\ y # h
      <4>1. stage'[y] # 0
        BY <1>p
      <4> QED BY <4>1, <2>6
    <3>1. CASE x = current
      <4>1. y # current /\ stage[y] = stage'[y] /\ stage[y] > 3
        BY <3>0, <3>1, <2>5, <2>6, <1>p
      <4> QED BY <4>1, <3>1, <2>5, <1>i DEF StageInv
    <3>2. CASE y = current
      <4>1. x # current /\ stage[x] = stage'[x] /\ stage[x] < 3
        BY <3>0, <3>2, <2>5, <2>6, <1>p
      <4> QED BY <4>1, <3>2, <2>5, <1>i DEF StageInv
    <3>3. CASE x # current /\ y # current
      BY <3>0, <3>3, <2>6, <1>i DEF StageInv
    <3> QED BY <3>1, <3>2, <3>3
  <2>10. DecodedInv'
    BY <2>4, <2>5, <2>6, <1>i DEF DecodedInv
  <2>11. SortedInv'
    <3>1. \A x \in Range(t) : stamp[x] <= stamp[current]
      BY <2>2, <2>8
    <3>2. SortedBy(Append(t, current), stamp)
      BY <3>1, <2>2, <2>3, <2>5, <1>t, SortedAppend DEF OrderTypes
    <3> QED BY <2>4, <3>2, <1>i DEF SortedInv
  <2>12. DropInv'
    <3>1. stamp[h] <= stamp[current]
      BY <2>2, <2>8, <1>r
    <3>2. \A x \in Buffer : stage[x] = 2 => stamp[h] <= stamp[x]
      BY <2>3, <1>r, <1>s
    <3> QED BY <3>1, <3>2, <2>4, <2>5, <2>6 DEF DropInv
  <2>13. ClockInv'
    BY <2>4, <1>i DEF ClockInv
  <2> QED BY <2>9, <2>10, <2>11, <2>12, <2>13 DEF OrderInv
<1>15. CASE RecycleDropped
  <2>1. UNCHANGED <<stamp, clock, decoded, done, readyQueue>>
        /\ (capPc' = "drop" => capPc = "drop" /\ droppedDesc' = droppedDesc)
    BY <1>15 DEF RecycleDropped, driverVars, captureVars, decodeVars
  <2>2. \A b \in Buffer : stage'[b] = stage[b] \/ stage'[b] = 0
    BY <1>15, <1>t, <1>d DEF RecycleDropped, driverVars, captureVars, decodeVars, stage, Owned
  <2> QED BY <2>1, <2>2, <1>t, OrderQuiet
<1>16. CASE TakeReady
  <2> DEFINE h == Head(readyQueue)
  <2>1. readyQueue # <<>> /\ h \in Buffer /\ owner[h] = "ready"
    BY <1>16, <1>t, <1>r, HeadInRange DEF TakeReady
  <2>2. SortedBy(Tail(readyQueue), stamp) /\ \A x \in Range(readyQueue) : stamp[h] <= stamp[x]
    BY <2>1, <1>i, <1>t, SortedTail DEF SortedInv
  <2>3. /\ owner' = [owner EXCEPT ![h] = "held"] /\ readyQueue' = Tail(readyQueue)
        /\ UNCHANGED <<done, stamp, clock, decoded, capPc, droppedDesc>>
        /\ decPc = "wait" /\ decPc' = "decode"
    BY <1>16 DEF TakeReady, Owned, driverVars, captureVars
  <2> HIDE DEF h
  <2>4. \A x \in Buffer : owner[x] # "held" /\ stage[x] # 1
    BY <2>3, <1>h, <1>s
  <2>5. stage[h] = 2 /\ stage'[h] = 1 /\ \A x \in Buffer \ {h} : stage'[x] = stage[x]
    BY <2>1, <2>3, <2>4, <1>t DEF stage
  <2>6. \A x \in Buffer : stage[x] = 2 => stamp[h] <= stamp[x]
    BY <2>2, <1>r, <1>s
  <2>7. StageInv'
    <3> SUFFICES ASSUME NEW x \in Buffer, NEW y \in Buffer, stage'[x] > 0, stage'[x] < stage'[y]
                 PROVE  stamp[x] <= stamp[y]
      BY <2>3 DEF StageInv
    <3>1. CASE x = h
      <4>1. y # h /\ stage[y] = stage'[y] /\ stage[y] \in 0 .. 4 /\ stage[y] > 1
        BY <3>1, <2>5, <1>p
      <4>2. CASE stage[y] = 2
        BY <4>2, <3>1, <2>6
      <4>3. CASE stage[y] > 2
        BY <4>3, <3>1, <2>1, <2>5, <1>i DEF StageInv
      <4> QED BY <4>1, <4>2, <4>3
    <3>2. CASE x # h
      <4>1. stage[x] = stage'[x] /\ stage[x] \in 0 .. 4 /\ stage[x] > 1
        BY <3>2, <2>4, <2>5, <1>p
      <4>2. y # h
        BY <4>1, <2>5
      <4> QED BY <4>1, <4>2, <2>5, <1>i DEF StageInv
    <3> QED BY <3>1, <3>2
  <2>8. DecodedInv'
    BY <2>1, <2>3, <2>5, <1>i DEF DecodedInv
  <2>9. ClockInv' /\ SortedInv'
    BY <2>2, <2>3, <1>i DEF ClockInv, SortedInv
  <2>10. DropInv'
    BY <2>3, <2>5, <1>i DEF DropInv
  <2> QED BY <2>7, <2>8, <2>9, <2>10 DEF OrderInv
<1>17. CASE DecodeExit
  <2>1. UNCHANGED <<stamp, clock, decoded, done, readyQueue>>
        /\ (capPc' = "drop" => capPc = "drop" /\ droppedDesc' = droppedDesc)
    BY <1>17 DEF DecodeExit, driverVars, captureVars, decodeVars
  <2>2. \A b \in Buffer : stage'[b] = stage[b] \/ stage'[b] = 0
    BY <1>17, <1>t DEF DecodeExit, driverVars, captureVars, decodeVars, stage, Owned
  <2> QED BY <2>1, <2>2, <1>t, OrderQuiet
<1>18. CASE DecodeBegin
  <2>1. /\ held \in Buffer /\ owner[held] = "held" /\ decPc = "decode" /\ decPc' = "hardware"
        /\ decoded' = stamp[held]
        /\ UNCHANGED <<done, stamp, clock, readyQueue, owner, capPc, droppedDesc>>
    BY <1>18, <1>h DEF DecodeBegin, AccessInv, driverVars, captureVars
  <2>2. stage[held] = 1 /\ \A x \in Buffer : stage[x] = 1 => x = held
    BY <2>1, <1>h, <1>s
  <2>3. stage'[held] = 0 /\ \A x \in Buffer \ {held} : stage'[x] = stage[x]
    BY <2>1, <1>h DEF stage
  <2>4. \A x \in Buffer : stage'[x] > 0 => x # held /\ stage[x] > 1 /\ stage[x] = stage'[x]
    BY <2>2, <2>3, <1>p
  <2>5. DecodedInv'
    BY <2>1, <2>2, <2>4, <1>i DEF DecodedInv, StageInv
  <2>6. StageInv'
    <3> SUFFICES ASSUME NEW x \in Buffer, NEW y \in Buffer, stage'[x] > 0, stage'[x] < stage'[y]
                 PROVE  stamp[x] <= stamp[y]
      BY <2>1 DEF StageInv
    <3>1. y # held
      BY <2>3, <1>p
    <3> QED BY <3>1, <2>3, <2>4, <1>i DEF StageInv
  <2>7. ClockInv' /\ SortedInv' /\ DropInv'
    BY <2>1, <2>2, <2>3, <1>i DEF ClockInv, SortedInv, DropInv
  <2> QED BY <2>5, <2>6, <2>7 DEF OrderInv
<1>19. CASE DecodeRejects
  <2>1. UNCHANGED <<stamp, clock, decoded, done, readyQueue>>
        /\ (capPc' = "drop" => capPc = "drop" /\ droppedDesc' = droppedDesc)
    BY <1>19 DEF DecodeRejects, driverVars, captureVars, decodeVars
  <2>2. \A b \in Buffer : stage'[b] = stage[b] \/ stage'[b] = 0
    BY <1>19, <1>t DEF DecodeRejects, driverVars, captureVars, decodeVars, stage, Owned
  <2> QED BY <2>1, <2>2, <1>t, OrderQuiet
<1>20. CASE DecodeEnd
  <2>1. UNCHANGED <<stamp, clock, decoded, done, readyQueue>>
        /\ (capPc' = "drop" => capPc = "drop" /\ droppedDesc' = droppedDesc)
    BY <1>20 DEF DecodeEnd, driverVars, captureVars, decodeVars
  <2>2. \A b \in Buffer : stage'[b] = stage[b] \/ stage'[b] = 0
    BY <1>20, <1>t DEF DecodeEnd, driverVars, captureVars, decodeVars, stage, Owned
  <2> QED BY <2>1, <2>2, <1>t, OrderQuiet
<1>21. CASE RecycleFrame
  <2>1. UNCHANGED <<stamp, clock, decoded, done, readyQueue>>
        /\ (capPc' = "drop" => capPc = "drop" /\ droppedDesc' = droppedDesc)
    BY <1>21 DEF RecycleFrame, driverVars, captureVars, decodeVars
  <2>2. \A b \in Buffer : stage'[b] = stage[b] \/ stage'[b] = 0
    BY <1>21, <1>t, <1>h DEF RecycleFrame, driverVars, captureVars, decodeVars, stage, Owned
  <2> QED BY <2>1, <2>2, <1>t, OrderQuiet
<1>22. CASE Joined
  <2>1. UNCHANGED <<stamp, clock, decoded, done, readyQueue>>
        /\ (capPc' = "drop" => capPc = "drop" /\ droppedDesc' = droppedDesc)
    BY <1>22 DEF Joined, vars
  <2>2. \A b \in Buffer : stage'[b] = stage[b] \/ stage'[b] = 0
    BY <1>22, <1>t DEF Joined, vars, stage, Owned
  <2> QED BY <2>1, <2>2, <1>t, OrderQuiet
<1>23. CASE UNCHANGED vars
  <2>1. UNCHANGED <<stamp, clock, decoded, done, readyQueue>>
        /\ (capPc' = "drop" => capPc = "drop" /\ droppedDesc' = droppedDesc)
    BY <1>23 DEF vars
  <2>2. \A b \in Buffer : stage'[b] = stage[b] \/ stage'[b] = 0
    BY <1>23, <1>t DEF vars, stage, Owned
  <2> QED BY <2>1, <2>2, <1>t, OrderQuiet
<1> QED
  BY <1>1, <1>2, <1>3, <1>4, <1>5, <1>6, <1>7, <1>8, <1>9, <1>10, <1>11, <1>12, <1>13, <1>14, <1>15, <1>16, <1>17, <1>18, <1>19, <1>20, <1>21, <1>22, <1>23
  DEF Next, Capture, Decode
(* Frames reach the decoder in the order of capture. *)
THEOREM FramesInOrderHolds == Spec => FramesInOrder
<1> DEFINE Inv == OwnershipInv /\ AccessInv /\ OrderInv
<1>1. Init => Inv
  BY OwnershipInit, AccessInit, OrderInit
<1>2. Inv /\ [Next]_vars => Inv'
  BY OwnershipStep, AccessStep, OrderStep
<1>3. Inv /\ [Next]_vars => [decoded' >= decoded]_vars
  <2> SUFFICES ASSUME Inv, [Next]_vars PROVE decoded' >= decoded \/ UNCHANGED vars
    OBVIOUS
  <2>1. decoded \in Int
    BY OrderTypesHold DEF OwnershipInv, TypeInv, OrderTypes
  <2>2. CASE DecodeBegin
    <3>1. held \in Buffer /\ owner[held] = "held" /\ decPc = "decode" /\ decoded' = stamp[held]
      BY <2>2 DEF DecodeBegin, AccessInv, OwnershipInv, TypeInv, TypeOK, SlotsFilled,
                  Ownership, SlotHolds, OwnedBy
    <3>2. stage[held] = 1
      BY <3>1 DEF stage
    <3> QED BY <3>1, <3>2, <2>1 DEF OrderInv, DecodedInv
  <2>3. CASE ~ DecodeBegin
    <3>1. decoded' = decoded \/ UNCHANGED vars
      BY <2>3 DEF Next, Capture, Decode, decodeVars, vars, Fill, RequestStop,
         CaptureExit, DrainRecycleQueue, RequeueBuffer, RequeueFails, BeginRead,
         ReadRetryable, ReadFrame, ReadFails, ReadLosesFrame, ReadOversized,
         PushReady, PushReadyDropOldest, RecycleDropped, TakeReady, DecodeExit,
         DecodeRejects, DecodeEnd, RecycleFrame, Joined
    <3> QED BY <3>1, <2>1
  <2> QED BY <2>2, <2>3
<1> QED
  BY <1>1, <1>2, <1>3, PTL DEF Spec, FramesInOrder

(* A full readyQueue gives up its oldest frame. *)
THEOREM DropsOldestHolds == Spec => []DropsOldest
<1> DEFINE Inv == OwnershipInv /\ AccessInv /\ OrderInv
<1>1. Init => Inv
  BY OwnershipInit, AccessInit, OrderInit
<1>2. Inv /\ [Next]_vars => Inv'
  BY OwnershipStep, AccessStep, OrderStep
<1>3. Inv => DropsOldest
  <2> SUFFICES ASSUME Inv, capPc = "drop", NEW i \in DOMAIN readyQueue
               PROVE  pts[droppedDesc] <= pts[readyQueue[i]]
    BY DEF DropsOldest
  <2>1. readyQueue[i] \in Buffer /\ owner[readyQueue[i]] = "ready"
    BY DEF OwnershipInv, Ownership, QueueHolds, OwnedBy, Range
  <2>2. droppedDesc \in Buffer /\ owner[droppedDesc] = "dropped"
    BY DEF OwnershipInv, TypeInv, TypeOK, SlotsFilled, Ownership, SlotHolds, OwnedBy
  <2>3. stage[readyQueue[i]] = 2
    BY <2>1 DEF stage
  <2> QED BY <2>1, <2>2, <2>3 DEF AccessInv, OrderInv, DropInv
<1> QED
  BY <1>1, <1>2, <1>3, PTL DEF Spec

-----------------------------------------------------------------------------
(* Stamps of sequences                                                      *)

LEMMA StampsProperties ==
    ASSUME NEW s \in Seq(Buffer), NEW f \in [Buffer -> Timestamp]
    PROVE  /\ Stamps(s, f) \in Seq(Timestamp)
           /\ Len(Stamps(s, f)) = Len(s)
           /\ \A i \in 1 .. Len(s) : Stamps(s, f)[i] = f[s[i]]
<1>1. Len(s) \in Nat /\ \A i \in 1 .. Len(s) : s[i] \in Buffer
  BY LenProperties, ElementOfSeq
<1>2. Stamps(s, f) \in [1 .. Len(s) -> Timestamp]
  BY <1>1 DEF Stamps
<1>3. Stamps(s, f) \in Seq(Timestamp)
  BY <1>1, <1>2, SeqDef
<1>4. DOMAIN Stamps(s, f) = 1 .. Len(s)
  BY <1>2
<1>5. Len(Stamps(s, f)) = Len(s)
  BY <1>1, <1>3, <1>4, LenProperties
<1> QED BY <1>3, <1>5 DEF Stamps

LEMMA StampsAppend ==
    ASSUME NEW s \in Seq(Buffer), NEW x \in Buffer, NEW f \in [Buffer -> Timestamp]
    PROVE  Stamps(Append(s, x), f) = Append(Stamps(s, f), f[x])
<1> DEFINE a == Append(s, x)
           l == Stamps(a, f)
           r == Append(Stamps(s, f), f[x])
<1>1. /\ a \in Seq(Buffer) /\ Len(a) = Len(s) + 1 /\ Len(s) \in Nat
      /\ \A i \in 1 .. Len(s) : a[i] = s[i]
      /\ a[Len(s) + 1] = x
  BY AppendProperties, LenProperties
<1>2. /\ l \in Seq(Timestamp) /\ Len(l) = Len(s) + 1
      /\ \A i \in 1 .. Len(a) : l[i] = f[a[i]]
  BY <1>1, StampsProperties
<1>3. /\ Stamps(s, f) \in Seq(Timestamp) /\ Len(Stamps(s, f)) = Len(s)
      /\ \A i \in 1 .. Len(s) : Stamps(s, f)[i] = f[s[i]]
      /\ f[x] \in Timestamp
  BY StampsProperties
<1>4. /\ r \in Seq(Timestamp) /\ Len(r) = Len(s) + 1
      /\ \A i \in 1 .. Len(s) : r[i] = Stamps(s, f)[i]
      /\ r[Len(s) + 1] = f[x]
  BY <1>3, AppendProperties
<1> HIDE DEF a, l, r
<1>5. \A i \in 1 .. Len(s) + 1 : l[i] = r[i]
  <2> TAKE i \in 1 .. Len(s) + 1
  <2>1. CASE i = Len(s) + 1
    BY <2>1, <1>1, <1>2, <1>4
  <2>2. CASE i # Len(s) + 1
    <3>1. i \in 1 .. Len(s) /\ i \in 1 .. Len(a)
      BY <2>2, <1>1
    <3> QED BY <3>1, <1>1, <1>2, <1>3, <1>4
  <2> QED BY <2>1, <2>2
<1>6. l = r
  BY <1>2, <1>4, <1>5, SeqEqual
<1> QED BY <1>6 DEF a, l, r

LEMMA StampsTail ==
    ASSUME NEW s \in Seq(Buffer), s # <<>>, NEW f \in [Buffer -> Timestamp]
    PROVE  /\ Stamps(s, f) # <<>>
           /\ Head(Stamps(s, f)) = f[Head(s)]
           /\ Tail(Stamps(s, f)) = Stamps(Tail(s), f)
<1> DEFINE t == Tail(s)
           w == Stamps(s, f)
           l == Tail(w)
           r == Stamps(t, f)
<1>1. /\ Len(s) \in Nat \ {0} /\ Head(s) = s[1] /\ 1 \in 1 .. Len(s)
      /\ t \in Seq(Buffer) /\ Len(t) = Len(s) - 1
      /\ \A i \in 1 .. Len(t) : t[i] = s[i + 1]
  BY EmptySeq, LenProperties, HeadTailProperties
<1>2. /\ w \in Seq(Timestamp) /\ Len(w) = Len(s)
      /\ \A i \in 1 .. Len(s) : w[i] = f[s[i]]
  BY StampsProperties
<1>3. w # <<>>
  BY <1>1, <1>2, EmptySeq
<1>4. Head(w) = f[Head(s)]
  BY <1>1, <1>2, <1>3
<1>5. /\ l \in Seq(Timestamp) /\ Len(l) = Len(s) - 1
      /\ \A i \in 1 .. Len(l) : l[i] = w[i + 1]
  BY <1>2, <1>3, HeadTailProperties
<1>6. /\ r \in Seq(Timestamp) /\ Len(r) = Len(s) - 1
      /\ \A i \in 1 .. Len(t) : r[i] = f[t[i]]
  BY <1>1, StampsProperties
<1> HIDE DEF t, w, l, r
<1>7. \A i \in 1 .. Len(s) - 1 : l[i] = r[i]
  <2> TAKE i \in 1 .. Len(s) - 1
  <2>1. i + 1 \in 1 .. Len(s) /\ i \in 1 .. Len(t) /\ i \in 1 .. Len(l)
    BY <1>1, <1>5
  <2>2. l[i] = w[i + 1] /\ w[i + 1] = f[s[i + 1]]
    BY <2>1, <1>2, <1>5
  <2>3. r[i] = f[t[i]] /\ t[i] = s[i + 1]
    BY <2>1, <1>1, <1>6
  <2> QED BY <2>2, <2>3
<1>8. l = r
  BY <1>5, <1>6, <1>7, SeqEqual
<1> QED BY <1>3, <1>4, <1>8 DEF t, w, l, r

(* Only the stamps of the members count. *)
LEMMA StampsSame ==
    ASSUME NEW s, NEW f, NEW g, \A i \in 1 .. Len(s) : g[s[i]] = f[s[i]]
    PROVE  Stamps(s, g) = Stamps(s, f)
BY DEF Stamps

LEMMA StampsEmpty ==
    ASSUME NEW f \in [Buffer -> Timestamp]
    PROVE  Stamps(<<>>, f) = <<>>
BY StampsProperties, EmptySeq

(* A sequence with an element put in front. *)
LEMMA Cons ==
    ASSUME NEW S, NEW x \in S, NEW s \in Seq(S)
    PROVE  LET c == <<x>> \o s IN
           /\ c \in Seq(S) /\ c # <<>> /\ Len(c) = Len(s) + 1
           /\ Head(c) = x /\ Tail(c) = s
           /\ c[1] = x /\ \A i \in 1 .. Len(s) : c[i + 1] = s[i]
           /\ \A y \in S : Append(c, y) = <<x>> \o Append(s, y)
OBVIOUS

-----------------------------------------------------------------------------
(* The channel's variables in terms of the ring's                           *)

Pushed == IF capPc = "push" THEN <<current>> \o done ELSE done
Source == Stamps(Pushed, stamp)
Waiting == Stamps(readyQueue, stamp)
InHandStamp == IF held = NoBuf THEN -1 ELSE stamp[held]
Closed == capPc = "exited"

FifoInv == OwnershipInv /\ DepthInv

LEMMA FifoInvInit == Init => FifoInv
BY OwnershipInit, DepthInit DEF FifoInv

LEMMA FifoInvStep == FifoInv /\ [Next]_vars => FifoInv'
BY OwnershipStep, DepthStep DEF FifoInv, OwnershipInv

LEMMA FifoTypes ==
    ASSUME FifoInv
    PROVE  /\ stamp \in [Buffer -> Timestamp] /\ clock \in Timestamp
           /\ done \in Seq(Buffer) /\ readyQueue \in Seq(Buffer)
           /\ Pushed \in Seq(Buffer)
           /\ held \in Buffer \union {NoBuf}
           /\ capPc = "push" => current \in Buffer
<1>1. /\ stamp \in [Buffer -> Timestamp] /\ clock \in Timestamp
      /\ done \in Seq(Buffer) /\ readyQueue \in Seq(Buffer)
      /\ held \in Buffer \union {NoBuf}
      /\ capPc = "push" => current \in Buffer
  BY DEF FifoInv, OwnershipInv, TypeInv, TypeOK, SlotsFilled
<1>2. Pushed \in Seq(Buffer)
  BY <1>1, Cons DEF Pushed
<1> QED BY <1>1, <1>2

(* A step that changes neither the queues on the way to the decoder nor the *)
(* frames in them is a stutter of the channel.                              *)
LEMMA FifoQuiet ==
    ASSUME UNCHANGED <<stamp, clock, readyQueue, held>>,
           Pushed' = Pushed, Closed' <=> Closed
    PROVE  UNCHANGED Fifo!vars
BY DEF Fifo!vars, Pushed, Closed

(* The driver fills a buffer that no frame on its way to the decoder is in. *)
LEMMA FillCaptures ==
    ASSUME FifoInv, NEW b \in Buffer, Fill(b)
    PROVE  Fifo!Capture
<1>0. /\ stamp \in [Buffer -> Timestamp] /\ clock \in Timestamp
      /\ done \in Seq(Buffer) /\ readyQueue \in Seq(Buffer)
      /\ Pushed \in Seq(Buffer)
      /\ held \in Buffer \union {NoBuf}
      /\ capPc = "push" => current \in Buffer
  BY FifoTypes
<1>1. owner[b] = "queued"
  BY DEF Fill, FifoInv, OwnershipInv, Ownership, OwnedBy
<1>2. /\ clock' \in Timestamp /\ clock' >= clock
      /\ stamp' = [stamp EXCEPT ![b] = clock']
      /\ done' = Append(done, b)
      /\ UNCHANGED <<readyQueue, held, capPc, current>>
  BY DEF Fill, captureVars, decodeVars
<1>3. /\ stamp' \in [Buffer -> Timestamp] /\ stamp'[b] = clock'
      /\ \A c \in Buffer : c # b => stamp'[c] = stamp[c]
  BY <1>0, <1>2
<1>4. Waiting' = Waiting
  <2>1. \A i \in 1 .. Len(readyQueue) : readyQueue[i] \in Buffer /\ readyQueue[i] # b
    <3> SUFFICES ASSUME NEW i \in 1 .. Len(readyQueue)
                 PROVE  readyQueue[i] \in Buffer /\ readyQueue[i] # b
      OBVIOUS
    <3>1. readyQueue[i] \in OwnedBy("ready")
      BY <1>0, LenProperties DEF FifoInv, OwnershipInv, Ownership, QueueHolds, Range
    <3> QED BY <3>1, <1>1 DEF OwnedBy
  <2>2. Stamps(readyQueue, stamp') = Stamps(readyQueue, stamp)
    BY <2>1, <1>3, StampsSame
  <2> QED BY <2>2, <1>2 DEF Waiting
<1>5. InHandStamp' = InHandStamp
  <2>1. held # NoBuf => held \in Buffer /\ held # b
    BY <1>0, <1>1 DEF FifoInv, OwnershipInv, TypeInv, SlotsFilled, Ownership, SlotHolds, OwnedBy
  <2> QED BY <2>1, <1>2, <1>3 DEF InHandStamp
<1>6. Pushed' = Append(Pushed, b)
  BY <1>0, <1>2, Cons DEF Pushed
<1>7. Stamps(Pushed, stamp') = Source
  <2>1. \A i \in 1 .. Len(done) : done[i] \in Buffer /\ done[i] # b
    <3> SUFFICES ASSUME NEW i \in 1 .. Len(done)
                 PROVE  done[i] \in Buffer /\ done[i] # b
      OBVIOUS
    <3>1. done[i] \in OwnedBy("done")
      BY <1>0, LenProperties DEF FifoInv, OwnershipInv, Ownership, QueueHolds, Range
    <3> QED BY <3>1, <1>1 DEF OwnedBy
  <2>2. capPc = "push" => current \in Buffer /\ current # b
    BY <1>0, <1>1 DEF FifoInv, OwnershipInv, Ownership, SlotHolds, OwnedBy
  <2>3. \A i \in 1 .. Len(Pushed) : Pushed[i] \in Buffer /\ Pushed[i] # b
    <3>1. CASE capPc # "push"
      BY <3>1, <2>1 DEF Pushed
    <3>2. CASE capPc = "push"
      <4>1. /\ Len(Pushed) = Len(done) + 1 /\ Pushed[1] = current
            /\ \A i \in 1 .. Len(done) : Pushed[i + 1] = done[i]
        BY <3>2, <1>0, Cons DEF Pushed
      <4> SUFFICES ASSUME NEW i \in 1 .. Len(Pushed)
                   PROVE  Pushed[i] \in Buffer /\ Pushed[i] # b
        OBVIOUS
      <4>2. Len(done) \in Nat
        BY <1>0, LenProperties
      <4>3. CASE i = 1
        BY <4>1, <4>3, <3>2, <2>2
      <4>4. CASE i # 1
        <5>1. i - 1 \in 1 .. Len(done) /\ Pushed[(i - 1) + 1] = done[i - 1] /\ (i - 1) + 1 = i
          BY <4>1, <4>2, <4>4
        <5> QED BY <5>1, <2>1
      <4> QED BY <4>3, <4>4
    <3> QED BY <3>1, <3>2
  <2> QED BY <2>3, <1>3, StampsSame DEF Source
<1>8. Source' = Append(Source, clock')
  <2>1. Stamps(Append(Pushed, b), stamp') = Append(Stamps(Pushed, stamp'), stamp'[b])
    BY <1>0, <1>3, StampsAppend
  <2> QED BY <2>1, <1>3, <1>6, <1>7 DEF Source
<1> QED
  BY <1>2, <1>4, <1>5, <1>8 DEF Fifo!Capture, Source, Pushed, Waiting, InHandStamp

(* What the capture thread pushes is the head of the source. *)
LEMMA PushedSource ==
    ASSUME FifoInv, capPc = "push"
    PROVE  /\ Source # <<>>
           /\ Head(Source) = stamp[current]
           /\ Tail(Source) = Stamps(done, stamp)
<1>1. /\ stamp \in [Buffer -> Timestamp] /\ Pushed \in Seq(Buffer)
      /\ done \in Seq(Buffer) /\ current \in Buffer
  BY FifoTypes
<1>2. Pushed # <<>> /\ Head(Pushed) = current /\ Tail(Pushed) = done
  BY <1>1, Cons DEF Pushed
<1> QED BY <1>1, <1>2, StampsTail DEF Source

(* Ending the capture thread closes the channel. *)
LEMMA ExitCloses ==
    ASSUME FifoInv, UNCHANGED <<stamp, clock, readyQueue, held>>,
           capPc # "push", capPc' = "exited",
           done' = done \/ (done # <<>> /\ done' = Tail(done))
    PROVE  Fifo!Close
<1>1. stamp \in [Buffer -> Timestamp] /\ done \in Seq(Buffer)
  BY FifoTypes
<1>2. Pushed = done /\ Pushed' = done'
  BY DEF Pushed
<1>3. \/ Source' = Source
      \/ Source # <<>> /\ Source' = Tail(Source)
  BY <1>1, <1>2, StampsTail DEF Source
<1> QED BY <1>3 DEF Fifo!Close, Source, Pushed

-----------------------------------------------------------------------------
(* Every step of the ring is a step of the channel or a stutter of it. *)
LEMMA FifoInit == Init => Fifo!Init
<1> SUFFICES ASSUME Init PROVE Fifo!Init
  OBVIOUS
<1>1. stamp \in [Buffer -> Timestamp]
  BY TypeInit DEF TypeInv, TypeOK
<1>2. Stamps(<<>>, stamp) = <<>>
  BY <1>1, StampsEmpty
<1> QED BY <1>2 DEF Init, Fifo!Init, Fifo!NoFrame

LEMMA FifoStep == FifoInv /\ [Next]_vars => [Fifo!Next]_(Fifo!vars)
<1> SUFFICES ASSUME FifoInv, [Next]_vars
             PROVE  Fifo!Next \/ UNCHANGED Fifo!vars
  OBVIOUS
<1>r. ReadyDepth \in Nat \ {0} /\ NoBuf \notin Buffer
  BY RingAssumption DEF RingAssumption
<1>t. /\ stamp \in [Buffer -> Timestamp] /\ clock \in Timestamp
      /\ done \in Seq(Buffer) /\ readyQueue \in Seq(Buffer)
      /\ held \in Buffer \union {NoBuf}
      /\ capPc = "push" => current \in Buffer
  BY FifoTypes
<1>w. /\ Waiting \in Seq(Timestamp) /\ Len(Waiting) = Len(readyQueue)
      /\ Len(readyQueue) \in Nat /\ Len(readyQueue) <= ReadyDepth
  BY <1>t, StampsProperties, LenProperties DEF Waiting, FifoInv, DepthInv
<1>1. ASSUME NEW b \in Buffer, Fill(b)
      PROVE  Fifo!Next \/ UNCHANGED Fifo!vars
  BY <1>1, FillCaptures DEF Fifo!Next
<1>2. CASE RequestStop
  <2>1. /\ UNCHANGED <<stamp, clock, readyQueue, held>>
        /\ Pushed' = Pushed /\ (Closed' <=> Closed)
    BY <1>2 DEF RequestStop, driverVars, captureVars, decodeVars, Pushed, Closed
  <2> QED BY <2>1, FifoQuiet
<1>3. CASE CaptureExit
  <2>1. /\ UNCHANGED <<stamp, clock, readyQueue, held>>
        /\ capPc # "push" /\ capPc' = "exited"
        /\ (done' = done \/ (done # <<>> /\ done' = Tail(done)))
    BY <1>3 DEF CaptureExit, driverVars, decodeVars
  <2> QED BY <2>1, ExitCloses DEF Fifo!Next
<1>4. CASE DrainRecycleQueue
  <2>1. /\ UNCHANGED <<stamp, clock, readyQueue, held>>
        /\ Pushed' = Pushed /\ (Closed' <=> Closed)
    BY <1>4 DEF DrainRecycleQueue, driverVars, captureVars, decodeVars, Pushed, Closed
  <2> QED BY <2>1, FifoQuiet
<1>5. CASE RequeueBuffer
  <2>1. /\ UNCHANGED <<stamp, clock, readyQueue, held>>
        /\ Pushed' = Pushed /\ (Closed' <=> Closed)
    BY <1>5 DEF RequeueBuffer, driverVars, captureVars, decodeVars, Pushed, Closed
  <2> QED BY <2>1, FifoQuiet
<1>6. CASE RequeueFails
  <2>1. /\ UNCHANGED <<stamp, clock, readyQueue, held>>
        /\ capPc # "push" /\ capPc' = "exited"
        /\ (done' = done \/ (done # <<>> /\ done' = Tail(done)))
    BY <1>6 DEF RequeueFails, driverVars, decodeVars
  <2> QED BY <2>1, ExitCloses DEF Fifo!Next
<1>7. CASE BeginRead
  <2>1. /\ UNCHANGED <<stamp, clock, readyQueue, held>>
        /\ Pushed' = Pushed /\ (Closed' <=> Closed)
    BY <1>7 DEF BeginRead, driverVars, captureVars, decodeVars, Pushed, Closed
  <2> QED BY <2>1, FifoQuiet
<1>8. CASE ReadRetryable
  <2>1. /\ UNCHANGED <<stamp, clock, readyQueue, held>>
        /\ Pushed' = Pushed /\ (Closed' <=> Closed)
    BY <1>8 DEF ReadRetryable, driverVars, captureVars, decodeVars, Pushed, Closed
  <2> QED BY <2>1, FifoQuiet
<1>9. CASE ReadFrame
  <2>1. /\ UNCHANGED <<stamp, clock, readyQueue, held>>
        /\ done # <<>> /\ done' = Tail(done) /\ current' = Head(done)
        /\ capPc = "read" /\ capPc' = "push"
    BY <1>9 DEF ReadFrame, decodeVars
  <2>2. <<Head(done)>> \o Tail(done) = done
    BY <2>1, <1>t
  <2> QED BY <2>1, <2>2, FifoQuiet DEF Pushed, Closed
<1>10. CASE ReadFails
  <2>1. /\ UNCHANGED <<stamp, clock, readyQueue, held>>
        /\ capPc # "push" /\ capPc' = "exited"
        /\ (done' = done \/ (done # <<>> /\ done' = Tail(done)))
    BY <1>10 DEF ReadFails, driverVars, decodeVars
  <2> QED BY <2>1, ExitCloses DEF Fifo!Next
<1>11. CASE ReadLosesFrame
  <2>1. /\ UNCHANGED <<stamp, clock, readyQueue, held>>
        /\ capPc # "push" /\ capPc' = "exited"
        /\ (done' = done \/ (done # <<>> /\ done' = Tail(done)))
    BY <1>11 DEF ReadLosesFrame, driverVars, decodeVars
  <2> QED BY <2>1, ExitCloses DEF Fifo!Next
<1>12. CASE ReadOversized
  <2>1. /\ UNCHANGED <<stamp, clock, readyQueue, held>>
        /\ capPc # "push" /\ capPc' = "exited"
        /\ (done' = done \/ (done # <<>> /\ done' = Tail(done)))
    BY <1>12 DEF ReadOversized, driverVars, decodeVars
  <2> QED BY <2>1, ExitCloses DEF Fifo!Next
<1>13. CASE PushReady
  <2>1. /\ UNCHANGED <<stamp, clock, done, held>>
        /\ capPc = "push" /\ capPc' = "drain"
        /\ Len(readyQueue) < ReadyDepth
        /\ readyQueue' = Append(readyQueue, current)
    BY <1>13 DEF PushReady, driverVars, decodeVars
  <2>2. /\ Source # <<>> /\ Head(Source) = stamp[current]
        /\ Source' = Tail(Source)
    BY <2>1, PushedSource DEF Source, Pushed
  <2>3. Waiting' = Append(Waiting, stamp[current])
    BY <2>1, <1>t, StampsAppend DEF Waiting
  <2>4. Fifo!Offer
    BY <2>1, <2>2, <2>3, <1>w DEF Fifo!Offer, Source, Pushed, Waiting
  <2> QED BY <2>4 DEF Fifo!Next
<1>14. CASE PushReadyDropOldest
  <2>1. /\ UNCHANGED <<stamp, clock, done, held>>
        /\ capPc = "push" /\ capPc' = "drop"
        /\ Len(readyQueue) = ReadyDepth
        /\ readyQueue' = Append(Tail(readyQueue), current)
    BY <1>14, <1>w, <1>r DEF PushReadyDropOldest, driverVars, decodeVars
  <2>2. /\ Source # <<>> /\ Head(Source) = stamp[current]
        /\ Source' = Tail(Source)
    BY <2>1, PushedSource DEF Source, Pushed
  <2>3. readyQueue # <<>> /\ Tail(readyQueue) \in Seq(Buffer)
    BY <2>1, <1>r, <1>t, EmptySeq, HeadTailProperties
  <2>4. Waiting' = Append(Tail(Waiting), stamp[current])
    <3>1. Stamps(Append(Tail(readyQueue), current), stamp)
            = Append(Stamps(Tail(readyQueue), stamp), stamp[current])
      BY <2>1, <2>3, <1>t, StampsAppend
    <3>2. Tail(Waiting) = Stamps(Tail(readyQueue), stamp)
      BY <2>3, <1>t, StampsTail DEF Waiting
    <3> QED BY <3>1, <3>2, <2>1 DEF Waiting
  <2>5. Fifo!OfferDropping
    BY <2>1, <2>2, <2>4, <1>w DEF Fifo!OfferDropping, Source, Pushed, Waiting
  <2> QED BY <2>5 DEF Fifo!Next
<1>15. CASE RecycleDropped
  <2>1. /\ UNCHANGED <<stamp, clock, readyQueue, held>>
        /\ Pushed' = Pushed /\ (Closed' <=> Closed)
    BY <1>15 DEF RecycleDropped, driverVars, captureVars, decodeVars, Pushed, Closed
  <2> QED BY <2>1, FifoQuiet
<1>16. CASE TakeReady
  <2>1. /\ UNCHANGED <<stamp, clock, done, capPc, current>>
        /\ decPc = "wait" /\ readyQueue # <<>>
        /\ held' = Head(readyQueue)
        /\ readyQueue' = Tail(readyQueue)
    BY <1>16 DEF TakeReady, driverVars, captureVars
  <2>2. held = NoBuf
    BY <2>1 DEF FifoInv, OwnershipInv, TypeInv, SlotsFilled
  <2>3. Waiting # <<>> /\ Head(Waiting) = stamp[Head(readyQueue)] /\ Waiting' = Tail(Waiting)
    BY <2>1, <1>t, StampsTail DEF Waiting
  <2>4. Head(readyQueue) \in Buffer /\ Head(readyQueue) # NoBuf
    BY <2>1, <1>r, <1>t, HeadTailProperties
  <2>5. Fifo!Take
    BY <2>1, <2>2, <2>3, <2>4 DEF Fifo!Take, Fifo!NoFrame, Waiting
  <2> QED BY <2>5 DEF Fifo!Next
<1>17. CASE DecodeExit
  <2>1. /\ UNCHANGED <<stamp, clock, readyQueue, held>>
        /\ Pushed' = Pushed /\ (Closed' <=> Closed)
    BY <1>17 DEF DecodeExit, driverVars, captureVars, decodeVars, Pushed, Closed
  <2> QED BY <2>1, FifoQuiet
<1>18. CASE DecodeBegin
  <2>1. /\ UNCHANGED <<stamp, clock, readyQueue, held>>
        /\ Pushed' = Pushed /\ (Closed' <=> Closed)
    BY <1>18 DEF DecodeBegin, driverVars, captureVars, decodeVars, Pushed, Closed
  <2> QED BY <2>1, FifoQuiet
<1>19. CASE DecodeRejects
  <2>1. /\ UNCHANGED <<stamp, clock, readyQueue, held>>
        /\ Pushed' = Pushed /\ (Closed' <=> Closed)
    BY <1>19 DEF DecodeRejects, driverVars, captureVars, decodeVars, Pushed, Closed
  <2> QED BY <2>1, FifoQuiet
<1>20. CASE DecodeEnd
  <2>1. /\ UNCHANGED <<stamp, clock, readyQueue, held>>
        /\ Pushed' = Pushed /\ (Closed' <=> Closed)
    BY <1>20 DEF DecodeEnd, driverVars, captureVars, decodeVars, Pushed, Closed
  <2> QED BY <2>1, FifoQuiet
<1>21. CASE RecycleFrame
  <2>1. /\ UNCHANGED <<stamp, clock, done, capPc, current, readyQueue>>
        /\ decPc = "recycle" /\ held' = NoBuf
    BY <1>21 DEF RecycleFrame, driverVars, captureVars
  <2>2. held \in Buffer /\ held # NoBuf
    BY <2>1, <1>r, <1>t DEF FifoInv, OwnershipInv, TypeInv, SlotsFilled
  <2>3. stamp[held] # -1
    BY <2>2, <1>t DEF Timestamp
  <2>4. Fifo!Finish
    BY <2>1, <2>2, <2>3 DEF Fifo!Finish, Fifo!NoFrame
  <2> QED BY <2>4 DEF Fifo!Next
<1>22. CASE Joined
  <2>1. /\ UNCHANGED <<stamp, clock, readyQueue, held>>
        /\ Pushed' = Pushed /\ (Closed' <=> Closed)
    BY <1>22 DEF Joined, vars, Pushed, Closed
  <2> QED BY <2>1, FifoQuiet
<1>23. CASE UNCHANGED vars
  <2>1. /\ UNCHANGED <<stamp, clock, readyQueue, held>>
        /\ Pushed' = Pushed /\ (Closed' <=> Closed)
    BY <1>23 DEF vars, Pushed, Closed
  <2> QED BY <2>1, FifoQuiet
<1> QED
  BY <1>1, <1>2, <1>3, <1>4, <1>5, <1>6, <1>7, <1>8, <1>9, <1>10, <1>11, <1>12, <1>13, <1>14, <1>15, <1>16, <1>17, <1>18, <1>19, <1>20, <1>21, <1>22, <1>23
  DEF Next, Capture, Decode

(* Whatever the order of the steps of the driver, of run_capture_thread and *)
(* of run_decode_thread, the decoder sees a lossy first-in first-out        *)
(* channel of the captured frames.                                          *)
THEOREM RefinesFifo == Spec => ImplementsFifo
<1>1. Init => FifoInv /\ Fifo!Init
  BY FifoInvInit, FifoInit
<1>2. FifoInv /\ [Next]_vars => FifoInv'
  BY FifoInvStep
<1>3. FifoInv /\ [Next]_vars => [Fifo!Next]_(Fifo!vars)
  BY FifoStep
<1> QED
  BY <1>1, <1>2, <1>3, PTL DEF Spec, ImplementsFifo, Fifo!Spec
=============================================================================
