-------------------------- MODULE EncodeFeedProofs --------------------------
(***************************************************************************)
(* What holds of EncodeFeed for every size of the RGA output pool, every   *)
(* number of frames and every bound of the retries.                        *)
(***************************************************************************)
EXTENDS EncodeFeed, QueueLemmas

USE FeedAssumption DEF FeedAssumption

-----------------------------------------------------------------------------
(* Types                                                                    *)

(* The values for nothing are no output and no frame.                       *)
LEMMA Apart == NoOutput \notin Output /\ NoFrame \notin Frame
BY DEF NoOutput, Output, NoFrame, Frame

(* Each thread has what it works on, and retries are left while it tries.   *)
Slots ==
    /\ rgaPc \in {"blit", "import", "handover", "enqueue"} <=> rgaOutput # NoOutput
    /\ rgaPc \in {"wait", "exited"} <=> inputDesc = NoFrame
    /\ encPc \in {"check", "push", "failed", "release"} <=> encodeHeld # NoOutput
    /\ rgaPc \in {"copy", "blit"} => copyRetry < MaxCopyRetry
    /\ encPc # "exited" => pushFailures <= MaxPushRetry

TypeInv == TypeOK /\ Slots

(* What waits for the encoder has content.                                  *)
HeldContent == encPc \in {"check", "push", "failed"} => content[encodeHeld] # NoFrame

(* The threads leave on a stop only, and main drains after them.            *)
ExitInv ==
    /\ rgaPc = "exited" => stop
    /\ encPc = "exited" => stop
    /\ rgaDone <=> rgaPc = "exited"
    /\ mainPc = "done" =>
          /\ rgaPc = "exited" /\ encPc = "exited" /\ recPc = "exited"
          /\ mppEncodeInputQueue = <<>>

(* The initial state has its types.                                         *)
LEMMA TypeInit == Init => TypeInv /\ ExitInv
<1> SUFFICES ASSUME Init PROVE TypeInv /\ ExitInv
  OBVIOUS
<1>1. /\ <<>> \in Seq(Frame) /\ <<>> \in Seq(Output)
  BY EmptyQueue
<1>2. Slots /\ ExitInv
  BY DEF Init, Slots, ExitInv
<1>3. /\ inUse \in [Output -> BOOLEAN] /\ content \in [Output -> Frame \union {NoFrame}]
  BY DEF Init
<1>4. /\ decodedCount \in 0 .. MaxFrame /\ copyRetry \in 0 .. MaxCopyRetry
      /\ pushFailures \in 0 .. MaxPushRetry + 1
  BY DEF Init
<1>5. /\ rgaConsumeQueue \in Seq(Frame) /\ mppRecycleOutputQueue \in Seq(Frame)
      /\ mppEncodeInputQueue \in Seq(Output) /\ available \in Seq(Output)
      /\ encoded \in Seq(Frame) /\ pendingOutputs \in Seq(Frame)
  BY <1>1 DEF Init
<1>6. /\ inputDesc \in Frame \union {NoFrame} /\ rgaOutput \in Output \union {NoOutput}
      /\ encodeHeld \in Output \union {NoOutput}
      /\ untold \in SUBSET Frame /\ returned \in SUBSET Frame
  BY DEF Init
<1> HIDE FeedAssumption
<1> QED BY <1>2, <1>3, <1>4, <1>5, <1>6 DEF Init, TypeInv, TypeOK

(* Giving an output back keeps the types of the pool.                       *)
LEMMA RecycleTypes ==
    ASSUME TypeInv, NEW o \in Output, QueueOutputToRecycle(o)
    PROVE  /\ available' \in Seq(Output) /\ poolReady' = poolReady
           /\ inUse' \in [Output -> BOOLEAN]
           /\ content' \in [Output -> Frame \union {NoFrame}]
<1>1. available' \in Seq(Output)
  BY AppendProperties DEF QueueOutputToRecycle, TypeInv, TypeOK
<1> QED BY <1>1 DEF QueueOutputToRecycle, TypeInv, TypeOK

(* The pool's queue when InitOutputPoolIfNeeded has filled it.              *)
LEMMA AllOutputs ==
    /\ [o \in Output |-> o] \in Seq(Output)
    /\ IsInjective([o \in Output |-> o])
    /\ Range([o \in Output |-> o]) = Output
<1> DEFINE q == [o \in Output |-> o]
<1>1. q \in [1 .. OutputCount -> Output]
  BY DEF Output
<1>2. q \in Seq(Output)
  BY <1>1, SeqDef
<1> QED BY <1>2 DEF IsInjective, Range

(* A queue of one.                                                          *)
LEMMA SingletonQueue ==
    ASSUME NEW S, NEW x \in S
    PROVE  <<x>> \in Seq(S) /\ IsInjective(<<x>>) /\ Range(<<x>>) = {x}
BY DEF IsInjective, Range

(* Every step keeps the types; a push needs the content of its output.      *)
LEMMA TypeStep == TypeInv /\ HeldContent /\ [Next]_vars => TypeInv'
<1> SUFFICES ASSUME TypeInv, HeldContent, [Next]_vars PROVE TypeInv'
  OBVIOUS
<1> USE DEF TypeInv, TypeOK, Slots
<1> USE DEF NoFailure, Copying, RgaLocal, EncLocal, RecLocal,
            poolVars, rgaVars, encVars, recVars
<1>1. CASE DeliverDecoded
  <2>1. decodedCount + 1 \in Frame /\ rgaConsumeQueue' \in Seq(Frame)
    BY <1>1, AppendProperties DEF DeliverDecoded, Frame
  <2>2. decodedCount' \in 0 .. MaxFrame
    BY <1>1 DEF DeliverDecoded
  <2> QED BY <1>1, <2>1, <2>2 DEF DeliverDecoded
<1>2. CASE RequestStop
  BY <1>2 DEF RequestStop
<1>3. CASE TakeDecoded
  <2>1. inputDesc' \in Frame /\ rgaConsumeQueue' \in Seq(Frame)
    BY <1>3, HeadTailProperties DEF TakeDecoded
  <2> QED BY <1>3, <2>1, Apart DEF TakeDecoded
<1>4. CASE RgaExit
  BY <1>4 DEF RgaExit, RgaLeaves
<1>5. CASE CopyStopped
  BY <1>5 DEF CopyStopped
<1>6. CASE CopyAcquires
  <2> DEFINE q == IF poolReady THEN available ELSE [o \in Output |-> o]
  <2>1. q \in Seq(Output)
    BY AllOutputs
  <2>2. q # <<>> /\ rgaOutput' = Head(q) /\ available' = Tail(q)
        /\ inUse' = [inUse EXCEPT ![Head(q)] = TRUE]
    BY <1>6 DEF CopyAcquires, AcquireFrom, Popped
  <2> HIDE DEF q
  <2>3. rgaOutput' \in Output /\ available' \in Seq(Output)
    BY <2>1, <2>2, HeadTailProperties
  <2>4. inUse' \in [Output -> BOOLEAN]
    BY <2>2
  <2>5. /\ poolReady' = TRUE /\ rgaPc = "copy" /\ rgaPc' = "blit"
        /\ UNCHANGED <<content, copyRetry, encoderIoReady>>
    BY <1>6 DEF CopyAcquires
  <2>6. NoFailure /\ Copying
    BY <1>6 DEF CopyAcquires
  <2> QED BY <2>3, <2>4, <2>5, <2>6, Apart
<1>7. CASE CopyFails
  <2>1. /\ copyRetry' \in 0 .. MaxCopyRetry
        /\ rgaPc' \in {"copy", "return"}
        /\ rgaPc' = "copy" => copyRetry' < MaxCopyRetry
        /\ stop' \in BOOLEAN /\ fatal' \in BOOLEAN
    <3>1. CopyReturnsNull /\ copyRetry \in 0 .. MaxCopyRetry - 1
      BY <1>7 DEF CopyFails
    <3>2. CASE copyRetry + 1 >= MaxCopyRetry
      BY <3>1, <3>2 DEF CopyReturnsNull, Fail
    <3>3. CASE copyRetry + 1 < MaxCopyRetry
      BY <3>1, <3>3 DEF CopyReturnsNull
    <3> QED BY <3>2, <3>3
  <2>2. /\ rgaPc = "copy" /\ UNCHANGED <<poolVars, rgaOutput, encoderIoReady>>
        /\ Copying
    BY <1>7 DEF CopyFails
  <2> QED BY <2>1, <2>2, Apart
<1>8. CASE BlitFails
  <2>1. rgaOutput \in Output
    BY <1>8 DEF BlitFails
  <2>2. /\ available' \in Seq(Output) /\ poolReady' = poolReady
        /\ inUse' \in [Output -> BOOLEAN]
        /\ content' \in [Output -> Frame \union {NoFrame}]
    BY <1>8, <2>1, RecycleTypes DEF BlitFails
  <2>3. /\ copyRetry' \in 0 .. MaxCopyRetry
        /\ rgaPc' \in {"copy", "return"}
        /\ rgaPc' = "copy" => copyRetry' < MaxCopyRetry
        /\ stop' \in BOOLEAN /\ fatal' \in BOOLEAN
    <3>1. CopyReturnsNull /\ copyRetry \in 0 .. MaxCopyRetry - 1
      BY <1>8 DEF BlitFails
    <3>2. CASE copyRetry + 1 >= MaxCopyRetry
      BY <3>1, <3>2 DEF CopyReturnsNull, Fail
    <3>3. CASE copyRetry + 1 < MaxCopyRetry
      BY <3>1, <3>3 DEF CopyReturnsNull
    <3> QED BY <3>2, <3>3
  <2>4. /\ rgaPc = "blit" /\ rgaOutput' = NoOutput /\ UNCHANGED encoderIoReady
        /\ Copying
    BY <1>8 DEF BlitFails
  <2> QED BY <2>2, <2>3, <2>4, Apart
<1>9. CASE BlitSucceeds
  <2>1. rgaOutput \in Output /\ inputDesc \in Frame
    BY <1>9 DEF BlitSucceeds
  <2>2. content' \in [Output -> Frame \union {NoFrame}]
    BY <1>9, <2>1 DEF BlitSucceeds
  <2> QED BY <1>9, <2>2 DEF BlitSucceeds
<1>10. CASE ImportSucceeds
  BY <1>10 DEF ImportSucceeds
<1>11. CASE ImportFails
  <2>1. rgaOutput \in Output
    BY <1>11 DEF ImportFails
  <2>2. /\ available' \in Seq(Output) /\ poolReady' = poolReady
        /\ inUse' \in [Output -> BOOLEAN]
        /\ content' \in [Output -> Frame \union {NoFrame}]
    BY <1>11, <2>1, RecycleTypes DEF ImportFails
  <2> QED BY <1>11, <2>2 DEF ImportFails, Fail
<1>12. CASE HandOverStopped
  BY <1>12 DEF HandOverStopped
<1>13. CASE HandOver
  BY <1>13 DEF HandOver
<1>14. CASE EnqueueEncodeInput
  <2>1. rgaOutput \in Output
    BY <1>14 DEF EnqueueEncodeInput
  <2>2. mppEncodeInputQueue' \in Seq(Output)
    BY <1>14, <2>1, AppendProperties DEF EnqueueEncodeInput
  <2> QED BY <1>14, <2>2 DEF EnqueueEncodeInput
<1>15. CASE ReturnInput
  <2>1. inputDesc \in Frame
    BY <1>15 DEF ReturnInput
  <2>2. mppRecycleOutputQueue' \in Seq(Frame)
    BY <1>15, <2>1, AppendProperties DEF ReturnInput
  <2> QED BY <1>15, <2>2 DEF ReturnInput
<1>16. CASE TakeEncodeInput
  <2>1. encodeHeld' \in Output /\ mppEncodeInputQueue' \in Seq(Output)
    BY <1>16, HeadTailProperties DEF TakeEncodeInput
  <2> QED BY <1>16, <2>1, Apart DEF TakeEncodeInput
<1>17. CASE EncodeInputExit
  BY <1>17 DEF EncodeInputExit, EncExits
<1>18. CASE EncodeStopped
  <2>1. encodeHeld \in Output
    BY <1>18 DEF EncodeStopped
  <2>2. /\ available' \in Seq(Output) /\ poolReady' = poolReady
        /\ inUse' \in [Output -> BOOLEAN]
        /\ content' \in [Output -> Frame \union {NoFrame}]
    BY <1>18, <2>1, RecycleTypes DEF EncodeStopped
  <2> QED BY <1>18, <2>2 DEF EncodeStopped, EncExits
<1>19. CASE EncodeProceeds
  BY <1>19 DEF EncodeProceeds
<1>20. CASE PushSucceeds
  <2>1. encodeHeld \in Output /\ content[encodeHeld] \in Frame
    BY <1>20 DEF PushSucceeds, HeldContent
  <2>2. encoded' \in Seq(Frame)
    BY <1>20, <2>1, AppendProperties DEF PushSucceeds, EncoderTakes
  <2> QED BY <1>20, <2>2 DEF PushSucceeds, EncoderTakes
<1>21. CASE PushFails
  <2>1. encodeHeld \in Output /\ content[encodeHeld] \in Frame
    BY <1>21 DEF PushFails, HeldContent
  <2>2. \/ UNCHANGED <<encoded, untold>>
        \/ EncoderTakes /\ untold' = untold \union {content[encodeHeld]}
    BY <1>21 DEF PushFails
  <2>3. Append(encoded, content[encodeHeld]) \in Seq(Frame)
    BY <2>1, AppendProperties
  <2>4. encoded' \in Seq(Frame)
    BY <2>2, <2>3 DEF EncoderTakes
  <2>5. untold' \in SUBSET Frame
    BY <2>1, <2>2
  <2> QED BY <1>21, <2>4, <2>5 DEF PushFails
<1>22. CASE RetryPush
  <2>1. encodeHeld \in Output
    BY <1>22 DEF RetryPush
  <2>2. mppEncodeInputQueue' \in Seq(Output)
    BY <1>22, <2>1, ConcatProperties, SingletonQueue DEF RetryPush, PushedFront
  <2>3. pushFailures' \in 0 .. MaxPushRetry + 1 /\ pushFailures' <= MaxPushRetry
    BY <1>22 DEF RetryPush
  <2> QED BY <1>22, <2>2, <2>3 DEF RetryPush, PushedFront
<1>23. CASE GiveUpPush
  <2>1. encodeHeld \in Output
    BY <1>23 DEF GiveUpPush
  <2>2. /\ available' \in Seq(Output) /\ poolReady' = poolReady
        /\ inUse' \in [Output -> BOOLEAN]
        /\ content' \in [Output -> Frame \union {NoFrame}]
    BY <1>23, <2>1, RecycleTypes DEF GiveUpPush
  <2> QED BY <1>23, <2>2 DEF GiveUpPush, Fail, EncExits
<1>24. CASE ReleaseEncoded
  <2>1. encodeHeld \in Output
    BY <1>24 DEF ReleaseEncoded
  <2>2. /\ available' \in Seq(Output) /\ poolReady' = poolReady
        /\ inUse' \in [Output -> BOOLEAN]
        /\ content' \in [Output -> Frame \union {NoFrame}]
    BY <1>24, <2>1, RecycleTypes DEF ReleaseEncoded
  <2> QED BY <1>24, <2>2 DEF ReleaseEncoded
<1>25. CASE RecycleTake
  BY <1>25, EmptyQueue DEF RecycleTake
<1>26. CASE RecycleReturn
  <2>1. Head(pendingOutputs) \in Frame /\ pendingOutputs' \in Seq(Frame)
    BY <1>26, HeadTailProperties DEF RecycleReturn
  <2> QED BY <1>26, <2>1 DEF RecycleReturn
<1>27. CASE RecycleExit
  BY <1>27 DEF RecycleExit, MayLeave
<1>28. CASE FinalDrain
  <2>1. available' \in Seq(Output)
    BY <1>28, ConcatProperties DEF FinalDrain
  <2>2. Range(mppRecycleOutputQueue) \subseteq Frame
    BY LenProperties DEF Range
  <2>3. /\ inUse' \in [Output -> BOOLEAN]
        /\ content' \in [Output -> Frame \union {NoFrame}]
    BY <1>28 DEF FinalDrain
  <2> QED BY <1>28, <2>1, <2>2, <2>3, EmptyQueue DEF FinalDrain
<1>29. CASE Finished
  BY <1>29 DEF Finished, vars
<1>30. CASE UNCHANGED vars
  BY <1>30 DEF vars
<1> QED
  BY <1>1, <1>2, <1>3, <1>4, <1>5, <1>6, <1>7, <1>8, <1>9, <1>10, <1>11, <1>12,
      <1>13, <1>14, <1>15, <1>16, <1>17, <1>18, <1>19, <1>20, <1>21, <1>22,
      <1>23, <1>24, <1>25, <1>26, <1>27, <1>28, <1>29, <1>30
  DEF Next, Rga, EncodeInput, RecycleOutputs

(* Every step keeps to the order in which the threads leave.                *)
LEMMA ExitStep == TypeInv /\ ExitInv /\ [Next]_vars => ExitInv'
<1> SUFFICES ASSUME TypeInv, ExitInv, [Next]_vars PROVE ExitInv'
  OBVIOUS
<1> USE DEF ExitInv, TypeInv, TypeOK
<1> USE DEF NoFailure, Copying, RgaLocal, EncLocal, RecLocal,
            poolVars, rgaVars, encVars, recVars
<1>1. CASE DeliverDecoded
  BY <1>1 DEF DeliverDecoded
<1>2. CASE RequestStop
  BY <1>2 DEF RequestStop
<1>3. CASE TakeDecoded
  BY <1>3 DEF TakeDecoded
<1>4. CASE RgaExit
  BY <1>4 DEF RgaExit, RgaLeaves
<1>5. CASE CopyStopped
  BY <1>5 DEF CopyStopped
<1>6. CASE CopyAcquires
  BY <1>6 DEF CopyAcquires, AcquireFrom, Popped
<1>7. CASE CopyFails
  BY <1>7 DEF CopyFails, CopyReturnsNull, Fail
<1>8. CASE BlitFails
  BY <1>8 DEF BlitFails, CopyReturnsNull, Fail
<1>9. CASE BlitSucceeds
  BY <1>9 DEF BlitSucceeds
<1>10. CASE ImportSucceeds
  BY <1>10 DEF ImportSucceeds
<1>11. CASE ImportFails
  BY <1>11 DEF ImportFails, Fail
<1>12. CASE HandOverStopped
  BY <1>12 DEF HandOverStopped
<1>13. CASE HandOver
  BY <1>13 DEF HandOver
<1>14. CASE EnqueueEncodeInput
  BY <1>14 DEF EnqueueEncodeInput
<1>15. CASE ReturnInput
  BY <1>15 DEF ReturnInput
<1>16. CASE TakeEncodeInput
  BY <1>16 DEF TakeEncodeInput
<1>17. CASE EncodeInputExit
  BY <1>17 DEF EncodeInputExit, EncExits
<1>18. CASE EncodeStopped
  BY <1>18 DEF EncodeStopped, EncExits
<1>19. CASE EncodeProceeds
  BY <1>19 DEF EncodeProceeds
<1>20. CASE PushSucceeds
  BY <1>20 DEF PushSucceeds, EncoderTakes
<1>21. CASE PushFails
  BY <1>21 DEF PushFails, EncoderTakes
<1>22. CASE RetryPush
  BY <1>22 DEF RetryPush, PushedFront
<1>23. CASE GiveUpPush
  BY <1>23 DEF GiveUpPush, Fail, EncExits
<1>24. CASE ReleaseEncoded
  BY <1>24 DEF ReleaseEncoded
<1>25. CASE RecycleTake
  BY <1>25 DEF RecycleTake
<1>26. CASE RecycleReturn
  BY <1>26 DEF RecycleReturn
<1>27. CASE RecycleExit
  BY <1>27 DEF RecycleExit, MayLeave
<1>28. CASE FinalDrain
  BY <1>28 DEF FinalDrain, MayLeave
<1>29. CASE Finished
  BY <1>29 DEF Finished, vars
<1>30. CASE UNCHANGED vars
  BY <1>30 DEF vars
<1> QED
  BY <1>1, <1>2, <1>3, <1>4, <1>5, <1>6, <1>7, <1>8, <1>9, <1>10, <1>11, <1>12,
      <1>13, <1>14, <1>15, <1>16, <1>17, <1>18, <1>19, <1>20, <1>21, <1>22,
      <1>23, <1>24, <1>25, <1>26, <1>27, <1>28, <1>29, <1>30
  DEF Next, Rga, EncodeInput, RecycleOutputs

-----------------------------------------------------------------------------
(* The pool                                                                 *)

(* In use and in nobody's hands: at most one output, once a stop has been   *)
(* requested, and the RGA thread will not acquire another.                  *)
Lost(o) == inUse[o] /\ o \notin InHands

PoolInv ==
    /\ PoolConsistent
    /\ ~poolReady => available = <<>> /\ \A o \in Output : ~inUse[o]
    /\ \A o, p \in Output :
          Lost(o) /\ Lost(p) => o = p /\ stop /\ rgaOutput = NoOutput

(* PoolInv, with the places an output can be in spelled out.                *)
PoolSpelled ==
    /\ IsInjective(available) /\ IsInjective(mppEncodeInputQueue)
    /\ poolReady => \A o \in Output : o \in Range(available) <=> ~inUse[o]
    /\ ~poolReady => available = <<>> /\ \A o \in Output : ~inUse[o]
    /\ \A o \in Range(mppEncodeInputQueue) :
          o \in Output /\ inUse[o] /\ o # rgaOutput /\ o # encodeHeld
    /\ rgaOutput # NoOutput => inUse[rgaOutput] /\ rgaOutput # encodeHeld
    /\ encodeHeld # NoOutput => inUse[encodeHeld]
    /\ \A o, p \in Output :
          /\ inUse[o] /\ o \notin Range(mppEncodeInputQueue)
          /\ o # rgaOutput /\ o # encodeHeld
          /\ inUse[p] /\ p \notin Range(mppEncodeInputQueue)
          /\ p # rgaOutput /\ p # encodeHeld
          => o = p /\ stop /\ rgaOutput = NoOutput

(* The two forms of the pool's invariant are the same,                      *)
LEMMA PoolFacts == TypeInv => (PoolInv <=> PoolSpelled)
<1> SUFFICES ASSUME TypeInv PROVE PoolInv <=> PoolSpelled
  OBVIOUS
<1>1. /\ Range(available) \subseteq Output
      /\ Range(mppEncodeInputQueue) \subseteq Output
  BY LenProperties DEF TypeInv, TypeOK, Range
<1>2. /\ rgaOutput \in Output \union {NoOutput} /\ encodeHeld \in Output \union {NoOutput}
  BY DEF TypeInv, TypeOK
<1>3. ASSUME NEW o \in Output
      PROVE  o \in InHands <=> o \in Range(mppEncodeInputQueue) \/ o = rgaOutput
                                 \/ o = encodeHeld
  BY Apart DEF InHands
<1>4. (\A o \in InHands : inUse[o]) <=>
        /\ \A o \in Range(mppEncodeInputQueue) : inUse[o]
        /\ rgaOutput # NoOutput => inUse[rgaOutput]
        /\ encodeHeld # NoOutput => inUse[encodeHeld]
  BY <1>1, <1>2, Apart DEF InHands
<1>5. (poolReady => Range(available) = {o \in Output : ~inUse[o]}) <=>
        (poolReady => \A o \in Output : o \in Range(available) <=> ~inUse[o])
  BY <1>1
<1> QED BY <1>1, <1>2, <1>3, <1>4, <1>5, Apart DEF PoolInv, PoolConsistent, Lost,
    PoolSpelled

(* and so in the next state.                                                *)
LEMMA PoolFactsNext == TypeInv' => (PoolInv' <=> PoolSpelled')
BY PoolFacts, PTL

(* At first nothing is in use.                                              *)
LEMMA PoolInit == Init => PoolInv
<1> SUFFICES ASSUME Init PROVE PoolInv
  OBVIOUS
<1>1. TypeInv
  BY TypeInit
<1>2. IsInjective(available) /\ IsInjective(mppEncodeInputQueue)
      /\ Range(mppEncodeInputQueue) = {}
  BY EmptyQueue DEF Init
<1> QED BY <1>1, <1>2, PoolFacts, Apart DEF Init, PoolSpelled

(* An output held by one thread goes back to the pool.                      *)
LEMMA RecyclePool ==
    ASSUME TypeInv, PoolInv, NEW o \in Output, QueueOutputToRecycle(o),
           o \in {rgaOutput, encodeHeld}
    PROVE  /\ poolReady /\ poolReady'
           /\ IsInjective(available')
           /\ \A p \in Output : p \in Range(available') <=> ~inUse'[p]
           /\ inUse' = [inUse EXCEPT ![o] = FALSE]
           /\ content' = [content EXCEPT ![o] = NoFrame]
<1>1. inUse[o] /\ available \in Seq(Output)
      /\ inUse \in [Output -> BOOLEAN]
  BY PoolFacts, Apart DEF TypeInv, TypeOK, PoolSpelled
<1>2. poolReady /\ poolReady'
  BY <1>1, PoolFacts DEF QueueOutputToRecycle, TypeInv, TypeOK, PoolSpelled
<1>3. /\ available' = Append(available, o)
      /\ inUse' = [inUse EXCEPT ![o] = FALSE]
      /\ content' = [content EXCEPT ![o] = NoFrame]
  BY <1>1 DEF QueueOutputToRecycle
<1>4. o \notin Range(available) /\ IsInjective(available)
  BY <1>1, <1>2, PoolFacts DEF PoolSpelled
<1>5. /\ IsInjective(available')
      /\ Range(available') = Range(available) \union {o}
  BY <1>1, <1>3, <1>4, AppendDistinct
<1> QED BY <1>1, <1>2, <1>3, <1>5, PoolFacts DEF PoolSpelled

(* The RGA thread takes the first output available.                         *)
LEMMA AcquirePool ==
    ASSUME TypeInv, PoolInv, CopyAcquires
    PROVE  /\ rgaOutput' \in Output /\ ~inUse[rgaOutput'] /\ poolReady'
           /\ inUse' = [inUse EXCEPT ![rgaOutput'] = TRUE]
           /\ IsInjective(available')
           /\ \A p \in Output : p \in Range(available') <=> ~inUse'[p]
<1> DEFINE q == IF poolReady THEN available ELSE [o \in Output |-> o]
<1>1. q \in Seq(Output)
  BY AllOutputs DEF TypeInv, TypeOK
<1>2. IsInjective(q) /\ \A o \in Output : o \in Range(q) <=> ~inUse[o]
  BY AllOutputs, PoolFacts DEF PoolSpelled
<1>3. /\ q # <<>> /\ rgaOutput' = Head(q) /\ available' = Tail(q)
      /\ inUse' = [inUse EXCEPT ![Head(q)] = TRUE] /\ poolReady'
  BY DEF CopyAcquires, AcquireFrom, Popped
<1>4. inUse \in [Output -> BOOLEAN]
  BY DEF TypeInv, TypeOK
<1> HIDE DEF q
<1>5. Head(q) \in Output /\ Head(q) \in Range(q)
  BY <1>1, <1>3, HeadInRange
<1>6. /\ IsInjective(available')
      /\ Range(available') = Range(q) \ {Head(q)}
  BY <1>1, <1>2, <1>3, TailDistinct
<1> QED BY <1>2, <1>3, <1>4, <1>5, <1>6

(* A step that moves no output keeps the pool as it is.                     *)
LEMMA PoolQuiet ==
    ASSUME PoolInv, UNCHANGED <<poolReady, available, inUse, rgaOutput, encodeHeld,
                                mppEncodeInputQueue>>,
           stop => stop'
    PROVE  PoolInv'
BY DEF PoolInv, PoolConsistent, Lost, InHands

(* Every step keeps the pool and the threads in agreement.                  *)
LEMMA PoolStep == TypeInv /\ TypeInv' /\ PoolInv /\ [Next]_vars => PoolInv'
<1> SUFFICES ASSUME TypeInv, TypeInv', PoolInv, [Next]_vars PROVE PoolInv'
  OBVIOUS
<1>0. PoolSpelled
  BY PoolFacts
<1> USE DEF NoFailure, Copying, RgaLocal, EncLocal, RecLocal,
            poolVars, rgaVars, encVars, recVars
<1>1. CASE DeliverDecoded
  BY <1>1, PoolQuiet DEF DeliverDecoded, TypeInv, TypeOK, Slots
<1>2. CASE RequestStop
  BY <1>2, PoolQuiet DEF RequestStop, TypeInv, TypeOK, Slots
<1>3. CASE TakeDecoded
  BY <1>3, PoolQuiet DEF TakeDecoded, TypeInv, TypeOK, Slots
<1>4. CASE RgaExit
  BY <1>4, PoolQuiet DEF RgaExit, RgaLeaves, TypeInv, TypeOK, Slots
<1>5. CASE CopyStopped
  BY <1>5, PoolQuiet DEF CopyStopped, TypeInv, TypeOK, Slots
<1>6. CASE CopyAcquires
  <2>1. /\ rgaOutput' \in Output /\ ~inUse[rgaOutput'] /\ poolReady'
        /\ inUse' = [inUse EXCEPT ![rgaOutput'] = TRUE]
        /\ IsInjective(available')
        /\ \A p \in Output : p \in Range(available') <=> ~inUse'[p]
    BY <1>6, AcquirePool
  <2>2. /\ ~stop /\ rgaOutput = NoOutput
        /\ UNCHANGED <<encodeHeld, mppEncodeInputQueue, stop>>
    BY <1>6 DEF CopyAcquires, TypeInv, TypeOK, Slots
  <2>3. inUse \in [Output -> BOOLEAN]
    BY DEF TypeInv, TypeOK
  <2> QED
    BY <2>1, <2>2, <2>3, <1>0, Apart, PoolFactsNext DEF PoolSpelled
<1>7. CASE CopyFails
  BY <1>7, PoolQuiet DEF CopyFails, CopyReturnsNull, Fail, TypeInv, TypeOK, Slots
<1>8. CASE BlitFails
  <2>1. rgaOutput \in Output /\ QueueOutputToRecycle(rgaOutput)
    BY <1>8 DEF BlitFails, TypeInv, TypeOK, Slots
  <2>2. /\ poolReady /\ poolReady' /\ IsInjective(available')
        /\ \A p \in Output : p \in Range(available') <=> ~inUse'[p]
        /\ inUse' = [inUse EXCEPT ![rgaOutput] = FALSE]
    BY <2>1, RecyclePool
  <2>3. /\ rgaOutput' = NoOutput /\ (stop => stop')
        /\ UNCHANGED <<encodeHeld, mppEncodeInputQueue>>
    BY <1>8 DEF BlitFails, CopyReturnsNull, Fail
  <2>4. inUse \in [Output -> BOOLEAN]
    BY DEF TypeInv, TypeOK
  <2> QED
    BY <2>1, <2>2, <2>3, <2>4, <1>0, Apart, PoolFactsNext DEF PoolSpelled
<1>9. CASE BlitSucceeds
  BY <1>9, PoolQuiet DEF BlitSucceeds, TypeInv, TypeOK, Slots
<1>10. CASE ImportSucceeds
  BY <1>10, PoolQuiet DEF ImportSucceeds, TypeInv, TypeOK, Slots
<1>11. CASE ImportFails
  <2>1. rgaOutput \in Output /\ QueueOutputToRecycle(rgaOutput)
    BY <1>11 DEF ImportFails, TypeInv, TypeOK, Slots
  <2>2. /\ poolReady /\ poolReady' /\ IsInjective(available')
        /\ \A p \in Output : p \in Range(available') <=> ~inUse'[p]
        /\ inUse' = [inUse EXCEPT ![rgaOutput] = FALSE]
    BY <2>1, RecyclePool
  <2>3. /\ rgaOutput' = NoOutput /\ (stop => stop')
        /\ UNCHANGED <<encodeHeld, mppEncodeInputQueue>>
    BY <1>11 DEF ImportFails, Fail
  <2>4. inUse \in [Output -> BOOLEAN]
    BY DEF TypeInv, TypeOK
  <2> QED
    BY <2>1, <2>2, <2>3, <2>4, <1>0, Apart, PoolFactsNext DEF PoolSpelled
<1>12. CASE HandOverStopped
  <2>1. /\ rgaOutput \in Output /\ rgaOutput' = NoOutput /\ stop'
        /\ UNCHANGED <<poolReady, available, inUse, encodeHeld, mppEncodeInputQueue>>
    BY <1>12 DEF HandOverStopped, TypeInv, TypeOK, Slots
  <2> QED
    BY <2>1, <1>0, Apart, PoolFactsNext DEF PoolSpelled
<1>13. CASE HandOver
  BY <1>13, PoolQuiet DEF HandOver, TypeInv, TypeOK, Slots
<1>14. CASE EnqueueEncodeInput
  <2>1. /\ rgaOutput \in Output /\ rgaOutput' = NoOutput
        /\ mppEncodeInputQueue' = Append(mppEncodeInputQueue, rgaOutput)
        /\ mppEncodeInputQueue \in Seq(Output)
        /\ UNCHANGED <<poolReady, available, inUse, encodeHeld, stop>>
    BY <1>14 DEF EnqueueEncodeInput, TypeInv, TypeOK, Slots
  <2>2. /\ IsInjective(mppEncodeInputQueue')
        /\ Range(mppEncodeInputQueue') = Range(mppEncodeInputQueue) \union {rgaOutput}
    BY <2>1, AppendDistinct, <1>0 DEF PoolSpelled
  <2> QED
    BY <2>1, <2>2, <1>0, Apart, PoolFactsNext DEF PoolSpelled
<1>15. CASE ReturnInput
  BY <1>15, PoolQuiet DEF ReturnInput, TypeInv, TypeOK, Slots
<1>16. CASE TakeEncodeInput
  <2>1. /\ encodeHeld' = Head(mppEncodeInputQueue) /\ encodeHeld = NoOutput
        /\ mppEncodeInputQueue' = Tail(mppEncodeInputQueue)
        /\ mppEncodeInputQueue \in Seq(Output) /\ mppEncodeInputQueue # <<>>
        /\ UNCHANGED <<poolReady, available, inUse, rgaOutput, stop>>
    BY <1>16 DEF TakeEncodeInput, TypeInv, TypeOK, Slots
  <2>2. /\ IsInjective(mppEncodeInputQueue')
        /\ Range(mppEncodeInputQueue') = Range(mppEncodeInputQueue) \ {encodeHeld'}
        /\ encodeHeld' \in Range(mppEncodeInputQueue) /\ encodeHeld' \in Output
    BY <2>1, TailDistinct, HeadInRange, <1>0 DEF PoolSpelled
  <2> QED
    BY <2>1, <2>2, <1>0, Apart, PoolFactsNext DEF PoolSpelled
<1>17. CASE EncodeInputExit
  BY <1>17, PoolQuiet DEF EncodeInputExit, EncExits, TypeInv, TypeOK, Slots
<1>18. CASE EncodeStopped
  <2>1. encodeHeld \in Output /\ QueueOutputToRecycle(encodeHeld)
    BY <1>18 DEF EncodeStopped, TypeInv, TypeOK, Slots
  <2>2. /\ poolReady /\ poolReady' /\ IsInjective(available')
        /\ \A p \in Output : p \in Range(available') <=> ~inUse'[p]
        /\ inUse' = [inUse EXCEPT ![encodeHeld] = FALSE]
    BY <2>1, RecyclePool
  <2>3. /\ encodeHeld' = NoOutput /\ (stop => stop')
        /\ UNCHANGED <<rgaOutput, mppEncodeInputQueue>>
    BY <1>18 DEF EncodeStopped
  <2>4. inUse \in [Output -> BOOLEAN]
    BY DEF TypeInv, TypeOK
  <2> QED
    BY <2>1, <2>2, <2>3, <2>4, <1>0, Apart, PoolFactsNext DEF PoolSpelled
<1>19. CASE EncodeProceeds
  BY <1>19, PoolQuiet DEF EncodeProceeds, TypeInv, TypeOK, Slots
<1>20. CASE PushSucceeds
  BY <1>20, PoolQuiet DEF PushSucceeds, EncoderTakes, TypeInv, TypeOK, Slots
<1>21. CASE PushFails
  BY <1>21, PoolQuiet DEF PushFails, EncoderTakes, TypeInv, TypeOK, Slots
<1>22. CASE RetryPush
  <2> DEFINE one == <<encodeHeld>>
  <2>1. /\ encodeHeld' = NoOutput /\ encodeHeld \in Output
        /\ mppEncodeInputQueue' = one \o mppEncodeInputQueue
        /\ mppEncodeInputQueue \in Seq(Output)
        /\ UNCHANGED <<poolReady, available, inUse, rgaOutput, stop>>
    BY <1>22 DEF RetryPush, PushedFront, TypeInv, TypeOK, Slots
  <2>2. one \in Seq(Output) /\ IsInjective(one) /\ Range(one) = {encodeHeld}
    BY <2>1, SingletonQueue
  <2>3. /\ IsInjective(mppEncodeInputQueue)
        /\ Range(one) \intersect Range(mppEncodeInputQueue) = {}
    BY <2>1, <2>2, <1>0, Apart DEF PoolSpelled
  <2> HIDE DEF one
  <2>4. /\ IsInjective(mppEncodeInputQueue')
        /\ Range(mppEncodeInputQueue') = Range(one) \union Range(mppEncodeInputQueue)
    BY <2>1, <2>2, <2>3, ConcatDistinct
  <2> QED
    BY <2>1, <2>2, <2>4, <1>0, Apart, PoolFactsNext DEF PoolSpelled
<1>23. CASE GiveUpPush
  <2>1. encodeHeld \in Output /\ QueueOutputToRecycle(encodeHeld)
    BY <1>23 DEF GiveUpPush, TypeInv, TypeOK, Slots
  <2>2. /\ poolReady /\ poolReady' /\ IsInjective(available')
        /\ \A p \in Output : p \in Range(available') <=> ~inUse'[p]
        /\ inUse' = [inUse EXCEPT ![encodeHeld] = FALSE]
    BY <2>1, RecyclePool
  <2>3. /\ encodeHeld' = NoOutput /\ (stop => stop')
        /\ UNCHANGED <<rgaOutput, mppEncodeInputQueue>>
    BY <1>23 DEF GiveUpPush, Fail
  <2>4. inUse \in [Output -> BOOLEAN]
    BY DEF TypeInv, TypeOK
  <2> QED
    BY <2>1, <2>2, <2>3, <2>4, <1>0, Apart, PoolFactsNext DEF PoolSpelled
<1>24. CASE ReleaseEncoded
  <2>1. encodeHeld \in Output /\ QueueOutputToRecycle(encodeHeld)
    BY <1>24 DEF ReleaseEncoded, TypeInv, TypeOK, Slots
  <2>2. /\ poolReady /\ poolReady' /\ IsInjective(available')
        /\ \A p \in Output : p \in Range(available') <=> ~inUse'[p]
        /\ inUse' = [inUse EXCEPT ![encodeHeld] = FALSE]
    BY <2>1, RecyclePool
  <2>3. /\ encodeHeld' = NoOutput /\ (stop => stop')
        /\ UNCHANGED <<rgaOutput, mppEncodeInputQueue>>
    BY <1>24 DEF ReleaseEncoded
  <2>4. inUse \in [Output -> BOOLEAN]
    BY DEF TypeInv, TypeOK
  <2> QED
    BY <2>1, <2>2, <2>3, <2>4, <1>0, Apart, PoolFactsNext DEF PoolSpelled
<1>25. CASE RecycleTake
  BY <1>25, PoolQuiet DEF RecycleTake, TypeInv, TypeOK, Slots
<1>26. CASE RecycleReturn
  BY <1>26, PoolQuiet DEF RecycleReturn, TypeInv, TypeOK, Slots
<1>27. CASE RecycleExit
  BY <1>27, PoolQuiet DEF RecycleExit, MayLeave, TypeInv, TypeOK, Slots
<1>28. CASE FinalDrain
  <2> DEFINE q == mppEncodeInputQueue
  <2>1. /\ rgaOutput = NoOutput /\ encodeHeld = NoOutput /\ q \in Seq(Output)
        /\ available \in Seq(Output) /\ inUse \in [Output -> BOOLEAN]
        /\ available' = available \o q /\ mppEncodeInputQueue' = <<>>
        /\ inUse' = [o \in Output |-> inUse[o] /\ o \notin Range(q)]
        /\ UNCHANGED <<poolReady, rgaOutput, encodeHeld, stop>>
    BY <1>28 DEF FinalDrain, TypeInv, TypeOK, Slots
  <2>2. IsInjective(available) /\ IsInjective(q)
        /\ Range(available) \intersect Range(q) = {}
    BY <1>0, EmptyQueue DEF PoolSpelled
  <2>3. /\ IsInjective(available') /\ Range(available') = Range(available) \union Range(q)
    BY <2>1, <2>2, ConcatDistinct
  <2>4. IsInjective(mppEncodeInputQueue') /\ Range(mppEncodeInputQueue') = {}
    BY <2>1, EmptyQueue
  <2>5. ~poolReady => available' = <<>>
    <3> SUFFICES ASSUME ~poolReady PROVE available' = <<>>
      OBVIOUS
    <3>1. available = <<>> /\ Range(q) = {}
      BY <1>0 DEF PoolSpelled
    <3>2. q = <<>>
      BY <2>1, <3>1, HeadInRange
    <3> QED BY <2>1, <3>1, <3>2
  <2> HIDE DEF q
  <2>6. \A o \in Output : inUse'[o] <=> inUse[o] /\ o \notin Range(q)
    BY <2>1
  <2>7. poolReady => \A o \in Output : o \in Range(available') <=> ~inUse'[o]
    BY <2>3, <2>6, <1>0 DEF PoolSpelled, q
  <2>8. ~poolReady => \A o \in Output : ~inUse'[o]
    BY <2>6, <1>0 DEF PoolSpelled
  <2>9. \A o \in Output : inUse'[o] => Lost(o)
    BY <2>1, <2>6, Apart DEF Lost, InHands, q
  <2>10. \A o, p \in Output : inUse'[o] /\ inUse'[p] => o = p /\ stop
    BY <2>9 DEF PoolInv
  <2> QED
    BY <2>1, <2>3, <2>4, <2>5, <2>7, <2>8, <2>10, <1>0, Apart,
        PoolFactsNext DEF PoolSpelled
<1>29. CASE Finished
  BY <1>29, PoolQuiet DEF Finished, vars, TypeInv, TypeOK, Slots
<1>30. CASE UNCHANGED vars
  BY <1>30, PoolQuiet DEF vars, TypeInv, TypeOK, Slots
<1> QED
  BY <1>1, <1>2, <1>3, <1>4, <1>5, <1>6, <1>7, <1>8, <1>9, <1>10, <1>11, <1>12,
      <1>13, <1>14, <1>15, <1>16, <1>17, <1>18, <1>19, <1>20, <1>21, <1>22,
      <1>23, <1>24, <1>25, <1>26, <1>27, <1>28, <1>29, <1>30
  DEF Next, Rga, EncodeInput, RecycleOutputs

-----------------------------------------------------------------------------
(* The numbers of the frames                                                *)

Taken == decodedCount - Len(rgaConsumeQueue)

(* The decoded frames come in order, and the RGA thread has the last taken. *)
DeliveredInv ==
    /\ Taken >= 0
    /\ \A i \in 1 .. Len(rgaConsumeQueue) : rgaConsumeQueue[i] = Taken + i
    /\ inputDesc # NoFrame => inputDesc = Taken

(* At first nothing is decoded.                                             *)
LEMMA DeliveredInit == Init => DeliveredInv
<1> SUFFICES ASSUME Init PROVE DeliveredInv
  OBVIOUS
<1>1. decodedCount = 0 /\ rgaConsumeQueue = <<>> /\ inputDesc = NoFrame
  BY DEF Init
<1>2. Len(rgaConsumeQueue) = 0
  BY <1>1
<1> QED BY <1>1, <1>2 DEF DeliveredInv, Taken

(* Every step keeps the frames in the order of their decoding.              *)
LEMMA DeliveredStep == TypeInv /\ DeliveredInv /\ [Next]_vars => DeliveredInv'
<1> SUFFICES ASSUME TypeInv, DeliveredInv, [Next]_vars PROVE DeliveredInv'
  OBVIOUS
<1> USE DEF NoFailure, Copying, RgaLocal, EncLocal, RecLocal,
            poolVars, rgaVars, encVars, recVars
<1>1. CASE DeliverDecoded
  <2> DEFINE q == rgaConsumeQueue  n == decodedCount + 1
  <2>1. /\ q' = Append(q, n) /\ decodedCount' = n /\ inputDesc' = inputDesc
    BY <1>1 DEF DeliverDecoded
  <2>2. q \in Seq(Frame) /\ n \in Frame /\ Len(q) \in Nat
    BY <1>1, LenProperties DEF DeliverDecoded, Frame, TypeInv, TypeOK
  <2>3. /\ Len(q') = Len(q) + 1 /\ q'[Len(q) + 1] = n
        /\ \A i \in 1 .. Len(q) : q'[i] = q[i]
    BY <2>1, <2>2, AppendProperties
  <2>4. Taken' = Taken /\ Taken + Len(q) + 1 = n /\ Taken \in Int
    BY <2>1, <2>2, <2>3 DEF Taken, TypeInv, TypeOK
  <2> HIDE DEF q, n
  <2>5. ASSUME NEW i \in 1 .. Len(q) + 1 PROVE q'[i] = Taken + i
    <3>1. CASE i = Len(q) + 1
      BY <2>2, <2>3, <2>4, <3>1
    <3>2. CASE i \in 1 .. Len(q)
      BY <2>3, <3>2 DEF DeliveredInv, q
    <3> QED BY <2>2, <3>1, <3>2
  <2> QED BY <2>1, <2>3, <2>4, <2>5 DEF DeliveredInv, q
<1>2. CASE RequestStop
  BY <1>2 DEF RequestStop, DeliveredInv, Taken
<1>3. CASE TakeDecoded
  <2> DEFINE q == rgaConsumeQueue
  <2>1. /\ q' = Tail(q) /\ q # <<>> /\ inputDesc' = Head(q)
        /\ decodedCount' = decodedCount
    BY <1>3 DEF TakeDecoded
  <2>2. q \in Seq(Frame) /\ decodedCount \in Nat
    BY DEF TypeInv, TypeOK
  <2>3. /\ Len(q) \in Nat /\ Len(q) >= 1 /\ Len(q') = Len(q) - 1 /\ Head(q) = q[1]
        /\ \A i \in 1 .. Len(q) - 1 : q'[i] = q[i + 1]
    <3>1. Len(q) \in Nat /\ Len(q) # 0 /\ Head(q) = q[1]
      BY <2>1, <2>2, EmptySeq, LenProperties
    <3> QED BY <2>1, <2>2, <3>1, HeadTailProperties
  <2> HIDE DEF q
  <2>4. Taken' = Taken + 1 /\ Taken \in Int
    BY <2>1, <2>2, <2>3 DEF Taken, q
  <2>5. Head(q) = Taken + 1
    BY <2>3, <2>4 DEF DeliveredInv, q
  <2>6. ASSUME NEW i \in 1 .. Len(q) - 1 PROVE q'[i] = Taken + 1 + i
    <3>1. i + 1 \in 1 .. Len(q)
      BY <2>3
    <3>2. q[i + 1] = Taken + (i + 1)
      BY <3>1 DEF DeliveredInv, q
    <3> QED BY <2>3, <2>4, <3>2
  <2> QED BY <2>1, <2>3, <2>4, <2>5, <2>6 DEF DeliveredInv, q
<1>4. CASE RgaExit
  BY <1>4 DEF RgaExit, RgaLeaves, DeliveredInv, Taken
<1>5. CASE CopyStopped
  BY <1>5 DEF CopyStopped, DeliveredInv, Taken
<1>6. CASE CopyAcquires
  BY <1>6 DEF CopyAcquires, AcquireFrom, Popped, DeliveredInv, Taken
<1>7. CASE CopyFails
  BY <1>7 DEF CopyFails, CopyReturnsNull, Fail, DeliveredInv, Taken
<1>8. CASE BlitFails
  BY <1>8 DEF BlitFails, CopyReturnsNull, Fail, DeliveredInv, Taken
<1>9. CASE BlitSucceeds
  BY <1>9 DEF BlitSucceeds, DeliveredInv, Taken
<1>10. CASE ImportSucceeds
  BY <1>10 DEF ImportSucceeds, DeliveredInv, Taken
<1>11. CASE ImportFails
  BY <1>11 DEF ImportFails, Fail, DeliveredInv, Taken
<1>12. CASE HandOverStopped
  BY <1>12 DEF HandOverStopped, DeliveredInv, Taken
<1>13. CASE HandOver
  BY <1>13 DEF HandOver, DeliveredInv, Taken
<1>14. CASE EnqueueEncodeInput
  BY <1>14 DEF EnqueueEncodeInput, DeliveredInv, Taken
<1>15. CASE ReturnInput
  BY <1>15 DEF ReturnInput, DeliveredInv, Taken
<1>16. CASE TakeEncodeInput
  BY <1>16 DEF TakeEncodeInput, DeliveredInv, Taken
<1>17. CASE EncodeInputExit
  BY <1>17 DEF EncodeInputExit, EncExits, DeliveredInv, Taken
<1>18. CASE EncodeStopped
  BY <1>18 DEF EncodeStopped, EncExits, DeliveredInv, Taken
<1>19. CASE EncodeProceeds
  BY <1>19 DEF EncodeProceeds, DeliveredInv, Taken
<1>20. CASE PushSucceeds
  BY <1>20 DEF PushSucceeds, EncoderTakes, DeliveredInv, Taken
<1>21. CASE PushFails
  BY <1>21 DEF PushFails, EncoderTakes, DeliveredInv, Taken
<1>22. CASE RetryPush
  BY <1>22 DEF RetryPush, PushedFront, DeliveredInv, Taken
<1>23. CASE GiveUpPush
  BY <1>23 DEF GiveUpPush, Fail, EncExits, DeliveredInv, Taken
<1>24. CASE ReleaseEncoded
  BY <1>24 DEF ReleaseEncoded, DeliveredInv, Taken
<1>25. CASE RecycleTake
  BY <1>25 DEF RecycleTake, DeliveredInv, Taken
<1>26. CASE RecycleReturn
  BY <1>26 DEF RecycleReturn, DeliveredInv, Taken
<1>27. CASE RecycleExit
  BY <1>27 DEF RecycleExit, MayLeave, DeliveredInv, Taken
<1>28. CASE FinalDrain
  <2>1. /\ rgaConsumeQueue' = <<>> /\ inputDesc' = NoFrame
        /\ decodedCount' = decodedCount
    BY <1>28 DEF FinalDrain, TypeInv, TypeOK, Slots
  <2>2. Len(rgaConsumeQueue') = 0 /\ decodedCount \in Nat
    BY <2>1 DEF TypeInv, TypeOK
  <2> QED BY <2>1, <2>2 DEF DeliveredInv, Taken
<1>29. CASE Finished
  BY <1>29 DEF Finished, vars, DeliveredInv, Taken
<1>30. CASE UNCHANGED vars
  BY <1>30 DEF vars, DeliveredInv, Taken
<1> QED
  BY <1>1, <1>2, <1>3, <1>4, <1>5, <1>6, <1>7, <1>8, <1>9, <1>10, <1>11, <1>12,
      <1>13, <1>14, <1>15, <1>16, <1>17, <1>18, <1>19, <1>20, <1>21, <1>22,
      <1>23, <1>24, <1>25, <1>26, <1>27, <1>28, <1>29, <1>30
  DEF Next, Rga, EncodeInput, RecycleOutputs

(* The copy the RGA thread hands over is that of the frame it took.         *)
CopyInv == rgaPc \in {"import", "handover", "enqueue"} => content[rgaOutput] = inputDesc

(* At first there is no copy.                                               *)
LEMMA CopyInit == Init => CopyInv
BY DEF Init, CopyInv

(* No other thread writes or recycles the output the RGA thread holds.      *)
LEMMA CopyStep == TypeInv /\ PoolInv /\ CopyInv /\ [Next]_vars => CopyInv'
<1> SUFFICES ASSUME TypeInv, PoolInv, CopyInv, [Next]_vars PROVE CopyInv'
  OBVIOUS
<1>0. PoolSpelled
  BY PoolFacts
<1> USE DEF NoFailure, Copying, RgaLocal, EncLocal, RecLocal,
            poolVars, rgaVars, encVars, recVars
<1>1. CASE DeliverDecoded
  BY <1>1 DEF DeliverDecoded, CopyInv
<1>2. CASE RequestStop
  BY <1>2 DEF RequestStop, CopyInv
<1>3. CASE TakeDecoded
  BY <1>3 DEF TakeDecoded, CopyInv
<1>4. CASE RgaExit
  BY <1>4 DEF RgaExit, RgaLeaves, CopyInv
<1>5. CASE CopyStopped
  BY <1>5 DEF CopyStopped, CopyInv
<1>6. CASE CopyAcquires
  BY <1>6 DEF CopyAcquires, AcquireFrom, Popped, CopyInv
<1>7. CASE CopyFails
  BY <1>7 DEF CopyFails, CopyReturnsNull, CopyInv
<1>8. CASE BlitFails
  BY <1>8 DEF BlitFails, CopyReturnsNull, CopyInv
<1>9. CASE BlitSucceeds
  BY <1>9 DEF BlitSucceeds, CopyInv, TypeInv, TypeOK, Slots
<1>10. CASE ImportSucceeds
  BY <1>10 DEF ImportSucceeds, CopyInv
<1>11. CASE ImportFails
  BY <1>11 DEF ImportFails, CopyInv
<1>12. CASE HandOverStopped
  BY <1>12 DEF HandOverStopped, CopyInv
<1>13. CASE HandOver
  BY <1>13 DEF HandOver, CopyInv
<1>14. CASE EnqueueEncodeInput
  BY <1>14 DEF EnqueueEncodeInput, CopyInv
<1>15. CASE ReturnInput
  BY <1>15 DEF ReturnInput, CopyInv
<1>16. CASE TakeEncodeInput
  BY <1>16 DEF TakeEncodeInput, CopyInv
<1>17. CASE EncodeInputExit
  BY <1>17 DEF EncodeInputExit, EncExits, CopyInv
<1>18. CASE EncodeStopped
  <2>1. encodeHeld \in Output /\ QueueOutputToRecycle(encodeHeld)
        /\ UNCHANGED <<rgaPc, rgaOutput, inputDesc>>
    BY <1>18 DEF EncodeStopped, TypeInv, TypeOK, Slots
  <2>2. content' = [content EXCEPT ![encodeHeld] = NoFrame]
    BY <2>1, RecyclePool
  <2>3. rgaPc \in {"import", "handover", "enqueue"} =>
           rgaOutput # encodeHeld /\ rgaOutput \in Output
    BY <1>0 DEF PoolSpelled, TypeInv, TypeOK, Slots
  <2>4. content \in [Output -> Frame \union {NoFrame}]
    BY DEF TypeInv, TypeOK
  <2> QED BY <2>1, <2>2, <2>3, <2>4 DEF CopyInv
<1>19. CASE EncodeProceeds
  BY <1>19 DEF EncodeProceeds, CopyInv
<1>20. CASE PushSucceeds
  BY <1>20 DEF PushSucceeds, EncoderTakes, CopyInv
<1>21. CASE PushFails
  BY <1>21 DEF PushFails, EncoderTakes, CopyInv
<1>22. CASE RetryPush
  BY <1>22 DEF RetryPush, PushedFront, CopyInv
<1>23. CASE GiveUpPush
  <2>1. encodeHeld \in Output /\ QueueOutputToRecycle(encodeHeld)
        /\ UNCHANGED <<rgaPc, rgaOutput, inputDesc>>
    BY <1>23 DEF GiveUpPush, TypeInv, TypeOK, Slots
  <2>2. content' = [content EXCEPT ![encodeHeld] = NoFrame]
    BY <2>1, RecyclePool
  <2>3. rgaPc \in {"import", "handover", "enqueue"} =>
           rgaOutput # encodeHeld /\ rgaOutput \in Output
    BY <1>0 DEF PoolSpelled, TypeInv, TypeOK, Slots
  <2>4. content \in [Output -> Frame \union {NoFrame}]
    BY DEF TypeInv, TypeOK
  <2> QED BY <2>1, <2>2, <2>3, <2>4 DEF CopyInv
<1>24. CASE ReleaseEncoded
  <2>1. encodeHeld \in Output /\ QueueOutputToRecycle(encodeHeld)
        /\ UNCHANGED <<rgaPc, rgaOutput, inputDesc>>
    BY <1>24 DEF ReleaseEncoded, TypeInv, TypeOK, Slots
  <2>2. content' = [content EXCEPT ![encodeHeld] = NoFrame]
    BY <2>1, RecyclePool
  <2>3. rgaPc \in {"import", "handover", "enqueue"} =>
           rgaOutput # encodeHeld /\ rgaOutput \in Output
    BY <1>0 DEF PoolSpelled, TypeInv, TypeOK, Slots
  <2>4. content \in [Output -> Frame \union {NoFrame}]
    BY DEF TypeInv, TypeOK
  <2> QED BY <2>1, <2>2, <2>3, <2>4 DEF CopyInv
<1>25. CASE RecycleTake
  BY <1>25 DEF RecycleTake, CopyInv
<1>26. CASE RecycleReturn
  BY <1>26 DEF RecycleReturn, CopyInv
<1>27. CASE RecycleExit
  BY <1>27 DEF RecycleExit, MayLeave, CopyInv
<1>28. CASE FinalDrain
  BY <1>28 DEF FinalDrain, CopyInv
<1>29. CASE Finished
  BY <1>29 DEF Finished, vars, CopyInv
<1>30. CASE UNCHANGED vars
  BY <1>30 DEF vars, CopyInv
<1> QED
  BY <1>1, <1>2, <1>3, <1>4, <1>5, <1>6, <1>7, <1>8, <1>9, <1>10, <1>11, <1>12,
      <1>13, <1>14, <1>15, <1>16, <1>17, <1>18, <1>19, <1>20, <1>21, <1>22,
      <1>23, <1>24, <1>25, <1>26, <1>27, <1>28, <1>29, <1>30
  DEF Next, Rga, EncodeInput, RecycleOutputs

-----------------------------------------------------------------------------
(* The order in which the encoder gets the frames                           *)

LastEncoded == IF encoded = <<>> THEN 0 ELSE encoded[Len(encoded)]

(* With h frames handed to the encode-input thread, those in its queue are  *)
(* the last ones; before them comes the one it holds, and before that the   *)
(* one encoded last, unless the encoder took one without telling.           *)
Ahead(h) == h - Len(mppEncodeInputQueue)

QueueChain(h) ==
    /\ Ahead(h) >= 0
    /\ \A i \in 1 .. Len(mppEncodeInputQueue) :
          content[mppEncodeInputQueue[i]] = Ahead(h) + i

Encodes(last, told, n) == last = n - 1 \/ (last = n /\ n \in told)

HeldChain(h) ==
    /\ encPc = "wait" => Encodes(LastEncoded, untold, Ahead(h) + 1)
    /\ encPc \in {"check", "push", "failed"} =>
          content[encodeHeld] = Ahead(h) /\ Ahead(h) >= 1 /\ Encodes(LastEncoded, untold, Ahead(h))
    /\ encPc = "release" => LastEncoded = Ahead(h)

(* Until a stop the RGA thread hands over every frame it takes, and after   *)
(* one at most the frame it is about to enqueue.                            *)
HandedOver(h) ==
    /\ rgaPc \in {"copy", "blit", "import", "handover"} /\ ~stop => h = inputDesc - 1
    /\ rgaPc = "enqueue" => h = inputDesc - 1
    /\ rgaPc = "return" /\ ~stop => h = inputDesc
    /\ rgaPc = "wait" /\ ~stop => h = Taken

ChainInv == \E h \in Nat : QueueChain(h) /\ HeldChain(h) /\ HandedOver(h)

(* At first nothing is handed over.                                         *)
LEMMA ChainInit == Init => ChainInv /\ EncodedInOrder
<1> SUFFICES ASSUME Init PROVE ChainInv /\ EncodedInOrder
  OBVIOUS
<1>1. /\ mppEncodeInputQueue = <<>> /\ rgaConsumeQueue = <<>> /\ encoded = <<>>
      /\ decodedCount = 0 /\ encPc = "wait" /\ rgaPc = "wait"
  BY DEF Init
<1>2. /\ Len(mppEncodeInputQueue) = 0 /\ Len(rgaConsumeQueue) = 0 /\ DOMAIN encoded = {}
      /\ decodedCount = 0
  BY <1>1
<1>3. LastEncoded = 0
  BY <1>1 DEF LastEncoded
<1>4. Ahead(0) = 0 /\ Taken = 0
  BY ONLY <1>2 DEF Ahead, Taken
<1>5. QueueChain(0)
  BY <1>2, <1>4 DEF QueueChain
<1>6. HeldChain(0) /\ HandedOver(0)
  BY <1>1, <1>3, <1>4 DEF HeldChain, HandedOver, Encodes
<1> QED BY <1>2, <1>5, <1>6 DEF ChainInv, EncodedInOrder

(* What waits for the encoder is not the NoFrame of a free output.          *)
LEMMA ChainHeld == TypeInv /\ ChainInv => HeldContent
BY DEF ChainInv, HeldChain, HeldContent, NoFrame

(* A step that leaves what waits for the encoder as it is.                  *)
LEMMA QueueChainKept ==
    ASSUME NEW h \in Nat, TypeInv, QueueChain(h),
           UNCHANGED mppEncodeInputQueue,
           \A o \in Range(mppEncodeInputQueue) : content'[o] = content[o]
    PROVE  QueueChain(h)' /\ Ahead(h)' = Ahead(h)
<1>1. \A i \in 1 .. Len(mppEncodeInputQueue) :
         mppEncodeInputQueue[i] \in Range(mppEncodeInputQueue)
  BY LenProperties DEF Range, TypeInv, TypeOK
<1> QED BY <1>1 DEF QueueChain, Ahead

(* A step that leaves the encode-input thread alone and does not hand a     *)
(* copy over leaves what that thread holds where it was in the order.       *)
LEMMA HeldChainKept ==
    ASSUME NEW h \in Nat, HeldChain(h), UNCHANGED <<encPc, encodeHeld, encoded, untold>>,
           Ahead(h)' = Ahead(h),
           encPc \in {"check", "push", "failed"} => content'[encodeHeld] = content[encodeHeld]
    PROVE  HeldChain(h)'
<1>1. LastEncoded' = LastEncoded
  BY DEF LastEncoded
<1> QED BY <1>1 DEF HeldChain

(* A step of another thread.                                                *)
LEMMA HandedOverKept ==
    ASSUME NEW h \in Nat, HandedOver(h), UNCHANGED <<rgaPc, inputDesc>>,
           Taken' = Taken, stop => stop'
    PROVE  HandedOver(h)'
BY DEF HandedOver

(* Giving back the output an encode step holds leaves the queue's contents. *)
LEMMA RecycledContent ==
    ASSUME TypeInv, PoolInv, NEW o \in Output, QueueOutputToRecycle(o),
           o \in {rgaOutput, encodeHeld}
    PROVE  \A p \in Output : p # o => content'[p] = content[p]
<1>1. content' = [content EXCEPT ![o] = NoFrame] /\ content \in [Output -> Frame \union {NoFrame}]
  BY RecyclePool DEF TypeInv, TypeOK
<1> QED BY <1>1

(* The encoder takes the next frame, or once more one it had taken untold.  *)
LEMMA EncodedStep ==
    ASSUME TypeInv, HeldContent, EncodedInOrder, encPc = "push", EncoderTakes,
           untold \subseteq untold', Encodes(LastEncoded, untold, content[encodeHeld])
    PROVE  EncodedInOrder' /\ LastEncoded' = content[encodeHeld]
<1> DEFINE n == content[encodeHeld]  e == encoded
<1>1. n \in Frame /\ e \in Seq(Frame) /\ n \in Int
  BY DEF TypeInv, TypeOK, Slots, HeldContent, Frame
<1>2. /\ encoded' \in Seq(Frame) /\ Len(encoded') = Len(e) + 1 /\ Len(e) \in Nat
      /\ \A i \in 1 .. Len(e) : encoded'[i] = e[i]
      /\ encoded'[Len(e) + 1] = n
      /\ DOMAIN e = 1 .. Len(e) /\ DOMAIN encoded' = 1 .. Len(e) + 1
  BY <1>1, AppendProperties, LenProperties DEF EncoderTakes
<1>3. encoded' # <<>>
  BY <1>2
<1>4. LastEncoded' = n
  BY <1>2, <1>3 DEF LastEncoded
<1>5. LastEncoded = IF Len(e) = 0 THEN 0 ELSE e[Len(e)]
  BY <1>1, EmptySeq DEF LastEncoded
<1>6. n = LastEncoded + 1 \/ (n = LastEncoded /\ n \in untold)
  <2>1. LastEncoded \in Int
    BY <1>1, <1>2, <1>5, ElementOfSeq DEF Frame
  <2> QED BY <1>1, <2>1 DEF Encodes
<1> HIDE DEF n, e
<1>7. ASSUME NEW i \in 1 .. Len(e) + 1
      PROVE  LET last == IF i = 1 THEN 0 ELSE encoded'[i - 1] IN
             encoded'[i] = last + 1 \/ (encoded'[i] = last /\ last \in untold')
  <2>1. CASE i \in 1 .. Len(e)
    <3>1. LET last == IF i = 1 THEN 0 ELSE e[i - 1] IN
          e[i] = last + 1 \/ (e[i] = last /\ last \in untold)
      BY <1>2, <2>1 DEF EncodedInOrder, e
    <3>2. encoded'[i] = e[i] /\ (i # 1 => encoded'[i - 1] = e[i - 1])
      BY <1>2, <2>1
    <3> QED BY <3>1, <3>2
  <2>2. CASE i = Len(e) + 1
    <3>1. LastEncoded = IF i = 1 THEN 0 ELSE encoded'[i - 1]
      BY <1>2, <1>5, <2>2
    <3> QED BY <1>2, <1>6, <2>2, <3>1
  <2> QED BY <1>2, <2>1, <2>2
<1> QED BY <1>2, <1>4, <1>7 DEF EncodedInOrder, n

(* A step in which the encoder takes nothing.                               *)
LEMMA EncodedKept ==
    ASSUME EncodedInOrder, UNCHANGED <<encoded, untold>>
    PROVE  EncodedInOrder'
BY DEF EncodedInOrder

(* A step that touches nothing the encoder is to get.                       *)
LEMMA Aside ==
    ASSUME NEW h \in Nat, TypeInv, QueueChain(h), HeldChain(h), EncodedInOrder,
           UNCHANGED <<mppEncodeInputQueue, content, encPc, encodeHeld, encoded, untold>>
    PROVE  QueueChain(h)' /\ HeldChain(h)' /\ EncodedInOrder'
<1>1. QueueChain(h)' /\ Ahead(h)' = Ahead(h)
  BY QueueChainKept
<1>2. HeldChain(h)'
  BY <1>1, HeldChainKept
<1> QED BY <1>1, <1>2, EncodedKept

(* Every step keeps the frames in order up to the encoder.                  *)
LEMMA ChainStep ==
    TypeInv /\ TypeInv' /\ PoolInv /\ DeliveredInv /\ CopyInv /\ ChainInv /\ EncodedInOrder
      /\ [Next]_vars => ChainInv' /\ EncodedInOrder'
<1> SUFFICES ASSUME TypeInv, TypeInv', PoolInv, DeliveredInv, CopyInv, ChainInv,
                    EncodedInOrder, [Next]_vars
             PROVE  ChainInv' /\ EncodedInOrder'
  OBVIOUS
<1>0. PoolSpelled /\ HeldContent
  BY PoolFacts, ChainHeld
<1> PICK h \in Nat : QueueChain(h) /\ HeldChain(h) /\ HandedOver(h)
  BY DEF ChainInv
<1> USE DEF NoFailure, Copying, RgaLocal, EncLocal, RecLocal,
            poolVars, rgaVars, encVars, recVars
<1>1. CASE DeliverDecoded
  <2>1. QueueChain(h)' /\ HeldChain(h)' /\ EncodedInOrder'
    BY <1>1, Aside DEF DeliverDecoded
  <2>2. HandedOver(h)'
    <3>1. rgaConsumeQueue \in Seq(Frame) /\ decodedCount + 1 \in Frame
          /\ rgaConsumeQueue' = Append(rgaConsumeQueue, decodedCount + 1)
          /\ decodedCount' = decodedCount + 1 /\ decodedCount \in Nat
          /\ UNCHANGED <<rgaPc, inputDesc, stop>>
      BY <1>1 DEF DeliverDecoded, TypeInv, TypeOK, Frame
    <3>2. Len(rgaConsumeQueue') = Len(rgaConsumeQueue) + 1 /\ Len(rgaConsumeQueue) \in Nat
      BY <3>1, AppendProperties, LenProperties
    <3>3. Taken' = Taken
      BY <3>1, <3>2 DEF Taken
    <3> QED BY <3>1, <3>3, HandedOverKept
  <2> QED BY <2>1, <2>2 DEF ChainInv
<1>2. CASE RequestStop
  <2>1. QueueChain(h)' /\ HeldChain(h)' /\ EncodedInOrder'
    BY <1>2, Aside DEF RequestStop
  <2>2. HandedOver(h)'
    BY <1>2 DEF RequestStop, HandedOver, Taken
  <2> QED BY <2>1, <2>2 DEF ChainInv
<1>3. CASE TakeDecoded
  <2>1. QueueChain(h)' /\ HeldChain(h)' /\ EncodedInOrder'
    BY <1>3, Aside DEF TakeDecoded
  <2>2. HandedOver(h)'
    <3>1. rgaConsumeQueue \in Seq(Frame) /\ rgaConsumeQueue # <<>>
          /\ decodedCount \in Nat /\ UNCHANGED decodedCount
          /\ rgaConsumeQueue' = Tail(rgaConsumeQueue) /\ UNCHANGED stop
          /\ rgaPc = "wait" /\ rgaPc' = "copy" /\ inputDesc' \in Frame
      BY <1>3 DEF TakeDecoded, TypeInv, TypeOK, Slots
    <3>2. Len(rgaConsumeQueue') = Len(rgaConsumeQueue) - 1 /\ Len(rgaConsumeQueue) \in Nat
      BY <3>1, HeadTailProperties, LenProperties
    <3>3. inputDesc' = Taken + 1
      <4>1. inputDesc' = Taken'
        BY <3>1, DeliveredStep, Apart DEF DeliveredInv
      <4> QED BY <3>1, <3>2, <4>1 DEF Taken
    <3>4. Taken \in Int
      BY <3>1, <3>2 DEF Taken
    <3> QED BY <3>1, <3>3, <3>4 DEF HandedOver
  <2> QED BY <2>1, <2>2 DEF ChainInv
<1>4. CASE RgaExit
  <2>1. QueueChain(h)' /\ HeldChain(h)' /\ EncodedInOrder'
    BY <1>4, Aside DEF RgaExit, RgaLeaves
  <2>2. HandedOver(h)'
    BY <1>4 DEF RgaExit, RgaLeaves, HandedOver, Taken
  <2> QED BY <2>1, <2>2 DEF ChainInv
<1>5. CASE CopyStopped
  <2>1. QueueChain(h)' /\ HeldChain(h)' /\ EncodedInOrder'
    BY <1>5, Aside DEF CopyStopped
  <2>2. HandedOver(h)'
    BY <1>5 DEF CopyStopped, HandedOver, Taken
  <2> QED BY <2>1, <2>2 DEF ChainInv
<1>6. CASE CopyAcquires
  <2>1. QueueChain(h)' /\ HeldChain(h)' /\ EncodedInOrder'
    BY <1>6, Aside DEF CopyAcquires, AcquireFrom, Popped
  <2>2. HandedOver(h)'
    BY <1>6 DEF CopyAcquires, AcquireFrom, Popped, HandedOver, Taken
  <2> QED BY <2>1, <2>2 DEF ChainInv
<1>7. CASE CopyFails
  <2>1. QueueChain(h)' /\ HeldChain(h)' /\ EncodedInOrder'
    BY <1>7, Aside DEF CopyFails, CopyReturnsNull, Fail
  <2>2. HandedOver(h)'
    BY <1>7 DEF CopyFails, CopyReturnsNull, Fail, HandedOver, Taken
  <2> QED BY <2>1, <2>2 DEF ChainInv
<1>8. CASE BlitFails
  <2>1. UNCHANGED <<mppEncodeInputQueue, encPc, encodeHeld, encoded, untold>>
    BY <1>8 DEF BlitFails, CopyReturnsNull, Fail
  <2>2. rgaOutput \in Output /\ QueueOutputToRecycle(rgaOutput)
    BY <1>8 DEF BlitFails, TypeInv, TypeOK, Slots
  <2>3. \A o \in Output : o # rgaOutput => content'[o] = content[o]
    BY <2>2, RecycledContent
  <2>4. /\ \A o \in Range(mppEncodeInputQueue) : content'[o] = content[o]
        /\ encPc \in {"check", "push", "failed"} => content'[encodeHeld] = content[encodeHeld]
    BY <1>0, <2>2, <2>3, Apart DEF PoolSpelled, TypeInv, TypeOK, Slots
  <2>5. QueueChain(h)' /\ Ahead(h)' = Ahead(h)
    BY <2>1, <2>4, QueueChainKept
  <2>6. HeldChain(h)'
    BY <2>1, <2>4, <2>5, HeldChainKept
  <2>7. HandedOver(h)'
    BY <1>8 DEF BlitFails, CopyReturnsNull, Fail, HandedOver, Taken
  <2> QED BY <2>1, <2>5, <2>6, <2>7, EncodedKept DEF ChainInv
<1>9. CASE BlitSucceeds
  <2>1. /\ UNCHANGED <<mppEncodeInputQueue, encPc, encodeHeld, encoded, untold>>
        /\ content' = [content EXCEPT ![rgaOutput] = inputDesc]
    BY <1>9 DEF BlitSucceeds
  <2>2. rgaOutput \in Output /\ content \in [Output -> Frame \union {NoFrame}]
    BY <1>9 DEF BlitSucceeds, TypeInv, TypeOK, Slots
  <2>3. \A o \in Output : o # rgaOutput => content'[o] = content[o]
    BY <2>1, <2>2
  <2>4. /\ \A o \in Range(mppEncodeInputQueue) : content'[o] = content[o]
        /\ encPc \in {"check", "push", "failed"} => content'[encodeHeld] = content[encodeHeld]
    BY <1>0, <2>2, <2>3, Apart DEF PoolSpelled, TypeInv, TypeOK, Slots
  <2>5. QueueChain(h)' /\ Ahead(h)' = Ahead(h)
    BY <2>1, <2>4, QueueChainKept
  <2>6. HeldChain(h)'
    BY <2>1, <2>4, <2>5, HeldChainKept
  <2>7. HandedOver(h)'
    BY <1>9 DEF BlitSucceeds, HandedOver, Taken
  <2> QED BY <2>1, <2>5, <2>6, <2>7, EncodedKept DEF ChainInv
<1>10. CASE ImportSucceeds
  <2>1. QueueChain(h)' /\ HeldChain(h)' /\ EncodedInOrder'
    BY <1>10, Aside DEF ImportSucceeds
  <2>2. HandedOver(h)'
    BY <1>10 DEF ImportSucceeds, HandedOver, Taken
  <2> QED BY <2>1, <2>2 DEF ChainInv
<1>11. CASE ImportFails
  <2>1. UNCHANGED <<mppEncodeInputQueue, encPc, encodeHeld, encoded, untold>>
    BY <1>11 DEF ImportFails, Fail
  <2>2. rgaOutput \in Output /\ QueueOutputToRecycle(rgaOutput)
    BY <1>11 DEF ImportFails, TypeInv, TypeOK, Slots
  <2>3. \A o \in Output : o # rgaOutput => content'[o] = content[o]
    BY <2>2, RecycledContent
  <2>4. /\ \A o \in Range(mppEncodeInputQueue) : content'[o] = content[o]
        /\ encPc \in {"check", "push", "failed"} => content'[encodeHeld] = content[encodeHeld]
    BY <1>0, <2>2, <2>3, Apart DEF PoolSpelled, TypeInv, TypeOK, Slots
  <2>5. QueueChain(h)' /\ Ahead(h)' = Ahead(h)
    BY <2>1, <2>4, QueueChainKept
  <2>6. HeldChain(h)'
    BY <2>1, <2>4, <2>5, HeldChainKept
  <2>7. HandedOver(h)'
    BY <1>11 DEF ImportFails, CopyReturnsNull, Fail, HandedOver, Taken
  <2> QED BY <2>1, <2>5, <2>6, <2>7, EncodedKept DEF ChainInv
<1>12. CASE HandOverStopped
  <2>1. QueueChain(h)' /\ HeldChain(h)' /\ EncodedInOrder'
    BY <1>12, Aside DEF HandOverStopped
  <2>2. HandedOver(h)'
    BY <1>12 DEF HandOverStopped, HandedOver, Taken
  <2> QED BY <2>1, <2>2 DEF ChainInv
<1>13. CASE HandOver
  <2>1. QueueChain(h)' /\ HeldChain(h)' /\ EncodedInOrder'
    BY <1>13, Aside DEF HandOver
  <2>2. HandedOver(h)'
    BY <1>13 DEF HandOver, HandedOver, Taken
  <2> QED BY <2>1, <2>2 DEF ChainInv
<1>14. CASE EnqueueEncodeInput
  <2> DEFINE q == mppEncodeInputQueue
  <2>1. /\ q' = Append(q, rgaOutput) /\ rgaOutput \in Output /\ q \in Seq(Output)
        /\ UNCHANGED <<content, encPc, encodeHeld, encoded, untold, inputDesc>>
        /\ rgaPc = "enqueue" /\ rgaPc' = "return"
    BY <1>14 DEF EnqueueEncodeInput, TypeInv, TypeOK, Slots
  <2>2. /\ Len(q') = Len(q) + 1 /\ Len(q) \in Nat
        /\ \A i \in 1 .. Len(q) : q'[i] = q[i]
        /\ q'[Len(q) + 1] = rgaOutput
    BY <2>1, AppendProperties, LenProperties
  <2>3. h = inputDesc - 1 /\ content[rgaOutput] = inputDesc /\ inputDesc \in Int
    BY <2>1 DEF HandedOver, CopyInv, TypeInv, TypeOK, Frame, NoFrame
  <2> HIDE DEF q
  <2>4. Ahead(h) = h - Len(q) /\ Ahead(h + 1)' = h + 1 - Len(q')
    BY DEF Ahead, q
  <2>5. ASSUME NEW i \in 1 .. Len(q) + 1 PROVE content[q'[i]] = Ahead(h) + i
    <3>1. CASE i = Len(q) + 1
      BY <2>2, <2>3, <2>4, <3>1
    <3>2. CASE i \in 1 .. Len(q)
      BY <2>2, <3>2 DEF QueueChain, q
    <3> QED BY <2>2, <3>1, <3>2
  <2>6. Ahead(h + 1)' = Ahead(h)
    BY <2>2, <2>4
  <2>7. QueueChain(h + 1)'
    BY <2>1, <2>2, <2>5, <2>6 DEF QueueChain, q
  <2>8. HeldChain(h + 1)'
    <3>1. LastEncoded' = LastEncoded
      BY <2>1 DEF LastEncoded
    <3> QED BY <2>1, <2>6, <3>1 DEF HeldChain
  <2>9. HandedOver(h + 1)'
    BY <2>1, <2>3 DEF HandedOver
  <2> QED BY <2>1, <2>7, <2>8, <2>9, EncodedKept DEF ChainInv
<1>15. CASE ReturnInput
  <2>1. QueueChain(h)' /\ HeldChain(h)' /\ EncodedInOrder'
    BY <1>15, Aside DEF ReturnInput
  <2>2. HandedOver(h)'
    <3>1. inputDesc = Taken
      BY <1>15 DEF ReturnInput, DeliveredInv, TypeInv, Slots
    <3> QED BY <1>15, <3>1 DEF ReturnInput, HandedOver, Taken
  <2> QED BY <2>1, <2>2 DEF ChainInv
<1>16. CASE TakeEncodeInput
  <2> DEFINE q == mppEncodeInputQueue
  <2>1. /\ q' = Tail(q) /\ q # <<>> /\ q \in Seq(Output) /\ encodeHeld' = Head(q)
        /\ UNCHANGED <<content, encoded, untold, rgaPc, inputDesc, stop,
                       decodedCount, rgaConsumeQueue>>
        /\ encPc = "wait" /\ encPc' = "check"
    BY <1>16 DEF TakeEncodeInput, TypeInv, TypeOK
  <2>2. /\ Len(q) \in Nat /\ Len(q) >= 1 /\ Len(q') = Len(q) - 1 /\ Head(q) = q[1]
        /\ \A i \in 1 .. Len(q) - 1 : q'[i] = q[i + 1]
    <3>1. Len(q) \in Nat /\ Len(q) # 0 /\ Head(q) = q[1]
      BY <2>1, EmptySeq, LenProperties
    <3> QED BY <2>1, <3>1, HeadTailProperties
  <2> HIDE DEF q
  <2>3. Ahead(h)' = Ahead(h) + 1 /\ Ahead(h) \in Int /\ Ahead(h) >= 0
    BY <2>2 DEF Ahead, q, QueueChain
  <2>4. content[Head(q)] = Ahead(h) + 1
    BY <2>2, <2>3 DEF QueueChain, q
  <2>5. ASSUME NEW i \in 1 .. Len(q) - 1 PROVE content[q'[i]] = Ahead(h) + 1 + i
    <3>1. i + 1 \in 1 .. Len(q)
      BY <2>2
    <3>2. content[q[i + 1]] = Ahead(h) + (i + 1)
      BY <3>1 DEF QueueChain, q
    <3> QED BY <2>2, <2>3, <3>2
  <2>6. QueueChain(h)'
    BY <2>1, <2>2, <2>3, <2>5 DEF QueueChain, q
  <2>7. HeldChain(h)'
    <3>1. LastEncoded' = LastEncoded
      BY <2>1 DEF LastEncoded
    <3>2. Encodes(LastEncoded', untold', Ahead(h) + 1)
      BY <2>1, <3>1 DEF Encodes, HeldChain
    <3> QED BY <2>1, <2>3, <2>4, <3>1 DEF HeldChain, Encodes
  <2>8. HandedOver(h)'
    BY <2>1, HandedOverKept DEF Taken
  <2> QED BY <2>1, <2>6, <2>7, <2>8, EncodedKept DEF ChainInv
<1>17. CASE EncodeInputExit
  <2>1. UNCHANGED <<mppEncodeInputQueue, content, encodeHeld, encoded, untold, rgaPc, inputDesc,
                    stop, decodedCount, rgaConsumeQueue>>
    BY <1>17 DEF EncodeInputExit, EncExits
  <2>2. QueueChain(h)' /\ Ahead(h)' = Ahead(h)
    BY <2>1, QueueChainKept
  <2>3. HeldChain(h)'
    <3>1. LastEncoded' = LastEncoded
      BY <2>1 DEF LastEncoded
    <3> QED BY <1>17, <2>1, <2>2, <3>1 DEF EncodeInputExit, EncExits, HeldChain,
        Encodes
  <2>4. HandedOver(h)'
    BY <2>1, HandedOverKept DEF Taken
  <2> QED BY <2>1, <2>2, <2>3, <2>4, EncodedKept DEF ChainInv
<1>18. CASE EncodeStopped
  <2>1. /\ UNCHANGED <<mppEncodeInputQueue, encoded, untold, rgaPc, inputDesc,
                      decodedCount, rgaConsumeQueue>>
        /\ stop => stop'
    BY <1>18 DEF EncodeStopped, EncExits
  <2>2. encodeHeld \in Output /\ QueueOutputToRecycle(encodeHeld)
    BY <1>18 DEF EncodeStopped, TypeInv, TypeOK, Slots
  <2>3. \A o \in Output : o # encodeHeld => content'[o] = content[o]
    BY <2>2, RecycledContent
  <2>4. \A o \in Range(mppEncodeInputQueue) : content'[o] = content[o]
    BY <1>0, <2>2, <2>3, Apart DEF PoolSpelled, TypeInv, TypeOK, Slots
  <2>5. QueueChain(h)' /\ Ahead(h)' = Ahead(h)
    BY <2>1, <2>4, QueueChainKept
  <2>6. HeldChain(h)'
    <3>1. LastEncoded' = LastEncoded /\ Ahead(h) \in Int
      BY <2>1, LenProperties DEF LastEncoded, Ahead, TypeInv, TypeOK
    <3> QED BY <1>18, <2>1, <2>5, <3>1 DEF EncodeStopped, EncExits, HeldChain,
        Encodes
  <2>7. HandedOver(h)'
    BY <2>1, HandedOverKept DEF Taken
  <2> QED BY <2>1, <2>5, <2>6, <2>7, EncodedKept DEF ChainInv
<1>19. CASE EncodeProceeds
  <2>1. UNCHANGED <<mppEncodeInputQueue, content, encodeHeld, encoded, untold, rgaPc, inputDesc,
                    stop, decodedCount, rgaConsumeQueue>>
    BY <1>19 DEF EncodeProceeds
  <2>2. QueueChain(h)' /\ Ahead(h)' = Ahead(h)
    BY <2>1, QueueChainKept
  <2>3. HeldChain(h)'
    <3>1. LastEncoded' = LastEncoded
      BY <2>1 DEF LastEncoded
    <3> QED BY <1>19, <2>1, <2>2, <3>1 DEF EncodeProceeds, HeldChain, Encodes
  <2>4. HandedOver(h)'
    BY <2>1, HandedOverKept DEF Taken
  <2> QED BY <2>1, <2>2, <2>3, <2>4, EncodedKept DEF ChainInv
<1>20. CASE PushSucceeds
  <2>1. /\ UNCHANGED <<mppEncodeInputQueue, content, encodeHeld, untold, rgaPc, inputDesc,
                      stop, decodedCount, rgaConsumeQueue>>
        /\ encPc = "push" /\ encPc' = "release" /\ EncoderTakes
    BY <1>20 DEF PushSucceeds, EncoderTakes
  <2>2. QueueChain(h)' /\ Ahead(h)' = Ahead(h)
    BY <2>1, QueueChainKept
  <2>3. content[encodeHeld] = Ahead(h) /\ Encodes(LastEncoded, untold, Ahead(h))
    BY <2>1 DEF HeldChain
  <2>4. EncodedInOrder' /\ LastEncoded' = Ahead(h)
    BY <1>0, <2>1, <2>3, EncodedStep
  <2>5. HeldChain(h)'
    BY <2>1, <2>2, <2>4 DEF HeldChain
  <2>6. HandedOver(h)'
    BY <2>1, HandedOverKept DEF Taken
  <2> QED BY <2>2, <2>4, <2>5, <2>6 DEF ChainInv
<1>21. CASE PushFails
  <2>1. /\ UNCHANGED <<mppEncodeInputQueue, content, encodeHeld, rgaPc, inputDesc,
                      stop, decodedCount, rgaConsumeQueue>>
        /\ encPc = "push" /\ encPc' = "failed"
        /\ \/ UNCHANGED <<encoded, untold>>
           \/ EncoderTakes /\ untold' = untold \union {content[encodeHeld]}
    BY <1>21 DEF PushFails
  <2>2. QueueChain(h)' /\ Ahead(h)' = Ahead(h)
    BY <2>1, QueueChainKept
  <2>3. content[encodeHeld] = Ahead(h) /\ Encodes(LastEncoded, untold, Ahead(h)) /\ Ahead(h) >= 1
    BY <2>1 DEF HeldChain
  <2>4. EncodedInOrder' /\ Encodes(LastEncoded', untold', Ahead(h))
    <3>1. CASE UNCHANGED <<encoded, untold>>
      <4>1. LastEncoded' = LastEncoded
        BY <3>1 DEF LastEncoded
      <4> QED BY <2>2, <2>3, <3>1, <4>1, EncodedKept DEF Encodes
    <3>2. CASE EncoderTakes /\ untold' = untold \union {content[encodeHeld]}
      <4>1. EncodedInOrder' /\ LastEncoded' = Ahead(h)
        BY <1>0, <2>1, <2>3, <3>2, EncodedStep
      <4> QED BY <2>2, <2>3, <3>2, <4>1 DEF Encodes
    <3> QED BY <2>1, <3>1, <3>2
  <2>5. HeldChain(h)'
    BY <2>1, <2>2, <2>3, <2>4 DEF HeldChain
  <2>6. HandedOver(h)'
    BY <2>1, HandedOverKept DEF Taken
  <2> QED BY <2>2, <2>4, <2>5, <2>6 DEF ChainInv
<1>22. CASE RetryPush
  <2> DEFINE q == mppEncodeInputQueue  one == <<encodeHeld>>
  <2>1. /\ q' = one \o q /\ q \in Seq(Output) /\ encodeHeld \in Output
        /\ UNCHANGED <<content, encoded, untold, rgaPc, inputDesc, stop,
                       decodedCount, rgaConsumeQueue>>
        /\ encPc = "failed" /\ encPc' = "wait"
    BY <1>22 DEF RetryPush, PushedFront, TypeInv, TypeOK, Slots
  <2>2. /\ Len(q') = Len(q) + 1 /\ Len(q) \in Nat /\ q'[1] = encodeHeld
        /\ \A i \in 2 .. Len(q) + 1 : q'[i] = q[i - 1]
    <3>1. one \in Seq(Output) /\ Len(one) = 1 /\ one[1] = encodeHeld
      BY <2>1
    <3> HIDE DEF one, q
    <3>2. Len(q) \in Nat
      BY <2>1, LenProperties
    <3>3. /\ Len(q') = Len(one) + Len(q)
          /\ \A i \in 1 .. Len(one) + Len(q) :
                q'[i] = IF i <= Len(one) THEN one[i] ELSE q[i - Len(one)]
      BY <2>1, <3>1, ConcatProperties
    <3> QED BY <3>1, <3>2, <3>3
  <2> HIDE DEF q, one
  <2>3. Ahead(h)' = Ahead(h) - 1 /\ Ahead(h) \in Int /\ Ahead(h) >= 1
        /\ content[encodeHeld] = Ahead(h) /\ Encodes(LastEncoded, untold, Ahead(h))
    BY <2>1, <2>2 DEF Ahead, q, HeldChain
  <2>4. ASSUME NEW i \in 1 .. Len(q) + 1 PROVE content[q'[i]] = Ahead(h) - 1 + i
    <3>1. CASE i = 1
      BY <2>2, <2>3, <3>1
    <3>2. CASE i \in 2 .. Len(q) + 1
      <4>1. i - 1 \in 1 .. Len(q)
        BY <2>2, <3>2
      <4>2. content[q[i - 1]] = Ahead(h) + (i - 1)
        BY <4>1 DEF QueueChain, q
      <4> QED BY <2>2, <2>3, <3>2, <4>2
    <3> QED BY <2>2, <3>1, <3>2
  <2>5. QueueChain(h)'
    BY <2>1, <2>2, <2>3, <2>4 DEF QueueChain, q
  <2>6. HeldChain(h)'
    <3>1. LastEncoded' = LastEncoded
      BY <2>1 DEF LastEncoded
    <3>2. Encodes(LastEncoded', untold', Ahead(h))
      BY <2>1, <2>3, <3>1 DEF Encodes
    <3> QED BY <2>1, <2>3, <3>2 DEF HeldChain, Encodes
  <2>7. HandedOver(h)'
    BY <2>1, HandedOverKept DEF Taken
  <2> QED BY <2>1, <2>5, <2>6, <2>7, EncodedKept DEF ChainInv
<1>23. CASE GiveUpPush
  <2>1. /\ UNCHANGED <<mppEncodeInputQueue, encoded, untold, rgaPc, inputDesc,
                      decodedCount, rgaConsumeQueue>>
        /\ stop => stop'
    BY <1>23 DEF GiveUpPush, Fail, EncExits
  <2>2. encodeHeld \in Output /\ QueueOutputToRecycle(encodeHeld)
    BY <1>23 DEF GiveUpPush, TypeInv, TypeOK, Slots
  <2>3. \A o \in Output : o # encodeHeld => content'[o] = content[o]
    BY <2>2, RecycledContent
  <2>4. \A o \in Range(mppEncodeInputQueue) : content'[o] = content[o]
    BY <1>0, <2>2, <2>3, Apart DEF PoolSpelled, TypeInv, TypeOK, Slots
  <2>5. QueueChain(h)' /\ Ahead(h)' = Ahead(h)
    BY <2>1, <2>4, QueueChainKept
  <2>6. HeldChain(h)'
    <3>1. LastEncoded' = LastEncoded /\ Ahead(h) \in Int
      BY <2>1, LenProperties DEF LastEncoded, Ahead, TypeInv, TypeOK
    <3> QED BY <1>23, <2>1, <2>5, <3>1 DEF GiveUpPush, EncExits, HeldChain,
        Encodes
  <2>7. HandedOver(h)'
    BY <2>1, HandedOverKept DEF Taken
  <2> QED BY <2>1, <2>5, <2>6, <2>7, EncodedKept DEF ChainInv
<1>24. CASE ReleaseEncoded
  <2>1. /\ UNCHANGED <<mppEncodeInputQueue, encoded, untold, rgaPc, inputDesc,
                      decodedCount, rgaConsumeQueue>>
        /\ stop => stop'
    BY <1>24 DEF ReleaseEncoded
  <2>2. encodeHeld \in Output /\ QueueOutputToRecycle(encodeHeld)
    BY <1>24 DEF ReleaseEncoded, TypeInv, TypeOK, Slots
  <2>3. \A o \in Output : o # encodeHeld => content'[o] = content[o]
    BY <2>2, RecycledContent
  <2>4. \A o \in Range(mppEncodeInputQueue) : content'[o] = content[o]
    BY <1>0, <2>2, <2>3, Apart DEF PoolSpelled, TypeInv, TypeOK, Slots
  <2>5. QueueChain(h)' /\ Ahead(h)' = Ahead(h)
    BY <2>1, <2>4, QueueChainKept
  <2>6. HeldChain(h)'
    <3>1. LastEncoded' = LastEncoded /\ Ahead(h) \in Int
      BY <2>1, LenProperties DEF LastEncoded, Ahead, TypeInv, TypeOK
    <3> QED BY <1>24, <2>1, <2>5, <3>1 DEF ReleaseEncoded, EncExits, HeldChain,
        Encodes
  <2>7. HandedOver(h)'
    BY <2>1, HandedOverKept DEF Taken
  <2> QED BY <2>1, <2>5, <2>6, <2>7, EncodedKept DEF ChainInv
<1>25. CASE RecycleTake
  <2>1. QueueChain(h)' /\ HeldChain(h)' /\ EncodedInOrder'
    BY <1>25, Aside DEF RecycleTake
  <2>2. HandedOver(h)'
    BY <1>25 DEF RecycleTake, HandedOver, Taken
  <2> QED BY <2>1, <2>2 DEF ChainInv
<1>26. CASE RecycleReturn
  <2>1. QueueChain(h)' /\ HeldChain(h)' /\ EncodedInOrder'
    BY <1>26, Aside DEF RecycleReturn
  <2>2. HandedOver(h)'
    BY <1>26 DEF RecycleReturn, HandedOver, Taken
  <2> QED BY <2>1, <2>2 DEF ChainInv
<1>27. CASE RecycleExit
  <2>1. QueueChain(h)' /\ HeldChain(h)' /\ EncodedInOrder'
    BY <1>27, Aside DEF RecycleExit, MayLeave
  <2>2. HandedOver(h)'
    BY <1>27 DEF RecycleExit, MayLeave, HandedOver, Taken
  <2> QED BY <2>1, <2>2 DEF ChainInv
<1>28. CASE FinalDrain
  <2>1. /\ mppEncodeInputQueue' = <<>> /\ encPc' = "exited" /\ rgaPc' = "exited"
        /\ UNCHANGED <<encoded, untold>>
    BY <1>28 DEF FinalDrain
  <2>2. Len(mppEncodeInputQueue') = 0
    BY <2>1
  <2>3. QueueChain(0)' /\ HeldChain(0)' /\ HandedOver(0)'
    BY <2>1, <2>2 DEF QueueChain, HeldChain, HandedOver, Ahead
  <2> QED BY <2>1, <2>3, EncodedKept DEF ChainInv
<1>29. CASE Finished
  <2>1. QueueChain(h)' /\ HeldChain(h)' /\ EncodedInOrder'
    BY <1>29, Aside DEF Finished, vars
  <2>2. HandedOver(h)'
    BY <1>29 DEF Finished, vars, HandedOver, Taken
  <2> QED BY <2>1, <2>2 DEF ChainInv
<1>30. CASE UNCHANGED vars
  <2>1. QueueChain(h)' /\ HeldChain(h)' /\ EncodedInOrder'
    BY <1>30, Aside DEF vars
  <2>2. HandedOver(h)'
    BY <1>30 DEF vars, HandedOver, Taken
  <2> QED BY <2>1, <2>2 DEF ChainInv
<1> QED
  BY <1>1, <1>2, <1>3, <1>4, <1>5, <1>6, <1>7, <1>8, <1>9, <1>10, <1>11, <1>12,
      <1>13, <1>14, <1>15, <1>16, <1>17, <1>18, <1>19, <1>20, <1>21, <1>22,
      <1>23, <1>24, <1>25, <1>26, <1>27, <1>28, <1>29, <1>30
  DEF Next, Rga, EncodeInput, RecycleOutputs

-----------------------------------------------------------------------------
(* Where the decoded frames are                                             *)

ReturnInv ==
    /\ FramesReturned
    /\ Range(rgaConsumeQueue) \intersect Range(mppRecycleOutputQueue) = {}
    /\ Range(rgaConsumeQueue) \intersect Range(pendingOutputs) = {}
    /\ Range(mppRecycleOutputQueue) \intersect Range(pendingOutputs) = {}
    /\ inputDesc \notin returned
    /\ recPc = "exited" => rgaPc = "exited"

(* The places a descriptor can be in, as sets.                              *)
ReturnSpelled ==
    LET C == Range(rgaConsumeQueue)
        R == Range(mppRecycleOutputQueue)
        P == Range(pendingOutputs)
    IN  /\ IsInjective(rgaConsumeQueue) /\ IsInjective(mppRecycleOutputQueue)
        /\ IsInjective(pendingOutputs)
        /\ C \intersect R = {} /\ C \intersect P = {} /\ R \intersect P = {}
        /\ (C \union R \union P) \intersect returned = {}
        /\ inputDesc \notin C \union R \union P \union returned
        /\ recPc = "exited" => /\ mppRecycleOutputQueue = <<>> /\ pendingOutputs = <<>>
                               /\ rgaPc = "exited"
        /\ mainPc = "run" =>
              1 .. decodedCount = C \union R \union P \union returned
                                    \union ({inputDesc} \ {NoFrame})

(* The two forms of the frames' invariant are the same,                     *)
LEMMA ReturnFacts == TypeInv => (ReturnInv <=> ReturnSpelled)
<1> SUFFICES ASSUME TypeInv PROVE ReturnInv <=> ReturnSpelled
  OBVIOUS
<1> DEFINE C == Range(rgaConsumeQueue)  R == Range(mppRecycleOutputQueue)
           P == Range(pendingOutputs)
<1>1. (\A s \in {rgaConsumeQueue, mppRecycleOutputQueue, pendingOutputs} :
          IsInjective(s) /\ Range(s) \intersect (returned \union {inputDesc}) = {})
      <=> /\ IsInjective(rgaConsumeQueue) /\ IsInjective(mppRecycleOutputQueue)
          /\ IsInjective(pendingOutputs)
          /\ C \intersect (returned \union {inputDesc}) = {}
          /\ R \intersect (returned \union {inputDesc}) = {}
          /\ P \intersect (returned \union {inputDesc}) = {}
  OBVIOUS
<1> HIDE DEF C, R, P
<1>2. ((C \union R \union P) \intersect returned = {}
        /\ inputDesc \notin C \union R \union P \union returned)
      <=> /\ C \intersect (returned \union {inputDesc}) = {}
          /\ R \intersect (returned \union {inputDesc}) = {}
          /\ P \intersect (returned \union {inputDesc}) = {}
          /\ inputDesc \notin returned
  OBVIOUS
<1>3. returned \union C \union R \union P \union ({inputDesc} \ {NoFrame})
        = C \union R \union P \union returned \union ({inputDesc} \ {NoFrame})
  OBVIOUS
<1>4. FramesReturned <=>
        /\ \A s \in {rgaConsumeQueue, mppRecycleOutputQueue, pendingOutputs} :
              IsInjective(s) /\ Range(s) \intersect (returned \union {inputDesc}) = {}
        /\ recPc = "exited" => mppRecycleOutputQueue = <<>> /\ pendingOutputs = <<>>
        /\ mainPc = "run" => 1 .. decodedCount =
              returned \union C \union R \union P \union ({inputDesc} \ {NoFrame})
  BY DEF FramesReturned, C, R, P
<1>5. ReturnInv <=> /\ FramesReturned
                    /\ C \intersect R = {} /\ C \intersect P = {} /\ R \intersect P = {}
                    /\ inputDesc \notin returned
                    /\ recPc = "exited" => rgaPc = "exited"
  BY DEF ReturnInv, C, R, P
<1>6. ReturnSpelled <=>
        /\ IsInjective(rgaConsumeQueue) /\ IsInjective(mppRecycleOutputQueue)
        /\ IsInjective(pendingOutputs)
        /\ C \intersect R = {} /\ C \intersect P = {} /\ R \intersect P = {}
        /\ (C \union R \union P) \intersect returned = {}
        /\ inputDesc \notin C \union R \union P \union returned
        /\ recPc = "exited" => /\ mppRecycleOutputQueue = <<>> /\ pendingOutputs = <<>>
                               /\ rgaPc = "exited"
        /\ mainPc = "run" =>
              1 .. decodedCount = C \union R \union P \union returned
                                    \union ({inputDesc} \ {NoFrame})
  BY DEF ReturnSpelled, C, R, P
<1> QED BY <1>1, <1>2, <1>3, <1>4, <1>5, <1>6

(* and so in the next state.                                                *)
LEMMA ReturnFactsNext == TypeInv' => (ReturnInv' <=> ReturnSpelled')
BY ReturnFacts, PTL

(* At first no frame is anywhere.                                           *)
LEMMA ReturnInit == Init => ReturnInv
<1> SUFFICES ASSUME Init PROVE ReturnInv
  OBVIOUS
<1>1. TypeInv
  BY TypeInit
<1>2. /\ rgaConsumeQueue = <<>> /\ mppRecycleOutputQueue = <<>> /\ pendingOutputs = <<>>
      /\ decodedCount = 0 /\ returned = {} /\ inputDesc = NoFrame /\ recPc = "run"
  BY DEF Init
<1>3. Range(<<>>) = {} /\ IsInjective(<<>>)
  BY EmptyQueue
<1>4. ReturnSpelled
  BY <1>2, <1>3 DEF ReturnSpelled
<1> QED BY <1>1, <1>4, ReturnFacts

(* A step that moves no decoded frame.                                      *)
LEMMA ReturnKept ==
    ASSUME ReturnInv, UNCHANGED <<rgaConsumeQueue, mppRecycleOutputQueue, pendingOutputs,
                                  returned, inputDesc, recPc, mainPc, decodedCount>>,
           rgaPc = "exited" => rgaPc' = "exited"
    PROVE  ReturnInv'
BY DEF ReturnInv, FramesReturned

(* Every step keeps each decoded frame in one place.                        *)
LEMMA ReturnStep ==
    TypeInv /\ TypeInv' /\ ExitInv /\ ReturnInv /\ [Next]_vars => ReturnInv'
<1> SUFFICES ASSUME TypeInv, TypeInv', ExitInv, ReturnInv, [Next]_vars PROVE ReturnInv'
  OBVIOUS
<1>0. ReturnSpelled
  BY ReturnFacts
<1> USE DEF NoFailure, Copying, RgaLocal, EncLocal, RecLocal,
            poolVars, rgaVars, encVars, recVars
<1>1. CASE DeliverDecoded
  <2> DEFINE n == decodedCount + 1
  <2>1. /\ rgaConsumeQueue' = Append(rgaConsumeQueue, n) /\ decodedCount' = n
        /\ UNCHANGED <<mppRecycleOutputQueue, pendingOutputs, returned, inputDesc,
                       recPc, rgaPc, mainPc>>
        /\ mainPc = "run" /\ n \in Frame /\ decodedCount \in Nat
        /\ rgaConsumeQueue \in Seq(Frame)
    BY <1>1 DEF DeliverDecoded, Frame, TypeInv, TypeOK
  <2>2. /\ n \notin 1 .. decodedCount /\ 1 .. n = 1 .. decodedCount \union {n}
        /\ n # NoFrame
    BY <2>1 DEF NoFrame
  <2> HIDE DEF n
  <2>3. n \notin Range(rgaConsumeQueue)
    BY <1>0, <2>1, <2>2 DEF ReturnSpelled
  <2>4. /\ IsInjective(rgaConsumeQueue')
        /\ Range(rgaConsumeQueue') = Range(rgaConsumeQueue) \union {n}
    BY <1>0, <2>1, <2>3, AppendDistinct DEF ReturnSpelled
  <2> QED
    BY <1>0, <2>1, <2>2, <2>4, ReturnFactsNext DEF ReturnSpelled
<1>2. CASE RequestStop
  BY <1>2, ReturnKept DEF RequestStop, Slots, TypeInv
<1>3. CASE TakeDecoded
  <2>1. /\ inputDesc' = Head(rgaConsumeQueue) /\ inputDesc = NoFrame
        /\ rgaConsumeQueue' = Tail(rgaConsumeQueue)
        /\ rgaConsumeQueue \in Seq(Frame) /\ rgaConsumeQueue # <<>>
        /\ UNCHANGED <<mppRecycleOutputQueue, pendingOutputs, returned, recPc, mainPc,
                       decodedCount>>
        /\ rgaPc # "exited"
    BY <1>3 DEF TakeDecoded, Slots, TypeInv, TypeOK
  <2>2. /\ IsInjective(rgaConsumeQueue')
        /\ Range(rgaConsumeQueue') = Range(rgaConsumeQueue) \ {inputDesc'}
        /\ inputDesc' \in Range(rgaConsumeQueue) /\ inputDesc' \in Frame
    BY <1>0, <2>1, TailDistinct, HeadInRange DEF ReturnSpelled
  <2> QED
    BY <1>0, <2>1, <2>2, ReturnFactsNext, Apart DEF ReturnSpelled
<1>4. CASE RgaExit
  BY <1>4, ReturnKept DEF RgaExit, RgaLeaves, Slots, TypeInv
<1>5. CASE CopyStopped
  BY <1>5, ReturnKept DEF CopyStopped, Slots, TypeInv
<1>6. CASE CopyAcquires
  BY <1>6, ReturnKept DEF CopyAcquires, AcquireFrom, Popped, Slots, TypeInv
<1>7. CASE CopyFails
  BY <1>7, ReturnKept DEF CopyFails, CopyReturnsNull, Fail, Slots, TypeInv
<1>8. CASE BlitFails
  BY <1>8, ReturnKept DEF BlitFails, CopyReturnsNull, Fail, Slots, TypeInv
<1>9. CASE BlitSucceeds
  BY <1>9, ReturnKept DEF BlitSucceeds, Slots, TypeInv
<1>10. CASE ImportSucceeds
  BY <1>10, ReturnKept DEF ImportSucceeds, Slots, TypeInv
<1>11. CASE ImportFails
  BY <1>11, ReturnKept DEF ImportFails, Fail, Slots, TypeInv
<1>12. CASE HandOverStopped
  BY <1>12, ReturnKept DEF HandOverStopped, Slots, TypeInv
<1>13. CASE HandOver
  BY <1>13, ReturnKept DEF HandOver, Slots, TypeInv
<1>14. CASE EnqueueEncodeInput
  BY <1>14, ReturnKept DEF EnqueueEncodeInput, Slots, TypeInv
<1>15. CASE ReturnInput
  <2>1. /\ mppRecycleOutputQueue' = Append(mppRecycleOutputQueue, inputDesc)
        /\ mppRecycleOutputQueue \in Seq(Frame) /\ inputDesc \in Frame
        /\ inputDesc' = NoFrame
        /\ UNCHANGED <<rgaConsumeQueue, pendingOutputs, returned, recPc, mainPc,
                       decodedCount>>
        /\ rgaPc # "exited"
    BY <1>15 DEF ReturnInput, Slots, TypeInv, TypeOK
  <2>2. /\ IsInjective(mppRecycleOutputQueue')
        /\ Range(mppRecycleOutputQueue') = Range(mppRecycleOutputQueue) \union {inputDesc}
    BY <1>0, <2>1, AppendDistinct DEF ReturnSpelled
  <2>3. NoFrame \notin Range(rgaConsumeQueue) \union Range(mppRecycleOutputQueue')
          \union Range(pendingOutputs) \union returned
    BY <2>1, <2>2, Apart, LenProperties DEF Range, TypeInv, TypeOK
  <2> QED
    BY <1>0, <2>1, <2>2, <2>3, ReturnFactsNext, Apart DEF ReturnSpelled
<1>16. CASE TakeEncodeInput
  BY <1>16, ReturnKept DEF TakeEncodeInput, Slots, TypeInv
<1>17. CASE EncodeInputExit
  BY <1>17, ReturnKept DEF EncodeInputExit, EncExits, Slots, TypeInv
<1>18. CASE EncodeStopped
  BY <1>18, ReturnKept DEF EncodeStopped, EncExits, Slots, TypeInv
<1>19. CASE EncodeProceeds
  BY <1>19, ReturnKept DEF EncodeProceeds, Slots, TypeInv
<1>20. CASE PushSucceeds
  BY <1>20, ReturnKept DEF PushSucceeds, EncoderTakes, Slots, TypeInv
<1>21. CASE PushFails
  BY <1>21, ReturnKept DEF PushFails, EncoderTakes, Slots, TypeInv
<1>22. CASE RetryPush
  BY <1>22, ReturnKept DEF RetryPush, PushedFront, Slots, TypeInv
<1>23. CASE GiveUpPush
  BY <1>23, ReturnKept DEF GiveUpPush, Fail, EncExits, Slots, TypeInv
<1>24. CASE ReleaseEncoded
  BY <1>24, ReturnKept DEF ReleaseEncoded, Slots, TypeInv
<1>25. CASE RecycleTake
  <2>1. /\ pendingOutputs' = mppRecycleOutputQueue /\ mppRecycleOutputQueue' = <<>>
        /\ pendingOutputs = <<>> /\ recPc = "run"
        /\ UNCHANGED <<rgaConsumeQueue, returned, recPc, mainPc, inputDesc, rgaPc,
                       decodedCount>>
    BY <1>25 DEF RecycleTake
  <2>2. Range(<<>>) = {} /\ IsInjective(<<>>)
    BY EmptyQueue
  <2> QED
    BY <1>0, <2>1, <2>2, ReturnFactsNext DEF ReturnSpelled
<1>26. CASE RecycleReturn
  <2> DEFINE f == Head(pendingOutputs)
  <2>1. /\ pendingOutputs' = Tail(pendingOutputs) /\ returned' = returned \union {f}
        /\ pendingOutputs \in Seq(Frame) /\ pendingOutputs # <<>> /\ recPc = "run"
        /\ UNCHANGED <<rgaConsumeQueue, mppRecycleOutputQueue, recPc, mainPc, inputDesc,
                       rgaPc, decodedCount>>
    BY <1>26 DEF RecycleReturn, TypeInv, TypeOK
  <2> HIDE DEF f
  <2>2. /\ IsInjective(pendingOutputs')
        /\ Range(pendingOutputs') = Range(pendingOutputs) \ {f}
        /\ f \in Range(pendingOutputs)
    BY <1>0, <2>1, TailDistinct, HeadInRange DEF ReturnSpelled, f
  <2> QED
    BY <1>0, <2>1, <2>2, ReturnFactsNext DEF ReturnSpelled
<1>27. CASE RecycleExit
  <2>1. /\ pendingOutputs = <<>> /\ mppRecycleOutputQueue = <<>> /\ rgaPc = "exited"
        /\ UNCHANGED <<rgaConsumeQueue, mppRecycleOutputQueue, pendingOutputs, returned,
                       mainPc, inputDesc, rgaPc, decodedCount>>
    BY <1>27 DEF RecycleExit, MayLeave, ExitInv
  <2> QED
    BY <1>0, <2>1, ReturnFactsNext DEF ReturnSpelled
<1>28. CASE FinalDrain
  <2>1. /\ rgaConsumeQueue' = <<>> /\ mppRecycleOutputQueue' = <<>> /\ recPc = "exited"
        /\ returned' = returned \union Range(mppRecycleOutputQueue) /\ mainPc' = "done"
        /\ UNCHANGED <<pendingOutputs, inputDesc, recPc, rgaPc>>
        /\ mppRecycleOutputQueue = <<>> /\ pendingOutputs = <<>>
    BY <1>28, <1>0 DEF FinalDrain, ReturnSpelled
  <2>2. Range(<<>>) = {} /\ IsInjective(<<>>)
    BY EmptyQueue
  <2> QED
    BY <1>0, <2>1, <2>2, ReturnFactsNext DEF ReturnSpelled
<1>29. CASE Finished
  BY <1>29, ReturnKept DEF Finished, vars, Slots, TypeInv
<1>30. CASE UNCHANGED vars
  BY <1>30, ReturnKept DEF vars, Slots, TypeInv
<1> QED
  BY <1>1, <1>2, <1>3, <1>4, <1>5, <1>6, <1>7, <1>8, <1>9, <1>10, <1>11, <1>12,
      <1>13, <1>14, <1>15, <1>16, <1>17, <1>18, <1>19, <1>20, <1>21, <1>22,
      <1>23, <1>24, <1>25, <1>26, <1>27, <1>28, <1>29, <1>30
  DEF Next, Rga, EncodeInput, RecycleOutputs

-----------------------------------------------------------------------------
(***************************************************************************)
(* The theorems                                                            *)
(***************************************************************************)
FeedInv ==
    /\ TypeInv /\ ExitInv /\ PoolInv /\ DeliveredInv /\ CopyInv
    /\ ChainInv /\ EncodedInOrder /\ ReturnInv

(* Every step keeps them all.                                               *)
LEMMA FeedInvStep == FeedInv /\ [Next]_vars => FeedInv'
<1> SUFFICES ASSUME FeedInv, [Next]_vars PROVE FeedInv'
  OBVIOUS
<1>1. TypeInv'
  BY TypeStep, ChainHeld DEF FeedInv
<1> QED
  BY <1>1, ExitStep, PoolStep, DeliveredStep, CopyStep, ChainStep,
      ReturnStep DEF FeedInv

(* All parts are needed together: the content of what waits for the encoder *)
(* is that of a frame because no output is in two places, and the frames it *)
(* gets are in order because the RGA thread takes them in order.            *)
THEOREM FeedInvHolds == Spec => []FeedInv
<1>1. Init => FeedInv
  BY TypeInit, PoolInit, DeliveredInit, CopyInit, ChainInit,
      ReturnInit DEF FeedInv
<1> QED BY <1>1, FeedInvStep, PTL DEF Spec

(* The state of the feed keeps its types.                                   *)
THEOREM FeedTypeCorrect == Spec => []TypeOK
BY FeedInvHolds, PTL DEF FeedInv, TypeInv

(* RgaTransforme's pool and the threads agree on every output.              *)
THEOREM PoolConsistentHolds == Spec => []PoolConsistent
BY FeedInvHolds, PTL DEF FeedInv, PoolInv

(* No output is lost before a stop, and at most one when main is done.      *)
THEOREM OutputsKeptHolds == Spec => []OutputsKept
<1>1. FeedInv => OutputsKept
  <2> SUFFICES ASSUME FeedInv PROVE OutputsKept
    OBVIOUS
  <2>0. PoolSpelled /\ TypeInv /\ ExitInv /\ PoolInv
    BY PoolFacts DEF FeedInv
  <2>1. InHands \subseteq Output
    BY <2>0, LenProperties DEF InHands, TypeInv, TypeOK, Range
  <2>2. {o \in Output : inUse[o]} = InHands \/ stop
    BY <2>0, <2>1 DEF PoolInv, PoolConsistent, Lost
  <2>3. ASSUME mainPc = "done", poolReady PROVE Len(available) >= OutputCount - 1
    <3>1. InHands = {}
      <4>1. rgaOutput = NoOutput /\ encodeHeld = NoOutput /\ mppEncodeInputQueue = <<>>
        BY <2>0, <2>3 DEF ExitInv, TypeInv, Slots, TypeOK
      <4>2. Range(mppEncodeInputQueue) = {}
        BY <4>1, EmptyQueue
      <4> QED BY <4>1, <4>2 DEF InHands
    <3>2. PICK l \in Output : \A o \in Output : o # l => o \in Range(available)
      <4>1. \A o, p \in Output : inUse[o] /\ inUse[p] => o = p
        BY <2>0, <3>1 DEF PoolInv, Lost
      <4>2. \A o \in Output : o \notin Range(available) => inUse[o]
        BY <2>0, <2>3 DEF PoolSpelled, TypeInv, TypeOK
      <4>3. 1 \in Output
        BY DEF Output
      <4>4. CASE \A o \in Output : ~inUse[o]
        BY <4>2, <4>3, <4>4
      <4>5. CASE \E o \in Output : inUse[o]
        BY <4>1, <4>2, <4>5
      <4> QED BY <4>4, <4>5
    <3>3. IsFiniteSet(Output) /\ Cardinality(Output) = OutputCount
      BY FS_Interval DEF Output
    <3>4. /\ IsFiniteSet(Output \ {l}) /\ Cardinality(Output \ {l}) = OutputCount - 1
      BY <3>2, <3>3, FS_RemoveElement
    <3>5. /\ IsFiniteSet(Range(available))
          /\ Cardinality(Range(available)) <= Len(available)
          /\ Cardinality(Range(available)) \in Nat /\ Len(available) \in Nat
      BY <2>0, RangeCardinality, LenProperties DEF TypeInv, TypeOK
    <3>6. Cardinality(Output \ {l}) <= Cardinality(Range(available))
      BY <3>2, <3>4, <3>5, FS_Subset
    <3> QED BY <3>4, <3>5, <3>6
  <2> QED BY <2>2, <2>3 DEF OutputsKept
<1> QED BY FeedInvHolds, <1>1, PTL

(* The encoder gets the frames in the order of their decoding, none twice   *)
(* but for one it took untold.                                              *)
THEOREM EncodedInOrderHolds == Spec => []EncodedInOrder
BY FeedInvHolds, PTL DEF FeedInv

(* What waits for the encoder keeps its content and its order.              *)
THEOREM ContentKeptHolds == Spec => []ContentKept
<1>1. FeedInv => ContentKept
  <2> SUFFICES ASSUME FeedInv PROVE ContentKept
    OBVIOUS
  <2> DEFINE q == mppEncodeInputQueue  one == <<encodeHeld>>
  <2>1. PICK h \in Nat : QueueChain(h) /\ HeldChain(h)
    BY DEF FeedInv, ChainInv
  <2>2. /\ q \in Seq(Output) /\ Len(q) \in Nat /\ DOMAIN q = 1 .. Len(q)
        /\ Ahead(h) \in Int /\ Ahead(h) >= 0
    BY <2>1, LenProperties DEF FeedInv, TypeInv, TypeOK, Ahead, QueueChain
  <2>3. \A i \in DOMAIN q : content[q[i]] = Ahead(h) + i
    BY <2>1, <2>2 DEF QueueChain
  <2>4. CASE encPc \in {"check", "push", "failed"}
    <3>1. /\ Waiting = one \o q /\ encodeHeld \in Output
          /\ content[encodeHeld] = Ahead(h) /\ Ahead(h) >= 1
      BY <2>1, <2>4 DEF Waiting, HeldChain, FeedInv, TypeInv, TypeOK, Slots
    <3>2. one \in Seq(Output) /\ Len(one) = 1 /\ one[1] = encodeHeld
      BY <3>1
    <3> HIDE DEF one, q
    <3>3. /\ Waiting \in Seq(Output) /\ Len(Waiting) = Len(q) + 1
          /\ \A i \in 1 .. Len(q) + 1 :
                Waiting[i] = IF i <= 1 THEN one[i] ELSE q[i - 1]
      BY <2>2, <3>1, <3>2, ConcatProperties
    <3>4. DOMAIN Waiting = 1 .. Len(q) + 1
      BY <3>3, LenProperties
    <3>5. ASSUME NEW i \in DOMAIN Waiting PROVE content[Waiting[i]] = Ahead(h) + i - 1
      <4>1. CASE i = 1
        BY <2>2, <3>1, <3>2, <3>3, <3>4, <4>1
      <4>2. CASE i \in 2 .. Len(q) + 1
        <5>1. i - 1 \in DOMAIN q
          BY <2>2, <4>2
        <5>2. content[q[i - 1]] = Ahead(h) + (i - 1)
          BY <2>3, <5>1
        <5> QED BY <2>2, <3>3, <3>4, <4>2, <5>2
      <4> QED BY <2>2, <3>4, <4>1, <4>2
    <3>6. /\ DOMAIN Waiting = 1 .. Len(q) + 1 /\ Len(q) \in Nat
          /\ Ahead(h) \in Int /\ Ahead(h) >= 1
          /\ \A i \in DOMAIN Waiting : content[Waiting[i]] = Ahead(h) + i - 1
      BY <2>2, <3>1, <3>4, <3>5
    <3> QED BY ONLY <3>6 DEF ContentKept, NoFrame
  <2>5. CASE encPc \notin {"check", "push", "failed"}
    <3>1. Waiting = q
      BY <2>5 DEF Waiting
    <3> HIDE DEF q
    <3> QED BY <2>2, <2>3, <3>1 DEF ContentKept, NoFrame
  <2> QED BY <2>4, <2>5
<1> QED BY FeedInvHolds, <1>1, PTL

(* Every decoded frame is in one place, and none is left with the recycle   *)
(* thread.                                                                  *)
THEOREM FramesReturnedHolds == Spec => []FramesReturned
BY FeedInvHolds, PTL DEF FeedInv, ReturnInv

-----------------------------------------------------------------------------
(* The feed as a relay of frames                                            *)

(* The values of f along a queue.                                           *)
Along(s, f) == [i \in 1 .. Len(s) |-> f[s[i]]]

Values(S, f) == {f[x] : x \in S}

(* They are a sequence as long as the queue.                                *)
LEMMA AlongProperties ==
    ASSUME NEW S, NEW s \in Seq(S), NEW f
    PROVE  /\ Along(s, f) \in Seq(Values(S, f))
           /\ Len(Along(s, f)) = Len(s)
           /\ \A i \in 1 .. Len(s) : Along(s, f)[i] = f[s[i]]
<1>1. Len(s) \in Nat /\ \A i \in 1 .. Len(s) : s[i] \in S
  BY LenProperties, ElementOfSeq
<1>2. Along(s, f) \in [1 .. Len(s) -> Values(S, f)]
  BY <1>1 DEF Along, Values
<1>3. Along(s, f) \in Seq(Values(S, f))
  BY <1>1, <1>2, SeqDef
<1>4. DOMAIN Along(s, f) = 1 .. Len(s)
  BY <1>2
<1>5. Len(Along(s, f)) = Len(s)
  BY <1>1, <1>3, <1>4, LenProperties
<1> QED BY <1>3, <1>5 DEF Along

(* A value at the end of the queue is one at the end of the values.         *)
LEMMA AlongAppend ==
    ASSUME NEW S, NEW s \in Seq(S), NEW x \in S, NEW f
    PROVE  Along(Append(s, x), f) = Append(Along(s, f), f[x])
<1> DEFINE a == Append(s, x)
           l == Along(a, f)
           r == Append(Along(s, f), f[x])
<1>1. /\ a \in Seq(S) /\ Len(a) = Len(s) + 1 /\ Len(s) \in Nat
      /\ \A i \in 1 .. Len(s) : a[i] = s[i]
      /\ a[Len(s) + 1] = x
  BY AppendProperties, LenProperties
<1> HIDE DEF a
<1>2. /\ l \in Seq(Values(S, f)) /\ Len(l) = Len(s) + 1
      /\ \A i \in 1 .. Len(a) : l[i] = f[a[i]]
  <2>1. a \in Seq(S)
    BY <1>1
  <2>2. /\ Along(a, f) \in Seq(Values(S, f)) /\ Len(Along(a, f)) = Len(a)
        /\ \A i \in 1 .. Len(a) : Along(a, f)[i] = f[a[i]]
    BY <2>1, AlongProperties
  <2> QED BY <1>1, <2>2
<1>3. /\ Along(s, f) \in Seq(Values(S, f)) /\ Len(Along(s, f)) = Len(s)
      /\ \A i \in 1 .. Len(s) : Along(s, f)[i] = f[s[i]]
      /\ f[x] \in Values(S, f)
  BY AlongProperties DEF Values
<1>4. /\ r \in Seq(Values(S, f)) /\ Len(r) = Len(s) + 1
      /\ \A i \in 1 .. Len(s) : r[i] = Along(s, f)[i]
      /\ r[Len(s) + 1] = f[x]
  BY <1>3, AppendProperties
<1> HIDE DEF l, r
<1>5. \A i \in 1 .. Len(s) + 1 : l[i] = r[i]
  <2> TAKE i \in 1 .. Len(s) + 1
  <2>1. CASE i = Len(s) + 1
    BY <2>1, <1>1, <1>2, <1>4
  <2>2. CASE i # Len(s) + 1
    <3>1. i \in 1 .. Len(s) /\ i \in 1 .. Len(a)
      BY <2>2, <1>1
    <3> QED BY <3>1, <1>1, <1>2, <1>3, <1>4
  <2> QED BY <2>1, <2>2
<1>6. l = r
  BY <1>2, <1>4, <1>5, SeqEqual
<1> QED BY <1>6 DEF a, l, r

(* Taking the head away takes its value away.                               *)
LEMMA AlongTail ==
    ASSUME NEW S, NEW s \in Seq(S), s # <<>>, NEW f
    PROVE  /\ Along(s, f) # <<>>
           /\ Head(Along(s, f)) = f[Head(s)]
           /\ Tail(Along(s, f)) = Along(Tail(s), f)
<1> DEFINE t == Tail(s)
           w == Along(s, f)
           l == Tail(w)
           r == Along(t, f)
<1>1. /\ Len(s) \in Nat \ {0} /\ Head(s) = s[1] /\ 1 \in 1 .. Len(s)
      /\ t \in Seq(S) /\ Len(t) = Len(s) - 1
      /\ \A i \in 1 .. Len(t) : t[i] = s[i + 1]
  BY EmptySeq, LenProperties, HeadTailProperties
<1>2. /\ w \in Seq(Values(S, f)) /\ Len(w) = Len(s)
      /\ \A i \in 1 .. Len(s) : w[i] = f[s[i]]
  BY AlongProperties
<1>3. w # <<>>
  BY <1>1, <1>2, EmptySeq
<1>4. Head(w) = f[Head(s)]
  BY <1>1, <1>2, <1>3
<1>5. /\ l \in Seq(Values(S, f)) /\ Len(l) = Len(s) - 1
      /\ \A i \in 1 .. Len(l) : l[i] = w[i + 1]
  BY <1>2, <1>3, HeadTailProperties
<1> HIDE DEF t
<1>6. /\ r \in Seq(Values(S, f)) /\ Len(r) = Len(s) - 1
      /\ \A i \in 1 .. Len(t) : r[i] = f[t[i]]
  BY <1>1, AlongProperties
<1> HIDE DEF w, l, r
<1>7. \A i \in 1 .. Len(s) - 1 : l[i] = r[i]
  <2> TAKE i \in 1 .. Len(s) - 1
  <2>1. i + 1 \in 1 .. Len(s) /\ i \in 1 .. Len(t) /\ i \in 1 .. Len(l)
    BY <1>1, <1>5
  <2>2. l[i] = w[i + 1] /\ w[i + 1] = f[s[i + 1]]
    BY <2>1, <1>2, <1>5
  <2>3. r[i] = f[t[i]] /\ t[i] = s[i + 1]
    BY <2>1, <1>1, <1>6
  <2> QED BY <2>2, <2>3
<1>8. l = r
  BY <1>5, <1>6, <1>7, SeqEqual
<1> QED BY <1>3, <1>4, <1>8 DEF t, w, l, r

(* Only the values of the elements matter.                                  *)
LEMMA AlongSame ==
    ASSUME NEW S, NEW s \in Seq(S), NEW f, NEW g,
           \A x \in Range(s) : g[x] = f[x]
    PROVE  Along(s, g) = Along(s, f)
<1>1. \A i \in 1 .. Len(s) : s[i] \in Range(s)
  BY LenProperties DEF Range
<1> QED BY <1>1 DEF Along

(* The element in front of a queue.                                         *)
LEMMA Prepended ==
    ASSUME NEW S, NEW x \in S, NEW s \in Seq(S)
    PROVE  /\ <<x>> \o s \in Seq(S) /\ <<x>> \o s # <<>>
           /\ Head(<<x>> \o s) = x /\ Tail(<<x>> \o s) = s
           /\ Range(<<x>> \o s) = {x} \union Range(s)
           /\ IsInjective(s) /\ x \notin Range(s) => IsInjective(<<x>> \o s)
<1> DEFINE c == <<x>> \o s
           t == Tail(c)
<1>0. /\ <<x>> \in Seq(S) /\ Len(<<x>>) = 1 /\ <<x>>[1] = x /\ Len(s) \in Nat
      /\ IsInjective(<<x>>) /\ Range(<<x>>) = {x}
  BY SingletonQueue, LenProperties
<1>1. /\ c \in Seq(S) /\ Len(c) = 1 + Len(s)
      /\ \A i \in 1 .. 1 + Len(s) : c[i] = IF i <= 1 THEN <<x>>[i] ELSE s[i - 1]
  BY <1>0, ConcatProperties
<1>2. /\ Range(c) = {x} \union Range(s)
      /\ IsInjective(s) /\ x \notin Range(s) => IsInjective(c)
  <2> DEFINE one == <<x>>
  <2> HIDE DEF one
  <2>0. one \in Seq(S)
    BY <1>0 DEF one
  <2>1. /\ Range(one \o s) = Range(one) \union Range(s)
        /\ IsInjective(one) /\ IsInjective(s) /\ Range(one) \intersect Range(s) = {}
             => IsInjective(one \o s)
    BY <2>0, ConcatDistinct
  <2>2. Range(one) = {x} /\ IsInjective(one) /\ c = one \o s
    BY <1>0 DEF one
  <2> QED BY <2>1, <2>2
<1> HIDE DEF c
<1>3. c # <<>> /\ c[1] = x
  BY <1>0, <1>1, EmptySeq
<1>4. Head(c) = x
  BY <1>1, <1>3, HeadTailProperties
<1>5. t \in Seq(S) /\ Len(t) = Len(s) /\ \A i \in 1 .. Len(t) : t[i] = c[i + 1]
  BY <1>0, <1>1, <1>3, HeadTailProperties
<1> HIDE DEF t
<1>6. \A i \in 1 .. Len(s) : t[i] = s[i]
  <2> TAKE i \in 1 .. Len(s)
  <2>1. i + 1 \in 1 .. 1 + Len(s) /\ ~(i + 1 <= 1) /\ (i + 1) - 1 = i
    BY <1>0
  <2> QED BY <2>1, <1>1, <1>5
<1>7. t = s
  BY <1>5, <1>6, SeqEqual
<1> QED BY <1>1, <1>2, <1>3, <1>4, <1>7 DEF c, t

(* The head put back in front.                                              *)
LEMMA HeadPrepended ==
    ASSUME NEW S, NEW s \in Seq(S), s # <<>>
    PROVE  <<Head(s)>> \o Tail(s) = s
<1> DEFINE t == Tail(s)
           c == <<Head(s)>> \o t
<1>1. /\ Len(s) \in Nat \ {0} /\ Head(s) = s[1] /\ Head(s) \in S
      /\ t \in Seq(S) /\ Len(t) = Len(s) - 1
      /\ \A i \in 1 .. Len(t) : t[i] = s[i + 1]
  BY EmptySeq, LenProperties, HeadTailProperties, HeadInRange
<1>2. <<Head(s)>> \in Seq(S) /\ Len(<<Head(s)>>) = 1 /\ <<Head(s)>>[1] = s[1]
  BY <1>1
<1>3. /\ c \in Seq(S) /\ Len(c) = 1 + Len(t)
      /\ \A i \in 1 .. 1 + Len(t) : c[i] = IF i <= 1 THEN <<Head(s)>>[i] ELSE t[i - 1]
  BY <1>1, <1>2, ConcatProperties
<1> HIDE DEF c, t
<1>4. \A i \in 1 .. Len(s) : c[i] = s[i]
  <2> TAKE i \in 1 .. Len(s)
  <2>1. CASE i = 1
    BY <2>1, <1>1, <1>2, <1>3
  <2>2. CASE i # 1
    <3>1. i - 1 \in 1 .. Len(t) /\ (i - 1) + 1 = i /\ ~(i <= 1) /\ i \in 1 .. 1 + Len(t)
      BY <2>2, <1>1
    <3> QED BY <3>1, <1>1, <1>3
  <2> QED BY <2>1, <2>2
<1>5. c = s
  BY <1>1, <1>3, <1>4, SeqEqual
<1> QED BY <1>5 DEF c, t

(* The front and the end of a queue do not meet.                            *)
LEMMA PrependAppend ==
    ASSUME NEW S, NEW x \in S, NEW s \in Seq(S), NEW y \in S
    PROVE  <<x>> \o Append(s, y) = Append(<<x>> \o s, y)
<1> DEFINE a == Append(s, y)
           c == <<x>> \o s
           l == <<x>> \o a
           r == Append(c, y)
<1>0. <<x>> \in Seq(S) /\ Len(<<x>>) = 1 /\ <<x>>[1] = x /\ Len(s) \in Nat
  BY LenProperties
<1>1. /\ a \in Seq(S) /\ Len(a) = Len(s) + 1 /\ a[Len(s) + 1] = y
      /\ \A i \in 1 .. Len(s) : a[i] = s[i]
  BY AppendProperties
<1>2. /\ c \in Seq(S) /\ Len(c) = 1 + Len(s)
      /\ \A i \in 1 .. 1 + Len(s) : c[i] = IF i <= 1 THEN <<x>>[i] ELSE s[i - 1]
  BY <1>0, ConcatProperties
<1> HIDE DEF a, c
<1>3. /\ l \in Seq(S) /\ Len(l) = 1 + Len(a)
      /\ \A i \in 1 .. 1 + Len(a) : l[i] = IF i <= 1 THEN <<x>>[i] ELSE a[i - 1]
  BY <1>0, <1>1, ConcatProperties
<1>4. /\ r \in Seq(S) /\ Len(r) = Len(c) + 1 /\ r[Len(c) + 1] = y
      /\ \A i \in 1 .. Len(c) : r[i] = c[i]
  BY <1>2, AppendProperties
<1> HIDE DEF l, r
<1>5. \A i \in 1 .. Len(s) + 2 : l[i] = r[i]
  <2> TAKE i \in 1 .. Len(s) + 2
  <2>1. CASE i = 1
    BY <2>1, <1>0, <1>1, <1>2, <1>3, <1>4
  <2>2. CASE i \in 2 .. Len(s) + 1
    <3>1. i - 1 \in 1 .. Len(s) /\ i \in 1 .. Len(c) /\ i \in 1 .. 1 + Len(a) /\ ~(i <= 1)
      BY <2>2, <1>0, <1>1, <1>2
    <3>2. l[i] = a[i - 1] /\ a[i - 1] = s[i - 1]
      BY <3>1, <1>1, <1>3
    <3>3. r[i] = c[i] /\ c[i] = s[i - 1]
      BY <3>1, <1>0, <1>1, <1>2, <1>4
    <3> QED BY <3>2, <3>3
  <2>3. CASE i = Len(s) + 2
    <3>1. i \in 1 .. 1 + Len(a) /\ ~(i <= 1) /\ i - 1 = Len(s) + 1 /\ i = Len(c) + 1
      BY <2>3, <1>0, <1>1, <1>2
    <3> QED BY <3>1, <1>1, <1>3, <1>4
  <2> QED BY <2>1, <2>2, <2>3, <1>0
<1>6. l = r
  <2>1. Len(l) = Len(s) + 2 /\ Len(r) = Len(s) + 2
    BY <1>0, <1>1, <1>2, <1>3, <1>4
  <2> QED BY <2>1, <1>3, <1>4, <1>5, SeqEqual
<1> QED BY <1>6 DEF a, c, l, r

(* Pushes that failed are forgotten with the frame they were made for.      *)
RefusalInv ==
    encPc = "release" \/ (encPc = "wait" /\ mppEncodeInputQueue = <<>>) => pushFailures = 0

RelayInv == FeedInv /\ RefusalInv

(* At first no push has failed.                                             *)
LEMMA RefusalInit == Init => RefusalInv
BY DEF Init, RefusalInv

(* A push that failed leaves its frame in the queue or ends the thread.     *)
LEMMA RefusalStep == TypeInv /\ RefusalInv /\ [Next]_vars => RefusalInv'
<1> SUFFICES ASSUME TypeInv, RefusalInv, [Next]_vars PROVE RefusalInv'
  OBVIOUS
<1> USE DEF NoFailure, Copying, RgaLocal, EncLocal, RecLocal,
            poolVars, rgaVars, encVars, recVars, RefusalInv
<1>1. CASE DeliverDecoded \/ RequestStop
  BY <1>1 DEF DeliverDecoded, RequestStop
<1>2. CASE TakeDecoded \/ RgaExit \/ CopyStopped \/ CopyAcquires \/ CopyFails \/ BlitFails
             \/ BlitSucceeds \/ ImportSucceeds \/ ImportFails \/ HandOverStopped \/ HandOver
             \/ ReturnInput
  BY <1>2 DEF TakeDecoded, RgaExit, CopyStopped, CopyAcquires, CopyFails, BlitFails,
     BlitSucceeds, ImportSucceeds, ImportFails, HandOverStopped, HandOver, ReturnInput
<1>3. CASE EnqueueEncodeInput
  <2>1. mppEncodeInputQueue' # <<>>
    <3>1. mppEncodeInputQueue \in Seq(Output) /\ rgaOutput \in Output
      BY <1>3 DEF EnqueueEncodeInput, TypeInv, TypeOK, Slots
    <3> QED BY <1>3, <3>1, AppendProperties DEF EnqueueEncodeInput
  <2> QED BY <1>3, <2>1 DEF EnqueueEncodeInput
<1>4. CASE TakeEncodeInput \/ EncodeInputExit \/ EncodeStopped \/ EncodeProceeds
             \/ PushSucceeds \/ PushFails \/ GiveUpPush \/ ReleaseEncoded
  BY <1>4 DEF TakeEncodeInput, EncodeInputExit, EncodeStopped, EncodeProceeds,
     PushSucceeds, PushFails, GiveUpPush, ReleaseEncoded, EncExits
<1>5. CASE RetryPush
  <2>1. mppEncodeInputQueue' # <<>>
    <3>1. mppEncodeInputQueue \in Seq(Output) /\ encodeHeld \in Output
      BY <1>5 DEF RetryPush, TypeInv, TypeOK, Slots
    <3> QED BY <1>5, <3>1, Prepended DEF RetryPush, PushedFront
  <2> QED BY <1>5, <2>1 DEF RetryPush
<1>6. CASE RecycleTake \/ RecycleReturn \/ RecycleExit
  BY <1>6 DEF RecycleTake, RecycleReturn, RecycleExit
<1>7. CASE FinalDrain
  BY <1>7 DEF FinalDrain
<1>8. CASE Finished \/ UNCHANGED vars
  BY <1>8 DEF Finished, vars
<1> QED BY <1>1, <1>2, <1>3, <1>4, <1>5, <1>6, <1>7, <1>8
  DEF Next, Rga, EncodeInput, RecycleOutputs

(* RelayInv is inductive.                                                   *)
LEMMA RelayInvInit == Init => RelayInv
BY TypeInit, PoolInit, DeliveredInit, CopyInit, ChainInit, ReturnInit, RefusalInit
   DEF FeedInv, RelayInv

(* Every step keeps it.                                                     *)
LEMMA RelayInvStep == RelayInv /\ [Next]_vars => RelayInv'
BY FeedInvStep, RefusalStep DEF RelayInv, FeedInv

-----------------------------------------------------------------------------
(* The outputs that wait are different ones in use, none of them in the     *)
(* RGA thread's hands.                                                      *)
LEMMA WaitingFacts ==
    ASSUME RelayInv
    PROVE  /\ Waiting \in Seq(Output) /\ IsInjective(Waiting)
           /\ rgaOutput \notin Range(Waiting)
           /\ content \in [Output -> Frame \union {NoFrame}]
<1> DEFINE q == mppEncodeInputQueue
<1>1. /\ q \in Seq(Output) /\ IsInjective(q)
      /\ content \in [Output -> Frame \union {NoFrame}]
      /\ \A o \in Range(q) : o \in Output /\ o # rgaOutput /\ o # encodeHeld
      /\ rgaOutput # NoOutput => rgaOutput # encodeHeld
      /\ NoOutput \notin Output
  BY PoolFacts, Apart DEF RelayInv, FeedInv, TypeInv, TypeOK, PoolSpelled
<1>2. CASE encPc \in {"check", "push", "failed"}
  <2>1. encodeHeld \in Output /\ Waiting = <<encodeHeld>> \o q
    BY <1>2 DEF RelayInv, FeedInv, TypeInv, TypeOK, Slots, Waiting
  <2>2. /\ Waiting \in Seq(Output) /\ Range(Waiting) = {encodeHeld} \union Range(q)
        /\ IsInjective(Waiting)
    BY <1>1, <2>1, Prepended
  <2> QED BY <1>1, <2>1, <2>2
<1>3. CASE encPc \notin {"check", "push", "failed"}
  BY <1>1, <1>3 DEF Waiting
<1> QED BY <1>2, <1>3

(* Different outputs of which one is left: not all of them.                 *)
LEMMA RoomLeft ==
    ASSUME NEW s \in Seq(Output), IsInjective(s), NEW o \in Output, o \notin Range(s)
    PROVE  Len(s) < OutputCount
<1>1. Len(s) \in Nat /\ DOMAIN s = 1 .. Len(s) /\ s \in [1 .. Len(s) -> Output]
  BY LenProperties
<1>2. s \in Injection(1 .. Len(s), Output \ {o})
  <2>1. \A i \in 1 .. Len(s) : s[i] \in Output \ {o}
    BY <1>1 DEF Range
  <2>2. s \in [1 .. Len(s) -> Output \ {o}]
    BY <1>1, <2>1
  <2> QED BY <1>1, <2>2 DEF Injection, IsInjective
<1>3. IsFiniteSet(1 .. Len(s)) /\ Cardinality(1 .. Len(s)) = Len(s)
  BY <1>1, FS_Interval
<1>4. IsFiniteSet(Output) /\ Cardinality(Output) = OutputCount
  BY FS_Interval DEF Output
<1>5. IsFiniteSet(Output \ {o}) /\ Cardinality(Output \ {o}) = OutputCount - 1
  BY <1>4, FS_RemoveElement
<1>6. Cardinality(1 .. Len(s)) <= Cardinality(Output \ {o})
  BY <1>2, <1>5, FS_Injection
<1> QED BY <1>1, <1>3, <1>5, <1>6

(* The copies are the contents along what waits.                            *)
LEMMA CopiesAre == Copies = Along(Waiting, content)
BY DEF Copies, Along

(* So are those after a step.                                              *)
LEMMA CopiesNextAre == Copies' = Along(Waiting', content')
BY DEF Copies, Along

(* They stay when what waits and its contents stay.                        *)
LEMMA CopiesKept ==
    ASSUME RelayInv, Waiting' = Waiting, \A o \in Range(Waiting) : content'[o] = content[o]
    PROVE  Copies' = Copies
BY WaitingFacts, AlongSame, CopiesAre, CopiesNextAre

(* The first copy goes, and its output may be given back.                   *)
LEMMA CopiesTail ==
    ASSUME RelayInv, Waiting # <<>>, Waiting' = Tail(Waiting),
           \A o \in Range(Tail(Waiting)) : content'[o] = content[o]
    PROVE  Copies # <<>> /\ Head(Copies) = content[Head(Waiting)] /\ Copies' = Tail(Copies)
<1>1. /\ Along(Waiting, content) # <<>>
      /\ Head(Along(Waiting, content)) = content[Head(Waiting)]
      /\ Tail(Along(Waiting, content)) = Along(Tail(Waiting), content)
  BY WaitingFacts, AlongTail
<1>2. Along(Waiting', content') = Along(Tail(Waiting), content)
  <2>1. Tail(Waiting) \in Seq(Output)
    BY WaitingFacts, HeadTailProperties
  <2> QED BY <2>1, AlongSame
<1> QED BY <1>1, <1>2, CopiesAre, CopiesNextAre

(* A copy is added.                                                         *)
LEMMA CopiesAppend ==
    ASSUME RelayInv, NEW o \in Output, Waiting' = Append(Waiting, o), UNCHANGED content
    PROVE  Copies' = Append(Copies, content[o])
<1>1. Along(Append(Waiting, o), content) = Append(Along(Waiting, content), content[o])
  BY WaitingFacts, AlongAppend
<1> QED BY <1>1, CopiesAre, CopiesNextAre

(* While the encode-input thread has a frame to push it is the first of     *)
(* those waiting.                                                           *)
LEMMA WaitingHeld ==
    ASSUME RelayInv, encPc \in {"check", "push", "failed"}
    PROVE  /\ encodeHeld \in Output /\ Waiting = <<encodeHeld>> \o mppEncodeInputQueue
           /\ Waiting # <<>> /\ Head(Waiting) = encodeHeld
           /\ Tail(Waiting) = mppEncodeInputQueue
           /\ encodeHeld \notin Range(mppEncodeInputQueue)
<1>1. encodeHeld \in Output /\ mppEncodeInputQueue \in Seq(Output)
  BY DEF RelayInv, FeedInv, TypeInv, TypeOK, Slots
<1>2. Waiting = <<encodeHeld>> \o mppEncodeInputQueue
  BY DEF Waiting
<1>3. encodeHeld \notin Range(mppEncodeInputQueue)
  BY PoolFacts DEF RelayInv, FeedInv, PoolSpelled
<1> QED BY <1>1, <1>2, <1>3, Prepended

(* A recycled output that does not wait leaves the copies alone.            *)
LEMMA RecycledAside ==
    ASSUME RelayInv, NEW o \in Output, o \in {rgaOutput, encodeHeld}, QueueOutputToRecycle(o)
    PROVE  \A p \in Output : p # o => content'[p] = content[p]
BY RecycledContent DEF RelayInv, FeedInv

-----------------------------------------------------------------------------
Admitted == rgaPc = "enqueue"
Offering == encPc = "push"

(* A step the relay does not see.                                           *)
LEMMA RelayQuiet ==
    ASSUME UNCHANGED <<decodedCount, rgaConsumeQueue, encoded, stop>>,
           Copied' = Copied, Admitted' <=> Admitted, Copies' = Copies,
           Offering' <=> Offering, Refusals' = Refusals
    PROVE  UNCHANGED Relay!vars
<1>1. (rgaPc = "enqueue")' = (rgaPc = "enqueue")
  BY DEF Admitted
<1>2. (encPc = "push")' = (encPc = "push")
  BY DEF Offering
<1> QED BY <1>1, <1>2 DEF Relay!vars

(* A step that leaves the encode-input side and the waiting outputs alone,  *)
(* as the relay sees it,                                                    *)
LEMMA EncoderAside ==
    ASSUME RelayInv, UNCHANGED <<mppEncodeInputQueue, encPc, encodeHeld, pushFailures>>,
           \A o \in Range(Waiting) : content'[o] = content[o]
    PROVE  Copies' = Copies /\ Refusals' = Refusals /\ (Offering' <=> Offering)
           /\ (encPc = "push")' = (encPc = "push")
<1>1. Waiting' = Waiting
  BY DEF Waiting
<1> QED BY <1>1, CopiesKept DEF Refusals, Offering

(* and one that leaves the RGA thread alone.                                *)
LEMMA RgaAside ==
    ASSUME UNCHANGED <<rgaPc, inputDesc>>
    PROVE  Copied' = Copied /\ (Admitted' <=> Admitted)
           /\ (rgaPc = "enqueue")' = (rgaPc = "enqueue")
BY DEF Copied, Admitted

(* The RGA thread gives the frame up: on a stop, or with one.               *)
LEMMA SkipStep ==
    ASSUME RelayInv, UNCHANGED <<decodedCount, rgaConsumeQueue, encoded, inputDesc>>,
           UNCHANGED <<mppEncodeInputQueue, encPc, encodeHeld, pushFailures>>,
           \A o \in Range(Waiting) : content'[o] = content[o],
           rgaPc \in {"copy", "blit", "import", "handover"}, rgaPc' = "return", stop' = TRUE
    PROVE  Relay!Skip
<1>1. /\ Copied = inputDesc /\ inputDesc # NoFrame /\ Copied' = NoFrame
  BY DEF Copied, RelayInv, FeedInv, TypeInv, Slots
<1>2. Copies' = Copies /\ Refusals' = Refusals /\ (encPc = "push")' = (encPc = "push")
  BY EncoderAside
<1>3. ~(rgaPc = "enqueue") /\ ~(rgaPc = "enqueue")'
  OBVIOUS
<1> QED BY <1>1, <1>2, <1>3 DEF Relay!Skip, Relay!NoFrame, NoFrame

(* The first copy is given up, on a stop or after too many refusals.        *)
LEMMA GiveUpStep ==
    ASSUME RelayInv, UNCHANGED <<decodedCount, rgaConsumeQueue, encoded, rgaPc, inputDesc,
                                 mppEncodeInputQueue>>,
           encPc \in {"check", "failed"}, encPc' = "exited",
           QueueOutputToRecycle(encodeHeld),
           stop \/ (encPc = "failed" /\ pushFailures >= MaxPushRetry), stop' = TRUE
    PROVE  Relay!GiveUp
<1>1. /\ encodeHeld \in Output /\ Waiting # <<>> /\ Tail(Waiting) = mppEncodeInputQueue
      /\ encodeHeld \notin Range(mppEncodeInputQueue)
  BY WaitingHeld
<1>2. Waiting' = Tail(Waiting)
  BY <1>1 DEF Waiting
<1>3. \A o \in Range(Tail(Waiting)) : content'[o] = content[o]
  <2>1. Range(mppEncodeInputQueue) \subseteq Output
    BY LenProperties DEF RelayInv, FeedInv, TypeInv, TypeOK, Range
  <2> QED BY <1>1, <2>1, RecycledAside
<1>4. Copies # <<>> /\ Copies' = Tail(Copies)
  BY <1>1, <1>2, <1>3, CopiesTail
<1>5. Refusals' = 0 /\ (stop \/ Refusals > MaxPushRetry)
  BY DEF Refusals, RelayInv, FeedInv, TypeInv, TypeOK
<1>6. Copied' = Copied /\ (rgaPc = "enqueue")' = (rgaPc = "enqueue")
  BY RgaAside
<1>7. ~(encPc = "push") /\ ~(encPc = "push")'
  OBVIOUS
<1> QED BY <1>4, <1>5, <1>6, <1>7 DEF Relay!GiveUp

(* Initially nothing was delivered.                                         *)
LEMMA RelayInit == Init => Relay!Init
<1> SUFFICES ASSUME Init PROVE Relay!Init
  OBVIOUS
<1>1. Waiting = <<>>
  BY DEF Init, Waiting
<1>2. Copies = <<>>
  BY <1>1 DEF Copies
<1> QED BY <1>2 DEF Init, Relay!Init, Copied, Refusals, NoFrame, Relay!NoFrame

(* Each step is one of the relay, or one it does not see.                   *)
LEMMA RelayStep == RelayInv /\ [Next]_vars => [Relay!Next]_(Relay!vars)
<1> SUFFICES ASSUME RelayInv, [Next]_vars PROVE Relay!Next \/ UNCHANGED Relay!vars
  OBVIOUS
<1> USE DEF NoFailure, Copying, RgaLocal, EncLocal, RecLocal,
            poolVars, rgaVars, encVars, recVars
<1>t. TypeOK /\ Slots /\ PoolSpelled /\ CopyInv /\ ExitInv /\ RefusalInv
  BY PoolFacts DEF RelayInv, FeedInv, TypeInv
<1>w. /\ Waiting \in Seq(Output) /\ IsInjective(Waiting)
      /\ rgaOutput \notin Range(Waiting) /\ Range(Waiting) \subseteq Output
  BY WaitingFacts, LenProperties DEF Range
<1>1. CASE DeliverDecoded
  <2>1. /\ UNCHANGED <<encoded, stop, content, rgaPc, inputDesc>>
        /\ UNCHANGED <<mppEncodeInputQueue, encPc, encodeHeld, pushFailures>>
        /\ decodedCount' = decodedCount + 1
        /\ rgaConsumeQueue' = Append(rgaConsumeQueue, decodedCount + 1)
    BY <1>1 DEF DeliverDecoded
  <2>2. Relay!Deliver
    BY <2>1, EncoderAside, RgaAside DEF Relay!Deliver
  <2> QED BY <2>2 DEF Relay!Next
<1>2. CASE RequestStop
  <2>1. /\ UNCHANGED <<decodedCount, rgaConsumeQueue, encoded, content, rgaPc, inputDesc>>
        /\ UNCHANGED <<mppEncodeInputQueue, encPc, encodeHeld, pushFailures>>
        /\ stop' = TRUE
    BY <1>2 DEF RequestStop
  <2>2. Relay!Stop
    BY <2>1, EncoderAside, RgaAside DEF Relay!Stop
  <2> QED BY <2>2 DEF Relay!Next
<1>3. CASE TakeDecoded
  <2>1. /\ UNCHANGED <<decodedCount, encoded, stop, content>>
        /\ UNCHANGED <<mppEncodeInputQueue, encPc, encodeHeld, pushFailures>>
        /\ rgaPc = "wait" /\ rgaPc' = "copy"
        /\ rgaConsumeQueue # <<>>
        /\ inputDesc' = Head(rgaConsumeQueue) /\ rgaConsumeQueue' = Tail(rgaConsumeQueue)
    BY <1>3 DEF TakeDecoded
  <2>2. Copied = NoFrame /\ Copied' = Head(rgaConsumeQueue)
    BY <2>1, <1>t DEF Copied, Slots
  <2>3. ~(rgaPc = "enqueue") /\ ~(rgaPc = "enqueue")'
    BY <2>1
  <2>4. Relay!Take
    BY <2>1, <2>2, <2>3, EncoderAside DEF Relay!Take, Relay!NoFrame, NoFrame
  <2> QED BY <2>4 DEF Relay!Next
<1>4. CASE RgaExit
  <2>1. /\ UNCHANGED <<decodedCount, rgaConsumeQueue, encoded, stop, content>>
        /\ UNCHANGED <<mppEncodeInputQueue, encPc, encodeHeld, pushFailures>>
    BY <1>4 DEF RgaExit, RgaLeaves
  <2>2. Copied' = Copied /\ (Admitted' <=> Admitted)
    BY <1>4, <1>t DEF RgaExit, RgaLeaves, Copied, Admitted, Slots
  <2> QED BY <2>1, <2>2, EncoderAside, RelayQuiet
<1>5. CASE CopyStopped
  <2>1. Relay!Skip
    BY <1>5, SkipStep DEF CopyStopped
  <2> QED BY <2>1 DEF Relay!Next
<1>6. CASE CopyAcquires
  <2>1. /\ UNCHANGED <<decodedCount, rgaConsumeQueue, encoded, stop, content>>
        /\ UNCHANGED <<mppEncodeInputQueue, encPc, encodeHeld, pushFailures>>
    BY <1>6 DEF CopyAcquires
  <2>2. Copied' = Copied /\ (Admitted' <=> Admitted)
    BY <1>6, <1>t DEF CopyAcquires, Copied, Admitted, Slots
  <2> QED BY <2>1, <2>2, EncoderAside, RelayQuiet
<1>7. CASE CopyFails
  <2>1. /\ UNCHANGED <<decodedCount, rgaConsumeQueue, encoded, content, inputDesc>>
        /\ UNCHANGED <<mppEncodeInputQueue, encPc, encodeHeld, pushFailures>>
        /\ rgaPc = "copy"
        /\ \/ stop' = TRUE /\ rgaPc' = "return"
           \/ UNCHANGED stop /\ rgaPc' = "copy"
    BY <1>7 DEF CopyFails, CopyReturnsNull, Fail
  <2>2. CASE stop' = TRUE /\ rgaPc' = "return"
    <3>1. Relay!Skip
      BY <2>1, <2>2, SkipStep
    <3> QED BY <3>1 DEF Relay!Next
  <2>3. CASE UNCHANGED stop /\ rgaPc' = "copy"
    BY <2>1, <2>3, RgaAside, EncoderAside, RelayQuiet
  <2> QED BY <2>1, <2>2, <2>3
<1>8. CASE BlitFails
  <2>1. /\ UNCHANGED <<decodedCount, rgaConsumeQueue, encoded, inputDesc>>
        /\ UNCHANGED <<mppEncodeInputQueue, encPc, encodeHeld, pushFailures>>
        /\ rgaPc = "blit" /\ QueueOutputToRecycle(rgaOutput)
        /\ \/ stop' = TRUE /\ rgaPc' = "return"
           \/ UNCHANGED stop /\ rgaPc' = "copy"
    BY <1>8 DEF BlitFails, CopyReturnsNull, Fail
  <2>2. \A o \in Range(Waiting) : content'[o] = content[o]
    <3>1. rgaOutput \in Output
      BY <2>1, <1>t DEF TypeOK, Slots
    <3> QED BY <2>1, <3>1, <1>w, RecycledAside
  <2>3. CASE stop' = TRUE /\ rgaPc' = "return"
    <3>1. Relay!Skip
      BY <2>1, <2>2, <2>3, SkipStep
    <3> QED BY <3>1 DEF Relay!Next
  <2>4. CASE UNCHANGED stop /\ rgaPc' = "copy"
    <3>1. Copied' = Copied /\ (Admitted' <=> Admitted)
      BY <2>1, <2>4 DEF Copied, Admitted
    <3> QED BY <2>1, <2>2, <2>4, <3>1, EncoderAside, RelayQuiet
  <2> QED BY <2>1, <2>3, <2>4
<1>9. CASE BlitSucceeds
  <2>1. /\ UNCHANGED <<decodedCount, rgaConsumeQueue, encoded, stop, inputDesc>>
        /\ UNCHANGED <<mppEncodeInputQueue, encPc, encodeHeld, pushFailures>>
        /\ rgaPc = "blit" /\ rgaPc' \in {"handover", "import"}
        /\ content' = [content EXCEPT ![rgaOutput] = inputDesc]
    BY <1>9 DEF BlitSucceeds
  <2>2. \A o \in Range(Waiting) : content'[o] = content[o]
    BY <2>1, <1>w, <1>t DEF TypeOK
  <2>3. Copied' = Copied /\ (Admitted' <=> Admitted)
    BY <2>1 DEF Copied, Admitted
  <2> QED BY <2>1, <2>2, <2>3, EncoderAside, RelayQuiet
<1>10. CASE ImportSucceeds
  <2>1. /\ UNCHANGED <<decodedCount, rgaConsumeQueue, encoded, stop, content>>
        /\ UNCHANGED <<mppEncodeInputQueue, encPc, encodeHeld, pushFailures>>
    BY <1>10 DEF ImportSucceeds
  <2>2. Copied' = Copied /\ (Admitted' <=> Admitted)
    BY <1>10, <1>t DEF ImportSucceeds, Copied, Admitted, Slots
  <2> QED BY <2>1, <2>2, EncoderAside, RelayQuiet
<1>11. CASE ImportFails
  <2>1. /\ UNCHANGED <<decodedCount, rgaConsumeQueue, encoded, inputDesc>>
        /\ UNCHANGED <<mppEncodeInputQueue, encPc, encodeHeld, pushFailures>>
        /\ rgaPc = "import" /\ rgaPc' = "return" /\ stop' = TRUE
        /\ QueueOutputToRecycle(rgaOutput)
    BY <1>11 DEF ImportFails, Fail
  <2>2. \A o \in Range(Waiting) : content'[o] = content[o]
    <3>1. rgaOutput \in Output
      BY <2>1, <1>t DEF TypeOK, Slots
    <3> QED BY <2>1, <3>1, <1>w, RecycledAside
  <2>3. Relay!Skip
    BY <2>1, <2>2, SkipStep
  <2> QED BY <2>3 DEF Relay!Next
<1>12. CASE HandOverStopped
  <2>1. Relay!Skip
    BY <1>12, SkipStep DEF HandOverStopped
  <2> QED BY <2>1 DEF Relay!Next
<1>13. CASE HandOver
  <2>1. /\ UNCHANGED <<decodedCount, rgaConsumeQueue, encoded, stop, content, inputDesc>>
        /\ UNCHANGED <<mppEncodeInputQueue, encPc, encodeHeld, pushFailures>>
        /\ rgaPc = "handover" /\ rgaPc' = "enqueue" /\ ~stop
    BY <1>13 DEF HandOver
  <2>2. Copied' = Copied /\ Copied # NoFrame
    BY <2>1, <1>t DEF Copied, Slots
  <2>3. Relay!Admit
    BY <2>1, <2>2, EncoderAside DEF Relay!Admit, Relay!NoFrame, NoFrame
  <2> QED BY <2>3 DEF Relay!Next
<1>14. CASE EnqueueEncodeInput
  <2>1. /\ UNCHANGED <<decodedCount, rgaConsumeQueue, encoded, stop, content, inputDesc>>
        /\ UNCHANGED <<encPc, encodeHeld, pushFailures>>
        /\ rgaPc = "enqueue" /\ rgaPc' = "return"
        /\ mppEncodeInputQueue' = Append(mppEncodeInputQueue, rgaOutput)
    BY <1>14 DEF EnqueueEncodeInput
  <2>2. /\ rgaOutput \in Output /\ content[rgaOutput] = inputDesc
        /\ mppEncodeInputQueue \in Seq(Output)
    BY <2>1, <1>t DEF TypeOK, Slots, CopyInv
  <2>3. Waiting' = Append(Waiting, rgaOutput)
    <3>1. CASE encPc \in {"check", "push", "failed"}
      <4>1. encodeHeld \in Output
        BY <3>1, WaitingHeld
      <4> QED BY <2>1, <2>2, <3>1, <4>1, PrependAppend DEF Waiting
    <3>2. CASE encPc \notin {"check", "push", "failed"}
      BY <2>1, <3>2 DEF Waiting
    <3> QED BY <3>1, <3>2
  <2>4. Copies' = Append(Copies, inputDesc)
    BY <2>1, <2>2, <2>3, CopiesAppend
  <2>5. Len(Copies) < OutputCount
    <3>1. Len(Waiting) < OutputCount
      BY <1>w, <2>2, RoomLeft
    <3>2. Len(Along(Waiting, content)) = Len(Waiting)
      BY <1>w, AlongProperties
    <3> QED BY <3>1, <3>2, CopiesAre
  <2>6. /\ Copied = inputDesc /\ Copied' = NoFrame /\ Refusals' = Refusals
        /\ (encPc = "push")' = (encPc = "push")
    BY <2>1 DEF Copied, Refusals
  <2>7. (rgaPc = "enqueue") /\ ~(rgaPc = "enqueue")'
    BY <2>1
  <2>8. Relay!HandOver
    BY <2>1, <2>4, <2>5, <2>6, <2>7 DEF Relay!HandOver, Relay!NoFrame, NoFrame
  <2> QED BY <2>8 DEF Relay!Next
<1>15. CASE ReturnInput
  <2>1. /\ UNCHANGED <<decodedCount, rgaConsumeQueue, encoded, stop, content>>
        /\ UNCHANGED <<mppEncodeInputQueue, encPc, encodeHeld, pushFailures>>
    BY <1>15 DEF ReturnInput
  <2>2. Copied' = Copied /\ (Admitted' <=> Admitted)
    BY <1>15 DEF ReturnInput, Copied, Admitted
  <2> QED BY <2>1, <2>2, EncoderAside, RelayQuiet
<1>16. CASE TakeEncodeInput
  <2>1. /\ UNCHANGED <<decodedCount, rgaConsumeQueue, encoded, stop, content, rgaPc, inputDesc>>
        /\ UNCHANGED pushFailures /\ encPc = "wait" /\ encPc' = "check"
        /\ mppEncodeInputQueue # <<>> /\ encodeHeld' = Head(mppEncodeInputQueue)
        /\ mppEncodeInputQueue' = Tail(mppEncodeInputQueue)
    BY <1>16 DEF TakeEncodeInput
  <2>2. Waiting' = Waiting
    BY <2>1, <1>t, HeadPrepended DEF Waiting, TypeOK
  <2>3. Copies' = Copies
    BY <2>1, <2>2, CopiesKept
  <2>4. Refusals' = Refusals /\ (Offering' <=> Offering)
    BY <2>1 DEF Refusals, Offering
  <2> QED BY <2>1, <2>3, <2>4, RgaAside, RelayQuiet
<1>17. CASE EncodeInputExit
  <2>1. /\ UNCHANGED <<decodedCount, rgaConsumeQueue, encoded, stop, content, rgaPc, inputDesc>>
        /\ UNCHANGED <<mppEncodeInputQueue, pushFailures>>
        /\ encPc = "wait" /\ encPc' = "exited" /\ mppEncodeInputQueue = <<>>
    BY <1>17 DEF EncodeInputExit, EncExits
  <2>2. Copies' = Copies
    BY <2>1, CopiesKept DEF Waiting
  <2>3. Refusals' = Refusals /\ (Offering' <=> Offering)
    BY <2>1, <1>t DEF Refusals, Offering, RefusalInv
  <2> QED BY <2>1, <2>2, <2>3, RgaAside, RelayQuiet
<1>18. CASE EncodeStopped
  <2>1. Relay!GiveUp
    BY <1>18, <1>t, GiveUpStep DEF EncodeStopped, EncExits, TypeOK
  <2> QED BY <2>1 DEF Relay!Next
<1>19. CASE EncodeProceeds
  <2>1. /\ UNCHANGED <<decodedCount, rgaConsumeQueue, encoded, stop, content, rgaPc, inputDesc>>
        /\ UNCHANGED <<mppEncodeInputQueue, encodeHeld, pushFailures>>
        /\ encPc = "check" /\ encPc' = "push" /\ ~stop
    BY <1>19 DEF EncodeProceeds
  <2>2. Waiting # <<>> /\ Waiting' = Waiting
    BY <2>1, WaitingHeld DEF Waiting
  <2>3. Copies' = Copies /\ Copies # <<>>
    <3>1. Along(Waiting, content) # <<>>
      BY <1>w, <2>2, AlongTail
    <3> QED BY <2>1, <2>2, <3>1, CopiesKept, CopiesAre
  <2>4. Refusals' = Refusals /\ Refusals <= MaxPushRetry
    BY <2>1, <1>t DEF Refusals, TypeOK, Slots
  <2>5. ~(encPc = "push") /\ (encPc = "push")'
    BY <2>1
  <2>6. Relay!Offer
    BY <2>1, <2>3, <2>4, <2>5, RgaAside DEF Relay!Offer
  <2> QED BY <2>6 DEF Relay!Next
<1>20. CASE PushSucceeds
  <2>1. /\ UNCHANGED <<decodedCount, rgaConsumeQueue, stop, content, rgaPc, inputDesc>>
        /\ UNCHANGED mppEncodeInputQueue
        /\ encPc = "push" /\ encPc' = "release" /\ pushFailures' = 0
        /\ encoded' = Append(encoded, content[encodeHeld])
    BY <1>20 DEF PushSucceeds, EncoderTakes
  <2>2. /\ Waiting # <<>> /\ Head(Waiting) = encodeHeld
        /\ Waiting' = Tail(Waiting)
    BY <2>1, WaitingHeld DEF Waiting
  <2>3. Head(Copies) = content[encodeHeld] /\ Copies' = Tail(Copies)
    BY <2>1, <2>2, CopiesTail
  <2>4. Refusals' = 0
    BY <2>1 DEF Refusals
  <2>5. (encPc = "push") /\ ~(encPc = "push")'
    BY <2>1
  <2>6. Relay!Accept
    BY <2>1, <2>3, <2>4, <2>5, RgaAside DEF Relay!Accept
  <2> QED BY <2>6 DEF Relay!Next
<1>21. CASE PushFails
  <2>1. /\ UNCHANGED <<decodedCount, rgaConsumeQueue, stop, content, rgaPc, inputDesc>>
        /\ UNCHANGED <<mppEncodeInputQueue, encodeHeld, pushFailures>>
        /\ encPc = "push" /\ encPc' = "failed"
        /\ encoded' \in {encoded, Append(encoded, content[encodeHeld])}
    BY <1>21 DEF PushFails, EncoderTakes
  <2>2. Waiting # <<>> /\ Head(Waiting) = encodeHeld /\ Waiting' = Waiting
    BY <2>1, WaitingHeld DEF Waiting
  <2>3. Copies' = Copies /\ Head(Copies) = content[encodeHeld]
    <3>1. Head(Along(Waiting, content)) = content[encodeHeld]
      BY <1>w, <2>2, AlongTail
    <3> QED BY <2>1, <2>2, <3>1, CopiesKept, CopiesAre
  <2>4. Refusals' = Refusals + 1
    BY <2>1 DEF Refusals
  <2>5. (encPc = "push") /\ ~(encPc = "push")'
    BY <2>1
  <2>6. Relay!Refuse
    BY <2>1, <2>3, <2>4, <2>5, RgaAside DEF Relay!Refuse
  <2> QED BY <2>6 DEF Relay!Next
<1>22. CASE RetryPush
  <2>1. /\ UNCHANGED <<decodedCount, rgaConsumeQueue, encoded, stop, content, rgaPc, inputDesc>>
        /\ encPc = "failed" /\ encPc' = "wait" /\ pushFailures' = pushFailures + 1
        /\ mppEncodeInputQueue' = <<encodeHeld>> \o mppEncodeInputQueue
    BY <1>22 DEF RetryPush, PushedFront
  <2>2. Copies' = Copies
    BY <2>1, CopiesKept DEF Waiting
  <2>3. Refusals' = Refusals /\ (Offering' <=> Offering)
    BY <2>1 DEF Refusals, Offering
  <2> QED BY <2>1, <2>2, <2>3, RgaAside, RelayQuiet
<1>23. CASE GiveUpPush
  <2>1. Relay!GiveUp
    BY <1>23, GiveUpStep DEF GiveUpPush, EncExits, Fail
  <2> QED BY <2>1 DEF Relay!Next
<1>24. CASE ReleaseEncoded
  <2>1. /\ UNCHANGED <<decodedCount, rgaConsumeQueue, encoded, stop, rgaPc, inputDesc>>
        /\ UNCHANGED <<mppEncodeInputQueue, pushFailures>>
        /\ encPc = "release" /\ encPc' = "wait" /\ QueueOutputToRecycle(encodeHeld)
    BY <1>24 DEF ReleaseEncoded
  <2>2. Waiting = mppEncodeInputQueue /\ Waiting' = Waiting
    BY <2>1 DEF Waiting
  <2>3. encodeHeld \in Output /\ encodeHeld \notin Range(Waiting)
    BY <2>1, <2>2, <1>t DEF TypeOK, Slots, PoolSpelled
  <2>4. \A o \in Range(Waiting) : content'[o] = content[o]
    BY <2>1, <2>3, <1>w, RecycledAside
  <2>5. Copies' = Copies
    BY <2>2, <2>4, CopiesKept
  <2>6. Refusals' = Refusals /\ (Offering' <=> Offering)
    BY <2>1 DEF Refusals, Offering
  <2> QED BY <2>1, <2>5, <2>6, RgaAside, RelayQuiet
<1>25. CASE RecycleOutputs
  <2>1. /\ UNCHANGED <<decodedCount, rgaConsumeQueue, encoded, stop, content, rgaPc, inputDesc>>
        /\ UNCHANGED <<mppEncodeInputQueue, encPc, encodeHeld, pushFailures>>
    BY <1>25 DEF RecycleOutputs, RecycleTake, RecycleReturn, RecycleExit
  <2> QED BY <2>1, RgaAside, EncoderAside, RelayQuiet
<1>26. CASE FinalDrain
  <2>1. /\ UNCHANGED <<decodedCount, encoded, stop, rgaPc, inputDesc, encPc, pushFailures>>
        /\ rgaPc = "exited" /\ encPc = "exited"
        /\ rgaConsumeQueue' = <<>> /\ mppEncodeInputQueue' = <<>>
    BY <1>26 DEF FinalDrain
  <2>2. stop /\ Copied = NoFrame
    BY <2>1, <1>t DEF ExitInv, Slots, Copied
  <2>3. Copies' = <<>>
    <3>1. Waiting' = <<>>
      BY <2>1 DEF Waiting
    <3>2. Copies' = [i \in 1 .. 0 |-> content'[Waiting'[i]]]
      BY <3>1 DEF Copies
    <3> QED BY <3>2
  <2>4. Refusals' = Refusals /\ ~(encPc = "push") /\ ~(encPc = "push")'
    BY <2>1 DEF Refusals
  <2>5. stop = TRUE
    BY <2>2, <1>t DEF TypeOK
  <2>6. Relay!Clear
    BY <2>1, <2>2, <2>3, <2>4, <2>5, RgaAside DEF Relay!Clear, Relay!NoFrame, NoFrame
  <2> QED BY <2>6 DEF Relay!Next
<1>27. CASE Finished \/ UNCHANGED vars
  <2>1. /\ UNCHANGED <<decodedCount, rgaConsumeQueue, encoded, stop, content, rgaPc, inputDesc>>
        /\ UNCHANGED <<mppEncodeInputQueue, encPc, encodeHeld, pushFailures>>
    BY <1>27 DEF Finished, vars
  <2> QED BY <2>1, RgaAside, EncoderAside, RelayQuiet
<1> QED
  BY <1>1, <1>2, <1>3, <1>4, <1>5, <1>6, <1>7, <1>8, <1>9, <1>10, <1>11, <1>12,
      <1>13, <1>14, <1>15, <1>16, <1>17, <1>18, <1>19, <1>20, <1>21, <1>22, <1>23, <1>24,
      <1>25, <1>26, <1>27
  DEF Next, Rga, EncodeInput

(* The RGA thread and the encode-input thread, whatever their steps, are a  *)
(* relay of the decoded frames: a bounded queue in order, from which        *)
(* nothing is lost before the stop, with a bounded number of repetitions.   *)
THEOREM ImplementsRelayHolds == Spec => ImplementsRelay
<1>1. Init => RelayInv /\ Relay!Init
  BY RelayInvInit, RelayInit
<1>2. RelayInv /\ [Next]_vars => RelayInv'
  BY RelayInvStep
<1>3. RelayInv /\ [Next]_vars => [Relay!Next]_(Relay!vars)
  BY RelayStep
<1> QED
  BY <1>1, <1>2, <1>3, PTL DEF Spec, ImplementsRelay, Relay!Spec
=============================================================================
