--------------------------- MODULE ShutdownProofs ---------------------------
(***************************************************************************)
(* What holds of the waits of main.cpp for any number of captured frames:  *)
(* the types, and that no thread sleeps on a frame.  That a stop ends the  *)
(* process is a liveness property and is left to TLC.                      *)
(***************************************************************************)
EXTENDS Shutdown, QueueLemmas

-----------------------------------------------------------------------------
(* Types.  A frame is in one place up to the copy, then its copy goes on to *)
(* the encoder and the frame itself back to the decoder.                    *)
In(t, places) == IF pc[t] \in places THEN 1 ELSE 0

UpToCopy == queue["decode"] + In("decode", {"work"}) + queue["rga"]

Bounded ==
    /\ UpToCopy + In("rga", {"work"}) + queue["input"] + In("input", {"work"}) <= captured
    /\ UpToCopy + In("rga", {"work", "return"}) + queue["recycle"] <= captured

WeakTypes ==
    /\ pc \in [Waiter -> {"check", "blocking", "asleep", "work", "return", "exited"}]
    /\ queue \in [Waiter -> Nat]
    /\ owed \in [Notifier -> Seq(Waiter)]
    /\ stop \in BOOLEAN /\ rgaDone \in BOOLEAN
    /\ {capture, output} \subseteq {"run", "exited"}
    /\ main \in {"run", "joining", "done"}
    /\ captured \in 0 .. MaxFrames
    /\ missed \in BOOLEAN

LEMMA Names ==
    /\ \A t \in Waiter : t \in Notifier
    /\ {"decode", "rga", "recycle", "input"} \subseteq Waiter
    /\ {"capture", "output", "main", "decode", "rga", "recycle", "input"} \subseteq Notifier
    /\ \A t \in Waiter : t \in {"decode", "rga", "recycle", "input"}
BY DEF Waiter, Notifier

(* A queue of one.                                                          *)
LEMMA SingletonQueue == \A t \in Waiter : <<t>> \in Seq(Waiter) /\ t \in Range(<<t>>)
BY DEF Range

(* What a thread may have to notify.                                        *)
LEMMA Notifications ==
    /\ \A t \in Waiter : <<t>> \in Seq(Waiter)
    /\ AllWaiters \in Seq(Waiter) /\ AllWaiters \o AllWaiters \in Seq(Waiter)
    /\ AllWaiters \o <<"decode">> \in Seq(Waiter)
    /\ <<>> \in Seq(Waiter)
<1>1. AllWaiters \in Seq(Waiter) /\ <<"decode">> \in Seq(Waiter)
  BY DEF AllWaiters, Waiter
<1>2. \A t \in Waiter : <<t>> \in Seq(Waiter)
  OBVIOUS
<1>3. <<>> \in Seq(Waiter)
  BY EmptyQueue
<1> HIDE DEF AllWaiters
<1> QED BY <1>1, <1>2, <1>3, ConcatProperties

(* Setting the notifications of one thread keeps their types.               *)
LEMMA OwesTypes ==
    ASSUME WeakTypes, NEW n \in Notifier, NEW s \in Seq(Waiter), Owes(n, s)
    PROVE  owed' \in [Notifier -> Seq(Waiter)] /\ owed'[n] = s
           /\ \A m \in Notifier : m # n => owed'[m] = owed[m]
BY DEF Owes, WeakTypes

(* Filling a queue, under its mutex.                                        *)
LEMMA PushProperties ==
    ASSUME WeakTypes, NEW t \in Waiter, Push(t)
    PROVE  /\ queue' \in [Waiter -> Nat] /\ queue'[t] = queue[t] + 1
           /\ \A u \in Waiter : u # t => queue'[u] = queue[u]
           /\ pc[t] # "blocking"
<1>1. queue \in [Waiter -> Nat] /\ queue' = [queue EXCEPT ![t] = queue[t] + 1]
      /\ pc[t] # "blocking"
  BY DEF Push, MutexFree, WeakTypes
<1>2. queue[t] + 1 \in Nat
  BY <1>1
<1> QED BY ONLY <1>1, <1>2, t \in Waiter

(* Taking from a queue.                                                     *)
LEMMA FindWorkProperties ==
    ASSUME WeakTypes, NEW t \in Waiter, FindWork(t)
    PROVE  /\ queue' \in [Waiter -> Nat] /\ queue[t] >= 1
           /\ queue'[t] = IF t = "recycle" THEN 0 ELSE queue[t] - 1
           /\ \A u \in Waiter : u # t => queue'[u] = queue[u] /\ pc'[u] = pc[u]
           /\ pc[t] = "check" /\ pc'[t] = "work" /\ owed[t] = <<>>
           /\ UNCHANGED <<captured, owed, main, output>>
<1> DEFINE rest == IF t = "recycle" THEN 0 ELSE queue[t] - 1
<1>1. /\ queue \in [Waiter -> Nat] /\ queue[t] > 0
      /\ queue' = [queue EXCEPT ![t] = rest]
  BY DEF FindWork, WeakTypes
<1>2. rest \in Nat /\ queue[t] >= 1
  BY <1>1
<1>3. /\ queue' \in [Waiter -> Nat] /\ queue'[t] = rest
      /\ \A u \in Waiter : u # t => queue'[u] = queue[u]
  <2> HIDE DEF rest
  <2> QED BY ONLY <1>1, <1>2, t \in Waiter
<1>4. \A u \in Waiter : u # t => pc'[u] = pc[u]
  BY DEF FindWork, WeakTypes
<1> QED BY <1>2, <1>3, <1>4 DEF FindWork, Idle, WeakTypes

LEMMA WeakInit == Init => WeakTypes /\ Bounded
<1> SUFFICES ASSUME Init PROVE WeakTypes /\ Bounded
  OBVIOUS
<1>1. <<>> \in Seq(Waiter)
  BY EmptyQueue
<1>2. /\ owed \in [Notifier -> Seq(Waiter)] /\ captured \in 0 .. MaxFrames
      /\ queue \in [Waiter -> Nat]
  <2>1. 0 \in 0 .. MaxFrames /\ 0 \in Nat
    BY ShutdownAssumption DEF ShutdownAssumption
  <2> QED BY <1>1, <2>1 DEF Init
<1>4. WeakTypes
  BY <1>2 DEF Init, WeakTypes
<1>3. /\ \A t \in Waiter : queue[t] = 0 /\ pc[t] = "check"
      /\ captured = 0
  BY DEF Init
<1> QED BY <1>3, <1>4, Names DEF Bounded, UpToCopy, In

(* Every step keeps the types.                                              *)
LEMMA WeakStep == WeakTypes /\ [Next]_vars => WeakTypes'
<1> SUFFICES ASSUME WeakTypes, [Next]_vars PROVE WeakTypes'
  OBVIOUS
<1>1. ASSUME NEW n \in Notifier, Notify(n) PROVE WeakTypes'
  <2>1. owed[n] \in Seq(Waiter) /\ owed[n] # <<>>
    BY <1>1 DEF Notify, WeakTypes
  <2>2. Head(owed[n]) \in Waiter /\ Tail(owed[n]) \in Seq(Waiter)
    BY <2>1, HeadTailProperties
  <2>3. missed' \in BOOLEAN
    BY <1>1, <2>2 DEF Notify, WeakTypes
  <2> QED BY <1>1, <2>2, <2>3 DEF Notify, WeakTypes
<1>2. ASSUME NEW t \in Waiter, FindWork(t) PROVE WeakTypes'
  BY <1>2, FindWorkProperties DEF FindWork, WeakTypes
<1>3. ASSUME NEW t \in Waiter, Leave(t) PROVE WeakTypes'
  <2>1. owed' \in [Notifier -> Seq(Waiter)] /\ rgaDone' \in BOOLEAN
    BY <1>3, Names, OwesTypes, Notifications DEF Leave, WeakTypes
  <2> QED BY <1>3, <2>1 DEF Leave, WeakTypes
<1>4. ASSUME NEW t \in Waiter, FindNothing(t) PROVE WeakTypes'
  BY <1>4, Names DEF FindNothing, WeakTypes
<1>5. ASSUME NEW t \in Waiter, Sleep(t) PROVE WeakTypes'
  BY <1>5, Names DEF Sleep, WeakTypes
<1>6. CASE CaptureFrame
  <2>1. owed' \in [Notifier -> Seq(Waiter)]
    BY <1>6, Names, OwesTypes, Notifications DEF CaptureFrame
  <2>2. queue' \in [Waiter -> Nat]
    BY <1>6, Names, PushProperties DEF CaptureFrame
  <2>3. captured' \in 0 .. MaxFrames
    BY <1>6, ShutdownAssumption DEF CaptureFrame, WeakTypes, ShutdownAssumption
  <2> QED BY <1>6, <2>1, <2>2, <2>3 DEF CaptureFrame, WeakTypes
<1>7. CASE CaptureFails
  <2>1. owed' \in [Notifier -> Seq(Waiter)]
    BY <1>7, Names, OwesTypes, Notifications DEF CaptureFails, FailWith
  <2> QED BY <1>7, <2>1, Names DEF CaptureFails, WeakTypes, FailWith
<1>8. CASE CaptureExit
  <2>1. owed' \in [Notifier -> Seq(Waiter)]
    BY <1>8, Names, OwesTypes, Notifications DEF CaptureExit
  <2> QED BY <1>8, <2>1, Names DEF CaptureExit, WeakTypes
<1>9. CASE OutputFails
  <2>1. owed' \in [Notifier -> Seq(Waiter)]
    BY <1>9, Names, OwesTypes, Notifications DEF OutputFails, FailWith
  <2> QED BY <1>9, <2>1, Names DEF OutputFails, WeakTypes, FailWith
<1>10. CASE OutputExit
  BY <1>10, Names DEF OutputExit, WeakTypes
<1>11. CASE Decoded
  <2>1. owed' \in [Notifier -> Seq(Waiter)]
    <3>1. CASE UNCHANGED owed
      BY <3>1 DEF WeakTypes
    <3>2. CASE owed' # owed
      BY <1>11, <3>2, Names, OwesTypes, Notifications DEF Decoded, Push
    <3> QED BY <3>1, <3>2
  <2>2. queue' \in [Waiter -> Nat]
    BY <1>11, Names, PushProperties DEF Decoded, WeakTypes, FailWith
  <2>3. stop' \in BOOLEAN
    BY <1>11 DEF Decoded, WeakTypes, Push
  <2>4. pc' \in [Waiter -> {"check", "blocking", "asleep", "work", "return", "exited"}]
    BY <1>11 DEF Decoded, WeakTypes
  <2> QED BY <1>11, <2>1, <2>2, <2>3, <2>4 DEF Decoded, WeakTypes
<1>12. CASE Copied
  <2>1. owed' \in [Notifier -> Seq(Waiter)]
    <3>1. CASE UNCHANGED owed
      BY <3>1 DEF WeakTypes
    <3>2. CASE owed' # owed
      BY <1>12, <3>2, Names, OwesTypes, Notifications DEF Copied, Push, FailWith
    <3> QED BY <3>1, <3>2
  <2>2. queue' \in [Waiter -> Nat]
    BY <1>12, Names, PushProperties DEF Copied, WeakTypes, FailWith
  <2>3. stop' \in BOOLEAN
    BY <1>12 DEF Copied, WeakTypes, Push, FailWith
  <2>4. pc' \in [Waiter -> {"check", "blocking", "asleep", "work", "return", "exited"}]
    BY <1>12 DEF Copied, WeakTypes
  <2> QED BY <1>12, <2>1, <2>2, <2>3, <2>4 DEF Copied, WeakTypes
<1>13. CASE Returned
  <2>1. owed' \in [Notifier -> Seq(Waiter)]
    BY <1>13, Names, OwesTypes, Notifications DEF Returned
  <2>2. queue' \in [Waiter -> Nat]
    BY <1>13, Names, PushProperties DEF Returned
  <2> QED BY <1>13, <2>1, <2>2 DEF Returned, WeakTypes
<1>14. CASE Recycled
  BY <1>14, Names DEF Recycled, WeakTypes
<1>15. CASE Encoded
  <2>1. owed' \in [Notifier -> Seq(Waiter)]
    <3>1. CASE UNCHANGED owed
      BY <3>1 DEF WeakTypes
    <3>2. CASE owed' # owed
      BY <1>15, <3>2, Names, OwesTypes, Notifications DEF Encoded, Push, FailWith
    <3> QED BY <3>1, <3>2
  <2>2. queue' \in [Waiter -> Nat]
    BY <1>15, Names, PushProperties DEF Encoded, WeakTypes, FailWith
  <2>3. stop' \in BOOLEAN
    BY <1>15 DEF Encoded, WeakTypes, Push, FailWith
  <2>4. pc' \in [Waiter -> {"check", "blocking", "asleep", "work", "return", "exited"}]
    BY <1>15 DEF Encoded, WeakTypes
  <2> QED BY <1>15, <2>1, <2>2, <2>3, <2>4 DEF Encoded, WeakTypes
<1>16. CASE MainStops
  <2>1. owed' \in [Notifier -> Seq(Waiter)]
    BY <1>16, Names, OwesTypes, Notifications DEF MainStops
  <2> QED BY <1>16, <2>1, Names DEF MainStops, WeakTypes
<1>17. CASE MainDone
  BY <1>17, Names DEF MainDone, WeakTypes
<1>18. CASE UNCHANGED vars
  BY <1>18, Names DEF vars, WeakTypes
<1> QED
  BY <1>1, <1>2, <1>3, <1>4, <1>5, <1>6, <1>7, <1>8, <1>9, <1>10, <1>11, <1>12, <1>13, <1>14, <1>15, <1>16, <1>17, <1>18
  DEF Next, Wait, CaptureThread, OutputThread, Work

(* And no frame is in two places.                                           *)
LEMMA BoundedStep == WeakTypes /\ WeakTypes' /\ Bounded /\ [Next]_vars => Bounded'
<1> SUFFICES ASSUME WeakTypes, WeakTypes', Bounded, [Next]_vars PROVE Bounded'
  OBVIOUS
<1>1. ASSUME NEW n \in Notifier, Notify(n) PROVE Bounded'
  <2>1. Head(owed[n]) \in Waiter
    BY <1>1, HeadTailProperties DEF Notify, WeakTypes
  <2>2. \A t \in Waiter : \A places \in {{"work"}, {"work", "return"}} :
           In(t, places)' = In(t, places)
    BY <1>1, <2>1 DEF Notify, In, WeakTypes
  <2> QED BY <1>1, <2>2, Names DEF Notify, Bounded, UpToCopy
<1>2. ASSUME NEW t \in Waiter, FindWork(t) PROVE Bounded'
  <2>1. /\ queue["decode"] \in Nat /\ queue["rga"] \in Nat /\ queue["recycle"] \in Nat
        /\ queue["input"] \in Nat /\ captured \in Nat
    BY Names, ShutdownAssumption DEF WeakTypes, ShutdownAssumption
  <2>2. /\ queue[t] >= 1 /\ queue'[t] = IF t = "recycle" THEN 0 ELSE queue[t] - 1
        /\ \A u \in Waiter : u # t => queue'[u] = queue[u] /\ pc'[u] = pc[u]
        /\ pc[t] = "check" /\ pc'[t] = "work" /\ captured' = captured
    BY <1>2, FindWorkProperties
  <2>3. CASE t = "decode"
    BY <2>1, <2>2, <2>3, Names DEF Bounded, UpToCopy, In
  <2>4. CASE t = "rga"
    BY <2>1, <2>2, <2>4, Names DEF Bounded, UpToCopy, In
  <2>5. CASE t = "recycle"
    BY <2>1, <2>2, <2>5, Names DEF Bounded, UpToCopy, In
  <2>6. CASE t = "input"
    BY <2>1, <2>2, <2>6, Names DEF Bounded, UpToCopy, In
  <2> QED BY <2>3, <2>4, <2>5, <2>6, Names
<1>3. ASSUME NEW t \in Waiter, Leave(t) PROVE Bounded'
  BY <1>3, Names DEF Leave, Bounded, UpToCopy, In, WeakTypes
<1>4. ASSUME NEW t \in Waiter, FindNothing(t) PROVE Bounded'
  BY <1>4, Names DEF FindNothing, Bounded, UpToCopy, In, WeakTypes
<1>5. ASSUME NEW t \in Waiter, Sleep(t) PROVE Bounded'
  BY <1>5, Names DEF Sleep, Bounded, UpToCopy, In, WeakTypes
<1>6. CASE CaptureFrame
  <2>1. /\ queue["decode"] \in Nat /\ queue["rga"] \in Nat /\ queue["recycle"] \in Nat
        /\ queue["input"] \in Nat /\ captured \in Nat
    BY Names, ShutdownAssumption DEF WeakTypes, ShutdownAssumption
  <2>2. Push("decode") /\ UNCHANGED pc /\ captured' = captured + 1
    BY <1>6 DEF CaptureFrame
  <2>3. /\ queue'["decode"] = queue["decode"] + 1
       /\ \A v \in Waiter : v # "decode" => queue'[v] = queue[v]
    BY <2>2, Names, PushProperties
  <2> QED BY <2>1, <2>2, <2>3, Names DEF Bounded, UpToCopy, In
<1>7. CASE CaptureFails
  BY <1>7, Names DEF CaptureFails, Bounded, UpToCopy, In, WeakTypes
<1>8. CASE CaptureExit
  BY <1>8, Names DEF CaptureExit, Bounded, UpToCopy, In, WeakTypes
<1>9. CASE OutputFails
  BY <1>9, Names DEF OutputFails, Bounded, UpToCopy, In, WeakTypes
<1>10. CASE OutputExit
  BY <1>10, Names DEF OutputExit, Bounded, UpToCopy, In, WeakTypes
<1>11. CASE Decoded
  <2>1. /\ queue["decode"] \in Nat /\ queue["rga"] \in Nat /\ queue["recycle"] \in Nat
        /\ queue["input"] \in Nat /\ captured \in Nat
    BY Names, ShutdownAssumption DEF WeakTypes, ShutdownAssumption
  <2>2. /\ pc["decode"] = "work" /\ pc' = [pc EXCEPT !["decode"] = "check"]
        /\ captured' = captured
    BY <1>11 DEF Decoded, WeakTypes
  <2>3. /\ \A u \in Waiter : u # "decode" => pc'[u] = pc[u]
        /\ pc'["decode"] = "check"
    BY <2>2, Names DEF WeakTypes
  <2>4. CASE Push("rga")
    <3>1. /\ queue'["rga"] = queue["rga"] + 1
         /\ \A v \in Waiter : v # "rga" => queue'[v] = queue[v]
      BY <2>4, Names, PushProperties
    <3> QED BY <2>1, <2>2, <2>3, <3>1, Names DEF Bounded, UpToCopy, In
  <2>5. CASE UNCHANGED queue
    BY <2>1, <2>2, <2>3, <2>5, Names DEF Bounded, UpToCopy, In
  <2> QED BY <1>11, <2>4, <2>5 DEF Decoded
<1>12. CASE Copied
  <2>1. /\ queue["decode"] \in Nat /\ queue["rga"] \in Nat /\ queue["recycle"] \in Nat
        /\ queue["input"] \in Nat /\ captured \in Nat
    BY Names, ShutdownAssumption DEF WeakTypes, ShutdownAssumption
  <2>2. /\ pc["rga"] = "work" /\ pc' = [pc EXCEPT !["rga"] = "return"]
        /\ captured' = captured
    BY <1>12 DEF Copied, WeakTypes
  <2>3. /\ \A u \in Waiter : u # "rga" => pc'[u] = pc[u]
        /\ pc'["rga"] = "return"
    BY <2>2, Names DEF WeakTypes
  <2>4. CASE Push("input")
    <3>1. /\ queue'["input"] = queue["input"] + 1
         /\ \A v \in Waiter : v # "input" => queue'[v] = queue[v]
      BY <2>4, Names, PushProperties
    <3> QED BY <2>1, <2>2, <2>3, <3>1, Names DEF Bounded, UpToCopy, In
  <2>5. CASE UNCHANGED queue
    BY <2>1, <2>2, <2>3, <2>5, Names DEF Bounded, UpToCopy, In
  <2> QED BY <1>12, <2>4, <2>5 DEF Copied
<1>13. CASE Returned
  <2>1. /\ queue["decode"] \in Nat /\ queue["rga"] \in Nat /\ queue["recycle"] \in Nat
        /\ queue["input"] \in Nat /\ captured \in Nat
    BY Names, ShutdownAssumption DEF WeakTypes, ShutdownAssumption
  <2>2. /\ pc["rga"] = "return" /\ pc' = [pc EXCEPT !["rga"] = "check"]
        /\ captured' = captured
    BY <1>13 DEF Returned, WeakTypes
  <2>3. /\ \A u \in Waiter : u # "rga" => pc'[u] = pc[u]
        /\ pc'["rga"] = "check"
    BY <2>2, Names DEF WeakTypes
  <2>4. Push("recycle")
    BY <1>13 DEF Returned
  <2>5. /\ queue'["recycle"] = queue["recycle"] + 1
       /\ \A v \in Waiter : v # "recycle" => queue'[v] = queue[v]
    BY <2>4, Names, PushProperties
  <2> QED BY <2>1, <2>2, <2>3, <2>5, Names DEF Bounded, UpToCopy, In
<1>14. CASE Recycled
  BY <1>14, Names DEF Recycled, Bounded, UpToCopy, In, WeakTypes
<1>15. CASE Encoded
  <2>1. /\ queue["decode"] \in Nat /\ queue["rga"] \in Nat /\ queue["recycle"] \in Nat
        /\ queue["input"] \in Nat /\ captured \in Nat
    BY Names, ShutdownAssumption DEF WeakTypes, ShutdownAssumption
  <2>2. /\ \/ Push("input") /\ pc'["input"] = "check"
           \/ UNCHANGED queue /\ pc'["input"] \in {"check", "exited"}
        /\ pc["input"] = "work" /\ captured' = captured
        /\ \A u \in Waiter : u # "input" => pc'[u] = pc[u]
    <3>1. pc["input"] = "work" /\ captured' = captured
      BY <1>15 DEF Encoded
    <3>2. PICK next \in {"check", "exited"} :
             /\ pc' = [pc EXCEPT !["input"] = next]
             /\ UNCHANGED queue \/ (Push("input") /\ next = "check")
      BY <1>15 DEF Encoded
    <3> QED BY <3>1, <3>2, Names DEF WeakTypes
  <2>3. /\ \A u \in Waiter : u # "input" => queue'[u] = queue[u]
        /\ \/ queue'["input"] = queue["input"] + 1 /\ pc'["input"] = "check"
           \/ queue'["input"] = queue["input"] /\ pc'["input"] \in {"check", "exited"}
    <3>1. CASE Push("input") /\ pc'["input"] = "check"
      BY <3>1, Names, PushProperties
    <3>2. CASE UNCHANGED queue /\ pc'["input"] \in {"check", "exited"}
      BY <3>2
    <3> QED BY <2>2, <3>1, <3>2
  <2> QED BY <2>1, <2>2, <2>3, Names DEF Bounded, UpToCopy, In
<1>16. CASE MainStops
  BY <1>16, Names DEF MainStops, Bounded, UpToCopy, In, WeakTypes
<1>17. CASE MainDone
  BY <1>17, Names DEF MainDone, Bounded, UpToCopy, In, WeakTypes
<1>18. CASE UNCHANGED vars
  BY <1>18, Names DEF vars, Bounded, UpToCopy, In, WeakTypes
<1> QED
  BY <1>1, <1>2, <1>3, <1>4, <1>5, <1>6, <1>7, <1>8, <1>9, <1>10, <1>11, <1>12, <1>13, <1>14, <1>15, <1>16, <1>17, <1>18
  DEF Next, Wait, CaptureThread, OutputThread, Work

-----------------------------------------------------------------------------
(* The notifications                                                        *)

(* A thread owes nothing when it sets what it owes, so no notification is   *)
(* forgotten; and a queue is not filled while its thread is about to sleep. *)
WakeInv ==
    /\ \A t \in Waiter : pc[t] = "blocking" => queue[t] = 0
    /\ \A t \in Waiter : pc[t] = "work" => owed[t] = <<>>
    /\ main = "run" => owed["main"] = <<>>
    /\ output = "run" => owed["output"] = <<>>
    /\ FrameWakes

(* New notifications of a thread that owed none are added to those under    *)
(* way.                                                                     *)
LEMMA OwesPending ==
    ASSUME WeakTypes, NEW n \in Notifier, NEW s \in Seq(Waiter), Owes(n, s), owed[n] = <<>>
    PROVE  \A t \in Waiter : Pending(t) \/ t \in Range(s) => Pending(t)'
<1> SUFFICES ASSUME NEW t \in Waiter, Pending(t) \/ t \in Range(s) PROVE Pending(t)'
  OBVIOUS
<1>1. owed'[n] = s /\ \A m \in Notifier : m # n => owed'[m] = owed[m]
  BY OwesTypes
<1>2. CASE t \in Range(s)
  BY <1>1, <1>2 DEF Pending, Range
<1>3. CASE Pending(t)
  <2>1. PICK m \in Notifier : \E i \in DOMAIN owed[m] : owed[m][i] = t
    BY <1>3 DEF Pending
  <2>2. m # n
    BY <2>1
  <2> QED BY <1>1, <2>1, <2>2 DEF Pending
<1> QED BY <1>2, <1>3

LEMMA SamePending == ASSUME UNCHANGED owed PROVE \A t : Pending(t)' <=> Pending(t)
BY DEF Pending

(* A notification that is made leaves those for the other threads.          *)
LEMMA NotifyPending ==
    ASSUME WeakTypes, NEW n \in Notifier, Notify(n), NEW t \in Waiter, t # Head(owed[n]),
           Pending(t)
    PROVE  Pending(t)'
<1>1. PICK m \in Notifier : \E i \in DOMAIN owed[m] : owed[m][i] = t
  BY DEF Pending
<1>2. owed' = [owed EXCEPT ![n] = Tail(@)] /\ owed[n] # <<>>
      /\ owed[n] \in Seq(Waiter) /\ owed \in [Notifier -> Seq(Waiter)]
  BY DEF Notify, WeakTypes
<1>3. CASE m # n
  BY <1>1, <1>2, <1>3 DEF Pending
<1>4. CASE m = n
  <2> DEFINE s == owed[n]
  <2>1. Len(s) \in Nat /\ DOMAIN s = 1 .. Len(s) /\ Head(s) = s[1]
    BY <1>2, LenProperties, HeadInRange
  <2>2. PICK i \in 1 .. Len(s) : s[i] = t /\ i # 1
    BY <1>1, <1>4, <2>1
  <2>3. /\ Tail(s) \in Seq(Waiter) /\ Len(Tail(s)) = Len(s) - 1
        /\ \A j \in 1 .. Len(s) - 1 : Tail(s)[j] = s[j + 1]
    BY <1>2, HeadTailProperties
  <2> HIDE DEF s
  <2>4. i - 1 \in DOMAIN Tail(s) /\ Tail(s)[i - 1] = s[i]
    BY <2>1, <2>2, <2>3, LenProperties
  <2>5. owed'[n] = Tail(s)
    BY <1>2 DEF s
  <2> QED BY <2>2, <2>4, <2>5 DEF Pending
<1> QED BY <1>3, <1>4

LEMMA WakeInit == Init => WakeInv
BY Names DEF Init, WakeInv, FrameWakes

(* Every step keeps a notification under way for each frame slept on.       *)
LEMMA WakeStep == WeakTypes /\ WakeInv /\ [Next]_vars => WakeInv'
<1> SUFFICES ASSUME WeakTypes, WakeInv, [Next]_vars PROVE WakeInv'
  OBVIOUS
<1>1. ASSUME NEW n \in Notifier, Notify(n) PROVE WakeInv'
  <2>1. Head(owed[n]) \in Waiter /\ owed[n] # <<>> /\ owed[n] \in Seq(Waiter)
    BY <1>1, HeadTailProperties DEF Notify, WeakTypes
  <2> DEFINE u == Head(owed[n])
  <2>2. /\ pc' = IF pc[u] = "asleep" THEN [pc EXCEPT ![u] = "check"] ELSE pc
        /\ owed' = [owed EXCEPT ![n] = Tail(@)]
        /\ UNCHANGED <<queue, main, output>>
    BY <1>1 DEF Notify
  <2>3. FrameWakes'
    <3> SUFFICES ASSUME NEW t \in Waiter, pc'[t] = "asleep", queue'[t] > 0 PROVE Pending(t)'
      BY DEF FrameWakes
    <3>1. t # u /\ pc[t] = "asleep" /\ queue[t] > 0
      BY <2>1, <2>2 DEF WeakTypes
    <3> QED BY <1>1, <3>1, NotifyPending DEF WakeInv, FrameWakes
  <2>4. \A m \in Notifier : owed[m] = <<>> => owed'[m] = <<>>
    BY <2>1, <2>2 DEF WeakTypes
  <2>5. \A t \in Waiter :
           /\ pc'[t] = "work" => pc[t] = "work"
           /\ pc'[t] = "blocking" => pc[t] = "blocking"
    BY <2>1, <2>2 DEF WeakTypes
  <2> HIDE DEF u
  <2> QED BY <2>2, <2>3, <2>4, <2>5, Names DEF WakeInv
<1>2. ASSUME NEW t \in Waiter, FindWork(t) PROVE WakeInv'
  <2>1. /\ \A u \in Waiter : u # t => queue'[u] = queue[u] /\ pc'[u] = pc[u]
        /\ pc'[t] = "work" /\ owed[t] = <<>> /\ UNCHANGED <<owed, main, output>>
    BY <1>2, FindWorkProperties
  <2> QED BY <2>1, SamePending, Names DEF WakeInv, FrameWakes
<1>3. ASSUME NEW t \in Waiter, Leave(t) PROVE WakeInv'
  <2>1. \A u \in Waiter : Pending(u) => Pending(u)'
    <3>1. CASE t = "rga"
      BY <1>3, <3>1, OwesPending, Notifications, Names DEF Leave, Idle
    <3>2. CASE t # "rga"
      BY <1>3, <3>2, SamePending DEF Leave
    <3> QED BY <3>1, <3>2
  <2>2. \A m \in Notifier : m # t => owed'[m] = owed[m]
    BY <1>3 DEF Leave, Owes, WeakTypes
  <2>3. /\ pc' = [pc EXCEPT ![t] = "exited"] /\ UNCHANGED <<queue, main, output>>
        /\ t # "main" /\ t # "output"
    BY <1>3 DEF Leave, Waiter
  <2> QED BY <2>1, <2>2, <2>3, Names DEF WakeInv, FrameWakes, WeakTypes
<1>4. ASSUME NEW t \in Waiter, FindNothing(t) PROVE WakeInv'
  BY <1>4, SamePending, Names DEF FindNothing, WakeInv, FrameWakes, WeakTypes
<1>5. ASSUME NEW t \in Waiter, Sleep(t) PROVE WakeInv'
  <2>1. /\ pc[t] = "blocking" /\ pc'[t] = "asleep"
        /\ \A u \in Waiter : u # t => pc'[u] = pc[u]
        /\ UNCHANGED <<queue, owed, main, output>>
    BY <1>5 DEF Sleep, WeakTypes
  <2>2. ~(queue'[t] > 0)
    BY <2>1 DEF WakeInv
  <2> QED BY <2>1, <2>2, SamePending, Names DEF WakeInv, FrameWakes
<1>6. CASE CaptureFrame
  <2>1. owed["capture"] = <<>> /\ Owes("capture", <<"decode">>)
    BY <1>6, Names DEF CaptureFrame, WakeInv
  <2>2. /\ \A u \in Waiter : Pending(u) \/ u \in Range(<<"decode">>) => Pending(u)'
        /\ \A m \in Notifier : m # "capture" => owed'[m] = owed[m]
    BY <2>1, OwesPending, OwesTypes, Notifications, Names
  <2>3. "decode" \in Range(<<"decode">>) /\ pc["decode"] # "blocking"
    BY <1>6, SingletonQueue, PushProperties, Names DEF CaptureFrame
  <2> QED
    BY <1>6, <2>2, <2>3, Names DEF CaptureFrame, WakeInv, FrameWakes, WeakTypes, Push
<1>7. CASE CaptureFails
  <2>1. owed["capture"] = <<>> /\ Owes("capture", AllWaiters \o <<"decode">>)
    BY <1>7, Names DEF CaptureFails, WakeInv, FailWith
  <2>2. /\ \A u \in Waiter : Pending(u) \/ u \in Range(AllWaiters \o <<"decode">>) => Pending(u)'
        /\ \A m \in Notifier : m # "capture" => owed'[m] = owed[m]
    BY <2>1, OwesPending, OwesTypes, Notifications, Names
  <2> QED BY <1>7, <2>2, Names DEF CaptureFails, WakeInv, FrameWakes, WeakTypes, FailWith
<1>8. CASE CaptureExit
  <2>1. owed["capture"] = <<>> /\ Owes("capture", <<"decode">>)
    BY <1>8, Names DEF CaptureExit, WakeInv
  <2>2. /\ \A u \in Waiter : Pending(u) \/ u \in Range(<<"decode">>) => Pending(u)'
        /\ \A m \in Notifier : m # "capture" => owed'[m] = owed[m]
    BY <2>1, OwesPending, OwesTypes, Notifications, Names
  <2> QED BY <1>8, <2>2, Names DEF CaptureExit, WakeInv, FrameWakes, WeakTypes
<1>9. CASE OutputFails
  <2>1. owed["output"] = <<>> /\ Owes("output", AllWaiters)
    BY <1>9, Names DEF OutputFails, WakeInv, FailWith
  <2>2. /\ \A u \in Waiter : Pending(u) \/ u \in Range(AllWaiters) => Pending(u)'
        /\ \A m \in Notifier : m # "output" => owed'[m] = owed[m]
    BY <2>1, OwesPending, OwesTypes, Notifications, Names
  <2> QED BY <1>9, <2>2, Names DEF OutputFails, WakeInv, FrameWakes, WeakTypes, FailWith
<1>10. CASE OutputExit
  BY <1>10, SamePending, Names DEF OutputExit, WakeInv, FrameWakes, WeakTypes
<1>11. CASE Decoded
  <2>1. CASE Push("rga") /\ Owes("decode", <<"rga">>)
    <3>1. owed["decode"] = <<>>
      BY <1>11, Names DEF Decoded, WakeInv
    <3>2. /\ \A u \in Waiter : Pending(u) \/ u \in Range(<<"rga">>) => Pending(u)'
          /\ \A m \in Notifier : m # "decode" => owed'[m] = owed[m]
      BY <2>1, <3>1, OwesPending, OwesTypes, Notifications, Names DEF FailWith
    <3>3. "rga" \in Range(<<"rga">>) /\ pc["rga"] # "blocking"
      BY <2>1, SingletonQueue, PushProperties, Names
    <3> QED
      BY <1>11, <2>1, <3>2, <3>3, Names DEF Decoded, Push, WakeInv, FrameWakes, WeakTypes
  <2>2. CASE UNCHANGED <<queue, owed>>
    BY <1>11, <2>2, SamePending, Names DEF Decoded, WakeInv, FrameWakes, WeakTypes
  <2> QED BY <1>11, <2>1, <2>2 DEF Decoded
<1>12. CASE Copied
  <2>1. CASE Push("input") /\ Owes("rga", <<"input">>)
    <3>1. owed["rga"] = <<>>
      BY <1>12, Names DEF Copied, WakeInv
    <3>2. /\ \A u \in Waiter : Pending(u) \/ u \in Range(<<"input">>) => Pending(u)'
          /\ \A m \in Notifier : m # "rga" => owed'[m] = owed[m]
      BY <2>1, <3>1, OwesPending, OwesTypes, Notifications, Names DEF FailWith
    <3>3. "input" \in Range(<<"input">>) /\ pc["input"] # "blocking"
      BY <2>1, SingletonQueue, PushProperties, Names
    <3> QED
      BY <1>12, <2>1, <3>2, <3>3, Names DEF Copied, Push, WakeInv, FrameWakes, WeakTypes
  <2>2. CASE UNCHANGED <<queue, owed, stop>>
    BY <1>12, <2>2, SamePending, Names DEF Copied, WakeInv, FrameWakes, WeakTypes
  <2>3. CASE FailWith("rga", AllWaiters) /\ UNCHANGED queue
    <3>1. owed["rga"] = <<>>
      BY <1>12, Names DEF Copied, WakeInv
    <3>2. /\ \A u \in Waiter : Pending(u) \/ u \in Range(AllWaiters) => Pending(u)'
          /\ \A m \in Notifier : m # "rga" => owed'[m] = owed[m]
      BY <2>3, <3>1, OwesPending, OwesTypes, Notifications, Names DEF FailWith
    <3> QED
      BY <1>12, <2>3, <3>2, Names DEF Copied, FailWith, WakeInv, FrameWakes, WeakTypes
  <2> QED BY <1>12, <2>1, <2>2, <2>3 DEF Copied
<1>13. CASE Returned
  <2>1. owed["rga"] = <<>> /\ Owes("rga", <<"recycle">>)
    BY <1>13, Names DEF Returned, WakeInv, Idle
  <2>2. /\ \A u \in Waiter : Pending(u) \/ u \in Range(<<"recycle">>) => Pending(u)'
        /\ \A m \in Notifier : m # "rga" => owed'[m] = owed[m]
    BY <2>1, OwesPending, OwesTypes, Notifications, Names
  <2>3. "recycle" \in Range(<<"recycle">>) /\ pc["recycle"] # "blocking"
    BY <1>13, SingletonQueue, PushProperties, Names DEF Returned
  <2> QED
    BY <1>13, <2>2, <2>3, Names DEF Returned, WakeInv, FrameWakes, WeakTypes, Push
<1>14. CASE Recycled
  BY <1>14, SamePending, Names DEF Recycled, WakeInv, FrameWakes, WeakTypes
<1>15. CASE Encoded
  <2>1. CASE Push("input") /\ Owes("input", <<"input">>)
    <3>1. owed["input"] = <<>>
      BY <1>15, Names DEF Encoded, WakeInv
    <3>2. /\ \A u \in Waiter : Pending(u) \/ u \in Range(<<"input">>) => Pending(u)'
          /\ \A m \in Notifier : m # "input" => owed'[m] = owed[m]
      BY <2>1, <3>1, OwesPending, OwesTypes, Notifications, Names DEF FailWith
    <3>3. "input" \in Range(<<"input">>) /\ pc["input"] # "blocking"
      BY <2>1, SingletonQueue, PushProperties, Names
    <3> QED
      BY <1>15, <2>1, <3>2, <3>3, Names DEF Encoded, Push, WakeInv, FrameWakes, WeakTypes
  <2>2. CASE UNCHANGED <<queue, owed>>
    BY <1>15, <2>2, SamePending, Names DEF Encoded, WakeInv, FrameWakes, WeakTypes
  <2>3. CASE FailWith("input", AllWaiters) /\ UNCHANGED queue
    <3>1. owed["input"] = <<>>
      BY <1>15, Names DEF Encoded, WakeInv
    <3>2. /\ \A u \in Waiter : Pending(u) \/ u \in Range(AllWaiters) => Pending(u)'
          /\ \A m \in Notifier : m # "input" => owed'[m] = owed[m]
      BY <2>3, <3>1, OwesPending, OwesTypes, Notifications, Names DEF FailWith
    <3> QED
      BY <1>15, <2>3, <3>2, Names DEF Encoded, FailWith, WakeInv, FrameWakes, WeakTypes
  <2> QED BY <1>15, <2>1, <2>2, <2>3 DEF Encoded
<1>16. CASE MainStops
  <2> DEFINE s == IF stop THEN AllWaiters ELSE AllWaiters \o AllWaiters
  <2>1. owed["main"] = <<>> /\ Owes("main", s)
    BY <1>16, Names DEF MainStops, WakeInv
  <2>2. /\ \A u \in Waiter : Pending(u) \/ u \in Range(s) => Pending(u)'
        /\ \A m \in Notifier : m # "main" => owed'[m] = owed[m]
    BY <2>1, OwesPending, OwesTypes, Notifications, Names
  <2> QED BY <1>16, <2>2, Names DEF MainStops, WakeInv, FrameWakes, WeakTypes
<1>17. CASE MainDone
  BY <1>17, SamePending, Names DEF MainDone, WakeInv, FrameWakes, WeakTypes
<1>18. CASE UNCHANGED vars
  BY <1>18, SamePending, Names DEF vars, WakeInv, FrameWakes, WeakTypes
<1> QED
  BY <1>1, <1>2, <1>3, <1>4, <1>5, <1>6, <1>7, <1>8, <1>9, <1>10, <1>11, <1>12, <1>13, <1>14, <1>15, <1>16, <1>17, <1>18
  DEF Next, Wait, CaptureThread, OutputThread, Work

-----------------------------------------------------------------------------
ShutdownInv == WeakTypes /\ Bounded /\ WakeInv

(* None of the parts depends on how many frames the camera delivers, nor on *)
(* when a thread fails or a stop is requested.                              *)
THEOREM ShutdownInvHolds == Spec => []ShutdownInv
<1>1. Init => ShutdownInv
  BY WeakInit, WakeInit DEF ShutdownInv
<1>2. ShutdownInv /\ [Next]_vars => ShutdownInv'
  BY WeakStep, BoundedStep, WakeStep DEF ShutdownInv
<1> QED BY <1>1, <1>2, PTL DEF Spec

(* The state of the waits keeps its types; no queue holds more frames than  *)
(* were captured.                                                           *)
THEOREM ShutdownTypeCorrect == Spec => []TypeOK
<1>1. ShutdownInv => TypeOK
  <2> SUFFICES ASSUME ShutdownInv PROVE TypeOK
    OBVIOUS
  <2>1. \A t \in Waiter : queue[t] \in Nat
    BY DEF ShutdownInv, WeakTypes
  <2>2. \A t \in Waiter : queue[t] <= captured
    <3>1. /\ queue["decode"] <= captured /\ queue["rga"] <= captured
          /\ queue["recycle"] <= captured /\ queue["input"] <= captured
      <4>1. /\ queue["decode"] \in Nat /\ queue["rga"] \in Nat
            /\ queue["recycle"] \in Nat /\ queue["input"] \in Nat /\ captured \in Nat
        BY <2>1, Names, ShutdownAssumption DEF ShutdownInv, WeakTypes, ShutdownAssumption
      <4> QED BY <4>1 DEF ShutdownInv, Bounded, UpToCopy, In
    <3> QED BY <3>1, Names
  <2>3. queue \in [Waiter -> 0 .. MaxFrames]
    BY <2>1, <2>2, ShutdownAssumption DEF ShutdownInv, WeakTypes, ShutdownAssumption
  <2> QED BY <2>3 DEF ShutdownInv, WeakTypes, TypeOK
<1> QED BY ShutdownInvHolds, <1>1, PTL

(* No thread sleeps on a frame queued for it, however the threads come      *)
(* between each other's tests, waits and notifications.                     *)
THEOREM FrameWakesHolds == Spec => []FrameWakes
BY ShutdownInvHolds, PTL DEF ShutdownInv, WakeInv
=============================================================================
