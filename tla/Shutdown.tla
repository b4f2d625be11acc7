------------------------------ MODULE Shutdown ------------------------------
(***************************************************************************)
(* How the threads of main.cpp wait for work and for the stop.  Four of    *)
(* them block on a condition variable of their own queue; every step below *)
(* is one that another thread can come between: testing the predicate,     *)
(* blocking, pushing under the queue's mutex, and each single notify.      *)
(* request_stop and the RGA thread's exit set their flags and notify       *)
(* without the mutexes.                                                    *)
(***************************************************************************)
EXTENDS Integers, Sequences

CONSTANT MaxFrames   \* bound of the model: frames captured

ASSUME ShutdownAssumption == MaxFrames \in Nat

Waiter == {"decode", "rga", "recycle", "input"}
Notifier == Waiter \union {"capture", "output", "main"}

VARIABLES
    pc,        \* pc[t]: "check", "blocking", "asleep", "work", "return", "exited"
    queue,     \* queue[t]: frames waiting for t
    owed,      \* owed[n]: the notifications n is about to make, in order
    stop,      \* stop_requested
    rgaDone,   \* rga_thread_done
    capture, output, \* the threads that wait on no condition variable
    main, captured,
    missed     \* auxiliary: a notification came while its thread was between
               \* a test that failed and the wait, and the test would not fail now

vars == <<pc, queue, owed, stop, rgaDone, capture, output, main, captured, missed>>

Init ==
    /\ pc = [t \in Waiter |-> "check"]
    /\ queue = [t \in Waiter |-> 0]
    /\ owed = [n \in Notifier |-> <<>>]
    /\ stop = FALSE /\ rgaDone = FALSE
    /\ capture = "run" /\ output = "run" /\ main = "run"
    /\ captured = 0
    /\ missed = FALSE

(* one condition variable is left out of request_stop *)
AllButRga == <<"decode", "recycle", "input">>

(* request_stop: the flag, then the notifications still to come. *)
AllWaiters == <<"decode", "rga", "recycle", "input">>

(* A waiter holds its mutex from its test until it sleeps. *)
MutexFree(t) == pc[t] # "blocking"

(* the queue is filled without its mutex *)
PushUnlocked(t) == queue' = [queue EXCEPT ![t] = @ + 1]

Push(t) == MutexFree(t) /\ queue' = [queue EXCEPT ![t] = @ + 1]

Owes(n, s) == owed' = [owed EXCEPT ![n] = s]

-----------------------------------------------------------------------------
(* The thread leaves on a stop alone; the recycle thread waits for the RGA *)
(* thread as well.                                                         *)
MayLeave(t) == stop /\ (t = "recycle" => rgaDone)

(* notify_one and notify_all: there is one waiter for each variable. *)
Notify(n) ==
    /\ owed[n] # <<>>
    /\ LET t == Head(owed[n]) IN
       /\ pc' = IF pc[t] = "asleep" THEN [pc EXCEPT ![t] = "check"] ELSE pc
       /\ missed' = (missed \/ (pc[t] = "blocking" /\ MayLeave(t)))
    /\ owed' = [owed EXCEPT ![n] = Tail(@)]
    /\ UNCHANGED <<queue, stop, rgaDone, capture, output, main, captured>>

Idle(t) == owed[t] = <<>>

FindWork(t) ==
    /\ pc[t] = "check" /\ Idle(t)
    /\ queue[t] > 0
    /\ queue' = [queue EXCEPT ![t] = IF t = "recycle" THEN 0 ELSE @ - 1]
    /\ pc' = [pc EXCEPT ![t] = "work"]
    /\ UNCHANGED <<owed, stop, rgaDone, capture, output, main, captured, missed>>

(* rga_thread_done is set, then the recycle thread notified. *)
Leave(t) ==
    /\ pc[t] = "check" /\ Idle(t)
    /\ queue[t] = 0 /\ MayLeave(t)
    /\ pc' = [pc EXCEPT ![t] = "exited"]
    /\ IF t = "rga" THEN rgaDone' = TRUE /\ Owes(t, <<"recycle">>)
                    ELSE UNCHANGED <<rgaDone, owed>>
    /\ UNCHANGED <<queue, stop, capture, output, main, captured, missed>>

FindNothing(t) ==
    /\ pc[t] = "check" /\ Idle(t)
    /\ queue[t] = 0 /\ ~MayLeave(t)
    /\ pc' = [pc EXCEPT ![t] = "blocking"]
    /\ UNCHANGED <<queue, owed, stop, rgaDone, capture, output, main, captured, missed>>

Sleep(t) ==
    /\ pc[t] = "blocking"
    /\ pc' = [pc EXCEPT ![t] = "asleep"]
    /\ UNCHANGED <<queue, owed, stop, rgaDone, capture, output, main, captured, missed>>

-----------------------------------------------------------------------------
(* A thread sets fatal_error and calls request_stop.  Bound of the model:  *)
(* one that fails after the stop would only repeat the notifications.      *)
FailWith(n, notifications) ==
    /\ ~stop
    /\ stop' = TRUE
    /\ Owes(n, notifications)

CaptureFrame ==
    /\ capture = "run" /\ owed["capture"] = <<>> /\ ~stop
    /\ captured < MaxFrames
    /\ captured' = captured + 1
    /\ Push("decode") /\ Owes("capture", <<"decode">>)
    /\ UNCHANGED <<pc, stop, rgaDone, capture, output, main, missed>>

CaptureFails ==
    /\ capture = "run" /\ owed["capture"] = <<>>
    /\ FailWith("capture", AllWaiters \o <<"decode">>)
    /\ capture' = "exited"
    /\ UNCHANGED <<pc, queue, rgaDone, output, main, captured, missed>>

CaptureExit ==
    /\ capture = "run" /\ owed["capture"] = <<>> /\ stop
    /\ capture' = "exited" /\ Owes("capture", <<"decode">>)
    /\ UNCHANGED <<pc, queue, stop, rgaDone, output, main, captured, missed>>

(* A decoded frame, or none: decoding failed. *)
Decoded ==
    /\ pc["decode"] = "work"
    /\ \/ Push("rga") /\ Owes("decode", <<"rga">>)
       \/ UNCHANGED <<queue, owed>>
    /\ pc' = [pc EXCEPT !["decode"] = "check"]
    /\ UNCHANGED <<stop, rgaDone, capture, output, main, captured, missed>>

(* The copy is handed over, or given up on a stop, or failed for good.     *)
Copied ==
    /\ pc["rga"] = "work"
    /\ \/ ~stop /\ Push("input") /\ Owes("rga", <<"input">>) /\ UNCHANGED stop
       \/ stop /\ UNCHANGED <<queue, owed, stop>>
       \/ FailWith("rga", AllWaiters) /\ UNCHANGED queue
    /\ pc' = [pc EXCEPT !["rga"] = "return"]
    /\ UNCHANGED <<rgaDone, capture, output, main, captured, missed>>

Returned ==
    /\ pc["rga"] = "return" /\ Idle("rga")
    /\ Push("recycle") /\ Owes("rga", <<"recycle">>)
    /\ pc' = [pc EXCEPT !["rga"] = "check"]
    /\ UNCHANGED <<stop, rgaDone, capture, output, main, captured, missed>>

Recycled ==
    /\ pc["recycle"] = "work"
    /\ pc' = [pc EXCEPT !["recycle"] = "check"]
    /\ UNCHANGED <<queue, owed, stop, rgaDone, capture, output, main, captured, missed>>

(* The encoder took the frame, or the push is put off, or the push failed  *)
(* for good, or a stop was seen.                                           *)
Encoded ==
    /\ pc["input"] = "work"
    /\ \/ /\ ~stop
          /\ pc' = [pc EXCEPT !["input"] = "check"]
          /\ UNCHANGED <<queue, owed, stop>>
       \/ /\ ~stop
          /\ Push("input") /\ Owes("input", <<"input">>)
          /\ pc' = [pc EXCEPT !["input"] = "check"]
          /\ UNCHANGED stop
       \/ /\ FailWith("input", AllWaiters)
          /\ pc' = [pc EXCEPT !["input"] = "exited"]
          /\ UNCHANGED queue
       \/ /\ stop
          /\ pc' = [pc EXCEPT !["input"] = "exited"]
          /\ UNCHANGED <<queue, owed, stop>>
    /\ UNCHANGED <<rgaDone, capture, output, main, captured, missed>>

(* The encode-output thread polls the encoder.  It stops the process when  *)
(* it fails, and leaves when the input is done.                            *)
InputDone == stop /\ pc["input"] = "exited" /\ Idle("input")

OutputFails ==
    /\ output = "run"
    /\ FailWith("output", AllWaiters)
    /\ output' = "exited"
    /\ UNCHANGED <<pc, queue, rgaDone, capture, main, captured, missed>>

OutputExit ==
    /\ output = "run" /\ InputDone
    /\ output' = "exited"
    /\ UNCHANGED <<pc, queue, owed, stop, rgaDone, capture, main, captured, missed>>

(* Main polls should_exit and stop_requested; it requests the stop when it *)
(* sees Ctrl+C and, in any case, before it joins.                          *)
MainStops ==
    /\ main = "run"
    /\ main' = "joining"
    /\ stop' = TRUE
    /\ Owes("main", IF stop THEN AllWaiters ELSE AllWaiters \o AllWaiters)
    /\ UNCHANGED <<pc, queue, rgaDone, capture, output, captured, missed>>

AllExited == capture = "exited" /\ output = "exited" /\ \A t \in Waiter : pc[t] = "exited"

(* All the joins of main return. *)
MainDone ==
    /\ main = "joining" /\ owed["main"] = <<>> /\ AllExited
    /\ main' = "done"
    /\ UNCHANGED <<pc, queue, owed, stop, rgaDone, capture, output, captured, missed>>

Wait(t) == FindWork(t) \/ Leave(t) \/ FindNothing(t) \/ Sleep(t)
OutputThread == OutputFails \/ OutputExit
CaptureThread == CaptureFrame \/ CaptureFails \/ CaptureExit
Work == Decoded \/ Copied \/ Returned \/ Recycled \/ Encoded

Next ==
    \/ \E n \in Notifier : Notify(n)
    \/ \E t \in Waiter : Wait(t)
    \/ CaptureThread \/ OutputThread \/ Work \/ MainStops \/ MainDone

Spec == Init /\ [][Next]_vars

(* Every thread is scheduled; nobody need press Ctrl+C, and nothing need   *)
(* fail.  C++ lets a wait return without a notification, but never         *)
(* promises that it does: there is no such step here.                      *)
WorkOf(t) ==
    CASE t = "decode"  -> Decoded
      [] t = "rga"     -> Copied \/ Returned
      [] t = "recycle" -> Recycled
      [] t = "input"   -> Encoded

FairSpec ==
    /\ Spec
    /\ \A t \in Waiter : WF_vars(Notify(t) \/ Wait(t) \/ WorkOf(t))
    /\ WF_vars(Notify("capture") \/ CaptureFrame \/ CaptureExit)
    /\ WF_vars(Notify("output") \/ OutputExit)
    /\ WF_vars(Notify("main") \/ (stop /\ MainStops) \/ MainDone)

-----------------------------------------------------------------------------
(* The types of the state. *)
TypeOK ==
    /\ pc \in [Waiter -> {"check", "blocking", "asleep", "work", "return", "exited"}]
    /\ queue \in [Waiter -> 0 .. MaxFrames]
    /\ owed \in [Notifier -> Seq(Waiter)]
    /\ stop \in BOOLEAN /\ rgaDone \in BOOLEAN
    /\ {capture, output} \subseteq {"run", "exited"}
    /\ main \in {"run", "joining", "done"}
    /\ captured \in 0 .. MaxFrames
    /\ missed \in BOOLEAN

Pending(t) == \E n \in Notifier : \E i \in DOMAIN owed[n] : owed[n][i] = t

(* No thread sleeps on a frame: one that is queued while its thread sleeps *)
(* has a notification under way, because the queues are filled under the   *)
(* mutex of the wait.                                                      *)
FrameWakes == \A t \in Waiter : pc[t] = "asleep" /\ queue[t] > 0 => Pending(t)

(* A stop ends the process, unless a notification fell into the window.    *)
ExitUnlessMissed == stop ~> (main = "done" \/ missed)

(* The graceful exit the README promises: after a stop, whether by Ctrl+C  *)
(* or after a failure, every thread returns and main joins them all.       *)
GracefulExit == stop ~> main = "done"
=============================================================================
