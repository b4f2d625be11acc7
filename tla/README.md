# A TLA+ model of the Rockchip media pipeline

The program takes MJPEG frames from a USB camera (V4L2), decodes them (Rockchip
MPP), copies them to NV12 (RGA), encodes them as H.264 (MPP) and publishes the
stream (ZLMediaKit: RTSP, and WebRTC signalling over HTTP). Six worker threads
in `src/src/main.cpp` pass descriptors of DMA buffers through queues; no pixel is
copied by the CPU. What can go wrong is therefore seldom in a computation and
nearly always in the life of a buffer: who has it, whether somebody else still
uses it, and whether it ever comes back.

Around the running pipeline is its life cycle: five objects acquire descriptors,
mappings, contexts and imports in many small steps, each of which can fail, and
give them back in an order that matters.

This directory holds the modules, the TLC configurations, the TLAPS proofs and
`PROJECT.json`, which maps each definition to the lines it models, each run to
its properties, and each property to an error in the code that it notices.

    tlc -workers 2 -config MCCaptureRing.cfg MCCaptureRing.tla
    tlapm CaptureRingProofs.tla

## 1. Inventory

| component | state | operations | talks to |
|---|---|---|---|
| Camera (`v4l2Camera.cpp`) | `FrameDescArray`, `CurrentFrameDesc`, `pts_us`, `cpuSyncReadActive`, the driver's queues | `camera_read_frame`, `dequeue_buffer`, `requeue_buffer`, initialisation and its rollback | V4L2 ioctls; called by the capture thread |
| Capture thread (`main.cpp` 168-276) | `recycled_batch`, `dropped_desc` | drain `recycleQueue`, requeue, read a frame, push it, drop the oldest | `readyQueue`, `recycleQueue` |
| Decode thread (278-342) | the frame in hand | take a frame, `MppDecode`, hand over, recycle the camera buffer | `rgaConsumeQueue`, `recycleQueue` |
| Decoder (`rkmppdec.cpp`) | `FreeHolderQueue`, `PendingRecycleQueue`, `OutDesc2HolderMap`, buffer groups, MPP's task queues | `MppDecode`, `DecQueueOutputForRecycle`, info change | MPP; its outputs are given back by the recycle thread |
| Decoder-output recycle thread (344-379) | a batch | give outputs back to the decoder | `mppRecycleOutputQueue` |
| RGA thread (381-475), pool (`rkrga.cpp`) | `available`, `in_use`, `encoder_io_ready`, retry count | `Copy`, import of the pool into the encoder, hand-over | `mppEncodeInputQueue`, `mppRecycleOutputQueue`, `rga_thread_done` |
| Encode-input thread (477-558), encoder input (`rkmppenc.cpp`) | failures in a row | `EncodePushFrame`, retry, give up, give the output back | encoder, pool, `encode_input_done` |
| Encode-output thread (560-728) | `pending_au`, its copies of the flags | poll, assemble partitions, publish, leave | encoder, publisher |
| Encoder configuration | group of pictures, header buffer, imports | `EncInit`, `EncConfigWidthHeight`, `AllocBufferForIO`, destructor | MPP |
| Life of the camera | `camera_fd`, `isStreamOn`, `NumBuffers`, `FrameDescArray`, `ActiveConfig` | `camera_GlobalInit` with its label `fail`, `init_camera_buffer`, `deinit_camera_buffer`, destructor | V4L2, the dma-heap |
| Life of the decoder | context, buffer group, output pool, imports of the camera's memory | `DecInit`, `DecConfigWidthHeight`, `DecAllocBuffer`, release, destructor | MPP, the dma-heap, the camera's descriptors |
| Life of the RGA | `output_pool_`, handles of one operation | `RgaInit`, allocation of the pool, `TransformInternal`, destructor | RGA, the dma-heap |
| Publisher (`zlm_publisher.cpp`) | last time stamps, counters | `Init`, `InputPacketChunk`, `Close` | ZLM |
| NAL splitter | none between calls | `SplitAnnexBNalus` | publisher |
| Life of the publisher | servers, ports, media source, `Initialized_` | `Init`, `SetExpectedFps`, `Close`, destructor | ZLM |
| WebRTC signalling | `gWebRtcServiceReady`, cloned invokers | `OnMkHttpRequest`, `OnWebRtcAnswerSdp`, `JsonEscape` | ZLM's threads |
| main | the objects and the order they are declared in | construct, initialise, early returns, joins, `Close`, destructors | everything |
| Stop (`request_stop`, signal handler, joins) | `stop_requested`, `fatal_error` and the two done flags | store, notify, join, final drain | every thread |

What is hard, component by component, and what makes each correct:

- **Camera ring.** A buffer may be in the driver, in two queues, in a batch, in two
  local variables, or with the decoder hardware. Correct: in exactly one place,
  never filled while it waits or is decoded, never lost while the program runs
  on; CPU cache windows closed before hardware touches it; frames in order and
  the dropped one the oldest; the driver never without a buffer.
- **Decoder.** A request may time out and be answered later; outputs come back
  from another thread; the format may change. Correct: holders and buffers
  conserved, a buffer in flight or in hardware never handed out, the answer to a
  call is that call's.
- **RGA pool and encoder input.** Two threads and main use the pool; pushes fail and
  are retried from the wrong end of the queue. Correct: outputs available once
  or in use at one place, frames encoded in order with their own content,
  decoder outputs always returned.
- **Stop.** Flags are stored and condition variables notified without their
  mutexes. Correct: no thread sleeps on a frame or on a stop.
- **Encode output.** Flags are read before the poll and used after it. Correct:
  units whole, in order, none left behind, thread leaves.
- **Publisher.** Missing, equal and decreasing stamps. Correct: strictly increasing
  decode times, presentation not before decoding, no hidden drift.
- **Splitter, JPEG size, JSON escapes, encoder numbers.** Overlapping start codes,
  unsigned loops, masks: correct against a definition that is not an algorithm.
- **Life cycle.** Any step of the start may fail and the kernel may refuse a
  release. Correct: what an object believes to hold is what it holds, nothing is used,
  released or acquired twice, importers go before the memory they import,
  nothing is left at the end; and the state the threads start in is the one they assume.
- **Signalling.** The callback runs in ZLM's threads while main starts or closes
  the service. Correct: one answer for each request, the clone of the invoker held until
  then and released, the advertised port the one that is open.

## 2. Plan

Modules in order of importance; composition is by shared interfaces, as below.

| module | status | models |
|---|---|---|
| `CaptureRing` | checked, proved | capture thread, driver queueing, decode thread's side of the ring |
| `FrameFifo` | refined by `CaptureRing`, checked and proved | what the ring promises: a lossy queue of frames, in order |
| `EncodeFeed` | checked, proved | RGA thread, pool, encode-input thread, recycle thread, final drain |
| `FrameRelay` | refined by `EncodeFeed`, checked and proved | what lies between decoder and encoder promises: a bounded relay of frames, in order |
| `Shutdown` | checked, safety proved | waits, notifications and joins of all threads |
| `MppDecoder` | checked, proved | `MppDecode` and the life of its outputs |
| `EncodeOutput` | checked, proved | encode-output thread |
| `Publisher` | checked, proved | time stamps, `InputPacketChunk` |
| `AnnexB` | checked, proved | the splitter |
| `Resources` | base of the life cycle | what is held and what the objects believe they hold |
| `CameraSetup`, `DecoderSetup`, `RgaSetup`, `EncoderSetup`, `ZlmService` | checked, as `Process` | construction, rollback and destruction of the five objects; signalling |
| `Process` | checked, proved | main: composition of the five and of ZLM's threads |
| `ProcessInvariant` | inductive, proved | the invariant behind `Process`, a part for each object |
| `JpegSize`, `JsonText` | checked and proved, as `Scans` | algorithms on strings of any length |
| `EncoderConfig` | checked | the group of pictures |

The modules of proofs have the component's name and `Proofs`; those of `AnnexB`, `JpegSize` and
`JsonText` are in `PublisherProofs`, which passes through all of them. `QueueLemmas` serves
the queues. What is left is the rest of the encoder's configured values.

How the modules meet. `CaptureRing` ends where `MppDecode` starts (`DecodeBegin`,
`DecodeEnd`); `MppDecoder` is the inside of that call. A descriptor it delivers
is a frame that `EncodeFeed.DeliverDecoded` appends to `rgaConsumeQueue`, and
`EncodeFeed.RecycleReturn` is `MppDecoder.DecQueueOutputForRecycle`. A push of
`EncodeFeed` is `EncodeOutput.InputPushes`; a unit in `EncodeOutput.sent` is a call of
`Publisher.InputUnit`, and `AnnexB` is its splitter. `Shutdown` has the same threads with
queues reduced to their lengths and with the steps of a condition variable,
which are one guard in the others.

The life cycle is composed more tightly. `Resources`, `CameraSetup`, `DecoderSetup`,
`RgaSetup`, `EncoderSetup`, `ZlmService` and `Process` extend each other in this order,
because an object needs what the one before it holds: the decoder imports the camera's memory, the RGA the
decoder's outputs, the encoder the RGA's pool. They share the ledger of
`Resources`; each adds variables and steps of its own, and `Process` is their
disjunction, interleaved with the signalling. Its `ReadyToRun` is the link to the other modules: the
initial states these start from, such as every granted buffer queued and every
output committed, are those in which main starts the threads.

## 3. Modules and code

A step of a model is what happens between two points where another thread can
interfere: a critical section, an ioctl, a call into MPP or RGA, a store to an
atomic flag. Variables have the names of the code's. Each module also has, before
the definitions they vary, a few operators commented as variants with an
error; no specification uses them. Variables called *auxiliary* are read by
no guard.

**CaptureRing.** `queued`/`done` are the driver's two queues, `readyQueue` and
`recycleQueue` the code's. One loop of the capture thread is `DrainRecycleQueue`,
`RequeueBuffer` for each buffer of the batch, `BeginRead`, then one of `ReadFrame`,
`ReadRetryable`, `ReadFails`, `ReadLosesFrame` (the sync ioctl fails after the
dequeue) and `ReadOversized`, then `PushReady` or `PushReadyDropOldest` and
`RecycleDropped`. The decode thread is `TakeReady`, `DecodeBegin` (closes the CPU
window), `DecodeRejects`, `DecodeEnd`, `RecycleFrame`. `owner` is auxiliary: where each
buffer is believed to be; `Ownership` says that the queues agree with it.

`BufferReturns(b)` says of one buffer that it comes back. The buffers start alike and no action
tells them apart, so the run checks it of the first (`FirstBufferReturns`).

**FrameFifo.** No code of its own: the interface of the ring as the decoder sees it.
The mapping is `Fifo` in `CaptureRing`: a frame is the instant it was filled, `source` are
the frames in the driver's done queue and the one being pushed, `waiting` is `readyQueue`,
`inHand` the frame of the decode thread. A fill of the driver maps to `Capture`, `PushReady`
to `Offer`, `PushReadyDropOldest` to `OfferDropping`, `TakeReady` to `Take`,
`RecycleFrame` to `Finish`, every end of the capture thread to `Close`. Each failure of a
read ends the thread, and that a frame is lost only then is part of the promise.

**EncodeFeed.** A frame is its number. `CopyAcquires` is the pool's part of `Copy`,
`BlitFails`/`BlitSucceeds` the operation, `ImportSucceeds`/`ImportFails` the one-time import
into the encoder, `HandOver*` and `EnqueueEncodeInput` the push; `EncodeProceeds`,
`PushSucceeds`, `PushFails`, `RetryPush`, `GiveUpPush`, `ReleaseEncoded` the encode-input thread.
`FinalDrain` is what main does after the joins. `PushFails` covers the failure of
`mpp_frame_deinit` after the encoder took the frame, too: a retry then encodes
the frame twice, and `untold` records it.

**FrameRelay.** No code of its own either: what the decoder's frames may meet on their way to the
encoder. The mapping is `Relay` in `EncodeFeed`. `waiting` is what `mppEncodeInputQueue`
holds and the output the encode-input thread has popped, as contents (`Copies`), since an
output is only the place of a copy; the frame `inHand` is the one the RGA thread copies; it is
`admitted` from the test of the stop to the push (label "enqueue"). `refusals` is `pushFailures`,
a failed push counted as soon as it has failed and nothing once the thread has left (`Refusals`). Thus `DeliverDecoded` maps to `Deliver`, `TakeDecoded` to `Take`, `HandOver`
to `Admit`, `EnqueueEncodeInput` to `HandOver`; what ends a copy without a hand-over
(`CopyStopped`, `HandOverStopped`, `ImportFails`, the last failure) to `Skip`;
`EncodeProceeds` to `Offer`, `PushSucceeds` to `Accept`, `PushFails` to `Refuse`,
`EncodeStopped` and `GiveUpPush` to `GiveUp`, `FinalDrain` to `Clear`. The pool, the way back to
the decoder and the pop and put-back of a retry are stutters, and this is the point: the put-back at the front
is invisible only if nothing else reached the front and the content is still the same.

**Shutdown.** `FindWork`, `Leave`, `FindNothing`, `Sleep` are the parts of
`condition_variable::wait` with a predicate; `Notify` is one `notify` call and
`owed` the calls a thread is about to make. Whoever fills a queue needs the mutex
(`MutexFree`); whoever stores a flag does not. Spurious wake-ups are left out: they
may happen but nothing promises that they do. A thread that fails once a stop is
already requested repeats the notifications; this is left out. `missed` is
auxiliary: a notification came too early for a thread about to block.

**MppDecoder.** The program counter follows `MppDecode`: holder, buffer, submission,
poll, mapping of the answer, reclaiming of the input task, publication. `Fail`
is the label `fail:` with everything it gives back. `HwAnswers` is external. An info
change empties the group and makes the references to its buffers `None`, because
they no longer concern the new group. When two outputs in flight turn out to have
one descriptor, the code leaves in the holder pointers that it overwrites on
the holder's next use; the model clears them.

**EncodeOutput.** `ReadFlags` copies both flags, then one poll: `TakePacket`,
`TakeEmpty`, `PollTimeout`, `NoPacket`, `GetFails`, `ReleaseFails`. A unit is its packets; how the
time stamps of partitions are merged is left out. The branches for EOS are left out
because nothing ever pushes a frame with the EOS flag.

**Publisher.** `Normalized` is `NormalizeTimestamp`, one operator for each correction;
`InputUnit` is `InputPacketChunk`: the media source may refuse any of the unit's NAL
units, after its time stamp was used. `Close` is also the first thing `Init` does when it fails.

**AnnexB, JpegSize, JsonText, EncoderConfig.** In `AnnexB` a step is a turn of the splitter's
loop; `JpegSize` and `JsonEscape` are functions. Every string over a small alphabet is an
initial state of `Scans`, which reads a byte as a character where the text is
escaped. `EncoderConfig` has only the group of pictures.

**Resources.** `held` is what the kernel and the libraries know, `known` what the
fields of the objects say: a descriptor that is not -1, a pointer that is not null, a flag.
Each step of an object says what it needs, acquires and releases, guided only by
`known` as the code is by its fields; `misused` collects what was needed and not held, or acquired
twice. `TryDrop` is a release the kernel may refuse (`close`, `munmap`, the stream and buffer
ioctls), at most `MaxRefused` times; the code logs it and goes on.

**CameraSetup, DecoderSetup, RgaSetup, EncoderSetup.** A step is a group of calls that fail
alike; where a resource is acquired and a later call can fail there is a step in between. Loops over buffers
go entry by entry with `loop`, so that a failure may leave any prefix. In the camera the driver may
grant any number of buffers, more than `kMaxAllocaSize` included, change the rate and
report a rate of zero; `QueueOrStartFails` and the label `fail` are its rollback. In the
RGA the pool is allocated by the first frame, and one operation imports source and
destination; `EncoderSetup` imports the pool after it.

**ZlmService.** Main's steps of `Init` and `Close`, each visible to ZLM's threads, and
for each request the steps of `OnMkHttpRequest` (test of `gWebRtcServiceReady`, clone, checks,
question to ZLM) and the answer callback. `Dispatch` is external: ZLM calls
back while the listener is registered. A request past the test goes on whatever `Close`
does; the flag is a plain `bool` shared by threads, of which a read is taken to be
the old or the new value, as the interleaving gives it.

**Process.** `ConstructNext`, `DestroyNext` and `Return` are the declarations in main
and its early returns. `StopAndJoin` stands for the run: when the threads have joined, any of the
camera's buffers may be out of the driver, some with their CPU window open, and any
of the decoder's outputs lent; `Close` of the publisher comes next.

## 4. Runs

| run | question | bounds |
|---|---|---|
| `capture_ring` | safety of the ring; it implements `FrameFifo`; a buffer returns, threads leave | 4 buffers, depth 2 (the smallest ring in which several frames wait and the condition of the theorem of section 6 holds), 2 time stamps |
| `encode_feed` | pool, order, final state; it implements `FrameRelay`; frames return, threads leave | 2 outputs for 3 frames, so that the pool runs dry; 2 copies, 1 retry |
| `shutdown` | nobody sleeps on a frame; every stop ends the process outside the window | 1 frame, any number of retries, any one thread failing |
| `shutdown_exit` | *violation*: a notification in the window | the same |
| `mpp_decoder` | holders, buffers, answers; `MppDecode` returns | 3 holders and 5 calls, so that it waits for a holder; late answers and info changes |
| `mpp_decoder_timeout` | *violation*: buffer freed under the hardware | 3 calls |
| `encode_output` | units whole and in order, no frame left behind by the order of the reads, thread leaves | 3 frames of up to 2 partitions, empty packets, time-outs, errors |
| `encode_output_backlog` | *violation*: an empty poll at the end | 2 frames |
| `publisher` | stamps | six stamps from -1 to 3000 us, frame time 1 ms, 4 units published, 5 fallbacks |
| `life_cycle` | start, failure, stop and destruction of every object; requests answered | pools of 2, 1 refused release, 1 request, four rates, a second port to fall back to |
| `scans` | the splitter against `BeginsNalu`, the EOI scan against "the last marker", the escapes against a reader of JSON | all strings of up to 9 bytes over the bytes of the markers: three start codes, adjacent, overlapping or cut short |
| `encoder_config_gop` | *violation*: whole multiple of the rate | the defaults 30 and 60 |

In the queues' runs the number of buffers is what matters: every property relates
at most two of them and the place of a third, and the bounds let each
queue be empty, hold one and hold several while a failure occurs. The frame of
`Shutdown` only needs to make each queue empty and not empty; the decoder's calls are
as many as make a call wait for a holder after one timed out and one was rejected.
In `life_cycle` the pools have two entries, so that a failure may come before the first,
between the two and after the last; a driver grants three at most, which is one too many. One
refused release is enough to separate what is held from what is known, and one request
meets every step of `Init` and `Close`, as requests share nothing that changes.

`capture_ring` checks its types; those of `EncodeFeed`, `MppDecoder`, `Shutdown`, `Publisher`,
`AnnexB` and `Process` are theorems of section 6, for all constants. `FramesInOrder` and `DropsOldest` follow
from `ImplementsFifo`, which the run checks, and are proved directly as well; so does
`ContentKept` from `ImplementsRelay`.

The properties named `...Unless...` and `...Until...` say which single event their
promise depends on, recorded in an auxiliary variable; the violation next to
each shows that the event does break it.

The four violations are disagreements between the code and its documentation:

1. `request_stop` (`main.cpp:145`) notifies without the mutexes, and so does the RGA
   thread at its end. A notification between a waiter's test and its block is
   lost and main may join a thread that sleeps for ever; the README of the program
   promises a graceful exit. `ExitUnlessMissed` says that this window is the only way.
2. On a timeout of the decoder's output (`rkmppdec.cpp:800`) the buffer returns to
   its group while the hardware still has the task.
3. After the end of the input one poll without a packet ends the output thread
   (`main.cpp:632`), against the comment nine lines above it.
4. The group of pictures is rounded with a mask that needs a power of two
   (`rkmppenc.cpp:170`); the defaults give 64, not 60.

Not a disagreement, but a condition the code does not check: `kMaxReadyQueueDepth`
(`main.cpp:136`) is computed from the number of buffers requested, and
`init_camera_buffer` accepts any smaller number the driver grants. With 13 or fewer
the pipeline can hold all of them and the camera starves; see
`DriverNeverStarvesHolds`.

## 5. Fairness

Weak fairness of the steps of each thread, and nothing stronger: the operating
system runs every thread, and each call that waits returns, `poll` on the camera
after ten seconds and the MPP polls after 500 ms. The hardware of `mpp_decoder` and the
encoder of `encode_output` eventually answer; the threads behind the decoder give outputs
back (`DecodedReturns` of `encode_feed` says so of them). In `life_cycle` only ZLM's threads are
fair, each request by itself: they run, and ZLM's WebRTC stack calls back with an answer or an error.
Main needs none, a request is answered however far main is. No fairness for the driver, for failures,
for Ctrl+C or for new frames. In `Shutdown` fairness is given thread by thread,
and no thread is assumed to be woken without a notification.

## 6. Proofs

`QueueLemmas` has what `Append`, `Tail` and concatenation do to the set of elements of
a sequence without repetitions; stated once, cited by name.

`CaptureRingProofs`, for every finite non-empty set of buffers, every depth and every
bound of the clock. `Ownership` is nearly inductive: it needs `TypeOK` and
`SlotsFilled` (a thread at "push" has a current frame, and so on), without which the
step that appends `current` would not be known to append a buffer. On it rest
`LostOnlyOnFailure`, `CpuWindow` and, with the order of stamps along
`readyQueue` and `done`, `ContentIntact`, `FramesInOrder` and `DropsOldest`. The result
that no run can show is `DriverNeverStarvesHolds`: it counts buffers. At "read" the
batch has been requeued, so a buffer that is not with the driver is
in `readyQueue`, with the decode thread or in `recycleQueue`. `readyQueue` never exceeds the
depth, and from the moment `recycleQueue` is emptied frames only move on between these three,
which therefore hold at most one more than the depth (`DepthInv`). So
`Cardinality(Buffer) > ReadyDepth + 1` is enough; with one buffer less TLC finds
the state in which the pipeline holds them all.

The same module ends with `RefinesFifo`: the ring implements the channel, for every ring. The
invariant is `OwnershipInv /\ DepthInv`, both from above. Of each step it is shown which step of the
channel it is, or that no stamp on the way to the decoder changes (`FifoQuiet`). Two facts carry
it. A buffer being filled is none of those on the way (`Ownership`), otherwise a
fill would rewrite a frame already offered; and `readyQueue` is never longer than its depth,
so the push that drops the oldest happens at exactly the depth.

`MppDecoderProofs`, for every number of holders, input tasks and calls. `TypeInv` adds to the
types what the call has at each label. `ConservedHolds` needs that only a holder which is recorded
or waits to be recycled keeps a buffer (`KeepInv`), and that a call has nothing
before it got it (`EmptyHanded`). `DeliveredInOrderHolds` orders everything on the
way: delivered, at hand, answered, with the hardware (`OrderInv`), and
needs no condition, so no late answer is delivered twice. `AnswersMatch` and `LifetimeHolds` hold until the event
in their name: until then a waiting call has one task, its own (`AloneInv`), and task, answer
and descriptor are those of the buffer it got (`LifeInv`).

`EncodeFeedProofs`, for every pool, number of frames and bound of the retries. All parts
of `FeedInv` are needed together. `TypeInv` alone is not inductive: that the frame appended to
`encoded` is one at all needs the content of the output the encode-input thread holds.
The content stays because no output is in two places (`PoolInv`; that at most one
is lost, and only after a stop, is part of it, or the return of one would be
mistaken for another). The order is a chain (`ChainInv`): there is a number `h` of frames handed over such that those
in `mppEncodeInputQueue` are the last ones up to `h`, the one at hand precedes them, and the one
encoded last precedes that or equals it when the encoder took it untold.
`DeliveredInv` says that the RGA thread takes the next frame each time, `ReturnInv` that a frame
is in one place on the way back.

The same module ends with `ImplementsRelayHolds`: the feed implements the relay, for every pool and every
bound of the retries. The invariant is `RelayInv`, `FeedInv` with `RefusalInv`:
failures that are counted belong to the copy at the front, so a new one starts with all its
offers. Of each step it is shown which step of the relay it is. The waiting outputs are
distinct, and none is the one the RGA thread has (`WaitingFacts`). So there is always
room for the copy admitted (`RoomLeft`: its output is one of the pool's that does not wait), which the
code never tests, and neither a blit nor the return of an output changes a
copy that waits (`CopiesKept`, `CopiesTail`, `CopiesAppend`).

`EncodeOutputProofs`, for any number of frames and of partitions. `StreamInv` says that the packets
are the partitions of one frame after the other and that the encoder goes on where they end;
`UnitInv` that the pending unit is the beginning of the frame that comes next, and all before
it is published or skipped. Neither an empty packet nor a packet taken breaks the fit, because each is
followed by what `Follows` says. `LeaveInv` carries what the last poll found over to
the exit: without a miss the encoder is empty, hence nothing is pending and every
frame is accounted for (`LeavingEmpty`).

`ShutdownProofs`, for any number of frames: types and `FrameWakes`. The invariant is `WakeInv`:
a thread owes no notification when it sets what it owes, so none is overwritten; and
the queue of a thread about to block is empty, because whoever fills it needs the mutex that
thread still has. The bound on the queues counts frames up to the copy and the two ways after it.

`PublisherProofs`, for every set of stamps and every frame time: types, `PresentedAfterDecoded`,
`DriftCounted` (invariants that are inductive together with the types), and
`DtsIncreases` from the link between the last unit given to ZLM and `lastDtsMs`.

The same module goes on with the splitter, for access units of every length over any bytes that include 0 and 1:
types, `EveryNaluFound` and `AcceptedIsTiled`. Neither says anything before the scan is
over, so both need the loop invariant `ScanInv`: the recorded starts are the
places before `pos` where a unit begins, they ascend and end before `pos`, the first is zero, and
`pos - 1` does not begin a long code (`NotInsideLong`). The last is what keeps the
scan from seeing a long start code a second time as a short one; it is
kept because a start code ends in 1 (`InsidePrefix`).

It ends with the two functions, which are recursive, for inputs of every length:
`EndsAtLastEoiHolds`, `ReadsBackHolds`, and from them `PaddingDropped` and `ResponseReadsBack`. What
a recursion computes needs an induction, and the induction theorems of the library take the
predicate as a parameter, which the provers cannot instantiate. The proofs use a least number
instead: a non-empty set of natural numbers has one (`LeastNumber`, from the
well-foundedness of `<`), so the set of the lengths at which the claim fails is empty (`Induction`
states this with a set in the predicate's place). `Recursion` shows in the same way that a
function defined by its first value and its next exists, without which nothing is known of `EscapedUpTo` and
`ReadUpTo`. For the marker, the last place of one is the greatest of a bounded set
(`GreatestNumber`); the scan returns it from every start at or after it (`ScanFindsLast`). For the
text, the claim carried along says that after the escape of each character
the reader is between characters, with what it is to show, so escapes do not run into each other.

`ProcessProofs`, for every size of the pools, every set of rates, every number of
refused releases and every set of requests. The properties say almost nothing on their own:
`misused` stays empty because a step finds held what it needs and free what it acquires, and that
depends on the label, on the objects that are up, and on how far a loop is. `ProcessInv` says
all of that, in parts (module `ProcessInvariant`):

- `Control`: how many objects there are at each label, and where a shared subroutine
  (`camera_deinit`, `decoder_release`, `rga_release`, `zlm_close`) will return to. Without it the destructor of
  an object could be reached while a later one is still up.
- `Ledger`: nothing misused, only what the modules name is held, and no field says
  more than the kernel. The converse, `Same` or `Owned`, is part of each object: of a handle whose
  release cannot fail the fields are exact; of a descriptor or mapping they are unless the
  kernel refused to release it.
- For each object its handles, what each depends on, the extent of a loop at the labels
  inside it (`...Place`), and what main and the others may rely on elsewhere (`...Elsewhere`): an object is
  all there from its initialisation to its destruction, or not at all.
- `RequestsInv`: `OneAnswer`, and that a clone of an invoker is in the field of no object.

A step belongs to one object. Its lemma shows that object's part of the invariant, `Control` and
`Ledger`, which labels it leads to, and that only the object's kinds of resources change
(a resource is a pair of a kind and an index). What the others' parts say is kept
follows from that once for all steps, in the frame lemmas. Then `NothingMisused` and `OneAnswer` are conjuncts; `NeedsHeld` follows with
one case for each kind that needs something; `NothingLeft` because at "returned" every
object is down; `ReadyToRun` from the parts called `...Elsewhere` at "running". Each part was
checked as an invariant by TLC, with the constants of `life_cycle`, before it was proved.

Assumptions are those named in the modules (`RingAssumption`, `FeedAssumption`,
`OutputAssumption`, `ShutdownAssumption`, `DecoderAssumption`, `PublisherAssumption`, `AnnexBAssumption`,
`ResourcesAssumption`, `CameraAssumption`, `ServiceAssumption`). The last three say that the pools have at least one entry, that
the driver's rates are pairs of natural numbers, that ports are ports and requests are numbered.

With these, every invariant, every action property and both refinements that the passing runs check
are theorems. Only model-checked: liveness (the prover has no fairness or
`ENABLED`), and the four properties that are violated. `EncoderConfig` uses bitwise
operators that the prover cannot take.

## 7. Not modelled

- Image operations of `rkrga.cpp` beyond success and failure, its table of formats and its
  flips: main uses `Copy` only.
- The camera's formats beyond what the pipeline depends on: the check of
  capabilities is one answer of the driver, the accepted size a Boolean.
- Manual exposure: main passes 0, for which the code leaves exposure automatic (the comment
  at that call speaks of 20 ms); no other caller.
- The encoder's values that only go into MPP's configuration (rate control, profile,
  strides), except the group of pictures.
- URLs: those printed at the start, the one built for ZLM, and requests of any other
  URL, which the callback leaves to ZLM.
- Clones of invokers that ZLM still has when the process ends: `NothingLeft` excepts them.
- `EncoderGetExtraInfoPacket` and the EOS branches: no caller, not reachable.
- Memory ordering below atomics (see `ZlmService` in section 3), and the contents of pictures.
- ZLMediaKit's headers and libraries, build files and the test page.
