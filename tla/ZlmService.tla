----------------------------- MODULE ZlmService ------------------------------
(***************************************************************************)
(* The life of a ZlmPublisher, and the WebRTC signalling it serves: Init   *)
(* starts the servers of ZLMediaKit, registers the HTTP callback and       *)
(* creates the media source; Close takes it all down, from a failure in    *)
(* Init, from main, and from the destructor.  The callback runs in ZLM's   *)
(* threads, concurrently with all of it; gWebRtcServiceReady is the plain  *)
(* bool they share with main.  The input of packets is module Publisher.   *)
(***************************************************************************)
EXTENDS EncoderSetup

CONSTANTS
    HttpPort, RtcPort,   \* ports of the configuration
    OtherPort,           \* a port the RTC server falls back to
    Requests             \* signalling requests, numbered

MaxPort == 65535
Second  == 1000000   \* in microseconds

ASSUME ServiceAssumption ==
    /\ {HttpPort, RtcPort, OtherPort} \subseteq 1 .. MaxPort
    /\ Requests \subseteq Nat

VARIABLES
    httpPort, rtcPort,    \* HttpPort_, RtcPort_: 0 when not serving
    candidatePort,        \* rtc.port in ZLM's configuration, sent with answers
    webRtcReady,          \* gWebRtcServiceReady
    listening,            \* OnMkHttpRequest is registered
    initialized,          \* Initialized_
    frameIntervalUs,      \* FrameIntervalUs_
    afterClose,           \* where Close returns to
    request,              \* what the callback has done for a request
    answers               \* auxiliary: responses sent for it

serviceVars == <<httpPort, rtcPort, candidatePort, webRtcReady, listening,
                 initialized, frameIntervalUs, afterClose>>
requestVars == <<request, answers>>

Http   == One("zlm_http")
Rtsp   == One("zlm_rtsp")
Rtc    == One("zlm_rtc")
Option == One("zlm_media_option")
Media  == One("zlm_media")            \* known: Media_
Clone(r) == <<"zlm_invoker", r>>

ServiceInit ==
    /\ httpPort = 0 /\ rtcPort = 0 /\ candidatePort = 0
    /\ webRtcReady = FALSE /\ listening = FALSE /\ initialized = FALSE
    /\ frameIntervalUs = 33333
    /\ afterClose = "none"
    /\ request = [r \in Requests |-> "none"]
    /\ answers = [r \in Requests |-> 0]

-----------------------------------------------------------------------------
(* Variants with an error in them, used by no specification. *)
(* a request without an offer is dropped *)
RejectInSilence(r) ==
    /\ request[r] = "cloned"
    /\ request' = [request EXCEPT ![r] = "rejected"]
    /\ Drop({Clone(r)})
    /\ UNCHANGED answers

(* an error response does not end the callback *)
TestReadyGoesOn(r) ==
    /\ request[r] = "new"
    /\ request' = [request EXCEPT ![r] = "ready"]
    /\ answers' = [answers EXCEPT ![r] = IF webRtcReady THEN @ ELSE @ + 1]
    /\ UNCHANGED ledger

-----------------------------------------------------------------------------
(***************************************************************************)
(* Init                                                                    *)
(***************************************************************************)
CloseThen(label) ==
    /\ Goto("zlm_close")
    /\ afterClose' = label

StartHttp ==
    /\ At("publisher") /\ ~initialized
    /\ \/ /\ Acquire({}, {Http}) /\ httpPort' = HttpPort
          /\ Goto("zlm_rtsp") /\ UNCHANGED afterClose
       \/ httpPort' = 0 /\ UNCHANGED ledger /\ CloseThen("failed")
    /\ UNCHANGED <<known, loop, rtcPort, candidatePort, webRtcReady, listening,
                   initialized, frameIntervalUs>>

StartRtsp ==
    /\ At("zlm_rtsp")
    /\ \/ Acquire({}, {Rtsp}) /\ Goto("zlm_rtc") /\ UNCHANGED afterClose
       \/ UNCHANGED ledger /\ CloseThen("failed")
    /\ UNCHANGED <<known, loop, httpPort, rtcPort, candidatePort, webRtcReady,
                   listening, initialized, frameIntervalUs>>

(* The RTC port must differ from the HTTP port. *)
RtcTarget ==
    IF RtcPort # httpPort THEN RtcPort
    ELSE IF RtcPort < MaxPort THEN RtcPort + 1 ELSE 8001

(* Without an RTC server the stream is served all the same.  A server on   *)
(* another port than the one asked for changes the configuration.          *)
StartRtc ==
    /\ At("zlm_rtc")
    /\ rtcPort' \in {0, RtcTarget, OtherPort}
    /\ candidatePort' = IF rtcPort' = 0 THEN RtcTarget ELSE rtcPort'
    /\ webRtcReady' = (rtcPort' # 0)
    /\ Acquire({}, IF rtcPort' = 0 THEN {} ELSE {Rtc})
    /\ Goto("zlm_listen")
    /\ UNCHANGED <<known, loop, httpPort, listening, initialized,
                   frameIntervalUs, afterClose>>

ListenEvents ==
    /\ At("zlm_listen")
    /\ listening' = TRUE
    /\ Goto("zlm_option")
    /\ UNCHANGED <<ledger, known, loop, httpPort, rtcPort, candidatePort,
                   webRtcReady, initialized, frameIntervalUs, afterClose>>

CreateOption ==
    /\ At("zlm_option")
    /\ \/ Acquire({}, {Option}) /\ Goto("zlm_media") /\ UNCHANGED afterClose
       \/ UNCHANGED ledger /\ CloseThen("failed")
    /\ UNCHANGED <<known, loop, httpPort, rtcPort, candidatePort, webRtcReady,
                   listening, initialized, frameIntervalUs>>

(* The options are released whether the media source was created or not. *)
CreateMedia ==
    /\ At("zlm_media")
    /\ \/ /\ Exchange({}, {Media}, {Option}) /\ Keep({Media})
          /\ Goto("zlm_track") /\ UNCHANGED afterClose
       \/ Drop({Option}) /\ UNCHANGED known /\ CloseThen("failed")
    /\ UNCHANGED <<loop, httpPort, rtcPort, candidatePort, webRtcReady,
                   listening, initialized, frameIntervalUs>>

(* The H.264 track is created, given to the media source and let go. *)
AddTrack ==
    /\ At("zlm_track")
    /\ Use({Media})
    /\ \/ initialized' = TRUE /\ Goto("ok") /\ UNCHANGED afterClose
       \/ CloseThen("failed") /\ UNCHANGED initialized
    /\ UNCHANGED <<known, loop, httpPort, rtcPort, candidatePort, webRtcReady,
                   listening, frameIntervalUs>>

(* The rate of the time stamps made up for packets without one: main takes *)
(* it from the camera, SetExpectedFps turns it into an interval.           *)
ExpectedFps(rate) ==
    IF rate[1] > 0 /\ rate[2] > 0 /\ rate[2] >= rate[1] THEN rate[2] \div rate[1] ELSE 30

FrameInterval(fps) ==
    IF fps > Second THEN 1 ELSE Second \div fps

SetExpectedFps ==
    /\ At("rate")
    /\ frameIntervalUs' = FrameInterval(ExpectedFps(activeConfig.rate))
    /\ Goto("running") /\ loop' = 0
    /\ UNCHANGED <<ledger, known, httpPort, rtcPort, candidatePort,
                   webRtcReady, listening, initialized, afterClose>>

(***************************************************************************)
(* Close, in its order.                                                    *)
(***************************************************************************)
CloseEvents ==
    /\ At("zlm_close")
    /\ listening' = FALSE
    /\ Goto("zlm_close_media")
    /\ UNCHANGED <<ledger, known, loop, httpPort, rtcPort, candidatePort,
                   webRtcReady, initialized, frameIntervalUs, afterClose>>

CloseMedia ==
    /\ At("zlm_close_media")
    /\ Release(known \intersect {Media})
    /\ Goto("zlm_close_servers")
    /\ UNCHANGED <<loop, serviceVars>>

StopServers ==
    /\ At("zlm_close_servers")
    /\ Drop(held \intersect {Http, Rtsp, Rtc})
    /\ Goto("zlm_close_flags")
    /\ UNCHANGED <<known, loop, serviceVars>>

CloseFlags ==
    /\ At("zlm_close_flags")
    /\ webRtcReady' = FALSE
    /\ httpPort' = 0 /\ rtcPort' = 0
    /\ initialized' = FALSE
    /\ Goto(afterClose)
    /\ UNCHANGED <<ledger, known, loop, candidatePort, listening,
                   frameIntervalUs, afterClose>>

DestroyPublisher ==
    /\ At("destroy_publisher")
    /\ CloseThen("destroyed")
    /\ UNCHANGED <<ledger, known, loop, httpPort, rtcPort, candidatePort,
                   webRtcReady, listening, initialized, frameIntervalUs>>

ServiceStep ==
    \/ StartHttp \/ StartRtsp \/ StartRtc \/ ListenEvents \/ CreateOption
    \/ CreateMedia \/ AddTrack \/ SetExpectedFps
    \/ CloseEvents \/ CloseMedia \/ StopServers \/ CloseFlags \/ DestroyPublisher

-----------------------------------------------------------------------------
(***************************************************************************)
(* OnMkHttpRequest for a request of /index/api/webrtc.  A request of       *)
(* another URL is left to ZLM.                                             *)
(***************************************************************************)
Respond(r) ==
    /\ request' = [request EXCEPT ![r] = "done"]
    /\ answers' = [answers EXCEPT ![r] = @ + 1]

Proceed(r, to) ==
    /\ request' = [request EXCEPT ![r] = to]
    /\ UNCHANGED answers

(* ZLM (external) dispatches a request. *)
Dispatch(r) ==
    /\ request[r] = "none"
    /\ listening /\ Http \in held
    /\ Proceed(r, "new")
    /\ UNCHANGED ledger

TestReady(r) ==
    /\ request[r] = "new"
    /\ IF webRtcReady THEN Proceed(r, "ready") ELSE Respond(r)
    /\ UNCHANGED ledger

(* The clone outlives the callback. *)
CloneInvoker(r) ==
    /\ request[r] = "ready"
    /\ \/ Acquire({}, {Clone(r)}) /\ Proceed(r, "cloned")
       \/ UNCHANGED ledger /\ Respond(r)

(* Not type=play, or no app, stream or offer: an error, and the release. *)
Reject(r) ==
    /\ request[r] = "cloned"
    /\ Exchange({Clone(r)}, {}, {Clone(r)})
    /\ Respond(r)

AskAnswer(r) ==
    /\ request[r] = "cloned"
    /\ Use({Clone(r)})
    /\ Proceed(r, "asked")

(* OnWebRtcAnswerSdp: an answer or an error, and the release. *)
Answer(r) ==
    /\ request[r] = "asked"
    /\ Exchange({Clone(r)}, {}, {Clone(r)})
    /\ Respond(r)

Handle(r) == TestReady(r) \/ CloneInvoker(r) \/ Reject(r) \/ AskAnswer(r) \/ Answer(r)
=============================================================================
