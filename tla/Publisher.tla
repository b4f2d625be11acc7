----------------------------- MODULE Publisher -----------------------------
(***************************************************************************)
(* ZlmPublisher: the access units of the encoder get time stamps ZLM       *)
(* accepts, decode times that increase in milliseconds, and are fed to the *)
(* media source NAL unit by NAL unit.  Time stamps of the encoder may be   *)
(* missing, repeat, or run backwards.                                      *)
(***************************************************************************)
EXTENDS Integers

CONSTANTS
    Stamp,            \* the time stamps the encoder may attach, in us; -1: none
    FrameIntervalUs,  \* 1000000 / fps
    MaxNalus,         \* bound of the model: NAL units of an access unit
    MaxDts            \* bound of the model: no unit is taken beyond this time

ASSUME PublisherAssumption ==
    /\ Stamp \subseteq Int
    /\ FrameIntervalUs \in Nat \ {0}
    /\ MaxNalus \in Nat \ {0}
    /\ MaxDts \in Nat

VARIABLES
    initialized,     \* Initialized_ and Media_
    hasLast,         \* HasLastTimestamp_
    lastDtsUs, lastPtsUs, lastDtsMs, lastPtsMs,
    frames,          \* OutputFrameCount_
    fallbacks,       \* TimestampFallbackCount_
    input            \* auxiliary: the last stamps given to the media source

lastVars == <<hasLast, lastDtsUs, lastPtsUs, lastDtsMs, lastPtsMs>>
vars == <<initialized, lastVars, frames, fallbacks, input>>

NoInput == [dts |-> -1, pts |-> -1]

Init ==
    /\ initialized = FALSE
    /\ hasLast = FALSE
    /\ lastDtsUs = 0 /\ lastPtsUs = 0 /\ lastDtsMs = 0 /\ lastPtsMs = 0
    /\ frames = 0 /\ fallbacks = 0
    /\ input = NoInput

-----------------------------------------------------------------------------
(* NormalizeTimestamp, one correction after the other.                     *)

(* One missing stamp is replaced by the other, two by the next frame time. *)
NextFrameUs == IF hasLast THEN lastDtsUs + FrameIntervalUs ELSE 0

GuessedUs(us, other) ==
    IF us >= 0 THEN us ELSE IF other >= 0 THEN other ELSE NextFrameUs

IncreasingUs(us) == IF hasLast /\ us <= lastDtsUs THEN lastDtsUs + 1 ELSE us

(* the milliseconds are not corrected after the division *)
UncorrectedMs(us) == us \div 1000

IncreasingMs(us) ==
    IF hasLast /\ us \div 1000 <= lastDtsMs THEN lastDtsMs + 1 ELSE us \div 1000

(* the presentation time is left as it is *)
AsGiven(dts, pts) == pts

NotBefore(dts, pts) == IF pts < dts THEN dts ELSE pts

(* What the call leaves in the Last..._ members. *)
Normalized(dts, pts) ==
    LET dtsUs == IncreasingUs(GuessedUs(dts, pts))
        ptsUs == NotBefore(dtsUs, GuessedUs(pts, dts))
        dtsMs == IncreasingMs(dtsUs)
    IN  [dtsUs |-> dtsUs, ptsUs |-> ptsUs, dtsMs |-> dtsMs,
         ptsMs |-> NotBefore(dtsMs, ptsUs \div 1000)]

(* the corrections of the milliseconds are not counted *)
UsedFallbackUs(n, dts, pts) == n.dtsUs # dts \/ n.ptsUs # pts

UsedFallback(n, dts, pts) ==
    \/ n.dtsUs # dts \/ n.ptsUs # pts
    \/ n.dtsMs # n.dtsUs \div 1000 \/ n.ptsMs # n.ptsUs \div 1000

NormalizeTimestamp(dts, pts) ==
    LET n == Normalized(dts, pts) IN
    /\ hasLast' = TRUE
    /\ lastDtsUs' = n.dtsUs /\ lastPtsUs' = n.ptsUs
    /\ lastDtsMs' = n.dtsMs /\ lastPtsMs' = n.ptsMs
    /\ fallbacks' = fallbacks + (IF UsedFallback(n, dts, pts) THEN 1 ELSE 0)

-----------------------------------------------------------------------------
ResetLast ==
    /\ hasLast' = FALSE
    /\ lastDtsUs' = 0 /\ lastPtsUs' = 0 /\ lastDtsMs' = 0 /\ lastPtsMs' = 0

Close ==
    /\ initialized' = FALSE
    /\ ResetLast
    /\ input' = NoInput
    /\ UNCHANGED <<frames, fallbacks>>

InitSucceeds ==
    /\ initialized' = TRUE
    /\ UNCHANGED <<lastVars, frames, fallbacks, input>>

(* A server, the media source or its track cannot be created. *)
InitFails == ~initialized /\ Close

(* A unit without data or start code is refused before the clock moves.    *)
(* All NAL units of an access unit carry its stamps.  The media source may *)
(* refuse one; the rest of the unit is given up, its time is used.         *)
InputUnit(dts, pts) ==
    /\ initialized /\ lastDtsUs <= MaxDts
    /\ NormalizeTimestamp(dts, pts)
    /\ \E count \in 1 .. MaxNalus : \E taken \in 0 .. count :
          /\ frames' = IF taken = count THEN frames + 1 ELSE frames
          /\ input' = IF taken > 0 THEN [dts |-> lastDtsMs', pts |-> lastPtsMs'] ELSE input
    /\ UNCHANGED initialized

Next ==
    \/ InitSucceeds \/ InitFails \/ Close
    \/ \E dts, pts \in Stamp : InputUnit(dts, pts)

Spec == Init /\ [][Next]_vars

-----------------------------------------------------------------------------
(* The types of the state. *)
TypeOK ==
    /\ initialized \in BOOLEAN /\ hasLast \in BOOLEAN
    /\ lastDtsUs \in Nat /\ lastPtsUs \in Nat
    /\ lastDtsMs \in Nat /\ lastPtsMs \in Nat
    /\ frames \in Nat /\ fallbacks \in Nat
    /\ input \in [dts : Int, pts : Int]

(* What the media source gets within one stream: decode times that grow    *)
(* strictly from unit to unit, in milliseconds, whatever the encoder says. *)
DtsIncreases ==
    [][input' # input /\ input # NoInput /\ input' # NoInput
          => input'.dts > input.dts]_vars

(* A unit is never presented before it is decoded. *)
PresentedAfterDecoded == input.pts >= input.dts /\ lastPtsUs >= lastDtsUs

(* The milliseconds keep up with the microseconds, and are ahead of them   *)
(* by no more than the number of fallbacks the statistics report: a stream *)
(* without fallbacks is published at its own times.                        *)
DriftCounted ==
    /\ lastDtsMs >= lastDtsUs \div 1000
    /\ lastDtsMs - lastDtsUs \div 1000 <= fallbacks
=============================================================================
