-------------------------- MODULE PublisherProofs --------------------------
(***************************************************************************)
(* ZlmPublisher's time stamps, for all stamps, frame times and numbers of  *)
(* units; its splitter, for access units of every length over any bytes;   *)
(* and the scan for the end of a JPEG picture and the escaping of JSON,    *)
(* which are functions, for arguments of every length.  No bound of the    *)
(* models is used.                                                         *)
(***************************************************************************)
EXTENDS Publisher, Scans, WellFoundedInduction, TLAPS

(* Division by 1000 keeps the order and the sign, and zero. *)
LEMMA MillisecondsMonotone ==
    ASSUME NEW a \in Nat, NEW b \in Nat
    PROVE  /\ a \div 1000 \in Nat
           /\ a <= b => a \div 1000 <= b \div 1000
           /\ 0 \div 1000 = 0
OBVIOUS

(* What NormalizeTimestamp computes from a state in which the milliseconds *)
(* keep up, whatever the stamps are.                                       *)
LEMMA NormalizedFacts ==
    ASSUME TypeOK, lastDtsMs >= lastDtsUs \div 1000,
           NEW dts \in Int, NEW pts \in Int, NEW n, n = Normalized(dts, pts)
    PROVE  /\ n.dtsUs \in Nat /\ n.ptsUs \in Nat /\ n.dtsMs \in Nat /\ n.ptsMs \in Nat
           /\ n.ptsUs >= n.dtsUs /\ n.ptsMs >= n.dtsMs
           /\ n.dtsMs >= n.dtsUs \div 1000
           /\ hasLast => n.dtsUs > lastDtsUs /\ n.dtsMs > lastDtsMs
           /\ n.dtsMs = n.dtsUs \div 1000 \/ (hasLast /\ n.dtsMs = lastDtsMs + 1)
<1> DEFINE gd == GuessedUs(dts, pts)
           gp == GuessedUs(pts, dts)
           us == IncreasingUs(gd)
           pu == NotBefore(us, gp)
           ms == IncreasingMs(us)
           pm == NotBefore(ms, pu \div 1000)
<1>1. n = [dtsUs |-> us, ptsUs |-> pu, dtsMs |-> ms, ptsMs |-> pm]
  BY DEF Normalized
<1>2. n.dtsUs = us /\ n.ptsUs = pu /\ n.dtsMs = ms /\ n.ptsMs = pm
  BY <1>1
<1>3. gd \in Nat /\ gp \in Nat
  BY PublisherAssumption DEF TypeOK, GuessedUs, NextFrameUs
<1>4. us \in Nat /\ (hasLast => us > lastDtsUs)
  BY <1>3 DEF TypeOK, IncreasingUs
<1>5. pu \in Nat /\ pu >= us
  BY <1>3, <1>4 DEF NotBefore
<1>6. us \div 1000 \in Nat /\ pu \div 1000 \in Nat
  BY <1>4, <1>5, MillisecondsMonotone
<1>7. /\ ms \in Nat /\ ms >= us \div 1000
      /\ hasLast => ms > lastDtsMs
      /\ ms = us \div 1000 \/ (hasLast /\ ms = lastDtsMs + 1)
  <2> DEFINE q == us \div 1000
  <2> q \in Nat
    BY <1>6
  <2>1. ms = IF hasLast /\ q <= lastDtsMs THEN lastDtsMs + 1 ELSE q
    BY DEF IncreasingMs
  <2> HIDE DEF q, ms
  <2>2. ms \in Nat /\ ms >= q /\ (hasLast => ms > lastDtsMs)
        /\ (ms = q \/ (hasLast /\ ms = lastDtsMs + 1))
    BY <2>1 DEF TypeOK
  <2> QED BY <2>2 DEF q
<1>8. pm \in Nat /\ pm >= ms
  BY <1>6, <1>7 DEF NotBefore
<1> QED BY <1>2, <1>4, <1>5, <1>7, <1>8

-----------------------------------------------------------------------------
(* The stamps given last belong to the stream that is open, and its clock  *)
(* has not run behind them: a refused unit uses up a time, too.            *)
InputBehindClock == input # NoInput => hasLast /\ input.dts <= lastDtsMs

IInv == TypeOK /\ PresentedAfterDecoded /\ DriftCounted /\ InputBehindClock

(* No stamps are stamps.                                                   *)
LEMMA NoInputTyped == NoInput \in [dts : Int, pts : Int]
BY SMT DEF NoInput

(* The invariant holds of a new publisher.                                 *)
LEMMA InitIInv == Init => IInv
<1> SUFFICES ASSUME Init PROVE IInv
  OBVIOUS
<1>1. TypeOK
  BY NoInputTyped DEF Init, TypeOK
<1>2. PresentedAfterDecoded
  BY DEF Init, PresentedAfterDecoded, NoInput
<1>3. DriftCounted
  BY MillisecondsMonotone DEF Init, DriftCounted
<1>4. InputBehindClock
  BY DEF Init, InputBehindClock
<1> QED BY <1>1, <1>2, <1>3, <1>4 DEF IInv

(* Close forgets the last stamps, and keeps it.                            *)
LEMMA CloseIInv == IInv /\ Close => IInv'
<1> SUFFICES ASSUME IInv, Close PROVE IInv'
  OBVIOUS
<1>1. TypeOK'
  BY NoInputTyped DEF IInv, Close, ResetLast, TypeOK
<1>2. PresentedAfterDecoded'
  BY DEF Close, ResetLast, PresentedAfterDecoded, NoInput
<1>3. DriftCounted'
  BY MillisecondsMonotone DEF IInv, TypeOK, Close, ResetLast, DriftCounted
<1>4. InputBehindClock'
  BY DEF Close, InputBehindClock, NoInput
<1> QED BY <1>1, <1>2, <1>3, <1>4 DEF IInv

(* An access unit keeps it and moves the clock of the stream forward.      *)
LEMMA InputUnitIInv ==
    ASSUME IInv, NEW dts \in Stamp, NEW pts \in Stamp, InputUnit(dts, pts)
    PROVE  IInv' /\ (hasLast => lastDtsMs' > lastDtsMs)
<1> DEFINE n == Normalized(dts, pts)
<1>1. dts \in Int /\ pts \in Int
  BY PublisherAssumption
<1>2. /\ n.dtsUs \in Nat /\ n.ptsUs \in Nat /\ n.dtsMs \in Nat /\ n.ptsMs \in Nat
      /\ n.ptsUs >= n.dtsUs /\ n.ptsMs >= n.dtsMs
      /\ n.dtsMs >= n.dtsUs \div 1000
      /\ hasLast => n.dtsUs > lastDtsUs /\ n.dtsMs > lastDtsMs
      /\ n.dtsMs = n.dtsUs \div 1000 \/ (hasLast /\ n.dtsMs = lastDtsMs + 1)
  BY <1>1, NormalizedFacts DEF IInv, DriftCounted
<1>3. /\ hasLast' = TRUE
      /\ lastDtsUs' = n.dtsUs /\ lastPtsUs' = n.ptsUs
      /\ lastDtsMs' = n.dtsMs /\ lastPtsMs' = n.ptsMs
      /\ fallbacks' = fallbacks + (IF UsedFallback(n, dts, pts) THEN 1 ELSE 0)
  BY DEF InputUnit, NormalizeTimestamp
<1>4. /\ initialized' = initialized
      /\ frames' = frames + 1 \/ frames' = frames
      /\ input' = input \/ input' = [dts |-> lastDtsMs', pts |-> lastPtsMs']
  BY DEF InputUnit
<1> HIDE DEF n
<1>5. fallbacks' \in Nat /\ fallbacks' >= fallbacks
  BY <1>3 DEF IInv, TypeOK
<1>6. TypeOK'
  BY <1>2, <1>3, <1>4, <1>5 DEF IInv, TypeOK
<1>7. PresentedAfterDecoded'
  BY <1>2, <1>3, <1>4 DEF IInv, PresentedAfterDecoded
<1>8. DriftCounted'
  <2>1. CASE n.dtsMs = n.dtsUs \div 1000
    BY <2>1, <1>2, <1>3, <1>5, MillisecondsMonotone DEF DriftCounted
  <2>2. CASE n.dtsMs # n.dtsUs \div 1000
    <3>1. hasLast /\ n.dtsMs = lastDtsMs + 1 /\ n.dtsUs > lastDtsUs
      BY <2>2, <1>2
    <3>2. fallbacks' = fallbacks + 1
      BY <2>2, <1>3 DEF UsedFallback
    <3>3. lastDtsUs \div 1000 <= n.dtsUs \div 1000
      BY <3>1, <1>2, MillisecondsMonotone DEF IInv, TypeOK
    <3> QED
      BY <3>1, <3>2, <3>3, <1>2, <1>3, MillisecondsMonotone DEF IInv, TypeOK, DriftCounted
  <2> QED BY <2>1, <2>2
<1>9. InputBehindClock'
  BY <1>2, <1>3, <1>4 DEF IInv, InputBehindClock, TypeOK
<1> QED BY <1>2, <1>3, <1>6, <1>7, <1>8, <1>9 DEF IInv

(* So does every step.                                                     *)
LEMMA NextIInv == IInv /\ [Next]_vars => IInv'
<1> SUFFICES ASSUME IInv, [Next]_vars PROVE IInv'
  OBVIOUS
<1>1. CASE InitSucceeds
  BY <1>1 DEF InitSucceeds, lastVars, IInv, TypeOK, PresentedAfterDecoded,
              DriftCounted, InputBehindClock, NoInput
<1>2. CASE InitFails
  BY <1>2, CloseIInv DEF InitFails
<1>3. CASE Close
  BY <1>3, CloseIInv
<1>4. CASE \E dts, pts \in Stamp : InputUnit(dts, pts)
  BY <1>4, InputUnitIInv
<1>5. CASE UNCHANGED vars
  BY <1>5 DEF vars, lastVars, IInv, TypeOK, PresentedAfterDecoded,
              DriftCounted, InputBehindClock, NoInput
<1> QED BY <1>1, <1>2, <1>3, <1>4, <1>5 DEF Next

(* The invariant the four theorems below are read off from. *)
LEMMA Invariance == Spec => []IInv
BY InitIInv, NextIInv, PTL DEF Spec

(* Time stamps, counters and flags of the publisher have their types: no   *)
(* stamp of the code's unsigned members ever stands for a negative one.    *)
THEOREM PublisherTypeCorrect == Spec => []TypeOK
<1>1. IInv => TypeOK
  BY DEF IInv
<1> QED BY <1>1, Invariance, PTL

(* No access unit is presented before it is decoded. *)
THEOREM PresentedAfterDecodedHolds == Spec => []PresentedAfterDecoded
<1>1. IInv => PresentedAfterDecoded
  BY DEF IInv
<1> QED BY <1>1, Invariance, PTL

(* How far the published times may be ahead of the encoder's is counted by *)
(* the fallback statistics.                                                *)
THEOREM DriftCountedHolds == Spec => []DriftCounted
<1>1. IInv => DriftCounted
  BY DEF IInv
<1> QED BY <1>1, Invariance, PTL

(* Within a stream the decode times given to the media source increase.    *)
THEOREM DtsIncreasesHolds == Spec => DtsIncreases
<1> DEFINE Later == input' # input /\ input # NoInput /\ input' # NoInput
                    => input'.dts > input.dts
<1>1. IInv /\ IInv' /\ [Next]_vars => [Later]_vars
  <2> SUFFICES ASSUME IInv, IInv', Next PROVE Later
    OBVIOUS
  <2>1. CASE InitSucceeds
    BY <2>1 DEF InitSucceeds
  <2>2. CASE InitFails \/ Close
    BY <2>2 DEF InitFails, Close
  <2>3. ASSUME NEW dts \in Stamp, NEW pts \in Stamp, InputUnit(dts, pts)
        PROVE Later
    <3>1. hasLast => lastDtsMs' > lastDtsMs
      BY <2>3, InputUnitIInv
    <3>2. input' = input \/ input' = [dts |-> lastDtsMs', pts |-> lastPtsMs']
      BY <2>3 DEF InputUnit
    <3> QED BY <3>1, <3>2 DEF IInv, InputBehindClock, TypeOK
  <2> QED BY <2>1, <2>2, <2>3 DEF Next
<1> QED BY <1>1, Invariance, PTL DEF Spec, DtsIncreases

-----------------------------------------------------------------------------
(***************************************************************************)
(* The splitter.  The inductive invariant says what the loop has done up   *)
(* to pos: it has recorded the beginnings of units before pos and nothing  *)
(* else, and pos itself is not one byte inside a long code.                *)
(***************************************************************************)
Admitted == pc \in {"scan", "failed", "cut"} => StartsUnit

NothingYet == pc = "check" => pos = 0 /\ starts = <<>>

StartsBeforePos ==
    \A i \in DOMAIN starts : starts[i] + 3 <= pos /\ starts[i] + 3 <= len

StartsAscend == \A i \in 1 .. Len(starts) - 1 : starts[i] < starts[i + 1]

FirstAtZero ==
    /\ starts = <<>> => pos = 0
    /\ starts # <<>> => starts[1] = 0

FoundBefore ==
    \A p \in 0 .. pos - 1 : BeginsNalu(p) <=> \E i \in DOMAIN starts : starts[i] = p

NotInsideLong == pos > 0 => ~LongCode(pos - 1)

(* What the scan knows, at every turn of its loop. *)
ScanInv ==
    /\ SplitTypeOK
    /\ Admitted /\ NothingYet
    /\ pc \in {"check", "scan", "cut"} =>
          StartsBeforePos /\ StartsAscend /\ FoundBefore /\ NotInsideLong
    /\ pc = "scan" => FirstAtZero

SplitInv ==
    /\ ScanInv
    /\ EveryNaluFound
    /\ AcceptedIsTiled

(* A unit begins at no place inside a start code, and the place behind one *)
(* is not the second byte of a long code.                                  *)
LEMMA InsidePrefix ==
    ASSUME len \in Nat, NEW p \in Nat, Prefix(p)
    PROVE  /\ p + 3 <= len
           /\ PastPrefix(p) \in Nat /\ PastPrefix(p) >= p + 3
           /\ \A q \in p + 1 .. PastPrefix(p) - 1 : ~BeginsNalu(q)
           /\ ~LongCode(PastPrefix(p) - 1)
<1>1. CASE LongCode(p)
  <2>1. PastPrefix(p) = p + 4 /\ p + 4 <= len
    BY <1>1 DEF PastPrefix, LongCode
  <2>2. data[p] = 0 /\ data[p + 1] = 0 /\ data[p + 2] = 0 /\ data[p + 3] = 1
    BY <1>1 DEF LongCode
  <2>3. ~BeginsNalu(p + 1)
    <3>1. (p + 1) + 2 = p + 3 /\ (p + 1) - 1 = p /\ p + 1 > 0
      OBVIOUS
    <3>2. ~LongCode(p + 1)
      BY <2>2, <3>1 DEF LongCode
    <3> QED BY <1>1, <3>1, <3>2 DEF BeginsNalu
  <2>4. ~BeginsNalu(p + 2)
    <3>1. (p + 2) + 1 = p + 3
      OBVIOUS
    <3> QED BY <2>2, <3>1 DEF BeginsNalu, LongCode, ShortCode
  <2>5. ~BeginsNalu(p + 3) /\ ~LongCode(p + 3)
    BY <2>2 DEF BeginsNalu, LongCode, ShortCode
  <2>6. \A q \in p + 1 .. p + 3 : q = p + 1 \/ q = p + 2 \/ q = p + 3
    OBVIOUS
  <2>7. (p + 4) - 1 = p + 3
    OBVIOUS
  <2> QED BY <2>1, <2>3, <2>4, <2>5, <2>6, <2>7
<1>2. CASE ShortCode(p) /\ ~LongCode(p)
  <2>1. PastPrefix(p) = p + 3 /\ p + 3 <= len
    BY <1>2 DEF PastPrefix, ShortCode
  <2>2. data[p] = 0 /\ data[p + 1] = 0 /\ data[p + 2] = 1
    BY <1>2 DEF ShortCode
  <2>3. ~BeginsNalu(p + 1)
    <3>1. (p + 1) + 1 = p + 2
      OBVIOUS
    <3> QED BY <2>2, <3>1 DEF BeginsNalu, LongCode, ShortCode
  <2>4. ~BeginsNalu(p + 2) /\ ~LongCode(p + 2)
    BY <2>2 DEF BeginsNalu, LongCode, ShortCode
  <2>5. \A q \in p + 1 .. p + 2 : q = p + 1 \/ q = p + 2
    OBVIOUS
  <2>6. (p + 3) - 1 = p + 2
    OBVIOUS
  <2> QED BY <2>1, <2>3, <2>4, <2>5, <2>6
<1> QED BY <1>1, <1>2 DEF Prefix

(* Where a start code is seen and the byte before does not begin a long    *)
(* one, a unit begins; where none is seen, none begins.                    *)
LEMMA PrefixBegins ==
    ASSUME NEW p \in Nat, p > 0 => ~LongCode(p - 1)
    PROVE  BeginsNalu(p) <=> Prefix(p)
BY DEF BeginsNalu, Prefix

(* The invariant of the splitter holds before its first test.              *)
LEMMA SplitInvInit == SplitInit => SplitInv
<1> SUFFICES ASSUME SplitInit PROVE SplitInv
  OBVIOUS
<1>1. SplitTypeOK
  BY AnnexBAssumption DEF SplitInit, SplitTypeOK
<1>2. StartsBeforePos /\ StartsAscend /\ FoundBefore /\ NotInsideLong
  BY DEF SplitInit, StartsBeforePos, StartsAscend, FoundBefore, NotInsideLong
<1> QED BY <1>1, <1>2
        DEF SplitInit, SplitInv, ScanInv, Admitted, NothingYet, EveryNaluFound, AcceptedIsTiled

(* The first test admits or refuses, and keeps it.                         *)
LEMMA CheckKeepsSplitInv ==
    ASSUME SplitInv, Refuse \/ Accept
    PROVE  SplitInv'
<1>1. SplitTypeOK'
  BY DEF SplitInv, ScanInv, SplitTypeOK, Refuse, Accept
<1>2. Admitted' /\ NothingYet' /\ (pc = "scan" => FirstAtZero)'
  BY DEF SplitInv, ScanInv, Admitted, NothingYet, FirstAtZero, Refuse, Accept,
         StartsUnit, Prefix, LongCode, ShortCode
<1>3. (pc \in {"check", "scan", "cut"} =>
          StartsBeforePos /\ StartsAscend /\ FoundBefore /\ NotInsideLong)'
  <2>1. pc = "check" /\ UNCHANGED <<len, data, pos, starts>>
    BY DEF Refuse, Accept
  <2>2. StartsBeforePos /\ StartsAscend /\ FoundBefore /\ NotInsideLong
    BY <2>1 DEF SplitInv, ScanInv
  <2>3. StartsBeforePos' /\ StartsAscend'
    BY <2>1, <2>2 DEF StartsBeforePos, StartsAscend
  <2>4. FoundBefore' /\ NotInsideLong'
    BY <2>1, <2>2 DEF FoundBefore, NotInsideLong, BeginsNalu, LongCode, ShortCode
  <2> QED BY <2>3, <2>4
<1>4. EveryNaluFound' /\ AcceptedIsTiled'
  BY DEF EveryNaluFound, AcceptedIsTiled, Refuse, Accept
<1> QED BY <1>1, <1>2, <1>3, <1>4 DEF SplitInv, ScanInv

(* A start code is found: a unit begins at pos, and at no place up to the  *)
(* new pos.                                                                *)
LEMMA FindPrefixKeepsSplitInv ==
    ASSUME SplitInv, FindPrefix
    PROVE  SplitInv'
<1>1. /\ pc = "scan" /\ pc' = "scan" /\ Prefix(pos)
      /\ starts' = Append(starts, pos) /\ pos' = PastPrefix(pos)
      /\ UNCHANGED <<len, data, nalus>>
  BY DEF FindPrefix
<1>2. SplitTypeOK /\ len \in Nat /\ pos \in Nat /\ starts \in Seq(Nat)
  BY DEF SplitInv, ScanInv, SplitTypeOK
<1>3. StartsBeforePos /\ StartsAscend /\ FoundBefore /\ NotInsideLong /\ FirstAtZero
  BY <1>1 DEF SplitInv, ScanInv
<1>4. /\ pos + 3 <= len
      /\ pos' \in Nat /\ pos' >= pos + 3
      /\ \A q \in pos + 1 .. pos' - 1 : ~BeginsNalu(q)
      /\ ~LongCode(pos' - 1)
  BY <1>1, <1>2, InsidePrefix
<1>5. BeginsNalu(pos)
  BY <1>1, <1>2, <1>3, PrefixBegins DEF NotInsideLong
<1>6. /\ Len(starts) \in Nat /\ Len(starts') = Len(starts) + 1
      /\ DOMAIN starts = 1 .. Len(starts) /\ DOMAIN starts' = 1 .. Len(starts')
      /\ \A i \in DOMAIN starts : starts'[i] = starts[i]
      /\ starts'[Len(starts')] = pos
      /\ starts' \in Seq(Nat)
  BY <1>1, <1>2
<1>7. \A i \in DOMAIN starts' : i \in DOMAIN starts \/ i = Len(starts')
  BY <1>6
<1>8. SplitTypeOK'
  BY <1>1, <1>2, <1>4, <1>6 DEF SplitTypeOK
<1>9. Admitted' /\ NothingYet'
  BY <1>1 DEF SplitInv, ScanInv, Admitted, NothingYet, StartsUnit, Prefix, LongCode,
              ShortCode
<1>10. StartsBeforePos'
  <2> SUFFICES ASSUME NEW i \in DOMAIN starts'
               PROVE  starts'[i] + 3 <= pos' /\ starts'[i] + 3 <= len
    BY <1>1 DEF StartsBeforePos
  <2>1. CASE i = Len(starts')
    BY <2>1, <1>2, <1>4, <1>6
  <2>2. CASE i \in DOMAIN starts
    <3>1. starts[i] \in Nat /\ starts'[i] = starts[i] /\ starts[i] + 3 <= pos /\ starts[i] + 3 <= len
      BY <2>2, <1>2, <1>3, <1>6 DEF StartsBeforePos
    <3> QED BY <3>1, <1>2, <1>4
  <2> QED BY <1>7, <2>1, <2>2
<1>11. StartsAscend'
  <2> SUFFICES ASSUME NEW i \in 1 .. Len(starts') - 1
               PROVE  starts'[i] < starts'[i + 1]
    BY DEF StartsAscend
  <2>1. i \in DOMAIN starts /\ starts'[i] = starts[i] /\ starts[i] \in Nat
    <3>1. i \in 1 .. Len(starts)
      BY <1>6
    <3>2. i \in DOMAIN starts
      BY <3>1, <1>6
    <3>3. starts'[i] = starts[i]
      BY <3>2, <1>6
    <3>4. starts[i] \in Nat
      BY <3>1, <1>2
    <3> QED BY <3>2, <3>3, <3>4
  <2>2. CASE i = Len(starts)
    <3>1. starts'[i + 1] = pos
      BY <2>2, <1>6
    <3>2. starts[i] + 3 <= pos
      BY <2>1, <1>3 DEF StartsBeforePos
    <3> QED BY <2>1, <3>1, <3>2, <1>2
  <2>3. CASE i # Len(starts)
    <3>1. i \in 1 .. Len(starts) - 1 /\ i + 1 \in DOMAIN starts
      BY <2>1, <2>3, <1>6
    <3>2. starts[i] < starts[i + 1] /\ starts'[i + 1] = starts[i + 1]
      BY <3>1, <1>3, <1>6 DEF StartsAscend
    <3> QED BY <2>1, <3>2
  <2> QED BY <2>2, <2>3
<1>12. FoundBefore'
  <2> SUFFICES ASSUME NEW p \in 0 .. pos' - 1
               PROVE  BeginsNalu(p) <=> \E i \in DOMAIN starts' : starts'[i] = p
    BY <1>1 DEF FoundBefore, BeginsNalu, LongCode, ShortCode
  <2>1. CASE p \in 0 .. pos - 1
    <3>1. BeginsNalu(p) <=> \E i \in DOMAIN starts : starts[i] = p
      BY <2>1, <1>3 DEF FoundBefore
    <3>2. p # pos
      BY <2>1, <1>2
    <3>3. (\E i \in DOMAIN starts : starts[i] = p) => \E i \in DOMAIN starts' : starts'[i] = p
      <4> SUFFICES ASSUME NEW i \in DOMAIN starts, starts[i] = p
                   PROVE  i \in DOMAIN starts' /\ starts'[i] = p
        OBVIOUS
      <4> QED BY <1>6
    <3>4. (\E i \in DOMAIN starts' : starts'[i] = p) => \E i \in DOMAIN starts : starts[i] = p
      <4> SUFFICES ASSUME NEW i \in DOMAIN starts', starts'[i] = p
                   PROVE  i \in DOMAIN starts /\ starts[i] = p
        OBVIOUS
      <4>1. i # Len(starts')
        BY <3>2, <1>6
      <4> QED BY <4>1, <1>6, <1>7
    <3> QED BY <3>1, <3>3, <3>4
  <2>2. CASE p = pos
    BY <2>2, <1>5, <1>6
  <2>3. CASE p \in pos + 1 .. pos' - 1
    <3>1. \A i \in DOMAIN starts : starts[i] \in Nat /\ starts[i] + 3 <= pos
      BY <1>2, <1>3 DEF StartsBeforePos
    <3>2. \A i \in DOMAIN starts' : starts'[i] # p
      BY <3>1, <2>3, <1>2, <1>6, <1>7
    <3> QED BY <3>2, <2>3, <1>4
  <2>4. p \in 0 .. pos - 1 \/ p = pos \/ p \in pos + 1 .. pos' - 1
    <3>1. pos \in Nat /\ pos' \in Nat
      BY <1>2, <1>4
    <3>2. \A a, b \in Nat : \A q \in 0 .. b - 1 :
            q \in 0 .. a - 1 \/ q = a \/ q \in a + 1 .. b - 1
      OBVIOUS
    <3> QED BY <3>1, <3>2
  <2> QED BY <2>1, <2>2, <2>3, <2>4
<1>13. NotInsideLong'
  BY <1>1, <1>4 DEF NotInsideLong, LongCode
<1>14. FirstAtZero'
  <2>1. starts' # <<>> /\ starts'[1] = 0
    <3>1. CASE starts = <<>>
      BY <3>1, <1>1, <1>3 DEF FirstAtZero
    <3>2. CASE starts # <<>>
      <4>1. 1 \in DOMAIN starts
        BY <3>2, <1>2
      <4> QED BY <4>1, <3>2, <1>1, <1>2, <1>3, <1>6 DEF FirstAtZero
    <3> QED BY <3>1, <3>2
  <2> QED BY <2>1 DEF FirstAtZero
<1>15. EveryNaluFound' /\ AcceptedIsTiled'
  BY <1>1 DEF EveryNaluFound, AcceptedIsTiled
<1> QED BY <1>8, <1>9, <1>10, <1>11, <1>12, <1>13, <1>14, <1>15 DEF SplitInv, ScanInv

(* No start code is at pos: no unit begins there. *)
LEMMA SkipByteKeepsSplitInv ==
    ASSUME SplitInv, SkipByte
    PROVE  SplitInv'
<1>1. /\ pc = "scan" /\ pc' = "scan" /\ ~Prefix(pos) /\ pos + 3 <= len
      /\ pos' = pos + 1
      /\ UNCHANGED <<len, data, starts, nalus>>
  BY DEF SkipByte
<1>2. SplitTypeOK /\ len \in Nat /\ pos \in Nat /\ starts \in Seq(Nat)
  BY DEF SplitInv, ScanInv, SplitTypeOK
<1>3. /\ StartsBeforePos /\ StartsAscend /\ FoundBefore /\ NotInsideLong
      /\ FirstAtZero /\ StartsUnit
  BY <1>1 DEF SplitInv, ScanInv, Admitted
<1>4. SplitTypeOK'
  BY <1>1, <1>2 DEF SplitTypeOK
<1>5. Admitted' /\ NothingYet'
  BY <1>1, <1>3 DEF Admitted, NothingYet, StartsUnit, Prefix, LongCode, ShortCode
<1>6. \A i \in DOMAIN starts : starts[i] \in Nat /\ starts[i] + 3 <= pos
  BY <1>2, <1>3 DEF StartsBeforePos
<1>7. StartsBeforePos'
  BY <1>1, <1>2, <1>3, <1>6 DEF StartsBeforePos
<1>8. StartsAscend'
  BY <1>1, <1>3 DEF StartsAscend
<1>9. FoundBefore'
  <2> SUFFICES ASSUME NEW p \in 0 .. pos
               PROVE  BeginsNalu(p) <=> \E i \in DOMAIN starts : starts[i] = p
    BY <1>1, <1>2 DEF FoundBefore, BeginsNalu, LongCode, ShortCode
  <2>1. CASE p \in 0 .. pos - 1
    BY <2>1, <1>3 DEF FoundBefore
  <2>2. CASE p = pos
    <3>1. ~BeginsNalu(p)
      BY <2>2, <1>1, <1>2, <1>3, PrefixBegins DEF NotInsideLong
    <3>2. \A i \in DOMAIN starts : starts[i] # p
      BY <2>2, <1>2, <1>6
    <3> QED BY <3>1, <3>2
  <2> QED BY <2>1, <2>2, <1>2
<1>10. NotInsideLong'
  <2>1. pos' - 1 = pos
    BY <1>1, <1>2
  <2> QED BY <2>1, <1>1 DEF NotInsideLong, Prefix, LongCode
<1>11. FirstAtZero'
  <2>1. starts # <<>>
    BY <1>1, <1>3 DEF FirstAtZero, StartsUnit
  <2> QED BY <2>1, <1>1, <1>3 DEF FirstAtZero
<1>12. EveryNaluFound' /\ AcceptedIsTiled'
  BY <1>1 DEF EveryNaluFound, AcceptedIsTiled
<1> QED BY <1>1, <1>4, <1>5, <1>7, <1>8, <1>9, <1>10, <1>11, <1>12 DEF SplitInv, ScanInv

(* The scan is over: what it recorded is all there is, the first start is *)
(* at zero, and the ranges between the starts tile the unit.              *)
LEMMA CutKeepsSplitInv ==
    ASSUME SplitInv, Cut
    PROVE  SplitInv'
<1>1. pc = "scan" /\ pos + 3 > len /\ UNCHANGED <<len, data, pos, starts>>
  BY DEF Cut
<1>2. SplitTypeOK /\ len \in Nat /\ pos \in Nat /\ starts \in Seq(Nat)
  BY DEF SplitInv, ScanInv, SplitTypeOK
<1>3. /\ StartsBeforePos /\ StartsAscend /\ FoundBefore /\ NotInsideLong
      /\ FirstAtZero /\ StartsUnit
  BY <1>1 DEF SplitInv, ScanInv, Admitted
<1>4. starts # <<>> /\ starts[1] = 0
  <2>1. len >= 3
    BY <1>2, <1>3 DEF StartsUnit, Prefix, LongCode, ShortCode
  <2> QED BY <2>1, <1>1, <1>2, <1>3 DEF FirstAtZero
<1>5. pc' = "cut" /\ nalus' = [i \in DOMAIN starts |-> [from |-> starts[i], to |-> End(i)]]
  BY <1>4 DEF Cut
<1>6. /\ Len(starts) \in Nat \ {0} /\ DOMAIN starts = 1 .. Len(starts)
      /\ \A i \in DOMAIN starts : starts[i] \in Nat
  BY <1>2, <1>4
<1>7. \A i \in DOMAIN starts : starts[i] + 3 <= pos /\ starts[i] + 3 <= len
  BY <1>3 DEF StartsBeforePos
<1>8. \A i \in DOMAIN starts : End(i) \in Nat /\ starts[i] < End(i)
  <2> SUFFICES ASSUME NEW i \in DOMAIN starts
               PROVE  End(i) \in Nat /\ starts[i] < End(i)
    OBVIOUS
  <2>1. CASE i < Len(starts)
    <3>1. i \in 1 .. Len(starts) - 1 /\ i + 1 \in DOMAIN starts
      BY <2>1, <1>6
    <3>2. starts[i] < starts[i + 1] /\ starts[i + 1] \in Nat
      BY <3>1, <1>3, <1>6 DEF StartsAscend
    <3> QED BY <2>1, <3>2 DEF End
  <2>2. CASE ~(i < Len(starts))
    BY <2>2, <1>2, <1>6, <1>7 DEF End
  <2> QED BY <2>1, <2>2
<1>9. /\ nalus' \in Seq([from : Nat, to : Nat]) /\ Len(nalus') = Len(starts)
      /\ DOMAIN nalus' = DOMAIN starts
      /\ \A i \in DOMAIN starts : nalus'[i].from = starts[i] /\ nalus'[i].to = End(i)
  BY <1>5, <1>6, <1>8
<1>10. SplitTypeOK'
  BY <1>1, <1>2, <1>5, <1>9 DEF SplitTypeOK
<1>11. Admitted' /\ NothingYet' /\ (pc' = "scan" => FirstAtZero')
  BY <1>1, <1>3, <1>5 DEF Admitted, NothingYet, StartsUnit, Prefix, LongCode, ShortCode
<1>12. StartsBeforePos' /\ StartsAscend'
  BY <1>1, <1>3 DEF StartsBeforePos, StartsAscend
<1>13. FoundBefore' /\ NotInsideLong'
  BY <1>1, <1>3 DEF FoundBefore, NotInsideLong, BeginsNalu, LongCode, ShortCode
<1>14. EveryNaluFound'
  <2> SUFFICES ASSUME NEW p \in 0 .. len
               PROVE  BeginsNalu(p) <=> \E i \in DOMAIN nalus' : nalus'[i].from = p
    BY <1>1 DEF EveryNaluFound, BeginsNalu, LongCode, ShortCode
  <2>1. BeginsNalu(p) <=> \E i \in DOMAIN starts : starts[i] = p
    <3>1. CASE p \in 0 .. pos - 1
      BY <3>1, <1>3 DEF FoundBefore
    <3>2. CASE p >= pos
      <4>1. ~BeginsNalu(p)
        BY <3>2, <1>1, <1>2 DEF BeginsNalu, LongCode, ShortCode
      <4>2. \A i \in DOMAIN starts : starts[i] # p
        BY <3>2, <1>2, <1>6, <1>7
      <4> QED BY <4>1, <4>2
    <3> QED BY <3>1, <3>2, <1>2
  <2> QED BY <2>1, <1>9
<1>15. AcceptedIsTiled'
  <2>1. nalus' # <<>> /\ nalus'[1].from = 0 /\ nalus'[Len(nalus')].to = len
    <3>1. 1 \in DOMAIN starts /\ Len(starts) \in DOMAIN starts /\ End(Len(starts)) = len
      BY <1>6 DEF End
    <3> QED BY <3>1, <1>4, <1>9
  <2>2. \A i \in DOMAIN nalus' : nalus'[i].from < nalus'[i].to
    BY <1>8, <1>9
  <2>3. \A i \in 1 .. Len(nalus') - 1 : nalus'[i].to = nalus'[i + 1].from
    <3> SUFFICES ASSUME NEW i \in 1 .. Len(starts) - 1
                 PROVE  nalus'[i].to = nalus'[i + 1].from
      BY <1>9
    <3>1. i \in DOMAIN starts /\ i + 1 \in DOMAIN starts /\ End(i) = starts[i + 1]
      BY <1>6 DEF End
    <3> QED BY <3>1, <1>9
  <2> QED BY <2>1, <2>2, <2>3, <1>1, <1>5 DEF AcceptedIsTiled
<1> QED BY <1>10, <1>11, <1>12, <1>13, <1>14, <1>15 DEF SplitInv, ScanInv

(* It is about the variables alone.                                        *)
LEMMA StutterKeepsSplitInv ==
    ASSUME SplitInv, UNCHANGED splitVars
    PROVE  SplitInv'
<1>1. UNCHANGED <<len, data, pc, pos, starts, nalus>>
  BY DEF splitVars
<1>2. SplitTypeOK' /\ Admitted' /\ NothingYet'
  BY <1>1 DEF SplitInv, ScanInv, SplitTypeOK, Admitted, NothingYet, StartsUnit, Prefix,
              LongCode, ShortCode
<1>3. (pc \in {"check", "scan", "cut"} =>
          StartsBeforePos /\ StartsAscend /\ FoundBefore /\ NotInsideLong)'
  BY <1>1 DEF SplitInv, ScanInv, StartsBeforePos, StartsAscend, FoundBefore,
              NotInsideLong,
              BeginsNalu, LongCode, ShortCode
<1>4. (pc = "scan" => FirstAtZero)'
  BY <1>1 DEF SplitInv, ScanInv, FirstAtZero
<1>5. EveryNaluFound' /\ AcceptedIsTiled'
  BY <1>1 DEF SplitInv, EveryNaluFound, AcceptedIsTiled, BeginsNalu, LongCode, ShortCode
<1> QED BY <1>2, <1>3, <1>4, <1>5 DEF SplitInv, ScanInv

(* It holds in every state of the splitter.                                *)
LEMMA SplitInvHolds == SplitSpec => []SplitInv
<1>1. SplitInv /\ [SplitNext]_splitVars => SplitInv'
  BY CheckKeepsSplitInv, FindPrefixKeepsSplitInv, SkipByteKeepsSplitInv, CutKeepsSplitInv,
     StutterKeepsSplitInv DEF SplitNext
<1> QED BY <1>1, SplitInvInit, PTL DEF SplitSpec

(* The variables of the splitter always have their types. *)
THEOREM AnnexBTypeCorrect == SplitSpec => []SplitTypeOK
<1>1. SplitInv => SplitTypeOK
  BY DEF SplitInv, ScanInv
<1> QED BY <1>1, SplitInvHolds, PTL

(* SplitAnnexBNalus finds every NAL unit of every access unit, and nothing *)
(* that is not one, whatever the bytes and however long the unit.          *)
THEOREM SplitFindsEveryNalu == SplitSpec => []EveryNaluFound
<1>1. SplitInv => EveryNaluFound
  BY DEF SplitInv
<1> QED BY <1>1, SplitInvHolds, PTL

(* What IsAnnexBStartCode admits, SplitAnnexBNalus never refuses, and its  *)
(* ranges tile the access unit.                                            *)
THEOREM AcceptedUnitIsTiled == SplitSpec => []AcceptedIsTiled
<1>1. SplitInv => AcceptedIsTiled
  BY DEF SplitInv
<1> QED BY <1>1, SplitInvHolds, PTL

-----------------------------------------------------------------------------
(***************************************************************************)
(* Numbers: induction by the least number of a set.                        *)
(***************************************************************************)
(* A set of numbers that is not empty has a least one.                     *)
LEMMA LeastNumber ==
    ASSUME NEW T \in SUBSET Nat, T # {}
    PROVE  \E n \in T : \A m \in T : n <= m
<1>1. PICK n \in T : \A m \in T : <<m, n>> \notin OpToRel(<, Nat)
  BY NatLessThanWellFounded, WFMin
<1>2. \A m \in T : m < n => <<m, n>> \in OpToRel(<, Nat)
  BY DEF OpToRel
<1>3. \A m \in T : ~(m < n) BY <1>1, <1>2
<1>4. \A m \in T : m \in Nat /\ n \in Nat OBVIOUS
<1> QED BY <1>3, <1>4

(* If it is bounded it has a greatest one.                                 *)
LEMMA GreatestNumber ==
    ASSUME NEW T \in SUBSET Nat, T # {}, NEW b \in Nat, \A n \in T : n <= b
    PROVE  \E n \in T : \A m \in T : m <= n
<1> DEFINE D == {d \in Nat : b - d \in T}
<1>1. PICK m \in T : TRUE OBVIOUS
<1>2. b - m \in D OBVIOUS
<1>3. PICK d \in D : \A e \in D : d <= e
  <2>1. D \in SUBSET Nat /\ D # {} BY <1>2
  <2> HIDE DEF D
  <2> QED BY <2>1, LeastNumber
<1>4. \A n \in T : b - n \in D /\ d <= b - n BY <1>3
<1> QED BY <1>3, <1>4

-----------------------------------------------------------------------------
(* Where the last EOI marker up to offset i ends; 0 when there is none.    *)
LastEoi(bytes, i) ==
    LET found == {j \in Nat : 2 <= j /\ j <= i /\ EoiBefore(bytes, j)} IN
    IF found = {} THEN 0 ELSE CHOOSE j \in found : \A k \in found : k <= j

(* It is a marker, and none is behind it.                                  *)
LEMMA LastEoiIs ==
    ASSUME NEW bytes, NEW i \in Nat
    PROVE  LET s == LastEoi(bytes, i) IN
           /\ s \in Nat /\ s <= i
           /\ s # 0 => 2 <= s /\ EoiBefore(bytes, s)
           /\ \A j \in Nat : 2 <= j /\ j <= i /\ EoiBefore(bytes, j) => j <= s
<1> DEFINE found == {j \in Nat : 2 <= j /\ j <= i /\ EoiBefore(bytes, j)}
<1>1. CASE found = {} BY <1>1 DEF LastEoi
<1>2. CASE found # {}
  <2>1. \E j \in found : \A k \in found : k <= j BY <1>2, GreatestNumber
  <2>2. /\ LastEoi(bytes, i) \in found
        /\ \A k \in found : k <= LastEoi(bytes, i)
    BY <1>2, <2>1, Zenon DEF LastEoi
  <2> QED BY <2>2
<1> QED BY <1>1, <1>2

(* The scan from the end (FindJpegEffectiveSize) stops at the last marker, *)
(* by the least offset for which it would not.                             *)
LEMMA ScanFindsLast ==
    ASSUME NEW bytes, NEW i \in Nat
    PROVE  EoiScan(bytes)[i] = LastEoi(bytes, i)
<1> DEFINE Turn(f) == [n \in Nat |-> IF n < 2 THEN 0
                                     ELSE IF EoiBefore(bytes, n) THEN SizeUpTo(n)
                                     ELSE f[n - 1]]
           last == [n \in Nat |-> LastEoi(bytes, n)]
           scan == EoiScan(bytes)
<1>1. last = Turn(last)
  <2>1. ASSUME NEW n \in Nat PROVE last[n] = Turn(last)[n]
    <3>1. CASE n < 2 BY <3>1, LastEoiIs
    <3>2. CASE n >= 2 /\ EoiBefore(bytes, n) BY <3>2, LastEoiIs DEF SizeUpTo
    <3>3. CASE n >= 2 /\ ~EoiBefore(bytes, n)
      <4>1. n - 1 \in Nat BY <3>3
      <4>2. \A j \in Nat : j <= n /\ EoiBefore(bytes, j) => j <= n - 1 BY <3>3
      <4> DEFINE a == LastEoi(bytes, n)
                 b == LastEoi(bytes, n - 1)
      <4>3. /\ a \in Nat /\ a <= n /\ (a # 0 => 2 <= a /\ EoiBefore(bytes, a))
            /\ \A j \in Nat : 2 <= j /\ j <= n /\ EoiBefore(bytes, j) => j <= a
        BY LastEoiIs
      <4>4. /\ b \in Nat /\ b <= n - 1 /\ (b # 0 => 2 <= b /\ EoiBefore(bytes, b))
            /\ \A j \in Nat : 2 <= j /\ j <= n - 1 /\ EoiBefore(bytes, j) => j <= b
        BY <4>1, LastEoiIs
      <4> HIDE DEF a, b
      <4>5. a <= b BY <4>2, <4>3, <4>4
      <4>6. b <= a BY <4>1, <4>3, <4>4
      <4>7. a = b BY <4>3, <4>4, <4>5, <4>6
      <4> QED BY <3>3, <4>1, <4>7 DEF a, b
    <3> QED BY <3>1, <3>2, <3>3
  <2> QED BY <2>1
<1>2. scan = Turn(scan)
  <2>1. scan = CHOOSE f : f = Turn(f) BY DEF EoiScan
  <2>2. \E f : f = Turn(f) BY <1>1
  <2> HIDE DEF scan, Turn
  <2> QED BY <2>1, <2>2, Zenon
<1>3. \A n \in Nat : scan[n] = IF n < 2 THEN 0 ELSE IF EoiBefore(bytes, n) THEN n
                               ELSE scan[n - 1]
  BY <1>2 DEF SizeUpTo
<1>4. \A n \in Nat : last[n] = IF n < 2 THEN 0 ELSE IF EoiBefore(bytes, n) THEN n
                               ELSE last[n - 1]
  BY <1>1 DEF SizeUpTo
<1> DEFINE wrong == {n \in Nat : scan[n] # last[n]}
<1>5. wrong = {}
  <2>1. SUFFICES ASSUME wrong # {} PROVE FALSE OBVIOUS
  <2>2. PICK n \in wrong : \A m \in wrong : n <= m BY <2>1, LeastNumber
  <2> HIDE DEF scan, last
  <2>3. n >= 2 BY <1>3, <1>4
  <2>4. n - 1 \in Nat /\ n - 1 \notin wrong BY <2>2, <2>3
  <2>5. scan[n - 1] = last[n - 1] BY <2>4
  <2> QED BY <1>3, <1>4, <2>3, <2>5
<1> QED BY <1>5

(* Whatever bytes a camera frame has, the size computed for it ends at the *)
(* last EOI marker.                                                        *)
THEOREM EndsAtLastEoiHolds ==
    ASSUME NEW bytes, NEW length \in Nat PROVE EndsAtLastEoi(bytes, length)
<1> DEFINE size == FindJpegEffectiveSize(bytes, length)
<1>1. CASE Short(length) BY <1>1 DEF EndsAtLastEoi, FindJpegEffectiveSize
<1>2. CASE ~Short(length)
  <2>1. size = LastEoi(bytes, length) BY <1>2, ScanFindsLast DEF FindJpegEffectiveSize
  <2>2. /\ size \in Nat /\ size <= length /\ (size # 0 => 2 <= size /\ EoiBefore(bytes, size))
        /\ \A j \in Nat : 2 <= j /\ j <= length /\ EoiBefore(bytes, j) => j <= size
    BY <2>1, LastEoiIs
  <2> HIDE DEF size
  <2> QED BY <2>2 DEF EndsAtLastEoi, size
<1> QED BY <1>1, <1>2

-----------------------------------------------------------------------------
(* Induction in the form of sets: a set that has 0 and with a number the   *)
(* next one has them all.                                                  *)
LEMMA Induction ==
    ASSUME NEW T, 0 \in T, \A n \in Nat : n \in T => n + 1 \in T
    PROVE  Nat \subseteq T
<1> DEFINE missing == {n \in Nat : n \notin T}
<1>1. SUFFICES ASSUME missing # {} PROVE FALSE OBVIOUS
<1>2. PICK n \in missing : \A m \in missing : n <= m BY <1>1, LeastNumber
<1>3. n # 0 /\ n - 1 \in Nat /\ n - 1 \notin missing BY <1>2
<1>4. n - 1 \in T BY <1>3
<1> QED BY <1>2, <1>3, <1>4

(* What the first n steps compute.                                         *)
Runs(S, first, step, n) ==
    {g \in [0 .. n -> S] : /\ g[0] = first
                           /\ \A k \in 0 .. n - 1 : g[k + 1] = step[<<k, g[k]>>]}

(* A function is defined by its first value and a step to the next one.    *)
Defines(S, first, step) ==
    \E f \in [Nat -> S] : /\ f[0] = first
                          /\ \A n \in Nat : f[n + 1] = step[<<n, f[n]>>]

(* First value and step define one on all numbers.                         *)
LEMMA Recursion ==
    ASSUME NEW S, NEW first \in S, NEW step \in [Nat \X S -> S]
    PROVE  Defines(S, first, step)
<1> DEFINE R(n) == Runs(S, first, step, n)
<1>1. \A n \in Nat : \A g \in R(n) : g[0] = first /\ g[n] \in S
  BY DEF Runs
<1>2. \A n \in Nat : \A g \in R(n + 1) : g[n + 1] = step[<<n, g[n]>>]
  BY DEF Runs
<1>3. \A n \in Nat, m \in Nat : n <= m => \A g \in R(m) : [k \in 0 .. n |-> g[k]] \in R(n)
  BY DEF Runs
<1>4. \A n \in Nat : R(n) # {}
  <2> DEFINE T == {n \in Nat : R(n) # {}}
  <2>1. 0 \in T
    <3>1. [k \in 0 .. 0 |-> first] \in R(0) BY DEF Runs
    <3> QED BY <3>1
  <2>2. ASSUME NEW n \in Nat, n \in T PROVE n + 1 \in T
    <3>1. PICK g \in R(n) : TRUE BY <2>2
    <3> DEFINE h == [k \in 0 .. n + 1 |-> IF k <= n THEN g[k] ELSE step[<<n, g[n]>>]]
    <3>2. /\ g \in [0 .. n -> S] /\ g[0] = first
          /\ \A k \in 0 .. n - 1 : g[k + 1] = step[<<k, g[k]>>]
      BY <3>1 DEF Runs
    <3>3. step[<<n, g[n]>>] \in S BY <3>2
    <3>4. h \in [0 .. n + 1 -> S] BY <3>2, <3>3
    <3>5. h[0] = first BY <3>2
    <3>6. ASSUME NEW k \in 0 .. (n + 1) - 1 PROVE h[k + 1] = step[<<k, h[k]>>]
      <4>1. CASE k = n BY <4>1
      <4>2. CASE k < n
        <5>1. k \in 0 .. n - 1 /\ k + 1 \in 0 .. n BY <4>2
        <5> QED BY <3>2, <5>1
      <4> QED BY <4>1, <4>2
    <3> HIDE DEF h
    <3>7. h \in R(n + 1) BY <3>4, <3>5, <3>6 DEF Runs
    <3> QED BY <3>7
  <2> HIDE DEF T
  <2>3. Nat \subseteq T BY <2>1, <2>2, Induction
  <2> QED BY <2>3 DEF T
<1>5. ASSUME NEW n \in Nat, NEW g \in R(n), NEW h \in R(n) PROVE g = h
  <2> DEFINE T == {k \in Nat : k <= n => g[k] = h[k]}
  <2>1. /\ g \in [0 .. n -> S] /\ g[0] = first
        /\ \A k \in 0 .. n - 1 : g[k + 1] = step[<<k, g[k]>>]
        /\ h \in [0 .. n -> S] /\ h[0] = first
        /\ \A k \in 0 .. n - 1 : h[k + 1] = step[<<k, h[k]>>]
    BY DEF Runs
  <2>2. 0 \in T BY <2>1
  <2>3. \A k \in Nat : k \in T => k + 1 \in T
    <3>1. ASSUME NEW k \in Nat, k \in T, k + 1 <= n PROVE g[k + 1] = h[k + 1]
      <4>1. k \in 0 .. n - 1 /\ g[k] = h[k] BY <3>1
      <4> QED BY <2>1, <4>1
    <3> QED BY <3>1
  <2> HIDE DEF T
  <2>4. Nat \subseteq T BY <2>2, <2>3, Induction
  <2>5. \A k \in 0 .. n : g[k] = h[k] BY <2>4 DEF T
  <2> QED BY <2>1, <2>5
<1> DEFINE run(n) == CHOOSE g \in R(n) : TRUE
           f == [n \in Nat |-> run(n)[n]]
<1>6. \A n \in Nat : run(n) \in R(n) BY <1>4
<1> HIDE DEF run
<1>7. f \in [Nat -> S] BY <1>1, <1>6
<1>8. f[0] = first BY <1>1, <1>6
<1>9. ASSUME NEW n \in Nat PROVE f[n + 1] = step[<<n, f[n]>>]
  <2> DEFINE cut == [k \in 0 .. n |-> run(n + 1)[k]]
  <2>1. cut \in R(n) BY <1>3, <1>6
  <2>2. cut = run(n) BY <1>5, <1>6, <2>1
  <2>3. cut[n] = run(n + 1)[n] OBVIOUS
  <2>4. run(n + 1)[n + 1] = step[<<n, run(n + 1)[n]>>] BY <1>2, <1>6
  <2> HIDE DEF cut
  <2>5. run(n + 1)[n + 1] = step[<<n, run(n)[n]>>] BY <2>2, <2>3, <2>4
  <2> QED BY <2>5
<1> QED BY <1>7, <1>8, <1>9 DEF Defines

(* The pieces of an escaped text, of characters of a set closed under it.  *)
LEMMA EscapedUpToIs ==
    ASSUME NEW Char, \A c \in Char : Escaped(c) \in Seq(Char),
           NEW text \in Seq(Char)
    PROVE  LET out == EscapedUpTo(text) IN
           /\ out[0] = <<>>
           /\ \A i \in Nat : i <= Len(text) => out[i] \in Seq(Char)
           /\ \A i \in Nat : i + 1 <= Len(text) =>
                 out[i + 1] = out[i] \o Escaped(text[i + 1])
<1> DEFINE S == Seq(Char)
           step == [p \in Nat \X S |->
                       IF p[1] + 1 <= Len(text) THEN p[2] \o Escaped(text[p[1] + 1])
                       ELSE p[2]]
           Turn(f) == [i \in 0 .. Len(text) |->
                          IF i = 0 THEN <<>> ELSE f[i - 1] \o Escaped(text[i])]
           out == EscapedUpTo(text)
<1>1. step \in [Nat \X S -> S]
  <2>1. ASSUME NEW p \in Nat \X Seq(Char), p[1] + 1 <= Len(text)
        PROVE  p[2] \o Escaped(text[p[1] + 1]) \in Seq(Char)
    <3>1. text[p[1] + 1] \in Char BY <2>1
    <3>2. Escaped(text[p[1] + 1]) \in Seq(Char) BY <3>1
    <3> QED BY <3>2
  <2> QED BY <2>1
<1>2. Len(text) \in Nat /\ <<>> \in S OBVIOUS
<1>3. PICK g \in [Nat -> S] : /\ g[0] = <<>>
                              /\ \A n \in Nat : g[n + 1] = step[<<n, g[n]>>]
  <2> HIDE DEF S, step
  <2>1. Defines(S, <<>>, step) BY <1>1, <1>2, Recursion
  <2> QED BY <2>1 DEF Defines
<1> DEFINE f == [i \in 0 .. Len(text) |-> g[i]]
<1>4. ASSUME NEW i \in Nat, i + 1 <= Len(text)
      PROVE  g[i + 1] = g[i] \o Escaped(text[i + 1])
  <2> HIDE DEF S
  <2>1. <<i, g[i]>> \in Nat \X S BY <1>3
  <2> QED BY <1>3, <1>4, <2>1
<1>5. f = Turn(f)
  <2>1. ASSUME NEW i \in 0 .. Len(text) PROVE f[i] = Turn(f)[i]
    <3>1. CASE i = 0 BY <1>3, <3>1
    <3>2. CASE i # 0
      <4>1. i - 1 \in Nat /\ i - 1 \in 0 .. Len(text) /\ (i - 1) + 1 = i /\ i <= Len(text)
        BY <3>2, <1>2
      <4>2. g[(i - 1) + 1] = g[i - 1] \o Escaped(text[(i - 1) + 1]) BY <1>4, <4>1
      <4>3. g[i] = g[i - 1] \o Escaped(text[i]) BY <4>1, <4>2
      <4> QED BY <3>2, <4>1, <4>3
    <3> QED BY <3>1, <3>2
  <2> QED BY <2>1
<1>6. out = Turn(out)
  <2>1. out = CHOOSE h : h = Turn(h) BY DEF EscapedUpTo
  <2>2. \E h : h = Turn(h) BY <1>5
  <2> HIDE DEF out, Turn
  <2> QED BY <2>1, <2>2, Zenon
<1> HIDE DEF out
<1>7. out[0] = <<>>
  <2>1. 0 \in 0 .. Len(text) BY <1>2
  <2> QED BY <1>6, <2>1
<1>8. ASSUME NEW i \in Nat, i + 1 <= Len(text)
      PROVE  out[i + 1] = out[i] \o Escaped(text[i + 1])
  <2>1. i + 1 \in 0 .. Len(text) /\ i + 1 # 0 /\ (i + 1) - 1 = i BY <1>2, <1>8
  <2>2. out[i + 1] = Turn(out)[i + 1] BY <1>6, Zenon
  <2> QED BY <2>1, <2>2
<1> DEFINE T == {i \in Nat : i <= Len(text) => out[i] \in Seq(Char)}
<1>9. 0 \in T BY <1>2, <1>7
<1>10. ASSUME NEW i \in Nat, i \in T PROVE i + 1 \in T
  <2>1. CASE i + 1 <= Len(text)
    <3>1. out[i] \in Seq(Char) BY <1>2, <1>10, <2>1
    <3>2. text[i + 1] \in Char BY <2>1
    <3>3. Escaped(text[i + 1]) \in Seq(Char) BY <3>2
    <3>4. out[i] \o Escaped(text[i + 1]) \in Seq(Char) BY <3>1, <3>3
    <3>5. out[i + 1] \in Seq(Char) BY <1>8, <1>10, <2>1, <3>4
    <3> QED BY <1>10, <3>5
  <2> QED BY <2>1
<1>11. Nat \subseteq T
  <2> HIDE DEF T
  <2> QED BY <1>9, <1>10, Induction
<1>12. \A i \in Nat : i <= Len(text) => out[i] \in Seq(Char) BY <1>11
<1> QED BY <1>7, <1>8, <1>12 DEF out

(* The states of the reader, step by step.                                 *)
LEMMA ReadUpToIs ==
    ASSUME NEW Char, NEW json \in Seq(Char)
    PROVE  LET state == ReadUpTo(json) IN
           /\ state[0] = Start
           /\ \A i \in Nat : i + 1 <= Len(json) =>
                 state[i + 1] = ReadCharacter(state[i], json[i + 1])
<1> DEFINE Wide == Char \union {Meaning(c) : c \in Char}
           S == [read : Seq(Wide), at : {"text", "escape", "closed"}]
           step == [p \in Nat \X S |-> IF p[1] + 1 <= Len(json)
                                       THEN ReadCharacter(p[2], json[p[1] + 1]) ELSE p[2]]
           Turn(f) == [i \in 0 .. Len(json) |->
                          IF i = 0 THEN Start ELSE ReadCharacter(f[i - 1], json[i])]
           state == ReadUpTo(json)
<1>1. step \in [Nat \X S -> S]
  <2>1. ASSUME NEW s \in S, NEW c \in Char PROVE ReadCharacter(s, c) \in S
    <3>1. c \in Wide /\ Meaning(c) \in Wide OBVIOUS
    <3> HIDE DEF Wide
    <3>2. /\ Append(s.read, c) \in Seq(Wide) /\ Append(s.read, Meaning(c)) \in Seq(Wide)
          /\ s.read \in Seq(Wide) /\ s.at \in {"text", "escape", "closed"}
      BY <3>1
    <3> QED BY <3>2 DEF ReadCharacter, Reader
  <2>2. ASSUME NEW p \in Nat \X S, p[1] + 1 <= Len(json)
        PROVE  ReadCharacter(p[2], json[p[1] + 1]) \in S
    <3> HIDE DEF S
    <3>1. json[p[1] + 1] \in Char /\ p[2] \in S BY <2>2
    <3> QED BY <2>1, <3>1
  <2> HIDE DEF S
  <2> QED BY <2>2
<1>2. Start \in S BY DEF Start, Reader
<1>3. Len(json) \in Nat OBVIOUS
<1>4. PICK g \in [Nat -> S] : /\ g[0] = Start
                              /\ \A n \in Nat : g[n + 1] = step[<<n, g[n]>>]
  <2> HIDE DEF S, step
  <2>1. Defines(S, Start, step) BY <1>1, <1>2, Recursion
  <2> QED BY <2>1 DEF Defines
<1> DEFINE f == [i \in 0 .. Len(json) |-> g[i]]
<1> HIDE DEF S
<1>5. ASSUME NEW i \in Nat, i + 1 <= Len(json)
      PROVE  g[i + 1] = ReadCharacter(g[i], json[i + 1])
  <2>1. <<i, g[i]>> \in Nat \X S BY <1>4
  <2> QED BY <1>4, <1>5, <2>1
<1>6. f = Turn(f)
  <2>1. ASSUME NEW i \in 0 .. Len(json) PROVE f[i] = Turn(f)[i]
    <3>1. CASE i = 0 BY <1>4, <3>1
    <3>2. CASE i # 0
      <4>1. i - 1 \in Nat /\ i - 1 \in 0 .. Len(json) /\ (i - 1) + 1 = i /\ i <= Len(json)
        BY <3>2, <1>3
      <4>2. g[(i - 1) + 1] = ReadCharacter(g[i - 1], json[(i - 1) + 1]) BY <1>5, <4>1
      <4>3. g[i] = ReadCharacter(g[i - 1], json[i]) BY <4>1, <4>2
      <4>4. f[i - 1] = g[i - 1] BY <4>1
      <4> QED BY <3>2, <4>3, <4>4
    <3> QED BY <3>1, <3>2
  <2> QED BY <2>1
<1>7. state = Turn(state)
  <2>1. state = CHOOSE h : h = Turn(h) BY DEF ReadUpTo
  <2>2. \E h : h = Turn(h) BY <1>6
  <2> HIDE DEF state, Turn
  <2> QED BY <2>1, <2>2, Zenon
<1> HIDE DEF state
<1>8. state[0] = Start
  <2>1. 0 \in 0 .. Len(json) BY <1>3
  <2> QED BY <1>7, <2>1
<1>9. ASSUME NEW i \in Nat, i + 1 <= Len(json)
      PROVE  state[i + 1] = ReadCharacter(state[i], json[i + 1])
  <2>1. i + 1 \in 0 .. Len(json) /\ i + 1 # 0 /\ (i + 1) - 1 = i BY <1>3, <1>9
  <2>2. state[i + 1] = Turn(state)[i + 1] BY <1>7, Zenon
  <2> QED BY <2>1, <2>2
<1> QED BY <1>8, <1>9 DEF state

(* What a letter behind a backslash means is the character it stands for.  *)
LEMMA LetterMeans ==
    /\ DOMAIN Letter = {"quote", "backslash", "backspace", "formfeed", "newline", "return",
                        "tab"}
    /\ \A c \in DOMAIN Letter : Meaning(Letter[c]) = c
<1>1. DOMAIN Letter = {"quote", "backslash", "backspace", "formfeed", "newline", "return",
                       "tab"}
  BY DEF Letter
<1>2. \A c, d \in DOMAIN Letter : Letter[c] = Letter[d] => c = d BY DEF Letter
<1>3. \A c \in DOMAIN Letter :
         Meaning(Letter[c]) \in DOMAIN Letter /\ Letter[Meaning(Letter[c])] = Letter[c]
  <2>1. TAKE c \in DOMAIN Letter
  <2>2. \E d \in DOMAIN Letter : Letter[d] = Letter[c] OBVIOUS
  <2> QED BY <2>2, Zenon DEF Meaning
<1> QED BY <1>1, <1>2, <1>3

(* What the reader makes of one escaped character, between two of them.    *)
LEMMA OneCharacter ==
    ASSUME NEW c, NEW read
    PROVE  LET after == Reader(Append(read, Shown(c)), "text") IN
           /\ c \in DOMAIN Letter =>
                 ReadCharacter(ReadCharacter(Reader(read, "text"), "backslash"), Letter[c])
                    = after
           /\ c = "control" => ReadCharacter(Reader(read, "text"), "?") = after
           /\ c \notin DOMAIN Letter /\ c # "control" =>
                 ReadCharacter(Reader(read, "text"), c) = after
<1>1. \A r, at : Reader(r, at).read = r /\ Reader(r, at).at = at BY DEF Reader
<1>2. ASSUME c \in DOMAIN Letter
      PROVE  ReadCharacter(ReadCharacter(Reader(read, "text"), "backslash"), Letter[c])
                = Reader(Append(read, Shown(c)), "text")
  <2>1. Meaning(Letter[c]) = c /\ c # "control" BY <1>2, LetterMeans
  <2>2. ReadCharacter(Reader(read, "text"), "backslash") = Reader(read, "escape")
    BY <1>1 DEF ReadCharacter
  <2>3. ReadCharacter(Reader(read, "escape"), Letter[c])
           = Reader(Append(read, Meaning(Letter[c])), "text")
    BY <1>1 DEF ReadCharacter
  <2> QED BY <2>1, <2>2, <2>3 DEF Shown
<1>3. c = "control" =>
         ReadCharacter(Reader(read, "text"), "?") = Reader(Append(read, Shown(c)), "text")
  BY <1>1 DEF ReadCharacter, Shown
<1>4. c \notin DOMAIN Letter /\ c # "control" =>
         ReadCharacter(Reader(read, "text"), c) = Reader(Append(read, Shown(c)), "text")
  <2>1. c \notin DOMAIN Letter => c # "quote" /\ c # "backslash" BY LetterMeans
  <2> QED BY <1>1, <2>1 DEF ReadCharacter, Shown
<1> QED BY <1>2, <1>3, <1>4

(* A character is escaped by one or two.                                   *)
LEMMA EscapedIs ==
    ASSUME NEW c
    PROVE  /\ c \in DOMAIN Letter => Escaped(c) = <<"backslash", Letter[c]>>
           /\ c = "control" => Escaped(c) = <<"?">>
           /\ c \notin DOMAIN Letter /\ c # "control" => Escaped(c) = <<c>>
<1>1. "control" \notin DOMAIN Letter BY LetterMeans
<1> QED BY <1>1 DEF Escaped

(* u is s followed by t, element by element.                               *)
Joined(s, t, u) ==
    /\ Len(s) \in Nat /\ Len(t) \in Nat /\ Len(u) \in Nat
    /\ Len(u) = Len(s) + Len(t) /\ Len(s) <= Len(u)
    /\ \A k \in Nat : 1 <= k /\ k <= Len(s) => u[k] = s[k]
    /\ \A k \in Nat : 1 <= k /\ k <= Len(t) => u[Len(s) + k] = t[k]

(* So it is when it is put together of them.                               *)
LEMMA Concatenation ==
    ASSUME NEW S, NEW s \in Seq(S), NEW t \in Seq(S)
    PROVE  Joined(s, t, s \o t)
BY DEF Joined

(* What the browser reads from the JSON response is the text that was put  *)
(* in (JsonEscape), for texts of every length over any characters.         *)
THEOREM ReadsBackHolds == ASSUME NEW Text, NEW text \in Seq(Text) PROVE ReadsBack(text)
<1> DEFINE Char == Text \union {"backslash", "?"} \union {Letter[c] : c \in DOMAIN Letter}
           N == Len(text)
           out == EscapedUpTo(text)
           json == JsonEscape(text)
           state == ReadUpTo(json)
           shown(i) == [k \in 1 .. i |-> Shown(text[k])]
<1>1. \A c \in Char : Escaped(c) \in Seq(Char)
  <2>1. TAKE c \in Char
  <2>2. {"backslash", "?", c} \subseteq Char /\ (c \in DOMAIN Letter => Letter[c] \in Char)
    OBVIOUS
  <2> HIDE DEF Char
  <2>3. \A x, y \in Char : <<x>> \in Seq(Char) /\ <<x, y>> \in Seq(Char) OBVIOUS
  <2>4. CASE c \in DOMAIN Letter
    <3>1. "backslash" \in Char /\ Letter[c] \in Char BY <2>2, <2>4
    <3> QED BY <2>3, <2>4, <3>1, EscapedIs
  <2>5. CASE c \notin DOMAIN Letter
    <3>1. "?" \in Char /\ c \in Char BY <2>2
    <3> QED BY <2>3, <2>5, <3>1, EscapedIs
  <2> QED BY <2>4, <2>5
<1>2. text \in Seq(Char) /\ N \in Nat
  <2>1. Text \subseteq Char OBVIOUS
  <2> HIDE DEF Char
  <2> QED BY <2>1
<1> HIDE DEF Char
<1>3. /\ out[0] = <<>>
      /\ \A i \in Nat : i <= N => out[i] \in Seq(Char)
      /\ \A i \in Nat : i + 1 <= N => out[i + 1] = out[i] \o Escaped(text[i + 1])
  BY <1>1, <1>2, EscapedUpToIs
<1>4. json = out[N] BY DEF JsonEscape
<1> HIDE DEF out, json
<1>5. json \in Seq(Char) /\ Len(json) \in Nat BY <1>2, <1>3, <1>4
<1>6. /\ state[0] = Start
      /\ \A i \in Nat : i + 1 <= Len(json) =>
            state[i + 1] = ReadCharacter(state[i], json[i + 1])
  BY <1>5, ReadUpToIs
<1> HIDE DEF state
<1> DEFINE Part(i) == /\ Len(out[i]) <= Len(json)
                      /\ \A k \in Nat : 1 <= k /\ k <= Len(out[i]) => out[i][k] = json[k]
<1>7. \A i \in Nat : i <= N => Part(i)
  <2> DEFINE T == {d \in Nat : d <= N => Part(N - d)}
  <2>1. 0 \in T BY <1>2, <1>4, <1>5
  <2>2. ASSUME NEW d \in Nat, d \in T, d + 1 <= N PROVE Part(N - (d + 1))
    <3> DEFINE i == N - (d + 1)
    <3>1. i \in Nat /\ i + 1 <= N /\ i <= N /\ i + 1 = N - d BY <1>2, <2>2
    <3>2. Part(i + 1) BY <2>2, <3>1
    <3> HIDE DEF i
    <3>3. text[i + 1] \in Char BY <1>2, <3>1
    <3>4. out[i] \in Seq(Char) /\ Escaped(text[i + 1]) \in Seq(Char)
      BY <1>1, <1>3, <3>1, <3>3
    <3>5. out[i + 1] = out[i] \o Escaped(text[i + 1]) BY <1>3, <3>1
    <3>6. /\ Len(out[i]) <= Len(out[i + 1])
          /\ \A k \in Nat : 1 <= k /\ k <= Len(out[i]) => out[i + 1][k] = out[i][k]
          /\ Len(out[i]) \in Nat /\ Len(out[i + 1]) \in Nat
      <4>1. Joined(out[i], Escaped(text[i + 1]), out[i + 1])
        BY <3>4, <3>5, Concatenation
      <4> QED BY <4>1, Zenon DEF Joined
    <3>7. Part(i) BY <1>5, <3>2, <3>6
    <3> QED BY <3>7 DEF i
  <2>3. ASSUME NEW d \in Nat, d \in T PROVE d + 1 \in T
    <3> HIDE DEF Part
    <3> QED BY <2>2, <2>3
  <2>4. Nat \subseteq T
    <3> HIDE DEF T
    <3> QED BY <2>1, <2>3, Induction
  <2>5. ASSUME NEW i \in Nat, i <= N PROVE Part(i)
    <3>1. N - i \in Nat /\ N - i <= N /\ N - (N - i) = i BY <1>2, <2>5
    <3>2. N - i \in T BY <2>4, <3>1
    <3> HIDE DEF Part
    <3> QED BY <3>1, <3>2
  <2> QED BY <2>5
<1> HIDE DEF Part
<1> DEFINE Good(i) == state[Len(out[i])] = Reader(shown(i), "text")
           T == {i \in Nat : i <= N => Good(i)}
<1>8. 0 \in T
  <2>1. shown(0) = <<>> OBVIOUS
  <2>2. Len(out[0]) = 0 BY <1>3
  <2> HIDE DEF shown
  <2> QED BY <1>6, <2>1, <2>2 DEF Start
<1>9. ASSUME NEW i \in Nat, i \in T, i + 1 <= N PROVE Good(i + 1)
  <2> DEFINE c == text[i + 1]
             L == Len(out[i])
  <2>1. i <= N /\ Good(i) BY <1>2, <1>9
  <2>2. c \in Char BY <1>2, <1>9
  <2>3. out[i] \in Seq(Char) /\ out[i + 1] = out[i] \o Escaped(c) /\ Part(i + 1)
    <3>1. Part(i + 1) BY <1>7, <1>9
    <3> QED BY <1>3, <1>9, <2>1, <3>1
  <2>4. L \in Nat BY <2>3
  <2>5. shown(i + 1) = Append(shown(i), Shown(c))
    OBVIOUS
  <2> HIDE DEF c, shown
  <2>6. CASE c \in DOMAIN Letter
    <3>1. Escaped(c) = <<"backslash", Letter[c]>> BY <2>6, EscapedIs
    <3>2. /\ Len(out[i + 1]) = L + 2
          /\ out[i + 1][L + 1] = "backslash" /\ out[i + 1][L + 2] = Letter[c]
      <4>1. Escaped(c) \in Seq(Char) BY <1>1, <2>2
      <4>2. /\ Len(Escaped(c)) = 2
            /\ Escaped(c)[1] = "backslash" /\ Escaped(c)[2] = Letter[c]
        BY <3>1
      <4>3. Joined(out[i], Escaped(c), out[i + 1]) BY <2>3, <4>1, Concatenation
      <4> QED BY <2>4, <4>2, <4>3 DEF Joined
    <3>3. L + 2 <= Len(json) /\ json[L + 1] = "backslash" /\ json[L + 2] = Letter[c]
      <4>1. L + 1 \in Nat /\ 1 <= L + 1 /\ L + 1 <= Len(out[i + 1])
        BY <2>4, <3>2
      <4>2. L + 2 \in Nat /\ 1 <= L + 2 /\ L + 2 <= Len(out[i + 1])
        BY <2>4, <3>2
      <4> QED BY <2>3, <3>2, <4>1, <4>2 DEF Part
    <3>4. state[L + 1] = ReadCharacter(state[L], "backslash")
      BY <1>5, <1>6, <2>4, <3>3
    <3>5. state[(L + 1) + 1] = ReadCharacter(state[L + 1], json[(L + 1) + 1])
      BY <1>5, <1>6, <2>4, <3>3
    <3>6. state[L + 2] = ReadCharacter(state[L + 1], Letter[c])
      BY <2>4, <3>3, <3>5
    <3> QED BY <2>1, <2>5, <2>6, <3>2, <3>4, <3>6, OneCharacter
  <2>7. CASE c \notin DOMAIN Letter
    <3> DEFINE e == IF c = "control" THEN "?" ELSE c
    <3>1. Escaped(c) = <<e>> BY <2>7, EscapedIs
    <3>2. ReadCharacter(Reader(shown(i), "text"), e) = Reader(shown(i + 1), "text")
      BY <2>5, <2>7, OneCharacter
    <3> HIDE DEF e
    <3>3. Len(out[i + 1]) = L + 1 /\ out[i + 1][L + 1] = e BY <2>3, <3>1
    <3>4. L + 1 <= Len(json) /\ json[L + 1] = e BY <2>3, <2>4, <3>3 DEF Part
    <3>5. state[L + 1] = ReadCharacter(state[L], e) BY <1>5, <1>6, <2>4, <3>4
    <3> QED BY <2>1, <3>2, <3>3, <3>5
  <2> QED BY <2>6, <2>7
<1>10. Nat \subseteq T
  <2>1. \A i \in Nat : i \in T => i + 1 \in T BY <1>9
  <2> HIDE DEF T
  <2> QED BY <1>8, <2>1, Induction
<1>11. Good(N) BY <1>2, <1>10
<1>12. shown(N) = [i \in DOMAIN text |-> Shown(text[i])]
  BY <1>2
<1> HIDE DEF shown
<1>13. ReadUpTo(JsonEscape(text))[Len(JsonEscape(text))]
          = Reader([i \in DOMAIN text |-> Shown(text[i])], "text")
  BY <1>4, <1>11, <1>12 DEF json, state
<1> QED BY <1>13 DEF ReadsBack

-----------------------------------------------------------------------------
(* What is left of a camera frame ends at its last EOI marker.             *)
THEOREM PaddingDroppedHolds == SplitSpec => []PaddingDropped
<1>1. SplitTypeOK => PaddingDropped
  BY EndsAtLastEoiHolds DEF SplitTypeOK, PaddingDropped
<1> QED BY <1>1, AnnexBTypeCorrect, PTL

(* A response reads back as the text it was made of.                       *)
THEOREM ResponseReadsBackHolds == SplitSpec => []ResponseReadsBack
<1>1. ASSUME SplitTypeOK PROVE ResponseReadsBack
  <2> DEFINE text == [i \in 1 .. len |-> Character(data[i - 1])]
             Text == {text[i] : i \in 1 .. len}
  <2>1. len \in Nat /\ text \in [1 .. len -> Text] BY <1>1 DEF SplitTypeOK
  <2> HIDE DEF text, Text
  <2>2. text \in Seq(Text) BY <2>1
  <2>3. ReadsBack(text) BY <2>2, ReadsBackHolds
  <2> QED BY <2>3 DEF ResponseReadsBack, text
<1> QED BY <1>1, AnnexBTypeCorrect, PTL
=============================================================================
