------------------------- MODULE EncodeOutputProofs -------------------------
(***************************************************************************)
(* What holds of EncodeOutput for every number of frames and of partitions *)
(* of a frame: the units given to the publisher are whole and in order,    *)
(* and what a poll does not miss is delivered.                             *)
(***************************************************************************)
EXTENDS EncodeOutput, QueueLemmas

USE OutputAssumption DEF OutputAssumption

-----------------------------------------------------------------------------
(* The stream of packets                                                    *)

Packet == [frame : Nat, part : Nat \ {0}, last : BOOLEAN, empty : BOOLEAN]

Types ==
    /\ accepted \in Nat /\ parts \in Nat
    /\ backlog \in Seq(Nat)
    /\ packets \in Seq(Packet) /\ pendingAu \in Seq(Packet)
    /\ sent \in Seq(Seq(Packet))
    /\ outPc \in {"flags", "get", "none", "exited", "failed"}
    /\ stopNow \in BOOLEAN /\ inputDoneNow \in BOOLEAN
    /\ stop \in BOOLEAN /\ inputDone \in BOOLEAN /\ missed \in BOOLEAN

(* Part n of frame f comes after the packet p. *)
Follows(f, n, p) ==
    IF p.last THEN f = p.frame + 1 /\ n = 1
              ELSE f = p.frame /\ n = p.part + 1

(* The frame the encoder is at; its next packet is part parts + 1 of it. *)
Encoding == accepted - Len(backlog) + 1

(* The packets are the partitions of one frame after the other, an empty    *)
(* one alone its frame, and the encoder goes on where they end.             *)
StreamInv ==
    /\ Encoding >= 1
    /\ \A i \in 1 .. Len(backlog) : backlog[i] = Encoding - 1 + i
    /\ parts > 0 => backlog # <<>>
    /\ \A i \in 1 .. Len(packets) :
          /\ packets[i].frame >= 1
          /\ packets[i].empty => /\ packets[i].last /\ packets[i].part = 1
                                 /\ packets[i].frame \in skipped
    /\ \A i \in 1 .. Len(packets) - 1 :
          Follows(packets[i + 1].frame, packets[i + 1].part, packets[i])
    /\ packets # <<>> => Follows(Encoding, parts + 1, packets[Len(packets)])

(* What the output thread gets next, now or later. *)
NextFrame == IF packets = <<>> THEN Encoding ELSE packets[1].frame
NextPart  == IF packets = <<>> THEN parts + 1 ELSE packets[1].part

Published(f) == \E i \in 1 .. Len(sent) : sent[i][1].frame = f

(* As long as the thread runs, the pending unit is the beginning of the     *)
(* frame that comes next, and the units before it are whole frames, in      *)
(* order and none left out but those the encoder skipped.                   *)
Running == outPc \in {"flags", "get", "none"}

UnitInv ==
    Running =>
       /\ NextPart = Len(pendingAu) + 1
       /\ \A i \in 1 .. Len(pendingAu) :
             pendingAu[i].frame = NextFrame /\ pendingAu[i].part = i /\ ~pendingAu[i].last
       /\ \A i \in 1 .. Len(sent) : Whole(sent[i]) /\ sent[i][1].frame < NextFrame
       /\ \A f \in 1 .. NextFrame - 1 : f \in skipped \/ Published(f)

(* The poll before the thread leaves found the encoder empty, or missed     *)
(* something; and nothing is pushed any more.                               *)
LeaveInv ==
    /\ inputDoneNow => inputDone
    /\ outPc = "exited" => inputDone
    /\ outPc = "none" /\ MayLeave /\ ~missed => packets = <<>> /\ backlog = <<>>

OutputInv ==
    /\ Types /\ StreamInv /\ UnitInv /\ LeaveInv
    /\ UnitsWhole /\ UnitsInOrder /\ DeliveredUnlessMissed

-----------------------------------------------------------------------------
(* Queues                                                                   *)

(* The elements of a queue whose head is taken.                             *)
LEMMA TailElements ==
    ASSUME NEW S, NEW s \in Seq(S), s # <<>>
    PROVE  /\ Len(s) \in Nat \ {0} /\ Head(s) = s[1] /\ s[1] \in S
           /\ Tail(s) \in Seq(S) /\ Len(Tail(s)) = Len(s) - 1
           /\ \A i \in 1 .. Len(s) - 1 : Tail(s)[i] = s[i + 1]
           /\ Tail(s) = <<>> <=> Len(s) = 1
<1>1. Len(s) \in Nat \ {0} /\ 1 \in 1 .. Len(s)
  BY EmptySeq, LenProperties
<1>2. /\ Head(s) = s[1] /\ Tail(s) \in Seq(S) /\ Len(Tail(s)) = Len(s) - 1
      /\ \A i \in 1 .. Len(Tail(s)) : Tail(s)[i] = s[i + 1]
  BY <1>1, HeadTailProperties
<1>3. s[1] \in S
  BY <1>1, ElementOfSeq
<1>4. Tail(s) = <<>> <=> Len(Tail(s)) = 0
  BY <1>2, EmptySeq, LenProperties
<1> QED BY <1>1, <1>2, <1>3, <1>4

(* The elements of a queue with one more.                                   *)
LEMMA AppendElements ==
    ASSUME NEW S, NEW s \in Seq(S), NEW x \in S
    PROVE  /\ Append(s, x) \in Seq(S) /\ Append(s, x) # <<>>
           /\ Len(s) \in Nat /\ Len(Append(s, x)) = Len(s) + 1
           /\ \A i \in 1 .. Len(s) : Append(s, x)[i] = s[i]
           /\ Append(s, x)[Len(s) + 1] = x
BY AppendProperties, LenProperties

(* The lengths of the queues, and what they are made of.                    *)
LEMMA Lengths ==
    ASSUME Types
    PROVE  /\ Len(packets) \in Nat /\ Len(pendingAu) \in Nat
           /\ Len(backlog) \in Nat /\ Len(sent) \in Nat
           /\ DOMAIN pendingAu = 1 .. Len(pendingAu) /\ DOMAIN sent = 1 .. Len(sent)
           /\ packets # <<>> <=> Len(packets) > 0
           /\ pendingAu # <<>> <=> Len(pendingAu) > 0
           /\ backlog # <<>> <=> Len(backlog) > 0
           /\ \A i \in 1 .. Len(packets) : packets[i] \in Packet
           /\ \A i \in 1 .. Len(pendingAu) : pendingAu[i] \in Packet
           /\ \A i \in 1 .. Len(sent) : sent[i] \in Seq(Packet)
BY EmptySeq, LenProperties, ElementOfSeq DEF Types

(* The parts of a packet.                                                   *)
LEMMA PacketParts ==
    ASSUME NEW p \in Packet
    PROVE  /\ p.frame \in Nat /\ p.part \in Nat \ {0}
           /\ p.last \in BOOLEAN /\ p.empty \in BOOLEAN
BY DEF Packet

-----------------------------------------------------------------------------
(* The encoder                                                              *)

(* At first nothing is encoded.                                             *)
LEMMA OutputInit == Init => OutputInv
<1> SUFFICES ASSUME Init PROVE OutputInv
  OBVIOUS
<1>1. /\ <<>> \in Seq(Nat) /\ <<>> \in Seq(Packet) /\ <<>> \in Seq(Seq(Packet))
      /\ Len(<<>>) = 0
  BY EmptyQueue
<1>2. Types
  BY <1>1 DEF Init, Types
<1>3. /\ Len(backlog) = 0 /\ Len(packets) = 0 /\ Len(pendingAu) = 0 /\ Len(sent) = 0
      /\ accepted = 0 /\ parts = 0 /\ packets = <<>> /\ DOMAIN sent = {}
  BY <1>1, <1>2, Lengths DEF Init
<1>4. Encoding = 1 /\ NextFrame = 1 /\ NextPart = 1
  BY <1>3 DEF Encoding, NextFrame, NextPart
<1>5. StreamInv /\ UnitInv
  BY <1>3, <1>4 DEF StreamInv, UnitInv
<1>6. LeaveInv /\ UnitsWhole /\ UnitsInOrder /\ DeliveredUnlessMissed
  BY <1>3 DEF Init, LeaveInv, UnitsWhole, UnitsInOrder, DeliveredUnlessMissed,
              BacklogDelivered
<1> QED BY <1>2, <1>5, <1>6 DEF OutputInv

(* A frame pushed waits behind the others.                                  *)
LEMMA PushesStream ==
    ASSUME Types, StreamInv, InputPushes
    PROVE  /\ accepted' \in Nat /\ backlog' \in Seq(Nat) /\ StreamInv'
           /\ NextFrame' = NextFrame /\ NextPart' = NextPart
<1>1. /\ accepted \in Nat /\ accepted' = accepted + 1 /\ accepted' \in Nat
      /\ UNCHANGED <<parts, skipped, packets>>
      /\ Len(backlog) \in Nat /\ Len(backlog') = Len(backlog) + 1
      /\ backlog' \in Seq(Nat) /\ backlog' # <<>>
      /\ \A i \in 1 .. Len(backlog) : backlog'[i] = backlog[i]
      /\ backlog'[Len(backlog) + 1] = accepted + 1
  <2>1. /\ accepted \in Nat /\ accepted + 1 \in Nat /\ backlog \in Seq(Nat)
        /\ accepted' = accepted + 1 /\ backlog' = Append(backlog, accepted + 1)
        /\ UNCHANGED <<parts, skipped, packets>>
    BY DEF Types, InputPushes
  <2> QED BY <2>1, AppendElements
<1>2. Encoding' = Encoding /\ Encoding - 1 + (Len(backlog) + 1) = accepted + 1
  BY <1>1 DEF Encoding
<1>3. NextFrame' = NextFrame /\ NextPart' = NextPart
  BY <1>1, <1>2 DEF NextFrame, NextPart
<1>4. \A i \in 1 .. Len(backlog') : backlog'[i] = Encoding' - 1 + i
  BY <1>1, <1>2 DEF StreamInv
<1>5. StreamInv'
  BY <1>1, <1>2, <1>4 DEF StreamInv, Follows
<1> QED BY <1>1, <1>3, <1>5

(* The encoder's next packet is the one expected.                           *)
LEMMA EmitsStream ==
    ASSUME Types, StreamInv, EncoderEmits
    PROVE  /\ parts' \in Nat /\ backlog' \in Seq(Nat) /\ packets' \in Seq(Packet)
           /\ StreamInv' /\ skipped \subseteq skipped'
           /\ NextFrame' = NextFrame /\ NextPart' = NextPart
<1>1. PICK last \in BOOLEAN, empty \in BOOLEAN :
         /\ empty => last /\ parts = 0
         /\ packets' = Append(packets, [frame |-> Head(backlog), part |-> parts + 1,
                                        last |-> last, empty |-> empty])
         /\ parts' = IF last THEN 0 ELSE parts + 1
         /\ backlog' = IF last THEN Tail(backlog) ELSE backlog
         /\ skipped' = IF empty THEN skipped \union {Head(backlog)} ELSE skipped
  BY DEF EncoderEmits
<1>2. /\ backlog # <<>> /\ backlog \in Seq(Nat) /\ UNCHANGED accepted /\ accepted \in Nat
      /\ parts \in Nat /\ packets \in Seq(Packet)
  BY DEF EncoderEmits, Types
<1>3. /\ Len(backlog) \in Nat \ {0} /\ Head(backlog) = backlog[1]
      /\ Tail(backlog) \in Seq(Nat)
      /\ Len(Tail(backlog)) = Len(backlog) - 1
      /\ \A i \in 1 .. Len(backlog) - 1 : Tail(backlog)[i] = backlog[i + 1]
  BY <1>2, TailElements
<1>4. Encoding \in Nat \ {0} /\ Head(backlog) = Encoding
  <2>1. Encoding \in Int /\ 1 \in 1 .. Len(backlog)
    BY <1>2, <1>3 DEF Encoding
  <2>2. Encoding >= 1 /\ backlog[1] = Encoding - 1 + 1
    BY <2>1 DEF StreamInv
  <2> QED BY <2>1, <2>2, <1>3
<1> DEFINE p == [frame |-> Encoding, part |-> parts + 1, last |-> last, empty |-> empty]
<1>5. /\ p \in Packet /\ p.frame = Encoding /\ p.part = parts + 1
      /\ p.last = last /\ p.empty = empty /\ packets' = Append(packets, p)
  BY <1>1, <1>2, <1>4 DEF Packet
<1> HIDE DEF p
<1>6. /\ packets' \in Seq(Packet) /\ packets' # <<>>
      /\ Len(packets) \in Nat /\ Len(packets') = Len(packets) + 1
      /\ \A i \in 1 .. Len(packets) : packets'[i] = packets[i]
      /\ packets'[Len(packets) + 1] = p
  BY <1>2, <1>5, AppendElements
<1>7. packets = <<>> <=> Len(packets) = 0
  BY Lengths
<1>8. NextFrame' = NextFrame /\ NextPart' = NextPart
  <2>1. CASE packets = <<>>
    BY <2>1, <1>5, <1>6, <1>7 DEF NextFrame, NextPart
  <2>2. CASE packets # <<>>
    BY <2>2, <1>6, <1>7 DEF NextFrame, NextPart
  <2> QED BY <2>1, <2>2
<1>9. /\ Encoding' = IF last THEN Encoding + 1 ELSE Encoding
      /\ Follows(Encoding', parts' + 1, p)
  BY <1>1, <1>2, <1>3, <1>5 DEF Encoding, Follows
<1>10. \A i \in 1 .. Len(backlog') : backlog'[i] = Encoding' - 1 + i
  <2>1. CASE last
    <3> SUFFICES ASSUME NEW i \in 1 .. Len(backlog') PROVE backlog'[i] = Encoding' - 1 + i
      OBVIOUS
    <3>1. i \in 1 .. Len(backlog) - 1 /\ i + 1 \in 1 .. Len(backlog)
      BY <2>1, <1>1, <1>3
    <3>2. backlog'[i] = backlog[i + 1] /\ backlog[i + 1] = Encoding - 1 + (i + 1)
      BY <2>1, <3>1, <1>1, <1>3 DEF StreamInv
    <3> QED BY <2>1, <3>1, <3>2, <1>4, <1>9
  <2>2. CASE ~last
    BY <2>2, <1>1, <1>9 DEF StreamInv
  <2> QED BY <2>1, <2>2
<1>11. parts' > 0 => backlog' # <<>>
  BY <1>1, <1>2
<1>12. \A i \in 1 .. Len(packets') :
          /\ packets'[i].frame >= 1
          /\ packets'[i].empty => /\ packets'[i].last /\ packets'[i].part = 1
                                  /\ packets'[i].frame \in skipped'
  <2> SUFFICES ASSUME NEW i \in 1 .. Len(packets')
               PROVE  /\ packets'[i].frame >= 1
                      /\ packets'[i].empty => /\ packets'[i].last /\ packets'[i].part = 1
                                              /\ packets'[i].frame \in skipped'
    OBVIOUS
  <2>1. CASE i \in 1 .. Len(packets)
    BY <2>1, <1>1, <1>6 DEF StreamInv
  <2>2. CASE i = Len(packets) + 1
    BY <2>2, <1>1, <1>2, <1>4, <1>5, <1>6
  <2> QED BY <2>1, <2>2, <1>6
<1>13. \A i \in 1 .. Len(packets') - 1 :
          Follows(packets'[i + 1].frame, packets'[i + 1].part, packets'[i])
  <2> SUFFICES ASSUME NEW i \in 1 .. Len(packets)
               PROVE  Follows(packets'[i + 1].frame, packets'[i + 1].part, packets'[i])
    BY <1>6
  <2>1. CASE i < Len(packets)
    <3>1. i \in 1 .. Len(packets) - 1 /\ i + 1 \in 1 .. Len(packets)
      BY <2>1, <1>6
    <3> QED BY <3>1, <1>6 DEF StreamInv
  <2>2. CASE i = Len(packets)
    <3>1. Follows(Encoding, parts + 1, packets[Len(packets)])
      BY <2>2, <1>6, <1>7 DEF StreamInv
    <3> QED BY <2>2, <3>1, <1>5, <1>6
  <2> QED BY <2>1, <2>2, <1>6
<1>14. Encoding' >= 1 /\ packets'[Len(packets')] = p
  BY <1>4, <1>6, <1>9
<1>15. StreamInv'
  BY <1>9, <1>10, <1>11, <1>12, <1>13, <1>14 DEF StreamInv
<1>16. parts' \in Nat /\ backlog' \in Seq(Nat) /\ skipped \subseteq skipped'
  BY <1>1, <1>2, <1>3
<1> QED BY <1>6, <1>8, <1>15, <1>16

(* After the head of the stream comes what follows it.                      *)
LEMMA TakeStream ==
    ASSUME Types, StreamInv, packets # <<>>, packets' = Tail(packets), UNCHANGED encoderVars
    PROVE  /\ packets' \in Seq(Packet) /\ StreamInv'
           /\ Head(packets) \in Packet /\ Head(packets).frame >= 1
           /\ NextFrame = Head(packets).frame /\ NextPart = Head(packets).part
           /\ Follows(NextFrame', NextPart', Head(packets))
           /\ Head(packets).empty =>
                 /\ Head(packets).last /\ Head(packets).part = 1
                 /\ Head(packets).frame \in skipped
<1>1. /\ Len(packets) \in Nat \ {0} /\ Head(packets) = packets[1] /\ packets[1] \in Packet
      /\ packets' \in Seq(Packet) /\ Len(packets') = Len(packets) - 1
      /\ \A i \in 1 .. Len(packets) - 1 : packets'[i] = packets[i + 1]
      /\ packets' = <<>> <=> Len(packets) = 1
  BY TailElements DEF Types
<1>2. Encoding' = Encoding /\ UNCHANGED <<parts, backlog, skipped>>
  BY DEF Encoding, encoderVars
<1>3. \A i \in 1 .. Len(packets') :
         i + 1 \in 1 .. Len(packets) /\ packets'[i] = packets[i + 1]
  BY <1>1
<1>4. \A i \in 1 .. Len(packets') - 1 :
         Follows(packets'[i + 1].frame, packets'[i + 1].part, packets'[i])
  <2> SUFFICES ASSUME NEW i \in 1 .. Len(packets') - 1
               PROVE  Follows(packets'[i + 1].frame, packets'[i + 1].part, packets'[i])
    OBVIOUS
  <2>1. /\ i + 1 \in 1 .. Len(packets) - 1
        /\ i \in 1 .. Len(packets') /\ i + 1 \in 1 .. Len(packets')
    BY <1>1
  <2>2. Follows(packets[i + 1 + 1].frame, packets[i + 1 + 1].part, packets[i + 1])
    BY <2>1 DEF StreamInv
  <2> QED BY <2>1, <2>2, <1>3
<1>5. packets' # <<>> => Follows(Encoding', parts' + 1, packets'[Len(packets')])
  <2> SUFFICES ASSUME packets' # <<>>
               PROVE  Follows(Encoding', parts' + 1, packets'[Len(packets')])
    OBVIOUS
  <2>1. Len(packets') \in 1 .. Len(packets') /\ Len(packets') + 1 = Len(packets)
    BY <1>1
  <2>2. packets'[Len(packets')] = packets[Len(packets)]
    BY <2>1, <1>3
  <2> QED BY <2>2, <1>2 DEF StreamInv
<1>6. StreamInv'
  <2>1. \A i \in 1 .. Len(packets') :
           /\ packets'[i].frame >= 1
           /\ packets'[i].empty => /\ packets'[i].last /\ packets'[i].part = 1
                                   /\ packets'[i].frame \in skipped'
    BY <1>2, <1>3 DEF StreamInv
  <2>2. /\ Encoding' >= 1
        /\ parts' > 0 => backlog' # <<>>
        /\ \A i \in 1 .. Len(backlog') : backlog'[i] = Encoding' - 1 + i
    BY <1>2 DEF StreamInv
  <2> QED BY <2>1, <2>2, <1>4, <1>5 DEF StreamInv
<1>7. NextFrame = Head(packets).frame /\ NextPart = Head(packets).part
  BY <1>1 DEF NextFrame, NextPart
<1>8. Follows(NextFrame', NextPart', Head(packets))
  <2>1. CASE Len(packets) = 1
    BY <2>1, <1>1, <1>2 DEF StreamInv, NextFrame, NextPart
  <2>2. CASE Len(packets) # 1
    <3>1. 1 \in 1 .. Len(packets) - 1 /\ packets'[1] = packets[2]
      BY <2>2, <1>1
    <3>2. Follows(packets[1 + 1].frame, packets[1 + 1].part, packets[1])
      BY <3>1 DEF StreamInv
    <3> QED BY <2>2, <3>1, <3>2, <1>1 DEF NextFrame, NextPart
  <2> QED BY <2>1, <2>2
<1>9. 1 \in 1 .. Len(packets)
  BY <1>1
<1> QED BY <1>1, <1>6, <1>7, <1>8, <1>9 DEF StreamInv

-----------------------------------------------------------------------------
(* The units                                                                *)

(* What a thread that takes no packet and publishes nothing leaves alone.   *)
LEMMA QuietUnits ==
    ASSUME UnitInv, UNCHANGED <<pendingAu, sent>>, Running' => Running,
           NextFrame' = NextFrame, NextPart' = NextPart, skipped \subseteq skipped'
    PROVE  UnitInv'
<1>1. \A f : Published(f) => Published(f)'
  BY DEF Published
<1> QED BY <1>1 DEF UnitInv

(* Units that are not touched stay whole and in order.                      *)
LEMMA QuietSent ==
    ASSUME UnitsWhole, UnitsInOrder, UNCHANGED sent,
           outPc = "exited" => outPc' = "exited", missed => missed'
    PROVE  UnitsWhole' /\ UnitsInOrder'
BY DEF UnitsWhole, UnitsInOrder

(* While the thread runs every unit is whole.                               *)
LEMMA RunningWhole ==
    ASSUME Types, UnitInv, Running
    PROVE  UnitsWhole
BY Lengths DEF UnitInv, UnitsWhole

(* A packet taken goes on with the pending unit or completes it.            *)
LEMMA TakeUnits ==
    ASSUME Types, StreamInv, UnitInv, UnitsInOrder, TakePacket
    PROVE  /\ packets' \in Seq(Packet) /\ pendingAu' \in Seq(Packet)
           /\ sent' \in Seq(Seq(Packet))
           /\ StreamInv' /\ UnitInv' /\ UnitsInOrder'
<1> DEFINE p == Head(packets)
           au == Append(pendingAu, p)
<1>1. /\ outPc = "get" /\ outPc' = "flags" /\ packets # <<>> /\ packets' = Tail(packets)
      /\ ~p.empty /\ UNCHANGED encoderVars
      /\ AppendAndFlush(au)
  BY DEF TakePacket, OutputLocal
<1>2. /\ packets' \in Seq(Packet) /\ StreamInv' /\ p \in Packet
      /\ NextFrame = p.frame /\ NextPart = p.part /\ p.frame >= 1
      /\ Follows(NextFrame', NextPart', p)
  BY <1>1, TakeStream
<1>3. p.frame \in Nat /\ p.part \in Nat \ {0} /\ p.last \in BOOLEAN
  BY <1>2, PacketParts
<1>4. /\ au \in Seq(Packet) /\ au # <<>>
      /\ Len(pendingAu) \in Nat /\ Len(au) = Len(pendingAu) + 1
      /\ \A i \in 1 .. Len(pendingAu) : au[i] = pendingAu[i]
      /\ au[Len(pendingAu) + 1] = p
  BY <1>2, AppendElements DEF Types
<1> HIDE DEF au, p
<1>5. Running /\ Running' /\ NextPart = Len(pendingAu) + 1
  BY <1>1 DEF Running, UnitInv
<1>6. /\ \A i \in 1 .. Len(au) : au[i].frame = p.frame /\ au[i].part = i
      /\ \A i \in 1 .. Len(pendingAu) : ~au[i].last
  <2>1. \A i \in 1 .. Len(pendingAu) :
           au[i].frame = p.frame /\ au[i].part = i /\ ~au[i].last
    BY <1>2, <1>4, <1>5 DEF UnitInv
  <2>2. \A i \in 1 .. Len(au) : i \in 1 .. Len(pendingAu) \/ i = Len(pendingAu) + 1
    BY <1>4
  <2> QED BY <2>1, <2>2, <1>2, <1>4, <1>5
<1>7. /\ Len(sent) \in Nat /\ DOMAIN sent = 1 .. Len(sent)
      /\ \A i \in 1 .. Len(sent) : Whole(sent[i]) /\ sent[i][1].frame < p.frame
      /\ \A f \in 1 .. p.frame - 1 : f \in skipped \/ Published(f)
  BY <1>2, <1>5, Lengths DEF UnitInv
<1>8. /\ AuDone(au[Len(au)]) <=> p.last
      /\ sent' = IF p.last THEN Append(sent, au) ELSE sent
      /\ pendingAu' = IF p.last THEN <<>> ELSE au
  BY <1>1, <1>4 DEF AppendAndFlush, Flushed, AuDone
<1>9. UNCHANGED skipped
  BY <1>1 DEF encoderVars
<1>10. CASE ~p.last
  <2>1. NextFrame' = p.frame /\ NextPart' = Len(au) + 1 /\ sent' = sent /\ pendingAu' = au
    BY <1>2, <1>4, <1>5, <1>8, <1>10 DEF Follows
  <2>2. \A i \in 1 .. Len(au) : ~au[i].last
    <3>1. \A i \in 1 .. Len(au) : i \in 1 .. Len(pendingAu) \/ i = Len(pendingAu) + 1
      BY <1>4
    <3> QED BY <3>1, <1>4, <1>6, <1>10
  <2>3. \A f : Published(f) => Published(f)'
    BY <2>1 DEF Published
  <2>4. UnitInv'
    BY <2>1, <2>2, <2>3, <1>6, <1>7, <1>9 DEF UnitInv
  <2>5. UnitsInOrder' /\ sent' \in Seq(Seq(Packet))
    BY <2>1 DEF UnitsInOrder, Types
  <2> QED BY <2>1, <2>4, <2>5, <1>2, <1>4
<1>11. CASE p.last
  <2>1. /\ NextFrame' = p.frame + 1 /\ NextPart' = 1
        /\ sent' = Append(sent, au) /\ pendingAu' = <<>>
    BY <1>2, <1>8, <1>11 DEF Follows
  <2>2. /\ sent' \in Seq(Seq(Packet)) /\ Len(sent') = Len(sent) + 1
        /\ \A i \in 1 .. Len(sent) : sent'[i] = sent[i]
        /\ sent'[Len(sent) + 1] = au
    BY <2>1, <1>4, AppendElements DEF Types
  <2>3. DOMAIN sent' = 1 .. Len(sent')
    BY <2>2, LenProperties
  <2>4. Whole(au) /\ au[1].frame = p.frame
    <3>1. DOMAIN au = 1 .. Len(au) /\ 1 \in 1 .. Len(au)
      BY <1>4, LenProperties
    <3>2. \A i \in 1 .. Len(au) : au[i].last <=> i = Len(au)
      <4> SUFFICES ASSUME NEW i \in 1 .. Len(au) PROVE au[i].last <=> i = Len(au)
        OBVIOUS
      <4>1. CASE i \in 1 .. Len(pendingAu)
        BY <4>1, <1>4, <1>6
      <4>2. CASE i = Len(pendingAu) + 1
        BY <4>2, <1>4, <1>11
      <4> QED BY <4>1, <4>2, <1>4
    <3>3. /\ au[1].frame = p.frame
          /\ \A i \in 1 .. Len(au) : au[i].frame = au[1].frame /\ au[i].part = i
      BY <3>1, <1>6
    <3> QED BY <3>1, <3>2, <3>3, <1>4 DEF Whole
  <2>5. \A i \in 1 .. Len(sent') :
           \/ i \in 1 .. Len(sent) /\ sent'[i] = sent[i]
           \/ i = Len(sent) + 1 /\ sent'[i] = au
    <3> SUFFICES ASSUME NEW i \in 1 .. Len(sent')
                 PROVE  \/ i \in 1 .. Len(sent) /\ sent'[i] = sent[i]
                        \/ i = Len(sent) + 1 /\ sent'[i] = au
      OBVIOUS
    <3>1. i \in 1 .. Len(sent) \/ i = Len(sent) + 1
      BY <2>2, <1>7
    <3> QED BY <3>1, <2>2
  <2>6. \A i \in 1 .. Len(sent') : Whole(sent'[i]) /\ sent'[i][1].frame < p.frame + 1
    <3> SUFFICES ASSUME NEW i \in 1 .. Len(sent')
                 PROVE  Whole(sent'[i]) /\ sent'[i][1].frame < p.frame + 1
      OBVIOUS
    <3>1. CASE i \in 1 .. Len(sent) /\ sent'[i] = sent[i]
      <4>1. sent[i][1].frame \in Nat
        <5>1. sent[i] \in Seq(Packet) /\ sent[i] # <<>>
          BY <3>1, <1>7, Lengths DEF Whole
        <5> QED BY <5>1, TailElements, PacketParts
      <4> QED BY <3>1, <4>1, <1>3, <1>7
    <3>2. CASE i = Len(sent) + 1 /\ sent'[i] = au
      BY <3>2, <2>4, <1>3
    <3> QED BY <3>1, <3>2, <2>5
  <2>7. \A f \in 1 .. p.frame : f \in skipped \/ Published(f)'
    <3> SUFFICES ASSUME NEW f \in 1 .. p.frame, f \notin skipped PROVE Published(f)'
      OBVIOUS
    <3>1. CASE f = p.frame
      <4>1. Len(sent) + 1 \in 1 .. Len(sent')
        BY <2>2, <1>7
      <4> QED BY <3>1, <4>1, <2>2, <2>4 DEF Published
    <3>2. CASE f # p.frame
      <4>1. PICK i \in 1 .. Len(sent) : sent[i][1].frame = f
        BY <3>2, <1>3, <1>7 DEF Published
      <4>2. i \in 1 .. Len(sent') /\ sent'[i] = sent[i]
        BY <2>2, <1>7
      <4> QED BY <4>1, <4>2 DEF Published
    <3> QED BY <3>1, <3>2
  <2>8. UnitInv'
    <3>1. Len(pendingAu') = 0 /\ NextFrame' - 1 = p.frame
      BY <2>1, <1>3, EmptyQueue
    <3> QED BY <3>1, <2>1, <2>6, <2>7, <1>9 DEF UnitInv
  <2>9. UnitsInOrder'
    <3> SUFFICES ASSUME NEW i \in 1 .. Len(sent'), NEW j \in 1 .. Len(sent'), i < j
                 PROVE  sent'[i][1].frame < sent'[j][1].frame
      BY <2>3 DEF UnitsInOrder
    <3>1. i \in 1 .. Len(sent) /\ sent'[i] = sent[i]
      BY <2>2, <1>7
    <3>2. CASE j \in 1 .. Len(sent) /\ sent'[j] = sent[j]
      BY <3>1, <3>2, <1>7 DEF UnitsInOrder
    <3>3. CASE j = Len(sent) + 1 /\ sent'[j] = au
      BY <3>1, <3>3, <2>4, <1>7
    <3> QED BY <3>2, <3>3, <2>5
  <2>10. pendingAu' \in Seq(Packet)
    BY <2>1, EmptyQueue
  <2> QED BY <2>2, <2>8, <2>9, <2>10, <1>2
<1> QED BY <1>10, <1>11, <1>3

(* An empty packet comes between units only, and stands for its frame.      *)
LEMMA EmptyUnits ==
    ASSUME Types, StreamInv, UnitInv, TakeEmpty
    PROVE  /\ packets' \in Seq(Packet) /\ StreamInv' /\ UnitInv'
<1> DEFINE p == Head(packets)
<1>1. /\ outPc = "get" /\ outPc' = "none" /\ packets # <<>> /\ packets' = Tail(packets)
      /\ p.empty /\ UNCHANGED encoderVars /\ UNCHANGED <<pendingAu, sent>>
  BY DEF TakeEmpty, OutputLocal
<1>2. /\ packets' \in Seq(Packet) /\ StreamInv' /\ p \in Packet
      /\ NextFrame = p.frame /\ NextPart = p.part /\ p.frame >= 1
      /\ Follows(NextFrame', NextPart', p)
      /\ p.last /\ p.part = 1 /\ p.frame \in skipped
  BY <1>1, TakeStream
<1>3. p.frame \in Nat
  BY <1>2, PacketParts
<1> HIDE DEF p
<1>4. /\ NextFrame' = p.frame + 1 /\ NextPart' = 1 /\ Running
      /\ Len(pendingAu) = 0 /\ UNCHANGED skipped
  BY <1>1, <1>2, Lengths DEF Follows, Running, UnitInv, encoderVars
<1>5. \A i \in 1 .. Len(sent) : Whole(sent[i]) /\ sent[i][1].frame < p.frame + 1
  <2> SUFFICES ASSUME NEW i \in 1 .. Len(sent)
               PROVE  Whole(sent[i]) /\ sent[i][1].frame < p.frame + 1
    OBVIOUS
  <2>1. Whole(sent[i]) /\ sent[i][1].frame < p.frame
    BY <1>2, <1>4 DEF UnitInv
  <2>2. sent[i] \in Seq(Packet) /\ sent[i] # <<>>
    BY <2>1, Lengths DEF Whole
  <2>3. sent[i][1].frame \in Nat
    BY <2>2, TailElements, PacketParts
  <2> QED BY <2>1, <2>3, <1>3
<1>6. \A f \in 1 .. p.frame : f \in skipped \/ Published(f)
  <2>1. \A f \in 1 .. p.frame - 1 : f \in skipped \/ Published(f)
    BY <1>2, <1>4 DEF UnitInv
  <2> QED BY <2>1, <1>2, <1>3
<1>7. \A f : Published(f)' <=> Published(f)
  BY <1>1 DEF Published
<1>8. NextFrame' - 1 = p.frame
  BY <1>3, <1>4
<1>9. UnitInv'
  BY <1>1, <1>4, <1>5, <1>6, <1>7, <1>8 DEF UnitInv
<1> QED BY <1>2, <1>9

-----------------------------------------------------------------------------
(* The thread leaves                                                        *)

(* When the thread leaves without a miss, the encoder is empty, so nothing  *)
(* is pending and every frame has been published or skipped.                *)
LEMMA LeavingEmpty ==
    ASSUME Types, StreamInv, UnitInv, LeaveInv, outPc = "none", MayLeave, ~missed
    PROVE  pendingAu = <<>> /\ \A f \in 1 .. accepted : f \in skipped \/ Published(f)
<1>1. packets = <<>> /\ Len(backlog) = 0 /\ parts = 0 /\ accepted \in Nat
  BY Lengths DEF LeaveInv, StreamInv, Types
<1>2. NextFrame = accepted + 1 /\ NextPart = 1
  BY <1>1 DEF NextFrame, NextPart, Encoding
<1>3. Len(pendingAu) = 0 /\ \A f \in 1 .. NextFrame - 1 : f \in skipped \/ Published(f)
  BY <1>2, Lengths DEF UnitInv, Running
<1>4. pendingAu = <<>>
  BY <1>3, Lengths
<1> QED BY <1>1, <1>2, <1>3, <1>4

(* The last poll before the thread leaves.                                  *)
LEMMA LeaveKept ==
    ASSUME Types, StreamInv, UnitInv, LeaveInv, UnitsWhole, UnitsInOrder, NoPacket, MayLeave
    PROVE  /\ sent' \in Seq(Seq(Packet))
           /\ UnitsWhole' /\ UnitsInOrder' /\ DeliveredUnlessMissed'
<1>1. /\ outPc = "none" /\ outPc' = "exited" /\ sent' = Flushed(pendingAu)
      /\ UNCHANGED <<accepted, skipped, missed>>
  BY DEF NoPacket, OnNoPacket, OutputLocal, encoderVars
<1>2. /\ Len(sent) \in Nat /\ DOMAIN sent = 1 .. Len(sent) /\ sent \in Seq(Seq(Packet))
      /\ \A i \in 1 .. Len(sent) : Whole(sent[i]) /\ sent[i][1].frame < NextFrame
  BY <1>1, Lengths DEF UnitInv, Running, Types
<1>3. CASE pendingAu = <<>>
  <2>1. sent' = sent
    BY <1>1, <1>3 DEF Flushed
  <2>2. UnitsWhole' /\ UnitsInOrder'
    BY <2>1, <1>2 DEF UnitsWhole, UnitsInOrder
  <2>3. ~missed => \A f \in 1 .. accepted : f \in skipped \/ Published(f)
    BY <1>1, LeavingEmpty
  <2>4. DeliveredUnlessMissed'
    BY <2>1, <2>3, <1>1, <1>2 DEF DeliveredUnlessMissed, BacklogDelivered, Published
  <2> QED BY <2>1, <2>2, <2>4, <1>2
<1>4. CASE pendingAu # <<>>
  <2>1. missed' /\ sent' = Append(sent, pendingAu) /\ pendingAu \in Seq(Packet)
    BY <1>1, <1>4, LeavingEmpty DEF Flushed, Types
  <2>2. /\ sent' \in Seq(Seq(Packet)) /\ Len(sent') = Len(sent) + 1
        /\ \A i \in 1 .. Len(sent) : sent'[i] = sent[i]
        /\ sent'[Len(sent) + 1] = pendingAu
    BY <2>1, <1>2, AppendElements
  <2>3. DOMAIN sent' = 1 .. Len(sent')
    BY <2>2, LenProperties
  <2>4. UnitsWhole'
    <3> SUFFICES ASSUME NEW i \in 1 .. Len(sent')
                 PROVE  Whole(sent'[i]) \/ i = Len(sent')
      BY <2>1, <2>3, <1>1 DEF UnitsWhole
    <3>1. i \in 1 .. Len(sent) \/ i = Len(sent')
      BY <2>2, <1>2
    <3> QED BY <3>1, <2>2, <1>2
  <2>5. UnitsInOrder'
    <3> SUFFICES ASSUME NEW i \in 1 .. Len(sent'), NEW j \in 1 .. Len(sent'), i < j
                 PROVE  sent'[i][1].frame < sent'[j][1].frame
      BY <2>3 DEF UnitsInOrder
    <3>0. Len(sent) \in Nat /\ Len(sent') = Len(sent) + 1
      BY <2>2, <1>2
    <3>1. i \in 1 .. Len(sent) /\ sent'[i] = sent[i]
      BY <3>0, <2>2
    <3>2. j \in 1 .. Len(sent) \/ j = Len(sent) + 1
      BY <3>0
    <3>3. CASE j \in 1 .. Len(sent)
      <4>1. sent'[j] = sent[j]
        BY <3>3, <2>2
      <4> QED BY <3>1, <3>3, <4>1, <1>2 DEF UnitsInOrder
    <3>4. CASE j = Len(sent) + 1
      <4>1. 1 \in 1 .. Len(pendingAu)
        BY <1>4, Lengths
      <4>2. pendingAu[1].frame = NextFrame
        BY <4>1, <1>1 DEF UnitInv, Running
      <4> QED BY <3>1, <3>4, <4>2, <2>2, <1>2
    <3> QED BY <3>2, <3>3, <3>4
  <2>6. DeliveredUnlessMissed'
    BY <2>1 DEF DeliveredUnlessMissed
  <2> QED BY <2>2, <2>4, <2>5, <2>6
<1> QED BY <1>3, <1>4

(* Every step keeps the invariant.                                          *)
LEMMA OutputStep == OutputInv /\ [Next]_vars => OutputInv'
<1> SUFFICES ASSUME Types, StreamInv, UnitInv, LeaveInv,
                    UnitsWhole, UnitsInOrder, DeliveredUnlessMissed, [Next]_vars
             PROVE  OutputInv'
  BY DEF OutputInv
<1>a. ASSUME UNCHANGED <<encoderVars, packets>>
      PROVE  /\ StreamInv' /\ NextFrame' = NextFrame /\ NextPart' = NextPart
             /\ skipped \subseteq skipped'
  BY <1>a DEF encoderVars, StreamInv, Encoding, NextFrame, NextPart
<1>b. ASSUME outPc' # "exited" PROVE DeliveredUnlessMissed'
  BY <1>b DEF DeliveredUnlessMissed, BacklogDelivered
<1>1. CASE InputPushes
  <2>1. /\ StreamInv' /\ NextFrame' = NextFrame /\ NextPart' = NextPart
        /\ accepted' \in Nat /\ backlog' \in Seq(Nat)
    BY <1>1, PushesStream
  <2>2. /\ ~inputDone
        /\ UNCHANGED <<parts, skipped, packets, outPc, stopNow, inputDoneNow, pendingAu,
                       sent, stop, inputDone, missed>>
    BY <1>1 DEF InputPushes
  <2>3. Types'
    BY <2>1, <2>2 DEF Types
  <2>4. UnitInv'
    BY <2>1, <2>2, QuietUnits DEF Running
  <2>5. LeaveInv' /\ outPc' # "exited"
    BY <2>2 DEF LeaveInv, MayLeave
  <2>6. UnitsWhole' /\ UnitsInOrder'
    BY <2>2, QuietSent
  <2> QED BY <2>1, <2>3, <2>4, <2>5, <2>6, <1>b DEF OutputInv
<1>2. CASE InputFinishes
  <2>1. /\ UNCHANGED <<encoderVars, packets, outPc, stopNow, inputDoneNow, pendingAu,
                       sent, stop, missed>>
        /\ inputDone' = TRUE
    BY <1>2 DEF InputFinishes
  <2>2. Types' /\ LeaveInv' /\ DeliveredUnlessMissed'
    BY <2>1
    DEF Types, LeaveInv, MayLeave, DeliveredUnlessMissed, BacklogDelivered, encoderVars
  <2>3. UnitInv'
    BY <2>1, <1>a, QuietUnits DEF Running
  <2>4. UnitsWhole' /\ UnitsInOrder'
    BY <2>1, QuietSent
  <2> QED BY <2>1, <2>2, <2>3, <2>4, <1>a DEF OutputInv
<1>3. CASE RequestStop
  <2>1. /\ UNCHANGED <<encoderVars, packets, outPc, stopNow, inputDoneNow, pendingAu,
                       sent, inputDone, missed>>
        /\ stop' = TRUE
    BY <1>3 DEF RequestStop
  <2>2. Types' /\ LeaveInv' /\ DeliveredUnlessMissed'
    BY <2>1
    DEF Types, LeaveInv, MayLeave, DeliveredUnlessMissed, BacklogDelivered, encoderVars
  <2>3. UnitInv'
    BY <2>1, <1>a, QuietUnits DEF Running
  <2>4. UnitsWhole' /\ UnitsInOrder'
    BY <2>1, QuietSent
  <2> QED BY <2>1, <2>2, <2>3, <2>4, <1>a DEF OutputInv
<1>4. CASE EncoderEmits
  <2>1. /\ StreamInv' /\ NextFrame' = NextFrame /\ NextPart' = NextPart
        /\ parts' \in Nat /\ backlog' \in Seq(Nat) /\ packets' \in Seq(Packet)
        /\ skipped \subseteq skipped'
    BY <1>4, EmitsStream
  <2>2. /\ backlog # <<>>
        /\ UNCHANGED <<accepted, outPc, stopNow, inputDoneNow, pendingAu,
                       sent, stop, inputDone, missed>>
    BY <1>4 DEF EncoderEmits
  <2>3. Types'
    BY <2>1, <2>2 DEF Types
  <2>4. UnitInv'
    BY <2>1, <2>2, QuietUnits DEF Running
  <2>5. LeaveInv' /\ DeliveredUnlessMissed'
    BY <2>1, <2>2 DEF LeaveInv, MayLeave, DeliveredUnlessMissed, BacklogDelivered
  <2>6. UnitsWhole' /\ UnitsInOrder'
    BY <2>2, QuietSent
  <2> QED BY <2>1, <2>3, <2>4, <2>5, <2>6 DEF OutputInv
<1>5. CASE ReadFlags
  <2>1. /\ UNCHANGED <<encoderVars, packets, pendingAu, sent, stop, inputDone, missed>>
        /\ outPc = "flags" /\ outPc' = "get" /\ stopNow' = stop /\ inputDoneNow' = inputDone
    BY <1>5 DEF ReadFlags, OutputLocal
  <2>2. Types' /\ LeaveInv'
    BY <2>1 DEF Types, LeaveInv, encoderVars
  <2>3. UnitInv'
    BY <2>1, <1>a, QuietUnits DEF Running
  <2>4. UnitsWhole' /\ UnitsInOrder'
    BY <2>1, QuietSent
  <2> QED BY <2>1, <2>2, <2>3, <2>4, <1>a, <1>b DEF OutputInv
<1>6. CASE TakePacket
  <2>1. /\ packets' \in Seq(Packet) /\ pendingAu' \in Seq(Packet)
        /\ sent' \in Seq(Seq(Packet)) /\ StreamInv' /\ UnitInv' /\ UnitsInOrder'
    BY <1>6, TakeUnits
  <2>2. /\ UNCHANGED <<encoderVars, inputDone, stopNow, inputDoneNow, stop, missed>>
        /\ outPc' = "flags"
    BY <1>6 DEF TakePacket, OutputLocal
  <2>3. Types' /\ LeaveInv'
    BY <2>1, <2>2 DEF Types, LeaveInv, encoderVars
  <2>4. UnitsWhole'
    <3>1. DOMAIN sent' = 1 .. Len(sent')
      BY <2>1, LenProperties
    <3> QED BY <3>1, <2>1, <2>2 DEF UnitInv, Running, UnitsWhole
  <2> QED BY <2>1, <2>2, <2>3, <2>4, <1>b DEF OutputInv
<1>7. CASE ReleaseFails
  <2>1. /\ packets # <<>> /\ packets' = Tail(packets)
        /\ pendingAu' = Append(pendingAu, Head(packets))
        /\ UNCHANGED <<encoderVars, inputDone, stopNow, inputDoneNow, sent, missed>>
        /\ stop' = TRUE /\ outPc = "get" /\ outPc' = "failed"
    BY <1>7 DEF ReleaseFails, OutputLocal
  <2>2. packets' \in Seq(Packet) /\ StreamInv' /\ Head(packets) \in Packet
    BY <2>1, TakeStream
  <2>3. pendingAu' \in Seq(Packet)
    BY <2>1, <2>2, AppendElements DEF Types
  <2>4. Types' /\ LeaveInv' /\ UnitInv'
    BY <2>1, <2>2, <2>3 DEF Types, LeaveInv, UnitInv, Running, encoderVars
  <2>5. UnitsWhole' /\ UnitsInOrder'
    BY <2>1, QuietSent
  <2> QED BY <2>1, <2>2, <2>4, <2>5, <1>b DEF OutputInv
<1>8. CASE TakeEmpty
  <2>1. packets' \in Seq(Packet) /\ StreamInv' /\ UnitInv'
    BY <1>8, EmptyUnits
  <2>2. /\ UNCHANGED <<encoderVars, inputDone, stopNow, inputDoneNow, pendingAu, sent,
                       stop>>
        /\ outPc' = "none" /\ outPc = "get"
        /\ missed' = (missed \/ (stopNow /\ inputDoneNow
                                  /\ (packets' # <<>> \/ backlog # <<>>)))
    BY <1>8 DEF TakeEmpty, MissedIf, OutputLocal
  <2>3. Types' /\ LeaveInv'
    BY <2>1, <2>2 DEF Types, LeaveInv, MayLeave, encoderVars
  <2>4. UnitsWhole' /\ UnitsInOrder'
    BY <2>2, QuietSent DEF Types
  <2> QED BY <2>1, <2>2, <2>3, <2>4, <1>b DEF OutputInv
<1>9. CASE PollTimeout
  <2>1. /\ UNCHANGED <<encoderVars, packets, inputDone, stopNow, inputDoneNow, pendingAu,
                       sent, stop>>
        /\ packets = <<>> /\ outPc' = "none" /\ outPc = "get"
        /\ missed' = (missed \/ (stopNow /\ inputDoneNow /\ backlog # <<>>))
    BY <1>9 DEF PollTimeout, MissedIf, OutputLocal
  <2>2. Types' /\ LeaveInv'
    BY <2>1 DEF Types, LeaveInv, MayLeave, encoderVars
  <2>3. UnitInv'
    BY <2>1, <1>a, QuietUnits DEF Running
  <2>4. UnitsWhole' /\ UnitsInOrder'
    BY <2>1, QuietSent DEF Types
  <2> QED BY <2>1, <2>2, <2>3, <2>4, <1>a, <1>b DEF OutputInv
<1>10. CASE NoPacket
  <2>1. /\ UNCHANGED <<encoderVars, packets, inputDone, stopNow, inputDoneNow, stop,
                       missed>>
        /\ outPc = "none"
    BY <1>10 DEF NoPacket, OnNoPacket, OutputLocal
  <2>2. CASE MayLeave
    <3>1. pendingAu' = <<>> /\ outPc' = "exited"
      BY <1>10, <2>2 DEF NoPacket, OnNoPacket
    <3>2. /\ sent' \in Seq(Seq(Packet))
          /\ UnitsWhole' /\ UnitsInOrder' /\ DeliveredUnlessMissed'
      BY <1>10, <2>2, LeaveKept
    <3>3. Types' /\ LeaveInv' /\ UnitInv'
      BY <2>1, <2>2, <3>1, <3>2, EmptyQueue
      DEF Types, LeaveInv, MayLeave, UnitInv, Running, encoderVars
    <3> QED BY <2>1, <3>2, <3>3, <1>a DEF OutputInv
  <2>3. CASE ~MayLeave
    <3>1. UNCHANGED <<pendingAu, sent>> /\ outPc' = "flags"
      BY <1>10, <2>3 DEF NoPacket, OnNoPacket
    <3>2. Types' /\ LeaveInv'
      BY <2>1, <3>1 DEF Types, LeaveInv, encoderVars
    <3>3. UnitInv'
      BY <2>1, <3>1, <1>a, QuietUnits DEF Running
    <3>4. UnitsWhole' /\ UnitsInOrder'
      BY <2>1, <3>1, QuietSent
    <3> QED BY <2>1, <3>1, <3>2, <3>3, <3>4, <1>a, <1>b DEF OutputInv
  <2> QED BY <2>2, <2>3
<1>11. CASE GetFails
  <2>1. /\ UNCHANGED <<encoderVars, packets, inputDone, stopNow, inputDoneNow, pendingAu,
                       sent, missed>>
        /\ outPc = "get" /\ outPc' = "failed" /\ stop' \in BOOLEAN
    BY <1>11 DEF GetFails, OutputLocal, Types
  <2>2. Types' /\ LeaveInv' /\ UnitInv'
    BY <2>1 DEF Types, LeaveInv, UnitInv, Running, encoderVars
  <2>3. UnitsWhole' /\ UnitsInOrder'
    BY <2>1, QuietSent
  <2> QED BY <2>1, <2>2, <2>3, <1>a, <1>b DEF OutputInv
<1>12. CASE Finished \/ UNCHANGED vars
  <2>1. UNCHANGED vars
    BY <1>12 DEF Finished
  <2>2. Types' /\ LeaveInv' /\ UnitsWhole' /\ UnitsInOrder' /\ DeliveredUnlessMissed'
    BY <2>1 DEF vars, encoderVars, Types, LeaveInv, MayLeave, UnitsWhole, UnitsInOrder,
                DeliveredUnlessMissed, BacklogDelivered
  <2>3. UNCHANGED <<encoderVars, packets, pendingAu, sent, outPc>>
    BY <2>1 DEF vars
  <2>4. UnitInv'
    BY <2>3, <1>a, QuietUnits DEF Running
  <2> QED BY <2>2, <2>3, <2>4, <1>a DEF OutputInv
<1> QED
  BY <1>1, <1>2, <1>3, <1>4, <1>5, <1>6, <1>7, <1>8, <1>9, <1>10, <1>11, <1>12
  DEF Next, Output

-----------------------------------------------------------------------------
(* The stream the encoder emits, the pending unit and the units published   *)
(* fit together at every step, so every promise below is kept at once.      *)
THEOREM OutputInvHolds == Spec => []OutputInv
BY OutputInit, OutputStep, PTL DEF Spec

(* run_encode_output_thread gives ZlmPublisher whole access units; at most  *)
(* the last one is cut short, by a poll that missed the rest of the frame.  *)
THEOREM UnitsWholeHolds == Spec => []UnitsWhole
BY OutputInvHolds, PTL DEF OutputInv

(* It publishes frames in the order they were encoded, and none twice.      *)
THEOREM UnitsInOrderHolds == Spec => []UnitsInOrder
BY OutputInvHolds, PTL DEF OutputInv

(* When it returns without an error, every frame the encoder took has been  *)
(* published or skipped, unless its last poll missed one.                   *)
THEOREM DeliveredHolds == Spec => []DeliveredUnlessMissed
BY OutputInvHolds, PTL DEF OutputInv
=============================================================================
