------------------------------- MODULE AnnexB -------------------------------
(***************************************************************************)
(* How ZlmPublisher cuts an access unit into NAL units: the test for a     *)
(* start code at its beginning, the scan for the others and the ranges     *)
(* between them, one step for one turn of the loop.  Offsets count from 0, *)
(* as in the code.                                                         *)
(***************************************************************************)
EXTENDS Integers, Sequences

CONSTANTS
    Byte,     \* the byte values that occur, 0 and 1 among them
    MaxLen    \* bound of the model: bytes of an access unit

ASSUME AnnexBAssumption == {0, 1} \subseteq Byte /\ MaxLen \in Nat

VARIABLES
    len, data,   \* the access unit: data[0 .. len - 1]
    pc,          \* "check", "scan", and how the call ends
    pos, starts, \* offset of the scan, start codes found
    nalus        \* out_nalus: the ranges from .. to - 1

splitVars == <<len, data, pc, pos, starts, nalus>>

SplitInit ==
    /\ len \in 0 .. MaxLen
    /\ data \in [0 .. len - 1 -> Byte]
    /\ pc = "check" /\ pos = 0 /\ starts = <<>> /\ nalus = <<>>

-----------------------------------------------------------------------------
ShortCode(p) ==
    p + 3 <= len /\ data[p] = 0 /\ data[p + 1] = 0 /\ data[p + 2] = 1

LongCode(p) ==
    /\ p + 4 <= len
    /\ data[p] = 0 /\ data[p + 1] = 0 /\ data[p + 2] = 0 /\ data[p + 3] = 1

(* FindAnnexBPrefix; IsAnnexBStartCode for p = 0 *)
Prefix(p) == LongCode(p) \/ ShortCode(p)

(* the test looks at the zeros only *)
StartsWithZeros == len >= 3 /\ data[0] = 0 /\ data[1] = 0

StartsUnit == Prefix(0)

(* Refused before the time stamps are touched. *)
Refuse ==
    /\ pc = "check" /\ ~StartsUnit
    /\ pc' = "refused"
    /\ UNCHANGED <<len, data, pos, starts, nalus>>

Accept ==
    /\ pc = "check" /\ StartsUnit
    /\ pc' = "scan"
    /\ UNCHANGED <<len, data, pos, starts, nalus>>

(* the scan goes on behind the first byte of the prefix *)
NextByte(p) == p + 1

PastPrefix(p) == IF LongCode(p) THEN p + 4 ELSE p + 3

FindPrefix ==
    /\ pc = "scan" /\ pos + 3 <= len
    /\ Prefix(pos)
    /\ starts' = Append(starts, pos)
    /\ pos' = PastPrefix(pos)
    /\ UNCHANGED <<len, data, pc, nalus>>

SkipByte ==
    /\ pc = "scan" /\ pos + 3 <= len
    /\ ~Prefix(pos)
    /\ pos' = pos + 1
    /\ UNCHANGED <<len, data, pc, starts, nalus>>

End(i) == IF i < Len(starts) THEN starts[i + 1] ELSE len

(* No range is empty: the starts ascend. *)
Cut ==
    /\ pc = "scan" /\ pos + 3 > len
    /\ IF starts = <<>> \/ starts[1] # 0
       THEN pc' = "failed" /\ UNCHANGED nalus
       ELSE /\ pc' = "cut"
            /\ nalus' = [i \in DOMAIN starts |-> [from |-> starts[i], to |-> End(i)]]
    /\ UNCHANGED <<len, data, pos, starts>>

SplitNext == Refuse \/ Accept \/ FindPrefix \/ SkipByte \/ Cut

SplitSpec == SplitInit /\ [][SplitNext]_splitVars

-----------------------------------------------------------------------------
(* The types of the state. *)
SplitTypeOK ==
    /\ len \in Nat /\ data \in [0 .. len - 1 -> Byte]
    /\ pc \in {"check", "refused", "scan", "failed", "cut"}
    /\ pos \in Nat
    /\ starts \in Seq(Nat)
    /\ nalus \in Seq([from : Nat, to : Nat])

(* Where the NAL units of the data begin: at a start code, with the zero   *)
(* before it where there is one.                                           *)
BeginsNalu(p) == LongCode(p) \/ (ShortCode(p) /\ ~(p > 0 /\ LongCode(p - 1)))

(* The units handed to the media source begin at every place one begins    *)
(* and at no other: no start code stays hidden inside a unit, and none is  *)
(* seen twice although a long one contains a short one.                    *)
EveryNaluFound ==
    pc = "cut" =>
        \A p \in 0 .. len : BeginsNalu(p) <=> \E i \in DOMAIN nalus : nalus[i].from = p

(* A unit that passed the test at its beginning can always be cut, so that *)
(* no time stamp is used up for one that is refused afterwards; and the    *)
(* pieces tile it: none is empty, no byte is left out or sent twice.       *)
AcceptedIsTiled ==
    /\ pc # "failed"
    /\ pc = "cut" =>
          /\ nalus # <<>> /\ nalus[1].from = 0 /\ nalus[Len(nalus)].to = len
          /\ \A i \in DOMAIN nalus : nalus[i].from < nalus[i].to
          /\ \A i \in 1 .. Len(nalus) - 1 : nalus[i].to = nalus[i + 1].from
=============================================================================
