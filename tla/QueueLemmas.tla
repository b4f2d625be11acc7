----------------------------- MODULE QueueLemmas -----------------------------
(* Facts about sequences used as queues of distinct elements, as all the   *)
(* std::deque queues of main.cpp are.                                      *)
EXTENDS Sequences, Integers, FiniteSets, Functions, SequenceTheorems,
        FiniteSetTheorems, TLAPS

(* The head of a queue is one of its elements, and an element of the set   *)
(* its elements come from.                                                 *)
LEMMA HeadInRange ==
    ASSUME NEW S, NEW s \in Seq(S), s # <<>>
    PROVE  /\ Head(s) = s[1] /\ 1 \in DOMAIN s
           /\ Head(s) \in Range(s) /\ Head(s) \in S
<1>1. Len(s) \in Nat \ {0} /\ DOMAIN s = 1 .. Len(s)
  BY EmptySeq, LenProperties
<1>2. Head(s) = s[1] /\ 1 \in DOMAIN s
  BY <1>1
<1> QED BY <1>2, HeadTailProperties DEF Range

(* Appending a new element keeps the elements distinct. *)
LEMMA AppendDistinct ==
    ASSUME NEW S, NEW s \in Seq(S), NEW x \in S
    PROVE  /\ Append(s, x) \in Seq(S)
           /\ Range(Append(s, x)) = Range(s) \union {x}
           /\ IsInjective(s) /\ x \notin Range(s) => IsInjective(Append(s, x))
<1> DEFINE a == Append(s, x)
<1>1. /\ a \in Seq(S) /\ Len(a) = Len(s) + 1
      /\ \A i \in 1 .. Len(s) : a[i] = s[i]
      /\ a[Len(s) + 1] = x
  BY AppendProperties
<1>2. Len(s) \in Nat /\ DOMAIN s = 1 .. Len(s)
  BY LenProperties
<1>3. DOMAIN a = 1 .. Len(s) + 1
  BY <1>1, LenProperties
<1>4. Range(a) = Range(s) \union {x}
  <2>1. ASSUME NEW y \in Range(a) PROVE y \in Range(s) \union {x}
    <3>1. PICK i \in 1 .. Len(s) + 1 : y = a[i]
      BY <1>3 DEF Range
    <3>2. CASE i \in 1 .. Len(s)
      BY <3>1, <3>2, <1>1, <1>2 DEF Range
    <3>3. CASE i = Len(s) + 1
      BY <3>1, <3>3, <1>1
    <3> QED BY <3>1, <3>2, <3>3, <1>2
  <2>2. ASSUME NEW y \in Range(s) PROVE y \in Range(a)
    <3>1. PICK i \in 1 .. Len(s) : y = s[i]
      BY <1>2 DEF Range
    <3> QED BY <3>1, <1>1, <1>2, <1>3 DEF Range
  <2>3. x \in Range(a)
    BY <1>1, <1>2, <1>3 DEF Range
  <2> QED BY <2>1, <2>2, <2>3
<1>5. ASSUME IsInjective(s), x \notin Range(s) PROVE IsInjective(a)
  <2>1. ASSUME NEW i \in 1 .. Len(s) + 1, NEW j \in 1 .. Len(s) + 1, a[i] = a[j]
        PROVE  i = j
    <3>1. \A k \in 1 .. Len(s) : a[k] # x
      BY <1>1, <1>2, <1>5 DEF Range
    <3>2. CASE i \in 1 .. Len(s) /\ j \in 1 .. Len(s)
      BY <3>2, <2>1, <1>1, <1>2, <1>5 DEF IsInjective
    <3> QED BY <3>1, <3>2, <2>1, <1>1, <1>2
  <2> QED BY <2>1, <1>3 DEF IsInjective
<1> QED BY <1>1, <1>4, <1>5

(* Taking the head away removes exactly that element. *)
LEMMA TailDistinct ==
    ASSUME NEW S, NEW s \in Seq(S), s # <<>>
    PROVE  /\ Tail(s) \in Seq(S)
           /\ Range(s) = Range(Tail(s)) \union {Head(s)}
           /\ IsInjective(s) => /\ IsInjective(Tail(s))
                                /\ Range(Tail(s)) = Range(s) \ {Head(s)}
<1> DEFINE t == Tail(s)
<1>1. /\ t \in Seq(S) /\ Len(t) = Len(s) - 1
      /\ \A i \in 1 .. Len(t) : t[i] = s[i + 1]
  BY HeadTailProperties
<1>2. Len(s) \in Nat \ {0} /\ DOMAIN s = 1 .. Len(s)
  BY EmptySeq, LenProperties
<1>3. DOMAIN t = 1 .. Len(s) - 1
  BY <1>1, LenProperties
<1>4. Head(s) = s[1]
  BY HeadInRange
<1>5. Range(s) = Range(t) \union {Head(s)}
  <2>1. ASSUME NEW y \in Range(s) PROVE y \in Range(t) \union {s[1]}
    <3>1. PICK i \in 1 .. Len(s) : y = s[i]
      BY <1>2 DEF Range
    <3>2. CASE i = 1
      BY <3>1, <3>2
    <3>3. CASE i # 1
      <4>1. i - 1 \in DOMAIN t /\ t[i - 1] = s[i]
        BY <3>3, <1>1, <1>2, <1>3
      <4> QED BY <4>1, <3>1 DEF Range
    <3> QED BY <3>2, <3>3
  <2>2. ASSUME NEW y \in Range(t) PROVE y \in Range(s)
    <3>1. PICK i \in 1 .. Len(s) - 1 : y = t[i]
      BY <1>3 DEF Range
    <3>2. i + 1 \in DOMAIN s /\ y = s[i + 1]
      BY <3>1, <1>1, <1>2
    <3> QED BY <3>2 DEF Range
  <2>3. s[1] \in Range(s)
    BY <1>2 DEF Range
  <2> QED BY <2>1, <2>2, <2>3, <1>4
<1>6. ASSUME IsInjective(s) PROVE IsInjective(t) /\ Range(t) = Range(s) \ {Head(s)}
  <2>1. ASSUME NEW i \in 1 .. Len(s) - 1, NEW j \in 1 .. Len(s) - 1, t[i] = t[j]
        PROVE  i = j
    <3>1. s[i + 1] = s[j + 1] /\ i + 1 \in DOMAIN s /\ j + 1 \in DOMAIN s
      BY <2>1, <1>1, <1>2
    <3>2. i + 1 = j + 1
      BY <3>1, <1>6 DEF IsInjective
    <3> QED BY <3>2
  <2>2. s[1] \notin Range(t)
    <3>1. SUFFICES ASSUME NEW i \in 1 .. Len(s) - 1, t[i] = s[1] PROVE FALSE
      BY <1>3 DEF Range
    <3>2. s[i + 1] = s[1] /\ i + 1 \in DOMAIN s /\ 1 \in DOMAIN s
      BY <3>1, <1>1, <1>2
    <3>3. i + 1 = 1
      BY <3>2, <1>6 DEF IsInjective
    <3> QED BY <3>3
  <2> QED BY <2>1, <2>2, <1>3, <1>4, <1>5 DEF IsInjective
<1> QED BY <1>1, <1>5, <1>6

(* Two queues that share nothing, one behind the other. *)
LEMMA ConcatDistinct ==
    ASSUME NEW S, NEW s \in Seq(S), NEW t \in Seq(S)
    PROVE  /\ s \o t \in Seq(S)
           /\ Range(s \o t) = Range(s) \union Range(t)
           /\ IsInjective(s) /\ IsInjective(t) /\ Range(s) \intersect Range(t) = {}
                => IsInjective(s \o t)
<1> DEFINE c == s \o t
<1>1. /\ c \in Seq(S) /\ Len(c) = Len(s) + Len(t)
      /\ Len(s) \in Nat /\ Len(t) \in Nat
      /\ \A i \in 1 .. Len(s) + Len(t) : c[i] = IF i <= Len(s) THEN s[i] ELSE t[i - Len(s)]
  BY ConcatProperties, LenProperties
<1>2. /\ DOMAIN c = 1 .. Len(s) + Len(t)
      /\ DOMAIN s = 1 .. Len(s) /\ DOMAIN t = 1 .. Len(t)
  BY <1>1, LenProperties
<1> HIDE DEF c
<1>3. Range(c) = Range(s) \union Range(t)
  <2>1. \A i \in DOMAIN c : c[i] \in Range(s) \union Range(t)
    <3> SUFFICES ASSUME NEW i \in DOMAIN c PROVE c[i] \in Range(s) \union Range(t)
      OBVIOUS
    <3>1. CASE i <= Len(s)
      BY <3>1, <1>1, <1>2 DEF Range
    <3>2. CASE ~ (i <= Len(s))
      <4>1. i - Len(s) \in DOMAIN t /\ c[i] = t[i - Len(s)]
        BY <3>2, <1>1, <1>2
      <4> QED BY <4>1 DEF Range
    <3> QED BY <3>1, <3>2
  <2>2. \A i \in DOMAIN s : i \in DOMAIN c /\ c[i] = s[i]
    BY <1>1, <1>2
  <2>3. \A i \in DOMAIN t : i + Len(s) \in DOMAIN c /\ c[i + Len(s)] = t[i]
    <3> SUFFICES ASSUME NEW i \in DOMAIN t
                 PROVE  i + Len(s) \in DOMAIN c /\ c[i + Len(s)] = t[i]
      OBVIOUS
    <3>1. i + Len(s) \in 1 .. Len(s) + Len(t) /\ ~ (i + Len(s) <= Len(s))
          /\ (i + Len(s)) - Len(s) = i
      BY <1>1, <1>2
    <3> QED BY <3>1, <1>1, <1>2
  <2> QED BY <2>1, <2>2, <2>3 DEF Range
<1>4. ASSUME IsInjective(s), IsInjective(t), Range(s) \intersect Range(t) = {}
      PROVE  IsInjective(c)
  <2> SUFFICES ASSUME NEW i \in DOMAIN c, NEW j \in DOMAIN c, c[i] = c[j] PROVE i = j
    BY DEF IsInjective
  <2>1. \A k \in DOMAIN c :
           \/ k <= Len(s) /\ k \in DOMAIN s /\ c[k] = s[k]
           \/ k > Len(s) /\ k - Len(s) \in DOMAIN t /\ c[k] = t[k - Len(s)]
    BY <1>1, <1>2
  <2>2. \A x \in DOMAIN s, y \in DOMAIN t : s[x] # t[y]
    BY <1>4 DEF Range
  <2>3. CASE i <= Len(s) /\ j <= Len(s)
    BY <2>1, <2>3, <1>1, <1>2, <1>4 DEF IsInjective
  <2>4. CASE i > Len(s) /\ j > Len(s)
    <3>1. i - Len(s) = j - Len(s)
      BY <2>1, <2>4, <1>1, <1>2, <1>4 DEF IsInjective
    <3> QED BY <3>1, <1>1, <1>2
  <2>5. CASE i <= Len(s) /\ j > Len(s)
    BY <2>1, <2>2, <2>5, <1>1, <1>2
  <2>6. CASE i > Len(s) /\ j <= Len(s)
    BY <2>1, <2>2, <2>6, <1>1, <1>2
  <2> QED BY <2>3, <2>4, <2>5, <2>6, <1>1, <1>2
<1> QED BY <1>1, <1>3, <1>4 DEF c

(* A queue of n elements holds at most n different ones. *)
LEMMA RangeCardinality ==
    ASSUME NEW S, NEW s \in Seq(S)
    PROVE  /\ IsFiniteSet(Range(s))
           /\ Cardinality(Range(s)) \in Nat
           /\ Cardinality(Range(s)) <= Len(s)
<1>1. Len(s) \in Nat /\ DOMAIN s = 1 .. Len(s) /\ s \in [1 .. Len(s) -> S]
  BY LenProperties
<1>2. s \in Surjection(1 .. Len(s), Range(s))
  <2>1. s \in [1 .. Len(s) -> Range(s)]
    BY <1>1 DEF Range
  <2> QED BY <1>1, <2>1 DEF Surjection, Range
<1>3. IsFiniteSet(1 .. Len(s)) /\ Cardinality(1 .. Len(s)) = Len(s)
  BY <1>1, FS_Interval
<1> QED BY <1>2, <1>3, FS_Surjection, FS_CardinalityType

(* The empty queue. *)
LEMMA EmptyQueue ==
    ASSUME NEW S
    PROVE  <<>> \in Seq(S) /\ IsInjective(<<>>) /\ Range(<<>>) = {} /\ Len(<<>>) = 0
BY EmptySeq DEF IsInjective, Range
-----------------------------------------------------------------------------
(* s lists its elements by increasing f. *)
SortedBy(s, f) == \A i, j \in DOMAIN s : i <= j => f[s[i]] <= f[s[j]]

(* What is not smaller than the others may be appended. *)
LEMMA SortedAppend ==
    ASSUME NEW S, NEW s \in Seq(S), NEW x \in S, NEW f \in [S -> Int],
           SortedBy(s, f), \A y \in Range(s) : f[y] <= f[x]
    PROVE  SortedBy(Append(s, x), f)
<1> DEFINE a == Append(s, x)
<1>1. /\ a \in Seq(S) /\ Len(a) = Len(s) + 1
      /\ \A i \in 1 .. Len(s) : a[i] = s[i] /\ s[i] \in S
      /\ a[Len(s) + 1] = x
  BY AppendProperties, ElementOfSeq
<1>2. Len(s) \in Nat /\ DOMAIN s = 1 .. Len(s) /\ DOMAIN a = 1 .. Len(s) + 1
  BY <1>1, LenProperties
<1> SUFFICES ASSUME NEW i \in 1 .. Len(s) + 1, NEW j \in 1 .. Len(s) + 1, i <= j
             PROVE  f[a[i]] <= f[a[j]]
  BY <1>2 DEF SortedBy
<1>3. CASE j \in 1 .. Len(s)
  <2>1. i \in 1 .. Len(s) /\ a[i] = s[i] /\ a[j] = s[j]
    BY <1>1, <1>2, <1>3
  <2> QED BY <2>1, <1>2, <1>3 DEF SortedBy
<1>4. CASE j = Len(s) + 1 /\ i \in 1 .. Len(s)
  <2>1. a[i] = s[i] /\ a[j] = x /\ s[i] \in Range(s)
    BY <1>1, <1>2, <1>4 DEF Range
  <2> QED BY <2>1
<1>5. CASE i = Len(s) + 1 /\ j = Len(s) + 1
  <2>1. a[i] = x /\ a[j] = x /\ f[x] \in Int
    BY <1>1, <1>5
  <2> QED BY <2>1
<1> QED BY <1>2, <1>3, <1>4, <1>5

(* The head of a sorted queue is its minimum, and the rest is sorted. *)
LEMMA SortedTail ==
    ASSUME NEW S, NEW s \in Seq(S), NEW f, s # <<>>, SortedBy(s, f)
    PROVE  /\ SortedBy(Tail(s), f)
           /\ \A y \in Range(s) : f[Head(s)] <= f[y]
<1>1. /\ Tail(s) \in Seq(S) /\ Len(Tail(s)) = Len(s) - 1
      /\ \A i \in 1 .. Len(s) - 1 : Tail(s)[i] = s[i + 1]
  BY HeadTailProperties
<1>2. Len(s) \in Nat \ {0} /\ DOMAIN s = 1 .. Len(s) /\ Head(s) = s[1]
      /\ DOMAIN Tail(s) = 1 .. Len(s) - 1
  BY <1>1, EmptySeq, LenProperties, HeadInRange
<1>3. SortedBy(Tail(s), f)
  <2> SUFFICES ASSUME NEW i \in 1 .. Len(s) - 1, NEW j \in 1 .. Len(s) - 1, i <= j
               PROVE  f[Tail(s)[i]] <= f[Tail(s)[j]]
    BY <1>2 DEF SortedBy
  <2>1. /\ Tail(s)[i] = s[i + 1] /\ Tail(s)[j] = s[j + 1]
        /\ i + 1 \in DOMAIN s /\ j + 1 \in DOMAIN s /\ i + 1 <= j + 1
    BY <1>1, <1>2
  <2> QED BY <2>1 DEF SortedBy
<1>4. ASSUME NEW y \in Range(s) PROVE f[Head(s)] <= f[y]
  <2>1. PICK i \in 1 .. Len(s) : y = s[i]
    BY <1>2 DEF Range
  <2>2. 1 \in DOMAIN s /\ i \in DOMAIN s /\ 1 <= i
    BY <1>2
  <2> QED BY <2>1, <2>2, <1>2 DEF SortedBy
<1> QED BY <1>3, <1>4

(* Only the values of the elements matter. *)
LEMMA SortedSame ==
    ASSUME NEW s, NEW f, NEW g, SortedBy(s, f), \A y \in Range(s) : g[y] = f[y]
    PROVE  SortedBy(s, g)
BY DEF SortedBy, Range
=============================================================================
