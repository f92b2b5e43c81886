--------------------------- MODULE BuffersProofs ----------------------------
(***************************************************************************)
(* Proofs about net::buffers and the free list of net::buffer::allocator   *)
(* (module Buffers), for any number of buffers, producers and consumers.   *)
(*                                                                         *)
(* The properties speak of the sequences that one finds by following the   *)
(* pointers.  The proof goes the other way round: at every moment there    *)
(* are sequences q, fl and h[t] that the pointers link (Ring, Stack and    *)
(* Segment), which have no buffer in common and together hold all that     *)
(* are allocated (Apart).  For each operation a lemma says what it makes   *)
(* of these sequences; that following the pointers finds them again is one *)
(* lemma, Shown.  Induction is over a set of natural numbers.              *)
(***************************************************************************)
EXTENDS Buffers, FiniteSetTheorems, SequenceTheorems, TLAPS

-----------------------------------------------------------------------------
(* Induction, for a set: a least element outside of it has a predecessor.  *)
LEMMA SetInduction ==
  ASSUME NEW K, 0 \in K, \A n \in Nat : n \in K => n + 1 \in K
  PROVE  Nat \subseteq K
<1> DEFINE R == OpToRel(<, Nat)
           T == Nat \ K
<1>1. ASSUME T # {} PROVE FALSE
  <2>1. IsWellFoundedOn(R, Nat)
    BY NatLessThanWellFounded
  <2>2. PICK x \in T : \A y \in T : ~(<<y, x>> \in R)
    <3> HIDE DEF R
    <3> QED BY <1>1, <2>1, WFMin
  <2>3. x \in Nat /\ x # 0 /\ x - 1 \in Nat
    OBVIOUS
  <2>4. x - 1 \notin K
    BY <2>3
  <2>5. <<x - 1, x>> \in R
    BY <2>3 DEF OpToRel
  <2> QED BY <2>2, <2>3, <2>4, <2>5
<1> QED BY <1>1

(* What follows an object. *)
After(b) == IF b \in DOMAIN next THEN next[b] ELSE Null

LEMMA WalkExists ==
  ASSUME NEW f, NEW N \in Nat
  PROVE  \E w : w = [i \in 0..N |-> IF i = 0 THEN f ELSE After(w[i - 1])]
<1> DEFINE Good(w, k) == w = [i \in 0..k |-> IF i = 0 THEN f ELSE After(w[i - 1])]
           K == {k \in Nat : \E w : Good(w, k)}
<1>1. 0 \in K
  <2>1. Good([i \in 0..0 |-> f], 0)
    OBVIOUS
  <2> QED BY <2>1
<1>2. ASSUME NEW k \in Nat, k \in K PROVE k + 1 \in K
  <2>1. PICK w : Good(w, k)
    BY <1>2
  <2> DEFINE v == [i \in 0..(k + 1) |-> IF i = k + 1 THEN After(w[k]) ELSE w[i]]
  <2>2. Good(v, k + 1)
    <3>1. ASSUME NEW i \in 0..(k + 1)
          PROVE  v[i] = IF i = 0 THEN f ELSE After(v[i - 1])
      <4>1. CASE i = k + 1
        BY <4>1
      <4>2. CASE i \in 0..k
        <5>1. w[i] = IF i = 0 THEN f ELSE After(w[i - 1])
          BY <2>1, <4>2
        <5>2. v[i] = w[i] /\ (i # 0 => v[i - 1] = w[i - 1])
          BY <4>2
        <5> QED BY <5>1, <5>2
      <4> QED BY <4>1, <4>2
    <3> QED BY <3>1
  <2>3. \E u : Good(u, k + 1)
    <3> HIDE DEF v, Good
    <3> QED BY <2>2
  <2> QED BY <2>3
<1>3. Nat \subseteq K
  <2> HIDE DEF K
  <2> QED BY <1>1, <1>2, SetInduction
<1> QED BY <1>3

(* The objects met on the way. *)
LEMMA WalkMeets ==
  ASSUME NEW f
  PROVE  LET N == Cardinality(Buffer)
             w == Walk(f)
         IN /\ N \in Nat
            /\ w = [i \in 0..N |-> IF i = 0 THEN f ELSE After(w[i - 1])]
<1>1. Cardinality(Buffer) \in Nat
  BY BuffersAssumption, FS_CardinalityType
<1> QED BY <1>1, WalkExists DEF Walk, After

-----------------------------------------------------------------------------
(* Chains that the pointers link.                                          *)

(* s is a way along the pointers from f to the first l that is met. *)
Path(f, l, s) ==
  /\ s \in Seq(Buffer \cup {Null}) /\ Len(s) \in 1..(Cardinality(Buffer) + 1)
  /\ s[1] = f /\ f # Null /\ s[Len(s)] = l
  /\ \A i \in 1..(Len(s) - 1) : /\ s[i] \in DOMAIN next /\ next[s[i]] = s[i + 1]
                                /\ s[i] # l

(* distance(), and all who follow the pointers, find that way. *)
LEMMA ChainIs == \A f, l, s : Path(f, l, s) => Chain(f, l) = s
<1> SUFFICES ASSUME NEW f, NEW l, NEW s, Path(f, l, s) PROVE Chain(f, l) = s
  OBVIOUS
<1>1. PICK N \in Nat : N = Cardinality(Buffer)
  BY WalkMeets
<1>2. PICK w : /\ w = Walk(f)
               /\ w = [i \in 0..N |-> IF i = 0 THEN f ELSE After(w[i - 1])]
  BY <1>1, WalkMeets
<1>3. PICK k \in Nat : /\ k + 1 = Len(s) /\ k <= N /\ DOMAIN s = 1..(k + 1)
                       /\ s = [i \in 1..(k + 1) |-> s[i]]
  <2>1. Len(s) \in 1..(N + 1) /\ DOMAIN s = 1..Len(s)
    BY <1>1, LenProperties DEF Path
  <2>2. s = [i \in 1..Len(s) |-> s[i]]
    BY <2>1 DEF Path
  <2>3. Len(s) - 1 \in Nat /\ (Len(s) - 1) + 1 = Len(s) /\ Len(s) - 1 <= N
    BY <2>1
  <2> QED BY <2>1, <2>2, <2>3
<1>4. /\ s[1] = f /\ s[k + 1] = l /\ f # Null
      /\ \A i \in 1..k : After(s[i]) = s[i + 1] /\ s[i] # l
  <2>1. Len(s) - 1 = k
    BY <1>3
  <2>2. \A i \in 1..k : s[i] \in DOMAIN next /\ next[s[i]] = s[i + 1] /\ s[i] # l
    BY <2>1 DEF Path
  <2>3. s[1] = f /\ s[k + 1] = l /\ f # Null
    BY <1>3 DEF Path
  <2> QED BY <2>2, <2>3 DEF After
<1>5. \A i \in 0..k : w[i] = s[i + 1]
  <2> DEFINE K == {i \in Nat : i <= k => w[i] = s[i + 1]}
  <2>1. 0 \in K
    BY <1>2, <1>4
  <2>2. ASSUME NEW i \in Nat, i \in K PROVE i + 1 \in K
    <3> SUFFICES ASSUME i + 1 <= k PROVE w[i + 1] = s[i + 2]
      OBVIOUS
    <3>1. w[i] = s[i + 1]
      BY <1>3, <2>2
    <3>2. w[i + 1] = After(w[i])
      <4>1. i + 1 \in 0..N /\ i + 1 # 0 /\ (i + 1) - 1 = i
        BY <1>3
      <4> QED BY <1>2, <4>1
    <3>3. After(s[i + 1]) = s[i + 2]
      <4>1. i + 1 \in 1..k /\ (i + 1) + 1 = i + 2
        BY <1>3
      <4> QED BY <1>4, <4>1
    <3> QED BY <3>1, <3>2, <3>3
  <2>3. Nat \subseteq K
    <3> HIDE DEF K
    <3> QED BY <2>1, <2>2, SetInduction
  <2> QED BY <2>3
<1>6. /\ Reached(f, l) # {} /\ k \in Reached(f, l)
      /\ \A i \in Reached(f, l) : i \in Nat /\ k <= i
  <2>1. Reached(f, l) = {i \in 0..N : w[i] = l}
    BY <1>2 DEF Reached
  <2>2. ASSUME NEW i \in 0..N, i < k PROVE w[i] # l
    <3>1. i + 1 \in 1..k /\ i \in 0..k
      BY <1>3, <2>2
    <3> QED BY <1>4, <1>5, <3>1
  <2> QED BY <1>3, <1>4, <1>5, <2>1, <2>2
<1>7. Min(Reached(f, l)) = k
  <2>1. \A x \in Reached(f, l) : (\A y \in Reached(f, l) : x <= y) => x = k
    BY <1>6
  <2> QED BY <1>6, <2>1 DEF Min
<1>8. Chain(f, l) = [i \in 1..(k + 1) |-> w[i - 1]]
  BY <1>2, <1>4, <1>6, <1>7 DEF Chain
<1>9. \A i \in 1..(k + 1) : w[i - 1] = s[i]
  <2> SUFFICES ASSUME NEW i \in 1..(k + 1) PROVE w[i - 1] = s[i]
    OBVIOUS
  <2>1. i - 1 \in 0..k /\ (i - 1) + 1 = i
    OBVIOUS
  <2> QED BY <1>5, <2>1
<1> QED BY <1>3, <1>8, <1>9

-----------------------------------------------------------------------------
(* Sequences of buffers.                                                   *)

Distinct(s) == \A i, j \in 1..Len(s) : s[i] = s[j] => i = j

(* n links s; what comes behind its last element is left open. *)
Linked(n, s) == \A i \in 1..(Len(s) - 1) : n[s[i]] = s[i + 1]

First(s, none) == IF s = <<>> THEN none ELSE s[1]
End(s, none)   == IF s = <<>> THEN none ELSE s[Len(s)]

LEMMA Elements ==
  ASSUME NEW S, NEW s \in Seq(S)
  PROVE  /\ Len(s) \in Nat /\ DOMAIN s = 1..Len(s)
         /\ \A i \in 1..Len(s) : s[i] \in S /\ s[i] \in ToSet(s)
         /\ \A b \in ToSet(s) : \E i \in 1..Len(s) : s[i] = b
         /\ ToSet(s) \subseteq S
         /\ s = <<>> <=> Len(s) = 0
         /\ s = <<>> <=> ToSet(s) = {}
         /\ s # <<>> => 1 \in 1..Len(s) /\ Len(s) \in 1..Len(s)
<1>1. Len(s) \in Nat /\ DOMAIN s = 1..Len(s)
  BY LenProperties
<1>2. \A i \in 1..Len(s) : s[i] \in S
  BY <1>1, ElementOfSeq
<1>3. s = <<>> <=> Len(s) = 0
  BY EmptySeq
<1>4. \A i \in 1..Len(s) : s[i] \in ToSet(s)
  BY <1>1 DEF ToSet
<1>5. \A b \in ToSet(s) : \E i \in 1..Len(s) : s[i] = b
  BY <1>1 DEF ToSet
<1>6. ToSet(s) \subseteq S
  BY <1>2, <1>5
<1>7. s # <<>> => 1 \in 1..Len(s) /\ Len(s) \in 1..Len(s)
  BY <1>1, <1>3
<1>8. s = <<>> <=> ToSet(s) = {}
  BY <1>1, <1>3, <1>4, <1>5, <1>7
<1> QED BY <1>1, <1>2, <1>3, <1>4, <1>5, <1>6, <1>7, <1>8

LEMMA Ends ==
  ASSUME NEW S, NEW s \in Seq(S), s # <<>>, NEW none
  PROVE  /\ First(s, none) = s[1] /\ End(s, none) = s[Len(s)]
         /\ s[1] \in S /\ s[Len(s)] \in S
         /\ s[1] \in ToSet(s) /\ s[Len(s)] \in ToSet(s)
BY Elements DEF First, End

(* Two sequences, one behind the other. *)
LEMMA Concat ==
  ASSUME NEW S, NEW s \in Seq(S), NEW t \in Seq(S)
  PROVE  /\ s \o t \in Seq(S) /\ Len(s \o t) = Len(s) + Len(t)
         /\ \A i \in 1..Len(s) : (s \o t)[i] = s[i]
         /\ \A i \in 1..Len(t) : (s \o t)[Len(s) + i] = t[i]
         /\ ToSet(s \o t) = ToSet(s) \cup ToSet(t)
<1>1. /\ s \o t \in Seq(S) /\ Len(s \o t) = Len(s) + Len(t)
      /\ \A i \in 1..(Len(s) + Len(t)) :
           (s \o t)[i] = IF i <= Len(s) THEN s[i] ELSE t[i - Len(s)]
  BY ConcatProperties
<1>2. Len(s) \in Nat /\ Len(t) \in Nat
  BY LenProperties
<1>3. \A i \in 1..Len(s) : (s \o t)[i] = s[i]
  BY <1>1, <1>2
<1>4. \A i \in 1..Len(t) : (s \o t)[Len(s) + i] = t[i]
  <2> SUFFICES ASSUME NEW i \in 1..Len(t) PROVE (s \o t)[Len(s) + i] = t[i]
    OBVIOUS
  <2>1. Len(s) + i \in 1..(Len(s) + Len(t)) /\ ~(Len(s) + i <= Len(s))
        /\ (Len(s) + i) - Len(s) = i
    BY <1>2
  <2> QED BY <1>1, <2>1
<1>5. ASSUME NEW b \in ToSet(s \o t) PROVE b \in ToSet(s) \cup ToSet(t)
  <2>0. \E i \in 1..Len(s \o t) : (s \o t)[i] = b
    BY <1>1, Elements
  <2>1. PICK i \in 1..(Len(s) + Len(t)) : (s \o t)[i] = b
    BY <1>1, <2>0
  <2>2. CASE i <= Len(s)
    <3>1. i \in 1..Len(s) /\ s[i] = b
      BY <1>1, <1>2, <2>1, <2>2
    <3> QED BY <3>1, Elements
  <2>3. CASE ~(i <= Len(s))
    <3>1. i - Len(s) \in 1..Len(t) /\ t[i - Len(s)] = b
      BY <1>1, <1>2, <2>1, <2>3
    <3> QED BY <3>1, Elements
  <2> QED BY <2>2, <2>3
<1>6. ASSUME NEW b \in ToSet(s) PROVE b \in ToSet(s \o t)
  <2>1. PICK i \in 1..Len(s) : s[i] = b
    BY <1>6, Elements
  <2>2. i \in 1..Len(s \o t) /\ (s \o t)[i] = b
    BY <1>1, <1>2, <1>3, <2>1
  <2> QED BY <1>1, <2>2, Elements
<1>7. ASSUME NEW b \in ToSet(t) PROVE b \in ToSet(s \o t)
  <2>1. PICK i \in 1..Len(t) : t[i] = b
    BY <1>7, Elements
  <2>2. Len(s) + i \in 1..Len(s \o t) /\ (s \o t)[Len(s) + i] = b
    BY <1>1, <1>2, <1>4, <2>1
  <2> QED BY <1>1, <2>2, Elements
<1>8. ToSet(s \o t) = ToSet(s) \cup ToSet(t)
  BY <1>5, <1>6, <1>7
<1> QED BY <1>1, <1>3, <1>4, <1>8

LEMMA ConcatEnds ==
  ASSUME NEW S, NEW s \in Seq(S), NEW t \in Seq(S), NEW none
  PROVE  /\ First(s \o t, none) = First(s, First(t, none))
         /\ End(s \o t, none) = End(t, End(s, none))
         /\ s \o t = <<>> <=> s = <<>> /\ t = <<>>
<1>1. /\ Len(s) \in Nat /\ Len(t) \in Nat /\ Len(s \o t) = Len(s) + Len(t)
      /\ s = <<>> <=> Len(s) = 0
      /\ t = <<>> <=> Len(t) = 0
      /\ s \o t = <<>> <=> Len(s \o t) = 0
  BY Concat, EmptySeq, LenProperties
<1>2. CASE s = <<>>
  BY <1>1, <1>2 DEF First, End
<1>3. CASE s # <<>> /\ t = <<>>
  BY <1>1, <1>3 DEF First, End
<1>4. CASE s # <<>> /\ t # <<>>
  <2>1. 1 \in 1..Len(s) /\ Len(t) \in 1..Len(t)
    BY <1>1, <1>4
  <2>2. (s \o t)[1] = s[1] /\ (s \o t)[Len(s) + Len(t)] = t[Len(t)]
    BY <2>1, Concat
  <2> QED BY <1>1, <1>4, <2>2 DEF First, End
<1> QED BY <1>2, <1>3, <1>4

LEMMA ConcatDistinct ==
  ASSUME NEW S, NEW s \in Seq(S), NEW t \in Seq(S), Distinct(s), Distinct(t),
         ToSet(s) \cap ToSet(t) = {}
  PROVE  Distinct(s \o t)
<1>1. /\ Len(s) \in Nat /\ Len(t) \in Nat /\ Len(s \o t) = Len(s) + Len(t)
      /\ \A i \in 1..Len(s) : (s \o t)[i] = s[i]
      /\ \A i \in 1..Len(t) : (s \o t)[Len(s) + i] = t[i]
  BY Concat, LenProperties
<1>2. \A i \in 1..Len(s), j \in 1..Len(t) : s[i] # t[j]
  BY Elements
<1> SUFFICES ASSUME NEW i \in 1..Len(s \o t), NEW j \in 1..Len(s \o t),
                    (s \o t)[i] = (s \o t)[j]
             PROVE  i = j
  BY DEF Distinct
<1>3. ASSUME NEW k \in 1..Len(s \o t)
      PROVE  \/ k \in 1..Len(s) /\ (s \o t)[k] = s[k]
             \/ k - Len(s) \in 1..Len(t) /\ (s \o t)[k] = t[k - Len(s)]
  <2>1. CASE k <= Len(s)
    BY <1>1, <2>1
  <2>2. CASE ~(k <= Len(s))
    <3>1. k - Len(s) \in 1..Len(t) /\ Len(s) + (k - Len(s)) = k
      BY <1>1, <2>2
    <3>2. (s \o t)[Len(s) + (k - Len(s))] = t[k - Len(s)]
      BY <1>1, <3>1
    <3> QED BY <3>1, <3>2
  <2> QED BY <2>1, <2>2
<1>4. CASE i \in 1..Len(s) /\ j \in 1..Len(s)
  BY <1>1, <1>4 DEF Distinct
<1>5. CASE i - Len(s) \in 1..Len(t) /\ j - Len(s) \in 1..Len(t)
  <2>1. t[i - Len(s)] = t[j - Len(s)]
    <3>1. ~(i \in 1..Len(s)) /\ ~(j \in 1..Len(s))
      BY <1>1, <1>5
    <3> QED BY <1>3, <3>1
  <2>2. i - Len(s) = j - Len(s)
    BY <1>5, <2>1 DEF Distinct
  <2> QED BY <1>1, <2>2
<1>6. CASE i \in 1..Len(s) /\ j - Len(s) \in 1..Len(t)
  <2>1. ~(j \in 1..Len(s)) /\ ~(i - Len(s) \in 1..Len(t))
    BY <1>1, <1>6
  <2>2. s[i] = t[j - Len(s)]
    BY <1>3, <2>1
  <2> QED BY <1>2, <1>6, <2>2
<1>7. CASE j \in 1..Len(s) /\ i - Len(s) \in 1..Len(t)
  <2>1. ~(i \in 1..Len(s)) /\ ~(j - Len(s) \in 1..Len(t))
    BY <1>1, <1>7
  <2>2. s[j] = t[i - Len(s)]
    BY <1>3, <2>1
  <2> QED BY <1>2, <1>7, <2>2
<1> QED BY <1>3, <1>4, <1>5, <1>6, <1>7

LEMMA ConcatLinked ==
  ASSUME NEW S, NEW s \in Seq(S), NEW t \in Seq(S), NEW n, Linked(n, s), Linked(n, t),
         s # <<>> /\ t # <<>> => n[s[Len(s)]] = t[1]
  PROVE  Linked(n, s \o t)
<1>1. /\ Len(s) \in Nat /\ Len(t) \in Nat /\ Len(s \o t) = Len(s) + Len(t)
      /\ \A i \in 1..Len(s) : (s \o t)[i] = s[i]
      /\ \A i \in 1..Len(t) : (s \o t)[Len(s) + i] = t[i]
      /\ s = <<>> <=> Len(s) = 0
      /\ t = <<>> <=> Len(t) = 0
  BY Concat, LenProperties, EmptySeq
<1> SUFFICES ASSUME NEW i \in 1..(Len(s \o t) - 1)
             PROVE  n[(s \o t)[i]] = (s \o t)[i + 1]
  BY DEF Linked
<1>2. CASE i < Len(s)
  <2>1. i \in 1..Len(s) /\ i + 1 \in 1..Len(s) /\ i \in 1..(Len(s) - 1)
    BY <1>1, <1>2
  <2> QED BY <1>1, <2>1 DEF Linked
<1>3. CASE i = Len(s)
  <2>1. i \in 1..Len(s) /\ 1 \in 1..Len(t) /\ s # <<>> /\ t # <<>>
    BY <1>1, <1>3
  <2> QED BY <1>1, <1>3, <2>1
<1>4. CASE i > Len(s)
  <2>1. PICK j \in Nat : i = Len(s) + j /\ j \in 1..(Len(t) - 1)
    <3>1. i - Len(s) \in 1..(Len(t) - 1) /\ i = Len(s) + (i - Len(s))
      BY <1>1, <1>4
    <3> QED BY <3>1
  <2>2. /\ j \in 1..Len(t) /\ j + 1 \in 1..Len(t)
        /\ i + 1 = Len(s) + (j + 1)
    BY <1>1, <2>1
  <2>3. (s \o t)[i] = t[j] /\ (s \o t)[i + 1] = t[j + 1]
    BY <1>1, <2>1, <2>2
  <2> QED BY <2>1, <2>3 DEF Linked
<1> QED BY <1>1, <1>2, <1>3, <1>4

(* A sequence without its first element. *)
LEMMA Tails ==
  ASSUME NEW S, NEW s \in Seq(S), s # <<>>, Distinct(s), NEW n, Linked(n, s)
  PROVE  /\ Tail(s) \in Seq(S) /\ Len(Tail(s)) = Len(s) - 1
         /\ Distinct(Tail(s)) /\ Linked(n, Tail(s))
         /\ ToSet(Tail(s)) = ToSet(s) \ {s[1]}
         /\ Tail(s) = <<>> <=> s[1] = s[Len(s)]
         /\ Tail(s) # <<>> => n[s[1]] = Tail(s)[1] /\ s[Len(s)] = Tail(s)[Len(Tail(s))]
<1>1. /\ Tail(s) \in Seq(S) /\ Len(Tail(s)) = Len(s) - 1
      /\ \A i \in 1..(Len(s) - 1) : Tail(s)[i] = s[i + 1]
      /\ Len(s) \in Nat /\ Len(s) >= 1
  BY HeadTailProperties, EmptySeq, LenProperties
<1>2. Distinct(Tail(s))
  <2> SUFFICES ASSUME NEW i \in 1..(Len(s) - 1), NEW j \in 1..(Len(s) - 1),
                      Tail(s)[i] = Tail(s)[j]
               PROVE  i = j
    BY <1>1 DEF Distinct
  <2>1. i + 1 \in 1..Len(s) /\ j + 1 \in 1..Len(s) /\ s[i + 1] = s[j + 1]
    BY <1>1
  <2>2. i + 1 = j + 1
    BY <2>1 DEF Distinct
  <2> QED BY <2>2
<1>3. Linked(n, Tail(s))
  <2> SUFFICES ASSUME NEW i \in 1..((Len(s) - 1) - 1)
               PROVE  n[Tail(s)[i]] = Tail(s)[i + 1]
    BY <1>1 DEF Linked
  <2>1. i \in 1..(Len(s) - 1) /\ i + 1 \in 1..(Len(s) - 1)
    BY <1>1
  <2>2. Tail(s)[i] = s[i + 1] /\ Tail(s)[i + 1] = s[(i + 1) + 1]
    BY <1>1, <2>1
  <2> QED BY <2>1, <2>2 DEF Linked
<1>4. ASSUME NEW b \in ToSet(Tail(s)) PROVE b \in ToSet(s) \ {s[1]}
  <2>0. Len(Tail(s)) = Len(s) - 1 /\ \E i \in 1..Len(Tail(s)) : Tail(s)[i] = b
    BY <1>1, <1>4, Elements
  <2>1. PICK i \in 1..(Len(s) - 1) : Tail(s)[i] = b
    BY <2>0
  <2>2. i + 1 \in 1..Len(s) /\ 1 \in 1..Len(s) /\ i + 1 # 1 /\ s[i + 1] = b
    BY <1>1, <2>1
  <2> QED BY <2>2, Elements DEF Distinct
<1>5. ASSUME NEW b \in ToSet(s), b # s[1] PROVE b \in ToSet(Tail(s))
  <2>1. PICK i \in 1..Len(s) : s[i] = b
    BY <1>5, Elements
  <2>2. i - 1 \in 1..(Len(s) - 1) /\ (i - 1) + 1 = i
    BY <1>1, <1>5, <2>1
  <2>3. Tail(s)[i - 1] = b /\ i - 1 \in 1..Len(Tail(s))
    BY <1>1, <2>1, <2>2
  <2> QED BY <1>1, <2>3, Elements
<1>6. Tail(s) = <<>> <=> s[1] = s[Len(s)]
  <2>1. Tail(s) = <<>> <=> Len(s) = 1
    BY <1>1, EmptySeq
  <2>2. s[1] = s[Len(s)] <=> Len(s) = 1
    BY <1>1 DEF Distinct
  <2> QED BY <2>1, <2>2
<1>7. ASSUME Tail(s) # <<>>
      PROVE  n[s[1]] = Tail(s)[1] /\ s[Len(s)] = Tail(s)[Len(Tail(s))]
  <2>1. Len(s) > 1
    BY <1>1, <1>7, EmptySeq
  <2>2. 1 \in 1..(Len(s) - 1) /\ Len(s) - 1 \in 1..(Len(s) - 1)
    BY <1>1, <2>1
  <2>3. Tail(s)[1] = s[1 + 1] /\ Tail(s)[Len(s) - 1] = s[Len(s)]
    BY <1>1, <2>2
  <2> QED BY <1>1, <2>2, <2>3 DEF Linked
<1> QED BY <1>1, <1>2, <1>3, <1>4, <1>5, <1>6, <1>7

(* One element. *)
LEMMA Singles ==
  ASSUME NEW S, NEW b \in S, NEW n
  PROVE  /\ <<b>> \in Seq(S) /\ Len(<<b>>) = 1 /\ <<b>>[1] = b /\ <<b>> # <<>>
         /\ Distinct(<<b>>) /\ Linked(n, <<b>>) /\ ToSet(<<b>>) = {b}
<1>1. <<b>> \in Seq(S) /\ Len(<<b>>) = 1 /\ <<b>>[1] = b /\ <<b>> # <<>>
  OBVIOUS
<1>2. Distinct(<<b>>) /\ Linked(n, <<b>>)
  BY <1>1 DEF Distinct, Linked
<1>3. ToSet(<<b>>) = {b}
  BY <1>1 DEF ToSet
<1> QED BY <1>1, <1>2, <1>3

LEMMA Empties ==
  ASSUME NEW S, NEW n
  PROVE  /\ <<>> \in Seq(S) /\ Len(<<>>) = 0
         /\ Distinct(<<>>) /\ Linked(n, <<>>) /\ ToSet(<<>>) = {}
<1>1. <<>> \in Seq(S) /\ Len(<<>>) = 0
  OBVIOUS
<1>2. ToSet(<<>>) = {}
  BY <1>1, Elements
<1>3. Distinct(<<>>) /\ Linked(n, <<>>)
  BY <1>1 DEF Distinct, Linked
<1> QED BY <1>1, <1>2, <1>3

(* Pointers that differ elsewhere, or behind the last element, link too. *)
LEMMA LinkedSame ==
  ASSUME NEW S, NEW s \in Seq(S), Distinct(s), NEW n, NEW m, Linked(n, s),
         \A b \in ToSet(s) : b # s[Len(s)] => m[b] = n[b]
  PROVE  Linked(m, s)
<1> SUFFICES ASSUME NEW i \in 1..(Len(s) - 1) PROVE m[s[i]] = s[i + 1]
  BY DEF Linked
<1>1. Len(s) \in Nat
  BY LenProperties
<1>2. i \in 1..Len(s) /\ Len(s) \in 1..Len(s) /\ i # Len(s)
  BY <1>1
<1>3. s[i] \in ToSet(s) /\ s[i] # s[Len(s)]
  BY <1>2, Elements DEF Distinct
<1> QED BY <1>3 DEF Linked

-----------------------------------------------------------------------------
(* The lists, and what the operations do to them.                          *)

LEMMA KeepsLinks ==
  \A s \in Seq(Buffer) : \A n, m :
    /\ Distinct(s) /\ Linked(n, s)
    /\ \A b \in ToSet(s) : b # s[Len(s)] => m[b] = n[b]
    => Linked(m, s)
BY LinkedSame

Pointers == [Buffer \cup {Header} -> Pointer]

Ring(n, bk, q) == /\ Linked(n, q) /\ n[Header] = First(q, Header)
                  /\ bk = End(q, Header) /\ n[bk] = Header

Stack(n, f, s) == /\ Linked(n, s) /\ f = First(s, Null)
                  /\ s # <<>> => n[s[Len(s)]] = Null

Segment(n, f, l, c) == Linked(n, c) /\ f = First(c, Null) /\ l = End(c, Null)

LEMMA Objects == /\ Header \notin Buffer /\ Null \notin Buffer /\ Header # Null
                 /\ Buffer \cup {Header, Null} = Pointer
BY BuffersAssumption DEF Pointer

LEMMA ListEnds ==
  ASSUME NEW n \in Pointers, NEW q \in Seq(Buffer), NEW c \in Seq(Buffer), c # <<>>,
         ToSet(q) \cap ToSet(c) = {},
         NEW bk, Ring(n, bk, q), NEW f, NEW l, Segment(n, f, l, c)
  PROVE  /\ bk \in Buffer \cup {Header} /\ f \in Buffer /\ l \in Buffer
         /\ bk # l /\ l # Header
         /\ bk \in Pointer /\ f \in Pointer /\ l \in Pointer /\ Header \in Pointer
<1>1. f \in Buffer /\ l \in Buffer /\ l \in ToSet(c)
  BY Ends DEF Segment
<1>2. bk = Header \/ (bk \in ToSet(q) /\ bk \in Buffer)
  <2>1. bk = IF q = <<>> THEN Header ELSE q[Len(q)]
    BY DEF Ring, End
  <2>2. q # <<>> => q[Len(q)] \in ToSet(q) /\ q[Len(q)] \in Buffer
    BY Ends
  <2> QED BY <2>1, <2>2
<1>3. l # Header
  BY <1>1, Objects
<1>4. bk # l
  <2>1. CASE bk = Header
    BY <1>3, <2>1
  <2>2. CASE bk \in ToSet(q)
    BY <1>1, <2>2
  <2> QED BY <1>2, <2>1, <2>2
<1>5. bk \in Pointer /\ f \in Pointer /\ l \in Pointer /\ Header \in Pointer
  BY <1>1, <1>2 DEF Pointer
<1> QED BY <1>1, <1>2, <1>3, <1>4, <1>5

LEMMA RingPushBack ==
  ASSUME NEW n \in Pointers, NEW q \in Seq(Buffer), NEW c \in Seq(Buffer), c # <<>>,
         Distinct(q), Distinct(c), ToSet(q) \cap ToSet(c) = {},
         NEW bk, Ring(n, bk, q), NEW f, NEW l, Segment(n, f, l, c),
         NEW m \in Pointers, m[l] = Header, m[bk] = f,
         \A b \in Buffer \cup {Header} : b # bk /\ b # l => m[b] = n[b]
  PROVE  /\ Ring(m, l, q \o c)
         /\ \A b \in Buffer \ (ToSet(q) \cup ToSet(c)) : m[b] = n[b]
<1>1. /\ f = c[1] /\ l = c[Len(c)] /\ f \in Buffer /\ l \in Buffer
      /\ l \in ToSet(c)
  BY Ends DEF Segment
<1>2. /\ bk \in Buffer \cup {Header} /\ bk # l
      /\ q = <<>> => bk = Header
      /\ q # <<>> => bk = q[Len(q)] /\ bk \in ToSet(q) /\ bk # Header
  BY <1>1, Ends, Objects DEF Ring, End
<1>4. ToSet(q) \subseteq Buffer /\ ToSet(c) \subseteq Buffer
  BY Elements
<1>5. Linked(m, q)
  <2>1. \A b \in ToSet(q) : b # q[Len(q)] => m[b] = n[b]
    <3>1. CASE q = <<>>
      BY <3>1, Empties
    <3>2. CASE q # <<>>
      BY <1>1, <1>2, <1>4, <3>2
    <3> QED BY <3>1, <3>2
  <2>2. Linked(n, q)
    BY DEF Ring
  <2> QED BY <2>1, <2>2, KeepsLinks
<1>6. Linked(m, c)
  <2>1. \A b \in ToSet(c) : b # c[Len(c)] => m[b] = n[b]
    BY <1>1, <1>2, <1>4, Objects
  <2>2. Linked(n, c)
    BY DEF Segment
  <2> QED BY <2>1, <2>2, KeepsLinks
<1>7. Linked(m, q \o c)
  BY <1>1, <1>2, <1>5, <1>6, ConcatLinked
<1>8. First(q \o c, Header) = First(q, c[1]) /\ End(q \o c, Header) = l
  BY <1>1, ConcatEnds DEF First, End
<1>9. m[Header] = First(q, c[1])
  <2>1. CASE q = <<>>
    BY <1>1, <1>2, <2>1 DEF First
  <2>2. CASE q # <<>>
    BY <1>1, <1>2, <2>2, Objects DEF First, Ring
  <2> QED BY <2>1, <2>2
<1>10. \A b \in Buffer \ (ToSet(q) \cup ToSet(c)) : m[b] = n[b]
  BY <1>1, <1>2, Objects
<1> QED BY <1>7, <1>8, <1>9, <1>10 DEF Ring

LEMMA RingPushFront ==
  ASSUME NEW n \in Pointers, NEW q \in Seq(Buffer), NEW c \in Seq(Buffer), c # <<>>,
         Distinct(q), Distinct(c), ToSet(q) \cap ToSet(c) = {},
         NEW bk, Ring(n, bk, q), NEW f, NEW l, Segment(n, f, l, c),
         NEW m \in Pointers, m[l] = n[Header], m[Header] = f,
         \A b \in Buffer : b # l => m[b] = n[b],
         NEW bk2, n[Header] = Header => bk2 = l, n[Header] # Header => bk2 = bk
  PROVE  /\ Ring(m, bk2, c \o q)
         /\ \A b \in Buffer \ (ToSet(q) \cup ToSet(c)) : m[b] = n[b]
<1>1. /\ f = c[1] /\ l = c[Len(c)] /\ f \in Buffer /\ l \in Buffer
      /\ l \in ToSet(c)
  BY Ends DEF Segment
<1>2. /\ q = <<>> => n[Header] = Header
      /\ q # <<>> => /\ n[Header] = q[1] /\ n[Header] # Header
                     /\ bk = q[Len(q)] /\ bk \in ToSet(q) /\ bk \in Buffer
  BY Ends, Objects DEF Ring, First, End
<1>4. ToSet(q) \subseteq Buffer /\ ToSet(c) \subseteq Buffer
  BY Elements
<1>5. Linked(m, q)
  <2>1. \A b \in ToSet(q) : b # q[Len(q)] => m[b] = n[b]
    BY <1>1, Objects, <1>4
  <2>2. Linked(n, q)
    BY DEF Ring
  <2> QED BY <2>1, <2>2, KeepsLinks
<1>6. Linked(m, c)
  <2>1. \A b \in ToSet(c) : b # c[Len(c)] => m[b] = n[b]
    BY <1>1, Objects, <1>4
  <2>2. Linked(n, c)
    BY DEF Segment
  <2> QED BY <2>1, <2>2, KeepsLinks
<1>7. Linked(m, c \o q)
  BY <1>1, <1>2, Objects, <1>5, <1>6, ConcatLinked
<1>8. First(c \o q, Header) = f /\ End(c \o q, Header) = End(q, l)
  BY <1>1, ConcatEnds DEF First, End
<1>9. CASE q = <<>>
  <2>1. End(q, l) = l /\ m[l] = Header
    BY <1>2, Objects, <1>9 DEF End
  <2> QED BY <1>1, <1>2, Objects, <1>7, <1>8, <1>9, <2>1 DEF Ring
<1>10. CASE q # <<>>
  <2>1. End(q, l) = bk /\ m[bk] = n[bk]
    BY <1>1, <1>2, Objects, <1>10 DEF End
  <2> QED BY <1>1, <1>2, Objects, <1>7, <1>8, <1>10, <2>1 DEF Ring
<1> QED BY <1>9, <1>10

LEMMA RingPopFirst ==
  ASSUME NEW n \in Pointers, NEW q \in Seq(Buffer), q # <<>>, Distinct(q),
         NEW bk, Ring(n, bk, q), NEW buf, buf = n[Header],
         NEW m \in Pointers, m[Header] = n[buf], \A b \in Buffer : m[b] = n[b]
  PROVE  /\ buf = q[1]
         /\ Ring(m, IF n[buf] = Header THEN Header ELSE bk, Tail(q))
<1>1. buf = q[1] /\ bk = q[Len(q)] /\ buf \in Buffer /\ bk \in Buffer /\ n[bk] = Header
  BY Ends DEF Ring
<1>2. m[Header] = n[buf] /\ \A b \in Buffer : m[b] = n[b]
  OBVIOUS
<1>3. /\ Tail(q) \in Seq(Buffer) /\ Linked(n, Tail(q)) /\ Distinct(Tail(q))
      /\ Tail(q) = <<>> <=> buf = bk
      /\ Tail(q) # <<>> => n[buf] = Tail(q)[1] /\ bk = Tail(q)[Len(Tail(q))]
  BY <1>1, Tails DEF Ring
<1>4. Linked(m, Tail(q))
  <2>1. ToSet(Tail(q)) \subseteq Buffer
    BY <1>3, Elements
  <2> QED BY <1>2, <1>3, <2>1, LinkedSame
<1>5. CASE Tail(q) = <<>>
  <2>1. First(Tail(q), Header) = Header /\ End(Tail(q), Header) = Header
    BY <1>5 DEF First, End
  <2> QED BY <1>1, <1>2, <1>3, <1>4, <1>5, <2>1 DEF Ring
<1>6. CASE Tail(q) # <<>>
  <2>1. First(Tail(q), Header) = n[buf] /\ End(Tail(q), Header) = bk
    BY <1>3, <1>6 DEF First, End
  <2>2. n[buf] # Header
    BY <1>3, <1>6, Ends, Objects
  <2> QED BY <1>1, <1>2, <1>4, <2>1, <2>2 DEF Ring
<1> QED BY <1>5, <1>6

LEMMA StackPush ==
  ASSUME NEW n \in Pointers, NEW s \in Seq(Buffer), Distinct(s), NEW f, Stack(n, f, s),
         NEW b \in Buffer, b \notin ToSet(s), NEW m \in Pointers, m[b] = f,
         \A a \in Buffer : a # b => m[a] = n[a]
  PROVE  Stack(m, b, <<b>> \o s)
<1>2. m[b] = f /\ \A a \in Buffer : a # b => m[a] = n[a]
  OBVIOUS
<1>3. Linked(m, s)
  <2>1. \A a \in ToSet(s) : a # s[Len(s)] => m[a] = n[a]
    BY <1>2, Elements
  <2>2. Linked(n, s)
    BY DEF Stack
  <2> QED BY <2>1, <2>2, KeepsLinks
<1>4. <<b>> \in Seq(Buffer) /\ Linked(m, <<b>>) /\ Len(<<b>>) = 1 /\ <<b>>[1] = b
      /\ <<b>> # <<>>
  BY Singles
<1>5. Linked(m, <<b>> \o s)
  <2>1. s # <<>> => m[<<b>>[Len(<<b>>)]] = s[1]
    BY <1>2, <1>4 DEF Stack, First
  <2> QED BY <1>3, <1>4, <2>1, ConcatLinked
<1>6. <<b>> \o s # <<>> /\ First(<<b>> \o s, Null) = b
      /\ End(<<b>> \o s, Null) = End(s, b)
  BY <1>4, ConcatEnds DEF First, End
<1>7. m[End(s, b)] = Null
  <2>1. CASE s = <<>>
    BY <1>2, <2>1 DEF End, Stack, First
  <2>2. CASE s # <<>>
    BY <1>2, <2>2, Ends DEF Stack
  <2> QED BY <2>1, <2>2
<1>8. (<<b>> \o s)[Len(<<b>> \o s)] = End(s, b)
  BY <1>6 DEF End
<1> QED BY <1>2, <1>5, <1>6, <1>7, <1>8 DEF Stack

LEMMA StackPop ==
  ASSUME NEW n \in Pointers, NEW s \in Seq(Buffer), Distinct(s), s # <<>>,
         NEW f, Stack(n, f, s)
  PROVE  f = s[1] /\ Stack(n, n[f], Tail(s))
<1>1. f = s[1] /\ n[s[Len(s)]] = Null /\ Linked(n, s)
  BY DEF Stack, First
<1>2. /\ Tail(s) \in Seq(Buffer) /\ Linked(n, Tail(s))
      /\ Tail(s) = <<>> <=> s[1] = s[Len(s)]
      /\ Tail(s) # <<>> => n[s[1]] = Tail(s)[1] /\ s[Len(s)] = Tail(s)[Len(Tail(s))]
  BY <1>1, Tails
<1> QED BY <1>1, <1>2 DEF Stack, First

LEMMA SegmentTail ==
  ASSUME NEW n \in Pointers, NEW c \in Seq(Buffer), Distinct(c), c # <<>>,
         NEW f, NEW l, Segment(n, f, l, c),
         NEW m, \A b \in ToSet(c) : b # f => m[b] = n[b]
  PROVE  /\ f = c[1]
         /\ f = l => Segment(m, Null, Null, Tail(c))
         /\ f # l => Segment(m, n[f], l, Tail(c))
<1>1. f = c[1] /\ l = c[Len(c)] /\ Linked(n, c)
  BY DEF Segment, First, End
<1>2. /\ Tail(c) \in Seq(Buffer) /\ Linked(n, Tail(c)) /\ Distinct(Tail(c))
      /\ ToSet(Tail(c)) = ToSet(c) \ {f}
      /\ Tail(c) = <<>> <=> f = l
      /\ Tail(c) # <<>> => n[f] = Tail(c)[1] /\ l = Tail(c)[Len(Tail(c))]
  BY <1>1, Tails
<1>3. Linked(m, Tail(c))
  BY <1>2, LinkedSame
<1> QED BY <1>1, <1>2, <1>3 DEF Segment, First, End

LEMMA SegmentAppend ==
  ASSUME NEW n \in Pointers, NEW c \in Seq(Buffer), Distinct(c),
         NEW f, NEW l, Segment(n, f, l, c), NEW b \in Buffer, b \notin ToSet(c),
         NEW m \in Pointers, f # Null => m[l] = b,
         \A a \in Buffer : f = Null \/ a # l => m[a] = n[a],
         NEW g, f = Null => g = b, f # Null => g = f
  PROVE  Segment(m, g, b, c \o <<b>>)
<1>1. <<b>> \in Seq(Buffer) /\ <<b>> # <<>> /\ <<b>>[1] = b /\ Len(<<b>>) = 1
      /\ Linked(m, <<b>>)
  BY Singles
<1>2. /\ c = <<>> <=> f = Null
      /\ c # <<>> => f = c[1] /\ l = c[Len(c)] /\ l \in Buffer /\ l \in ToSet(c)
  BY Ends, Objects DEF Segment, First, End
<1>3. /\ c # <<>> => m[c[Len(c)]] = b
      /\ \A a \in Buffer : c = <<>> \/ a # c[Len(c)] => m[a] = n[a]
  BY <1>2
<1>4. Linked(m, c)
  <2>1. \A a \in ToSet(c) : a # c[Len(c)] => m[a] = n[a]
    BY <1>3, Elements
  <2>2. Linked(n, c)
    BY DEF Segment
  <2> QED BY <2>1, <2>2, KeepsLinks
<1>5. Linked(m, c \o <<b>>)
  BY <1>1, <1>3, <1>4, ConcatLinked
<1>6. /\ First(c \o <<b>>, Null) = First(c, b)
      /\ End(c \o <<b>>, Null) = b
  BY <1>1, ConcatEnds DEF First, End
<1> QED BY <1>2, <1>3, <1>5, <1>6 DEF Segment, First

-----------------------------------------------------------------------------
(* The invariant.                                                          *)

(* No buffer is twice in a list or in two lists, none is forgotten. *)
Apart(q, fl, h, new) ==
  /\ Distinct(q) /\ Distinct(fl) /\ \A t \in Thread : Distinct(h[t])
  /\ ToSet(q) \cap ToSet(fl) = {} /\ ToSet(q) \cap new = {} /\ ToSet(fl) \cap new = {}
  /\ \A t \in Thread : /\ ToSet(h[t]) \cap ToSet(q) = {}
                       /\ ToSet(h[t]) \cap ToSet(fl) = {}
                       /\ ToSet(h[t]) \cap new = {}
  /\ \A t, u \in Thread : t # u => ToSet(h[t]) \cap ToSet(h[u]) = {}
  /\ \A b \in Buffer : \/ b \in ToSet(q) \/ b \in ToSet(fl) \/ b \in new
                       \/ \E t \in Thread : b \in ToSet(h[t])

(* The pointers hold q as the queue, fl as the free list and, for every    *)
(* thread t, h[t] as its chain.                                            *)
Lists(q, fl, h) ==
  /\ q \in Seq(Buffer) /\ fl \in Seq(Buffer) /\ h \in [Thread -> Seq(Buffer)]
  /\ next \in Pointers /\ fresh \subseteq Buffer
  /\ first \in [Thread -> Buffer \cup {Null}] /\ last \in [Thread -> Buffer \cup {Null}]
  /\ Ring(next, back, q) /\ size = Len(q)
  /\ Stack(next, free, fl)
  /\ \A t \in Thread : Segment(next, first[t], last[t], h[t])
  /\ Apart(q, fl, h, fresh)

(* Where a thread is tells whether it has buffers, and that the number it  *)
(* is about to add to the count is still right.                            *)
Control(h) ==
  /\ pc \in [Thread -> Labels] /\ added \in [Thread -> Nat]
  /\ \A t \in Thread :
       /\ pc[t] \in {"measure", "push", "save", "send", "hold"} => h[t] # <<>>
       /\ pc[t] \in {"overflow", "pop", "wait", "woken"} => h[t] = <<>>
       /\ pc[t] = "idle" /\ t \notin Producers => h[t] = <<>>
       /\ pc[t] = "push" => added[t] = Len(h[t])

Inv == \E q, fl, h : Lists(q, fl, h) /\ Control(h)

-----------------------------------------------------------------------------
(* What a thread does to the lists.                                        *)

(* The buffers of the queue, of the free list, of one thread and the new   *)
(* ones may change places among them.                                      *)
LEMMA ApartMoves ==
  ASSUME NEW q, NEW fl, NEW h \in [Thread -> Seq(Buffer)], NEW new, Apart(q, fl, h, new),
         NEW t \in Thread, NEW q2, NEW fl2, NEW c \in Seq(Buffer), NEW new2,
         Distinct(q2), Distinct(fl2), Distinct(c),
         ToSet(q2) \cap ToSet(fl2) = {}, ToSet(q2) \cap new2 = {},
         ToSet(fl2) \cap new2 = {}, ToSet(c) \cap ToSet(q2) = {},
         ToSet(c) \cap ToSet(fl2) = {}, ToSet(c) \cap new2 = {},
         ToSet(q2) \cup ToSet(fl2) \cup ToSet(c) \cup new2 =
           ToSet(q) \cup ToSet(fl) \cup ToSet(h[t]) \cup new
  PROVE  Apart(q2, fl2, [h EXCEPT ![t] = c], new2)
<1> DEFINE M == ToSet(q) \cup ToSet(fl) \cup ToSet(h[t]) \cup new
           g == [h EXCEPT ![t] = c]
<1>1. g[t] = c /\ \A u \in Thread : u # t => g[u] = h[u]
  OBVIOUS
<1>2. \A u \in Thread : u # t => ToSet(h[u]) \cap M = {}
  BY DEF Apart
<1>3. ToSet(q2) \subseteq M /\ ToSet(fl2) \subseteq M /\ ToSet(c) \subseteq M /\ new2 \subseteq M
  OBVIOUS
<1> HIDE DEF g
<1>4. \A u \in Thread : Distinct(g[u])
  BY <1>1 DEF Apart
<1>5. \A u \in Thread : /\ ToSet(g[u]) \cap ToSet(q2) = {}
                        /\ ToSet(g[u]) \cap ToSet(fl2) = {}
                        /\ ToSet(g[u]) \cap new2 = {}
  <2> SUFFICES ASSUME NEW u \in Thread
               PROVE  /\ ToSet(g[u]) \cap ToSet(q2) = {}
                      /\ ToSet(g[u]) \cap ToSet(fl2) = {}
                      /\ ToSet(g[u]) \cap new2 = {}
    OBVIOUS
  <2>1. CASE u = t
    BY <1>1, <2>1
  <2>2. CASE u # t
    BY <1>1, <1>2, <1>3, <2>2
  <2> QED BY <2>1, <2>2
<1>6. \A u, v \in Thread : u # v => ToSet(g[u]) \cap ToSet(g[v]) = {}
  <2> SUFFICES ASSUME NEW u \in Thread, NEW v \in Thread, u # v
               PROVE  ToSet(g[u]) \cap ToSet(g[v]) = {}
    OBVIOUS
  <2>1. CASE u = t
    BY <1>1, <1>2, <1>3, <2>1
  <2>2. CASE v = t
    BY <1>1, <1>2, <1>3, <2>2
  <2>3. CASE u # t /\ v # t
    BY <1>1, <2>3 DEF Apart
  <2> QED BY <2>1, <2>2, <2>3
<1>7. \A b \in Buffer : \/ b \in ToSet(q2) \/ b \in ToSet(fl2) \/ b \in new2
                        \/ \E u \in Thread : b \in ToSet(g[u])
  <2> SUFFICES ASSUME NEW b \in Buffer
               PROVE  \/ b \in ToSet(q2) \/ b \in ToSet(fl2) \/ b \in new2
                      \/ \E u \in Thread : b \in ToSet(g[u])
    OBVIOUS
  <2>1. CASE b \in M
    BY <1>1, <2>1
  <2>2. CASE b \notin M
    <3>1. PICK u \in Thread : b \in ToSet(h[u])
      BY <2>2 DEF Apart
    <3>2. u # t
      BY <2>2, <3>1
    <3> QED BY <1>1, <3>1, <3>2
  <2> QED BY <2>1, <2>2
<1>8. Apart(q2, fl2, g, new2)
  BY <1>4, <1>5, <1>6, <1>7 DEF Apart
<1> QED BY <1>8 DEF g

LEMMA SegmentSame ==
  \A c \in Seq(Buffer) : \A n, m, f, l :
    /\ Distinct(c) /\ Segment(n, f, l, c)
    /\ \A b \in ToSet(c) : m[b] = n[b]
    => Segment(m, f, l, c)
BY KeepsLinks DEF Segment

LEMMA StackSame ==
  \A s \in Seq(Buffer) : \A n, m, f :
    /\ Distinct(s) /\ Stack(n, f, s)
    /\ \A b \in ToSet(s) : m[b] = n[b]
    => Stack(m, f, s)
BY KeepsLinks, Ends DEF Stack

(* The queue, behind whose last element Header comes again. *)
LEMMA RingSame ==
  \A s \in Seq(Buffer) : \A n, m, bk :
    /\ Distinct(s) /\ Ring(n, bk, s) /\ m[Header] = n[Header]
    /\ \A b \in ToSet(s) : m[b] = n[b]
    => Ring(m, bk, s)
BY KeepsLinks, Ends DEF Ring, End

(* The chains of the other threads do not notice. *)
LEMMA Moved ==
  ASSUME NEW q, NEW fl, NEW h, Lists(q, fl, h), NEW t \in Thread,
         NEW q2 \in Seq(Buffer), NEW fl2 \in Seq(Buffer), NEW c \in Seq(Buffer),
         NEW f \in Buffer \cup {Null}, NEW l \in Buffer \cup {Null}, Give(t, f, l),
         next' \in Pointers, fresh' \subseteq Buffer,
         Ring(next', back', q2), size' = Len(q2), Stack(next', free', fl2),
         Segment(next', f, l, c),
         \A u \in Thread : u # t => \A b \in ToSet(h[u]) : next'[b] = next[b],
         Apart(q2, fl2, [h EXCEPT ![t] = c], fresh')
  PROVE  Lists(q2, fl2, [h EXCEPT ![t] = c])'
<1> DEFINE g == [h EXCEPT ![t] = c]
<1>1. h \in [Thread -> Seq(Buffer)] /\ \A u \in Thread : h[u] \in Seq(Buffer)
  BY DEF Lists
<1>2. /\ g \in [Thread -> Seq(Buffer)]
      /\ g[t] = c /\ \A u \in Thread : u # t => g[u] = h[u]
  BY <1>1
<1>3. /\ first' \in [Thread -> Buffer \cup {Null}] /\ last' \in [Thread -> Buffer \cup {Null}]
      /\ first'[t] = f /\ last'[t] = l
      /\ \A u \in Thread : u # t => first'[u] = first[u] /\ last'[u] = last[u]
  BY DEF Lists, Give
<1> HIDE DEF g
<1>4. ASSUME NEW u \in Thread PROVE Segment(next', first'[u], last'[u], g[u])
  <2>1. CASE u = t
    BY <1>2, <1>3, <2>1
  <2>2. CASE u # t
    <3>1. Distinct(h[u]) /\ Segment(next, first[u], last[u], h[u])
      BY DEF Lists, Apart
    <3>2. \A b \in ToSet(h[u]) : next'[b] = next[b]
      BY <2>2
    <3>3. Segment(next', first[u], last[u], h[u])
      BY <1>1, <3>1, <3>2, SegmentSame
    <3> QED BY <1>2, <1>3, <2>2, <3>3
  <2> QED BY <2>1, <2>2
<1>5. Lists(q2, fl2, g)'
  BY <1>2, <1>3, <1>4 DEF Lists, g
<1> QED BY <1>5 DEF g

(* The lists a thread t may change, c being its own, and those of others. *)
Around(q, fl, h, t, c) ==
  /\ q \in Seq(Buffer) /\ fl \in Seq(Buffer) /\ c \in Seq(Buffer)
  /\ h \in [Thread -> Seq(Buffer)] /\ next \in Pointers /\ fresh \subseteq Buffer
  /\ Ring(next, back, q) /\ size = Len(q) /\ Stack(next, free, fl)
  /\ Segment(next, first[t], last[t], c)
  /\ Distinct(q) /\ Distinct(fl) /\ Distinct(c)
  /\ ToSet(q) \cap ToSet(c) = {} /\ ToSet(q) \cap ToSet(fl) = {}
  /\ ToSet(c) \cap ToSet(fl) = {}
  /\ ToSet(q) \cap fresh = {} /\ ToSet(fl) \cap fresh = {} /\ ToSet(c) \cap fresh = {}
  /\ ToSet(q) \subseteq Buffer /\ ToSet(fl) \subseteq Buffer /\ ToSet(c) \subseteq Buffer
  /\ \A u \in Thread : u # t => /\ ToSet(h[u]) \subseteq Buffer
                                /\ ToSet(h[u]) \cap ToSet(q) = {}
                                /\ ToSet(h[u]) \cap ToSet(fl) = {}
                                /\ ToSet(h[u]) \cap fresh = {}
                                /\ ToSet(h[u]) \cap ToSet(c) = {}
  /\ c = <<>> <=> first[t] = Null
  /\ q = <<>> <=> next[Header] = Header
  /\ fl = <<>> <=> free = Null

LEMMA Mine ==
  ASSUME NEW q, NEW fl, NEW h, Lists(q, fl, h), NEW t \in Thread
  PROVE  \E c \in Seq(Buffer) : c = h[t] /\ Around(q, fl, h, t, c)
<1>0. PICK c \in Seq(Buffer) : c = h[t]
  BY DEF Lists
<1>1. /\ q \in Seq(Buffer) /\ fl \in Seq(Buffer)
      /\ h \in [Thread -> Seq(Buffer)] /\ next \in Pointers /\ fresh \subseteq Buffer
      /\ Ring(next, back, q) /\ size = Len(q) /\ Stack(next, free, fl)
      /\ Segment(next, first[t], last[t], c) /\ Apart(q, fl, h, fresh)
      /\ \A u \in Thread : h[u] \in Seq(Buffer)
  BY <1>0 DEF Lists
<1>2. /\ ToSet(q) \subseteq Buffer /\ ToSet(fl) \subseteq Buffer /\ ToSet(c) \subseteq Buffer
      /\ \A u \in Thread : ToSet(h[u]) \subseteq Buffer
  BY <1>1, Elements
<1>3. c = <<>> <=> first[t] = Null
  BY <1>1, Ends, Objects DEF Segment, First
<1>4. q = <<>> <=> next[Header] = Header
  BY <1>1, Ends, Objects DEF Ring, First
<1>5. fl = <<>> <=> free = Null
  BY <1>1, Ends, Objects DEF Stack, First
<1>6. /\ Distinct(q) /\ Distinct(fl) /\ Distinct(c)
      /\ ToSet(q) \cap ToSet(c) = {} /\ ToSet(q) \cap ToSet(fl) = {}
      /\ ToSet(c) \cap ToSet(fl) = {}
      /\ ToSet(q) \cap fresh = {} /\ ToSet(fl) \cap fresh = {} /\ ToSet(c) \cap fresh = {}
      /\ \A u \in Thread : u # t => /\ ToSet(h[u]) \cap ToSet(q) = {}
                                    /\ ToSet(h[u]) \cap ToSet(fl) = {}
                                    /\ ToSet(h[u]) \cap fresh = {}
                                    /\ ToSet(h[u]) \cap ToSet(c) = {}
  BY <1>0, <1>1 DEF Apart
<1>7. Around(q, fl, h, t, c)
  BY <1>1, <1>2, <1>3, <1>4, <1>5, <1>6 DEF Around
<1> QED BY <1>0, <1>7

LEMMA Nothing ==
  /\ <<>> \in Seq(Buffer) /\ Len(<<>>) = 0 /\ Distinct(<<>>) /\ ToSet(<<>>) = {}
  /\ \A n : Segment(n, Null, Null, <<>>)
BY Empties DEF Segment, First, End

(* push_back() *)
LEMMA DoesPushBack ==
  ASSUME NEW q, NEW fl, NEW h, Lists(q, fl, h), NEW t \in Thread, h[t] # <<>>,
         added[t] = Len(h[t]), NEW label, PushBack(t, label)
  PROVE  Lists(q \o h[t], fl, [h EXCEPT ![t] = <<>>])'
<1>1. /\ next' = [next EXCEPT ![last[t]] = Header, ![back] = first[t]]
      /\ back' = last[t] /\ size' = size + added[t] /\ Give(t, Null, Null)
      /\ free' = free /\ fresh' = fresh
  BY DEF PushBack, Added, poolVars
<1>2. PICK c \in Seq(Buffer) : c = h[t] /\ Around(q, fl, h, t, c)
  BY Mine
<1>3. /\ next' \in Pointers /\ Ring(next', back', q \o c)
      /\ \A b \in Buffer \ (ToSet(q) \cup ToSet(c)) : next'[b] = next[b]
  <2>1. /\ back \in Buffer \cup {Header} /\ last[t] \in Buffer \cup {Header}
        /\ back # last[t] /\ first[t] \in Pointer /\ Header \in Pointer
    BY <1>2, ListEnds DEF Around
  <2>2. /\ next' \in Pointers /\ next'[last[t]] = Header /\ next'[back] = first[t]
        /\ \A b \in Buffer \cup {Header} : b # back /\ b # last[t] => next'[b] = next[b]
    BY <1>1, <1>2, <2>1 DEF Pointers, Around
  <2>3. back' = last[t]
    BY <1>1
  <2> QED BY <1>2, <2>2, <2>3, RingPushBack DEF Around
<1>4. /\ q \o c \in Seq(Buffer) /\ Len(q \o c) = Len(q) + Len(c)
      /\ ToSet(q \o c) = ToSet(q) \cup ToSet(c)
  BY <1>2, Concat DEF Around
<1>5. Distinct(q \o c)
  BY <1>2, ConcatDistinct DEF Around
<1>6. Stack(next', free', fl)
  <2>1. \A b \in ToSet(fl) : next'[b] = next[b]
    BY <1>2, <1>3 DEF Around
  <2> QED BY <1>1, <1>2, <2>1, StackSame DEF Around
<1>7. Apart(q \o c, fl, [h EXCEPT ![t] = <<>>], fresh)
  <2>1. /\ Apart(q, fl, h, fresh) /\ ToSet(q \o c) \cap ToSet(fl) = {}
        /\ ToSet(q \o c) \cap fresh = {} /\ ToSet(<<>>) \cap ToSet(q \o c) = {}
        /\ ToSet(<<>>) \cap ToSet(fl) = {} /\ ToSet(<<>>) \cap fresh = {}
        /\ ToSet(q \o c) \cup ToSet(fl) \cup ToSet(<<>>) \cup fresh =
             ToSet(q) \cup ToSet(fl) \cup ToSet(h[t]) \cup fresh
    BY <1>2, <1>4, Nothing DEF Lists, Around
  <2> QED BY <1>2, <1>5, <2>1, Nothing, ApartMoves DEF Around
<1>8. \A u \in Thread : u # t => \A b \in ToSet(h[u]) : next'[b] = next[b]
  BY <1>2, <1>3 DEF Around
<1>9. size' = Len(q \o c)
  BY <1>1, <1>2, <1>4 DEF Around
<1> QED BY <1>1, <1>2, <1>3, <1>4, <1>6, <1>7, <1>8, <1>9, Nothing, Moved DEF Around

(* push_front() *)
LEMMA DoesPushFront ==
  ASSUME NEW q, NEW fl, NEW h, Lists(q, fl, h), NEW t \in Thread, h[t] # <<>>,
         added[t] = Len(h[t]), NEW label, PushFront(t, label)
  PROVE  Lists(h[t] \o q, fl, [h EXCEPT ![t] = <<>>])'
<1>1. /\ next' = [next EXCEPT ![last[t]] = next[Header], ![Header] = first[t]]
      /\ back' = IF next[Header] = Header THEN last[t] ELSE back
      /\ size' = size + added[t] /\ Give(t, Null, Null)
      /\ free' = free /\ fresh' = fresh
  BY DEF PushFront, Added, poolVars, IsEmpty
<1>2. PICK c \in Seq(Buffer) : c = h[t] /\ Around(q, fl, h, t, c)
  BY Mine
<1>3. /\ next' \in Pointers /\ Ring(next', back', c \o q)
      /\ \A b \in Buffer \ (ToSet(q) \cup ToSet(c)) : next'[b] = next[b]
  <2>0. /\ q \in Seq(Buffer) /\ c \in Seq(Buffer) /\ c # <<>> /\ next \in Pointers
        /\ ToSet(q) \cap ToSet(c) = {} /\ Ring(next, back, q)
        /\ Segment(next, first[t], last[t], c)
    BY <1>2 DEF Around
  <2>1. /\ last[t] \in Buffer \cup {Header} /\ last[t] # Header
        /\ first[t] \in Pointer /\ next[Header] \in Pointer
    <3>1. last[t] \in Buffer /\ last[t] # Header /\ first[t] \in Pointer /\ Header \in Pointer
      BY <2>0, ListEnds
    <3> QED BY <2>0, <3>1, Objects DEF Pointers
  <2>2. /\ next' \in Pointers /\ next'[last[t]] = next[Header] /\ next'[Header] = first[t]
        /\ \A b \in Buffer : b # last[t] => next'[b] = next[b]
    BY <1>1, <1>2, <2>1, Objects DEF Pointers, Around
  <2>3. /\ next[Header] = Header => back' = last[t]
        /\ next[Header] # Header => back' = back
    BY <1>1
  <2>4. /\ next \in Pointers /\ q \in Seq(Buffer) /\ c # <<>> /\ Distinct(q) /\ Distinct(c)
        /\ ToSet(q) \cap ToSet(c) = {}
        /\ Ring(next, back, q) /\ Segment(next, first[t], last[t], c)
    BY <1>2 DEF Around
  <2>5. /\ Ring(next', back', c \o q)
        /\ \A b \in Buffer \ (ToSet(q) \cup ToSet(c)) : next'[b] = next[b]
    BY <2>2, <2>3, <2>4, RingPushFront
  <2> QED BY <2>2, <2>5
<1>4. /\ c \o q \in Seq(Buffer) /\ Len(c \o q) = Len(c) + Len(q)
      /\ ToSet(c \o q) = ToSet(c) \cup ToSet(q)
  BY <1>2, Concat DEF Around
<1>5. Distinct(c \o q)
  BY <1>2, ConcatDistinct DEF Around
<1>6. Stack(next', free', fl)
  <2>1. \A b \in ToSet(fl) : next'[b] = next[b]
    BY <1>2, <1>3 DEF Around
  <2> QED BY <1>1, <1>2, <2>1, StackSame DEF Around
<1>7. Apart(c \o q, fl, [h EXCEPT ![t] = <<>>], fresh)
  <2>1. /\ Apart(q, fl, h, fresh) /\ ToSet(c \o q) \cap ToSet(fl) = {}
        /\ ToSet(c \o q) \cap fresh = {} /\ ToSet(<<>>) \cap ToSet(c \o q) = {}
        /\ ToSet(<<>>) \cap ToSet(fl) = {} /\ ToSet(<<>>) \cap fresh = {}
        /\ ToSet(c \o q) \cup ToSet(fl) \cup ToSet(<<>>) \cup fresh =
             ToSet(q) \cup ToSet(fl) \cup ToSet(h[t]) \cup fresh
    BY <1>2, <1>4, Nothing DEF Lists, Around
  <2> QED BY <1>2, <1>5, <2>1, Nothing, ApartMoves DEF Around
<1>8. \A u \in Thread : u # t => \A b \in ToSet(h[u]) : next'[b] = next[b]
  BY <1>2, <1>3 DEF Around
<1>9. size' = Len(c \o q)
  BY <1>1, <1>2, <1>4, LenProperties DEF Around
<1> QED BY <1>1, <1>2, <1>3, <1>4, <1>6, <1>7, <1>8, <1>9, Nothing, Moved DEF Around

(* pop(first, last) *)
LEMMA DoesPopAll ==
  ASSUME NEW q, NEW fl, NEW h, Lists(q, fl, h), NEW t \in Thread, h[t] = <<>>,
         NEW label, PopAll(t, label)
  PROVE  q # <<>> /\ Lists(<<>>, fl, [h EXCEPT ![t] = q])'
<1>1. /\ next' = [next EXCEPT ![Header] = Header]
      /\ next[Header] # Header /\ back' = Header /\ size' = 0
      /\ Give(t, next[Header], back) /\ free' = free /\ fresh' = fresh
  BY DEF PopAll, poolVars, IsEmpty
<1>2. PICK c \in Seq(Buffer) : c = h[t] /\ Around(q, fl, h, t, c)
  BY Mine
<1>3. q # <<>>
  BY <1>1, <1>2 DEF Around
<1>4. /\ next[Header] = q[1] /\ back = q[Len(q)] /\ q[1] \in Buffer /\ q[Len(q)] \in Buffer
      /\ Linked(next, q)
  BY <1>2, <1>3, Ends DEF Around, Ring
<1>5. /\ next' \in Pointers /\ next'[Header] = Header
      /\ \A b \in Buffer : next'[b] = next[b]
  BY <1>1, <1>2, Objects DEF Around, Pointers
<1>6. Ring(next', back', <<>>)
  BY <1>1, <1>5, Empties DEF Ring, First, End
<1>7. Segment(next', next[Header], back, q)
  <2>1. \A b \in ToSet(q) : next'[b] = next[b]
    BY <1>2, <1>5 DEF Around
  <2>2. Segment(next, next[Header], back, q)
    BY <1>3, <1>4 DEF Segment, First, End
  <2> QED BY <1>2, <2>1, <2>2, SegmentSame DEF Around
<1>8. Stack(next', free', fl)
  <2>1. \A b \in ToSet(fl) : next'[b] = next[b]
    BY <1>2, <1>5 DEF Around
  <2> QED BY <1>1, <1>2, <2>1, StackSame DEF Around
<1>9. Apart(<<>>, fl, [h EXCEPT ![t] = q], fresh)
  <2>1. /\ Apart(q, fl, h, fresh) /\ ToSet(<<>>) \cap ToSet(fl) = {}
        /\ ToSet(<<>>) \cap fresh = {} /\ ToSet(q) \cap ToSet(<<>>) = {}
        /\ ToSet(q) \cap ToSet(fl) = {} /\ ToSet(q) \cap fresh = {}
        /\ ToSet(<<>>) \cup ToSet(fl) \cup ToSet(q) \cup fresh =
             ToSet(q) \cup ToSet(fl) \cup ToSet(h[t]) \cup fresh
    BY <1>2, Nothing DEF Lists, Around
  <2> QED BY <1>2, <2>1, Nothing, ApartMoves DEF Around
<1>10. \A u \in Thread : u # t => \A b \in ToSet(h[u]) : next'[b] = next[b]
  BY <1>2, <1>5 DEF Around
<1>11. Lists(<<>>, fl, [h EXCEPT ![t] = q])'
  BY <1>1, <1>2, <1>4, <1>5, <1>6, <1>7, <1>8, <1>9, <1>10, Nothing, Moved DEF Around
<1> QED BY <1>3, <1>11

(* pop_front() *)
LEMMA DoesPopFirst ==
  ASSUME NEW q, NEW fl, NEW h, Lists(q, fl, h), NEW t \in Thread, h[t] = <<>>,
         NEW label, PopFirst(t, label)
  PROVE  q # <<>> /\ Lists(Tail(q), fl, [h EXCEPT ![t] = <<q[1]>>])'
<1>1. PICK buf : /\ buf = next[Header] /\ next[Header] # Header
                 /\ next' = [next EXCEPT ![Header] = next[buf]]
                 /\ back' = IF next[buf] = Header THEN Header ELSE back
                 /\ size' = size - 1 /\ Give(t, buf, buf)
                 /\ free' = free /\ fresh' = fresh
  BY DEF PopFirst, poolVars, IsEmpty
<1>2. PICK c \in Seq(Buffer) : c = h[t] /\ Around(q, fl, h, t, c)
  BY Mine
<1>3. q # <<>>
  BY <1>1, <1>2 DEF Around
<1>4. /\ next' \in Pointers /\ buf = q[1] /\ Ring(next', back', Tail(q))
      /\ \A b \in Buffer : next'[b] = next[b]
  <2>1. buf \in Buffer
    BY <1>1, <1>2, <1>3, Ends DEF Around, Ring
  <2>2. next' \in Pointers /\ next'[Header] = next[buf] /\ \A b \in Buffer : next'[b] = next[b]
    BY <1>1, <1>2, <2>1, Objects DEF Around, Pointers
  <2>3. buf = next[Header] /\ back' = IF next[buf] = Header THEN Header ELSE back
    BY <1>1
  <2>4. buf = q[1] /\ Ring(next', IF next[buf] = Header THEN Header ELSE back, Tail(q))
    BY <1>2, <1>3, <2>2, <2>3, RingPopFirst DEF Around
  <2> QED BY <2>2, <2>3, <2>4
<1>5. /\ Tail(q) \in Seq(Buffer) /\ Len(Tail(q)) = Len(q) - 1 /\ Distinct(Tail(q))
      /\ ToSet(Tail(q)) = ToSet(q) \ {buf}
  BY <1>2, <1>3, <1>4, Tails DEF Around, Ring
<1>6. /\ buf \in Buffer /\ buf \in ToSet(q)
      /\ <<buf>> \in Seq(Buffer) /\ Distinct(<<buf>>) /\ ToSet(<<buf>>) = {buf}
      /\ Segment(next', buf, buf, <<buf>>)
  <2>1. buf \in Buffer /\ buf \in ToSet(q)
    BY <1>2, <1>3, <1>4, Ends DEF Around
  <2>2. /\ <<buf>> \in Seq(Buffer) /\ Len(<<buf>>) = 1 /\ <<buf>>[1] = buf /\ <<buf>> # <<>>
        /\ Distinct(<<buf>>) /\ Linked(next', <<buf>>) /\ ToSet(<<buf>>) = {buf}
    BY <2>1, Singles
  <2> QED BY <2>1, <2>2 DEF Segment, First, End
<1>7. Stack(next', free', fl)
  <2>1. \A b \in ToSet(fl) : next'[b] = next[b]
    BY <1>2, <1>4 DEF Around
  <2> QED BY <1>1, <1>2, <2>1, StackSame DEF Around
<1>8. Apart(Tail(q), fl, [h EXCEPT ![t] = <<buf>>], fresh)
  <2>1. /\ Apart(q, fl, h, fresh) /\ ToSet(Tail(q)) \cap ToSet(fl) = {}
        /\ ToSet(Tail(q)) \cap fresh = {} /\ ToSet(<<buf>>) \cap ToSet(Tail(q)) = {}
        /\ ToSet(<<buf>>) \cap ToSet(fl) = {} /\ ToSet(<<buf>>) \cap fresh = {}
        /\ ToSet(Tail(q)) \cup ToSet(fl) \cup ToSet(<<buf>>) \cup fresh =
             ToSet(q) \cup ToSet(fl) \cup ToSet(h[t]) \cup fresh
    BY <1>2, <1>5, <1>6, Nothing DEF Lists, Around
  <2> QED BY <1>2, <1>5, <1>6, <2>1, ApartMoves DEF Around
<1>9. \A u \in Thread : u # t => \A b \in ToSet(h[u]) : next'[b] = next[b]
  BY <1>2, <1>4 DEF Around
<1>10. size' = Len(Tail(q))
  BY <1>1, <1>2, <1>5 DEF Around
<1>11. Lists(Tail(q), fl, [h EXCEPT ![t] = <<buf>>])'
  BY <1>1, <1>2, <1>4, <1>5, <1>6, <1>7, <1>8, <1>9, <1>10, Moved DEF Around
<1> QED BY <1>3, <1>4, <1>11

(* put() of the first buffer of a chain *)
LEMMA DoesPut ==
  ASSUME NEW q, NEW fl, NEW h, Lists(q, fl, h), NEW t \in Thread, h[t] # <<>>,
         NEW label, Put(t, label)
  PROVE  /\ \E fl2 : Lists(q, fl2, [h EXCEPT ![t] = Tail(h[t])])'
         /\ first[t] = last[t] <=> Tail(h[t]) = <<>>
<1>1. /\ next' = [next EXCEPT ![first[t]] = free] /\ free' = first[t]
      /\ first[t] = last[t] => Give(t, Null, Null)
      /\ first[t] # last[t] => Give(t, next[first[t]], last[t])
      /\ back' = back /\ size' = size /\ fresh' = fresh
  BY DEF Put
<1>2. PICK c \in Seq(Buffer) : c = h[t] /\ c # <<>> /\ Around(q, fl, h, t, c)
  BY Mine
<1>3. PICK a \in Buffer : /\ a = first[t] /\ a = c[1] /\ a \in ToSet(c)
                          /\ last[t] = c[Len(c)] /\ last[t] \in Buffer
                          /\ free \in Buffer \cup {Null}
  <2>1. /\ first[t] = c[1] /\ last[t] = c[Len(c)] /\ c[1] \in ToSet(c)
        /\ c[1] \in Buffer /\ c[Len(c)] \in Buffer
    BY <1>2, Ends DEF Around, Segment
  <2>2. free \in Buffer \cup {Null}
    BY <1>2, Ends DEF Around, Stack, First
  <2> QED BY <2>1, <2>2
<1>4. /\ next' \in Pointers /\ Stack(next', free', <<a>> \o fl)
      /\ \A o \in Buffer \cup {Header} : o # a => next'[o] = next[o]
  <2>1. /\ next' \in Pointers /\ next'[a] = free /\ free' = a
        /\ \A o \in Buffer \cup {Header} : o # a => next'[o] = next[o]
    BY <1>1, <1>2, <1>3 DEF Around, Pointers, Pointer
  <2>2. next \in Pointers /\ fl \in Seq(Buffer) /\ Distinct(fl) /\ Stack(next, free, fl)
        /\ a \notin ToSet(fl)
    BY <1>2, <1>3 DEF Around
  <2> QED BY <2>1, <2>2, StackPush
<1>5. /\ Tail(c) \in Seq(Buffer) /\ Distinct(Tail(c)) /\ ToSet(Tail(c)) = ToSet(c) \ {a}
      /\ a # last[t] => next[a] \in Buffer
      /\ Tail(c) = <<>> <=> a = last[t]
  <2>0. Distinct(c) /\ Linked(next, c) /\ c # <<>>
    BY <1>2 DEF Around, Segment
  <2>1. /\ Tail(c) \in Seq(Buffer) /\ Distinct(Tail(c)) /\ ToSet(Tail(c)) = ToSet(c) \ {a}
        /\ Tail(c) = <<>> <=> a = last[t]
        /\ Tail(c) # <<>> => next[a] = Tail(c)[1]
    BY <1>3, <2>0, Tails
  <2> QED BY <2>1, Ends
<1>6. PICK f \in Buffer \cup {Null}, l \in Buffer \cup {Null} :
        Give(t, f, l) /\ Segment(next', f, l, Tail(c))
  <2>1. /\ a = last[t] => Segment(next', Null, Null, Tail(c))
        /\ a # last[t] => Segment(next', next[a], last[t], Tail(c))
    <3>1. Segment(next, a, last[t], c) /\ Distinct(c) /\ next \in Pointers
      BY <1>2, <1>3 DEF Around
    <3>2. \A b \in ToSet(c) : b # a => next'[b] = next[b]
      BY <1>2, <1>4 DEF Around
    <3> QED BY <1>2, <3>1, <3>2, SegmentTail
  <2>2. CASE a = last[t]
    BY <1>1, <1>3, <2>1, <2>2
  <2>3. CASE a # last[t]
    BY <1>1, <1>3, <1>5, <2>1, <2>3
  <2> QED BY <2>2, <2>3
<1>7. Ring(next', back', q)
  <2>1. next'[Header] = next[Header] /\ \A b \in ToSet(q) : next'[b] = next[b]
    BY <1>2, <1>3, <1>4, Objects DEF Around
  <2> QED BY <1>1, <1>2, <2>1, RingSame DEF Around
<1>8. PICK s \in Seq(Buffer) : /\ s = <<a>> \o fl /\ Distinct(s)
                               /\ ToSet(s) = {a} \cup ToSet(fl)
  <2>1. PICK x \in Seq(Buffer) : x = <<a>> /\ Distinct(x) /\ ToSet(x) = {a}
    BY Singles
  <2>0. fl \in Seq(Buffer) /\ Distinct(fl) /\ ToSet(c) \cap ToSet(fl) = {}
    BY <1>2 DEF Around
  <2>2. fl \in Seq(Buffer) /\ Distinct(fl) /\ ToSet(x) \cap ToSet(fl) = {}
    BY <1>3, <2>0, <2>1
  <2>3. x \o fl \in Seq(Buffer) /\ ToSet(x \o fl) = ToSet(x) \cup ToSet(fl)
    BY <2>2, Concat
  <2>4. Distinct(x \o fl)
    BY <2>1, <2>2, ConcatDistinct
  <2> QED BY <2>1, <2>3, <2>4
<1>9. Apart(q, s, [h EXCEPT ![t] = Tail(c)], fresh)
  <2>1. Apart(q, fl, h, fresh)
    BY DEF Lists
  <2>2. /\ ToSet(q) \cap ToSet(s) = {}
        /\ ToSet(q) \cap fresh = {} /\ ToSet(s) \cap fresh = {}
        /\ ToSet(Tail(c)) \cap ToSet(q) = {}
        /\ ToSet(Tail(c)) \cap ToSet(s) = {} /\ ToSet(Tail(c)) \cap fresh = {}
    <3>1. /\ ToSet(q) \cap ToSet(c) = {} /\ ToSet(q) \cap ToSet(fl) = {}
          /\ ToSet(c) \cap ToSet(fl) = {} /\ ToSet(q) \cap fresh = {}
          /\ ToSet(fl) \cap fresh = {} /\ ToSet(c) \cap fresh = {}
      BY <1>2 DEF Around
    <3>2. /\ a \in ToSet(c) /\ ToSet(s) = {a} \cup ToSet(fl)
          /\ ToSet(Tail(c)) = ToSet(c) \ {a}
      BY <1>3, <1>5, <1>8
    <3> QED BY <3>1, <3>2
  <2>3. ToSet(q) \cup ToSet(s) \cup ToSet(Tail(c)) \cup fresh =
          ToSet(q) \cup ToSet(fl) \cup ToSet(h[t]) \cup fresh
    BY <1>2, <1>3, <1>5, <1>8
  <2>4. /\ h \in [Thread -> Seq(Buffer)] /\ Tail(c) \in Seq(Buffer)
        /\ Distinct(q) /\ Distinct(s) /\ Distinct(Tail(c))
    BY <1>2, <1>5, <1>8 DEF Around
  <2> QED BY <2>1, <2>2, <2>3, <2>4, ApartMoves
<1>10. \A u \in Thread : u # t => \A b \in ToSet(h[u]) : next'[b] = next[b]
  BY <1>2, <1>3, <1>4 DEF Around
<1>11. Lists(q, s, [h EXCEPT ![t] = Tail(c)])'
  <2>1. Stack(next', free', s)
    BY <1>4, <1>8
  <2> QED BY <1>1, <1>2, <1>4, <1>5, <1>6, <1>7, <1>9, <1>10, <2>1, Moved DEF Around
<1> QED BY <1>2, <1>3, <1>5, <1>11

(* The buffers that the allocator gets from memory, in some order. *)
LEMMA Enumerates ==
  ASSUME NEW S, S \subseteq Buffer, NEW s, s = SetToSeq(S)
  PROVE  /\ s \in Seq(Buffer) /\ Distinct(s) /\ ToSet(s) = S
         /\ \A b \in S : \E i \in DOMAIN s : s[i] = b
<1>1. IsFiniteSet(S)
  BY BuffersAssumption, FS_Subset
<1>2. PICK k \in Nat : k = Cardinality(S) /\ ExistsBijection(1..k, S)
  BY <1>1, FS_CardinalityType
<1>3. \E f \in [1..k -> S] : IsInjective(f)
  BY <1>2 DEF ExistsBijection, Bijection, Injection
<1>4. s \in [1..k -> S] /\ IsInjective(s)
  BY <1>2, <1>3 DEF SetToSeq
<1>5. s \in Seq(Buffer) /\ Len(s) = k /\ DOMAIN s = 1..k
  BY <1>4
<1>6. Distinct(s)
  BY <1>4, <1>5 DEF Distinct, IsInjective
<1>7. s \in Surjection(1..k, S)
  <2>1. Cardinality(1..k) = k
    BY FS_Interval
  <2>2. s \in Injection(1..k, S)
    BY <1>4 DEF Injection
  <2> QED BY <1>1, <1>2, <2>1, <2>2, FS_Injection
<1>8. \A b \in S : \E i \in DOMAIN s : s[i] = b
  BY <1>5, <1>7 DEF Surjection
<1>9. ToSet(s) = S
  BY <1>4, <1>5, <1>8 DEF ToSet
<1> QED BY <1>5, <1>6, <1>8, <1>9

(* The pointers after they are linked in that order. *)
Enlarged(n, S) ==
  [b \in DOMAIN n |->
     IF b \in S
     THEN LET i == CHOOSE i \in DOMAIN SetToSeq(S) : SetToSeq(S)[i] = b
          IN IF i < Len(SetToSeq(S)) THEN SetToSeq(S)[i + 1] ELSE Null
     ELSE n[b]]

LEMMA Allocates ==
  ASSUME NEW n \in Pointers, NEW S, S \subseteq Buffer, S # {}, NEW s, s = SetToSeq(S),
         NEW m, m = Enlarged(n, S)
  PROVE  /\ s \in Seq(Buffer) /\ s # <<>> /\ Distinct(s) /\ ToSet(s) = S
         /\ m \in Pointers /\ Stack(m, s[1], s)
         /\ \A b \in Buffer \cup {Header} : b \notin S => m[b] = n[b]
<1>1. /\ s \in Seq(Buffer) /\ Distinct(s) /\ ToSet(s) = S
      /\ \A b \in S : \E i \in DOMAIN s : s[i] = b
  BY Enumerates
<1>2. s # <<>> /\ Len(s) \in Nat /\ DOMAIN s = 1..Len(s)
      /\ \A i \in 1..Len(s) : s[i] \in Buffer /\ s[i] \in S
      /\ 1 \in 1..Len(s) /\ Len(s) \in 1..Len(s)
  BY <1>1, Elements
<1> DEFINE At(b) == CHOOSE i \in DOMAIN SetToSeq(S) : SetToSeq(S)[i] = b
<1>3. m = [b \in Buffer \cup {Header} |-> m[b]] /\ DOMAIN n = Buffer \cup {Header}
  BY DEF Pointers, Enlarged
<1>4. \A b \in S : m[b] = IF At(b) < Len(SetToSeq(S))
                         THEN SetToSeq(S)[At(b) + 1] ELSE Null
  <2> SUFFICES ASSUME NEW b \in S
               PROVE  m[b] = IF At(b) < Len(SetToSeq(S))
                             THEN SetToSeq(S)[At(b) + 1] ELSE Null
    OBVIOUS
  <2>1. b \in DOMAIN n
    BY <1>3
  <2> QED BY <2>1, Zenon DEF Enlarged
<1>5. \A b \in S : SetToSeq(S)[At(b)] = b /\ At(b) \in DOMAIN SetToSeq(S)
  BY <1>1
<1> HIDE DEF At
<1>6. \A b \in Buffer \cup {Header} : b \notin S => m[b] = n[b]
  BY <1>3 DEF Enlarged
<1>7. ASSUME NEW j \in 1..Len(s)
      PROVE  /\ j < Len(s) => m[s[j]] = s[j + 1]
             /\ ~(j < Len(s)) => m[s[j]] = Null
  <2>1. At(s[j]) \in 1..Len(s) /\ s[At(s[j])] = s[j]
    BY <1>2, <1>5
  <2>2. At(s[j]) = j
    BY <1>1, <2>1 DEF Distinct
  <2>3. s[j] \in S
    BY <1>2
  <2> QED BY <1>4, <2>2, <2>3
<1>8. m \in Pointers
  <2>1. ASSUME NEW b \in Buffer \cup {Header} PROVE m[b] \in Pointer
    <3>1. CASE b \in S
      <4>1. PICK j \in 1..Len(s) : s[j] = b
        BY <1>1, <1>2, <3>1
      <4>2. j < Len(s) => j + 1 \in 1..Len(s)
        BY <1>2
      <4>3. m[b] = Null \/ m[b] \in Buffer
        BY <1>2, <1>7, <4>1, <4>2
      <4> QED BY <4>3 DEF Pointer
    <3>2. CASE b \notin S
      BY <1>6, <3>2 DEF Pointers
    <3> QED BY <3>1, <3>2
  <2> QED BY <1>3, <2>1 DEF Pointers
<1>9. Linked(m, s)
  <2> SUFFICES ASSUME NEW j \in 1..(Len(s) - 1) PROVE m[s[j]] = s[j + 1]
    BY DEF Linked
  <2>1. j \in 1..Len(s) /\ j < Len(s)
    BY <1>2
  <2> QED BY <1>7, <2>1
<1>10. m[s[Len(s)]] = Null
  <2>1. Len(s) \in 1..Len(s) /\ ~(Len(s) < Len(s))
    BY <1>2
  <2> QED BY <1>7, <2>1
<1>11. Stack(m, s[1], s)
  BY <1>2, <1>9, <1>10 DEF Stack, First
<1> QED BY <1>1, <1>2, <1>6, <1>8, <1>11

(* get() finds or makes the free list fl1: n are the pointers then. *)
Refill(p, fl, n, fl1, new) ==
  /\ fl1 # <<>> /\ Distinct(fl1) /\ ToSet(fl1) = ToSet(fl) \cup new
  /\ Stack(n, fl1[1], fl1)
  /\ \A b \in Buffer \cup {Header} : b \notin ToSet(fl1) => n[b] = next[b]
  /\ fresh' = fresh \ new /\ free' = n[fl1[1]]
  /\ first[p] = Null => next' = n /\ Give(p, fl1[1], fl1[1])
  /\ first[p] # Null => /\ next' = [n EXCEPT ![last[p]] = fl1[1]]
                        /\ Give(p, first[p], fl1[1])

LEMMA Refills ==
  ASSUME NEW q, NEW fl, NEW h, Lists(q, fl, h), NEW p \in Thread, Get(p)
  PROVE  \E n \in Pointers : \E fl1 \in Seq(Buffer) : \E new \in SUBSET fresh :
           Refill(p, fl, n, fl1, new)
<1>1. PICK c \in Seq(Buffer) : c = h[p] /\ Around(q, fl, h, p, c)
  BY Mine
<1>2. PICK new \in SUBSET fresh :
        LET n    == Enlarged(next, new)
            head == IF free # Null THEN free ELSE SetToSeq(new)[1]
        IN /\ IF free # Null THEN new = {} ELSE new # {} /\ Cardinality(new) <= Allocation
           /\ fresh' = fresh \ new /\ free' = n[head]
           /\ IF first[p] = Null
              THEN next' = n /\ Give(p, head, head)
              ELSE /\ next' = [n EXCEPT ![last[p]] = head]
                   /\ Give(p, first[p], head)
  BY Zenon DEF Get, Enlarged
<1> DEFINE n    == Enlarged(next, new)
           head == IF free # Null THEN free ELSE SetToSeq(new)[1]
<1>3. /\ n = Enlarged(next, new)
      /\ head = IF free # Null THEN free ELSE SetToSeq(new)[1]
      /\ IF free # Null THEN new = {} ELSE new # {}
      /\ fresh' = fresh \ new /\ free' = n[head]
      /\ first[p] = Null => next' = n /\ Give(p, head, head)
      /\ first[p] # Null => /\ next' = [n EXCEPT ![last[p]] = head]
                            /\ Give(p, first[p], head)
  BY <1>2, Zenon
<1> HIDE DEF n, head
<1>4. CASE free # Null
  <2>1. new = {} /\ head = free
    BY <1>3, <1>4, Zenon
  <2>2. n = next
    <3>1. n = [b \in DOMAIN next |-> next[b]]
      BY <1>3, <2>1 DEF Enlarged
    <3> QED BY <1>1, <3>1 DEF Around, Pointers
  <2>3. /\ fl \in Seq(Buffer) /\ fl # <<>> /\ Distinct(fl) /\ free = fl[1]
        /\ Stack(next, free, fl) /\ next \in Pointers
    BY <1>1, <1>4 DEF Around, Stack, First
  <2>4. ToSet(fl) = ToSet(fl) \cup new
    BY <2>1
  <2>5. Refill(p, fl, n, fl, new)
    BY <1>3, <2>1, <2>2, <2>3, <2>4 DEF Refill
  <2> QED BY <2>2, <2>3, <2>5
<1>5. CASE free = Null
  <2>1. PICK s : s = SetToSeq(new)
    OBVIOUS
  <2>2. new # {} /\ head = s[1] /\ new \subseteq Buffer /\ fl = <<>> /\ next \in Pointers
    BY <1>1, <1>3, <1>5, <2>1, Zenon DEF Around
  <2>3. n = Enlarged(next, new)
    BY <1>3
  <2>4. /\ s \in Seq(Buffer) /\ s # <<>> /\ Distinct(s) /\ ToSet(s) = new
        /\ n \in Pointers /\ Stack(n, s[1], s)
        /\ \A b \in Buffer \cup {Header} : b \notin new => n[b] = next[b]
    BY <2>1, <2>2, <2>3, Allocates
  <2>5. ToSet(s) = ToSet(fl) \cup new
    BY <2>2, <2>4, Nothing
  <2>6. /\ fresh' = fresh \ new /\ free' = n[s[1]]
        /\ first[p] = Null => next' = n /\ Give(p, s[1], s[1])
        /\ first[p] # Null => /\ next' = [n EXCEPT ![last[p]] = s[1]]
                              /\ Give(p, first[p], s[1])
    BY <1>3, <2>2, Zenon
  <2>7. \A b \in Buffer \cup {Header} : b \notin ToSet(s) => n[b] = next[b]
    BY <2>4
  <2>8. Refill(p, fl, n, s, new)
    BY <2>4, <2>5, <2>6, <2>7, Zenon DEF Refill
  <2> QED BY <2>4, <2>8
<1> QED BY <1>4, <1>5

(* get() *)
LEMMA DoesGet ==
  ASSUME NEW q, NEW fl, NEW h, Lists(q, fl, h), NEW p \in Thread, Get(p)
  PROVE  \E fl2 : \E b \in Buffer :
           /\ b \notin ToSet(q) /\ \A u \in Thread : b \notin ToSet(h[u])
           /\ Lists(q, fl2, [h EXCEPT ![p] = h[p] \o <<b>>])'
<1>1. PICK c \in Seq(Buffer) : c = h[p] /\ Around(q, fl, h, p, c)
  BY Mine
<1>2. PICK n \in Pointers, fl1 \in Seq(Buffer), new \in SUBSET fresh :
        Refill(p, fl, n, fl1, new)
  BY Refills
<1> USE DEF Refill
<1>3. PICK b \in Buffer : b = fl1[1] /\ b \in ToSet(fl1)
  BY <1>2, Ends
<1>4. /\ ToSet(fl1) \cap ToSet(q) = {} /\ ToSet(fl1) \cap ToSet(c) = {}
      /\ \A u \in Thread : u # p => ToSet(fl1) \cap ToSet(h[u]) = {}
  BY <1>1, <1>2 DEF Around
<1>5. b \notin ToSet(q) /\ \A u \in Thread : b \notin ToSet(h[u])
  BY <1>1, <1>3, <1>4
<1>6. PICK r \in Seq(Buffer) : /\ r = Tail(fl1) /\ Distinct(r) /\ ToSet(r) = ToSet(fl1) \ {b}
                               /\ Stack(n, n[b], r)
  <2>1. Linked(n, fl1)
    BY <1>2 DEF Stack
  <2>2. Tail(fl1) \in Seq(Buffer) /\ Distinct(Tail(fl1)) /\ ToSet(Tail(fl1)) = ToSet(fl1) \ {b}
    BY <1>2, <1>3, <2>1, Tails
  <2>3. Stack(n, n[b], Tail(fl1))
    BY <1>2, <1>3, StackPop
  <2> QED BY <2>2, <2>3
<1>7. /\ Ring(n, back, q) /\ Segment(n, first[p], last[p], c)
      /\ first[p] # Null => /\ first[p] \in Buffer /\ last[p] \in Buffer
                            /\ last[p] \in ToSet(c)
  <2>1. n[Header] = next[Header] /\ \A a \in ToSet(q) : n[a] = next[a]
    <3>1. ToSet(fl1) \subseteq Buffer
      BY <1>2, Elements
    <3> QED BY <1>1, <1>2, <1>4, <3>1, Objects DEF Around
  <2>2. Ring(n, back, q)
    BY <1>1, <2>1, RingSame DEF Around
  <2>3. \A a \in ToSet(c) : n[a] = next[a]
    BY <1>1, <1>2, <1>4 DEF Around
  <2>4. Segment(n, first[p], last[p], c)
    BY <1>1, <2>3, SegmentSame DEF Around
  <2>5. c # <<>> => first[p] = c[1] /\ last[p] = c[Len(c)]
    BY <2>4 DEF Segment, First, End
  <2>6. c # <<>> => c[1] \in Buffer /\ c[Len(c)] \in Buffer /\ c[Len(c)] \in ToSet(c)
    BY Ends
  <2>7. first[p] # Null => c # <<>>
    BY <1>1 DEF Around
  <2> QED BY <2>2, <2>4, <2>5, <2>6, <2>7
<1>8. /\ next' \in Pointers
      /\ first[p] # Null => next'[last[p]] = b
      /\ \A a \in Buffer \cup {Header} : first[p] = Null \/ a # last[p] => next'[a] = n[a]
  <2>1. CASE first[p] = Null
    BY <1>2, <2>1
  <2>2. CASE first[p] # Null
    <3>1. next' = [n EXCEPT ![last[p]] = b] /\ last[p] \in Buffer
      BY <1>2, <1>3, <1>7, <2>2
    <3> QED BY <2>2, <3>1 DEF Pointers, Pointer
  <2> QED BY <2>1, <2>2
<1>9. \A a \in Buffer \cup {Header} : a \notin ToSet(c) => next'[a] = n[a]
  BY <1>7, <1>8
<1>10. PICK g \in Buffer : Give(p, g, b) /\ (first[p] = Null => g = b)
                           /\ (first[p] # Null => g = first[p])
  <2>1. CASE first[p] = Null
    BY <1>2, <1>3, <2>1
  <2>2. CASE first[p] # Null
    BY <1>2, <1>3, <1>7, <2>2
  <2> QED BY <2>1, <2>2
<1>11. PICK x \in Seq(Buffer) : /\ x = c \o <<b>> /\ Distinct(x) /\ ToSet(x) = ToSet(c) \cup {b}
                                /\ Segment(next', g, b, x)
  <2>1. PICK y \in Seq(Buffer) : y = <<b>> /\ Distinct(y) /\ ToSet(y) = {b}
    BY Singles
  <2>2. c \in Seq(Buffer) /\ Distinct(c) /\ b \notin ToSet(c) /\ ToSet(c) \cap ToSet(y) = {}
    BY <1>1, <1>5, <2>1 DEF Around
  <2>3. c \o y \in Seq(Buffer) /\ ToSet(c \o y) = ToSet(c) \cup ToSet(y)
    BY Concat
  <2>4. Distinct(c \o y)
    BY <2>1, <2>2, ConcatDistinct
  <2>5. Segment(next', g, b, c \o <<b>>)
    <3>1. Segment(n, first[p], last[p], c)
      BY <1>7
    <3>2. \A a \in Buffer : first[p] = Null \/ a # last[p] => next'[a] = n[a]
      BY <1>8
    <3>3. next' \in Pointers /\ (first[p] # Null => next'[last[p]] = b)
      BY <1>8
    <3>4. (first[p] = Null => g = b) /\ (first[p] # Null => g = first[p])
      BY <1>10
    <3> QED BY <2>2, <3>1, <3>2, <3>3, <3>4, SegmentAppend
  <2> QED BY <2>1, <2>3, <2>4, <2>5
<1>12. Ring(next', back', q)
  <2>1. back' = back
    BY DEF Get
  <2>2. next'[Header] = n[Header] /\ \A a \in ToSet(q) : next'[a] = n[a]
    BY <1>1, <1>9, Objects DEF Around
  <2>3. q \in Seq(Buffer) /\ Distinct(q) /\ Ring(n, back, q)
    BY <1>1, <1>7 DEF Around
  <2> QED BY <2>1, <2>2, <2>3, RingSame
<1>13. Stack(next', free', r)
  <2>1. free' = n[b]
    BY <1>2, <1>3
  <2>2. \A a \in ToSet(r) : next'[a] = n[a]
    <3>1. ToSet(r) \subseteq Buffer
      BY Elements
    <3> QED BY <1>4, <1>6, <1>9, <3>1
  <2> QED BY <1>6, <2>1, <2>2, StackSame
<1>14. Apart(q, r, [h EXCEPT ![p] = x], fresh')
  <2>1. fresh' = fresh \ new /\ new \subseteq fresh
    BY <1>2
  <2>2. Apart(q, fl, h, fresh) /\ h \in [Thread -> Seq(Buffer)] /\ Distinct(q)
    BY <1>1 DEF Lists, Around
  <2>3. /\ ToSet(q) \cap ToSet(r) = {} /\ ToSet(q) \cap fresh' = {}
        /\ ToSet(r) \cap fresh' = {} /\ ToSet(x) \cap ToSet(q) = {}
        /\ ToSet(x) \cap ToSet(r) = {} /\ ToSet(x) \cap fresh' = {}
    <3>1. /\ ToSet(q) \cap fresh = {} /\ ToSet(c) \cap fresh = {} /\ ToSet(fl) \cap fresh = {}
          /\ ToSet(q) \cap ToSet(c) = {}
      BY <1>1 DEF Around
    <3>2. ToSet(fl1) \cap fresh' = {} /\ b \notin fresh'
      BY <1>2, <1>3, <2>1, <3>1
    <3>3. ToSet(q) \cap ToSet(r) = {} /\ ToSet(q) \cap fresh' = {} /\ ToSet(r) \cap fresh' = {}
      BY <1>4, <1>6, <2>1, <3>1, <3>2
    <3>4. ToSet(x) \cap ToSet(q) = {} /\ ToSet(x) \cap ToSet(r) = {}
      BY <1>4, <1>5, <1>6, <1>11, <3>1
    <3>5. ToSet(x) \cap fresh' = {}
      BY <1>11, <2>1, <3>1, <3>2
    <3> QED BY <3>3, <3>4, <3>5
  <2>4. ToSet(q) \cup ToSet(r) \cup ToSet(x) \cup fresh' =
          ToSet(q) \cup ToSet(fl) \cup ToSet(h[p]) \cup fresh
    BY <1>1, <1>2, <1>3, <1>6, <1>11, <2>1
  <2> QED BY <1>6, <1>11, <2>2, <2>3, <2>4, ApartMoves
<1>15. \A u \in Thread : u # p => \A a \in ToSet(h[u]) : next'[a] = next[a]
  BY <1>1, <1>2, <1>4, <1>9 DEF Around
<1>16. size' = Len(q) /\ fresh' \subseteq Buffer
  BY <1>1, <1>2 DEF Get, Around
<1>17. Lists(q, r, [h EXCEPT ![p] = x])'
  <2>1. q \in Seq(Buffer)
    BY <1>1 DEF Around
  <2> QED BY <1>8, <1>10, <1>11, <1>12, <1>13, <1>14, <1>15, <1>16, <2>1, Moved
<1> QED BY <1>1, <1>5, <1>11, <1>17

-----------------------------------------------------------------------------
(* What the lists are is what following the pointers shows.                *)

LEMMA Fits ==
  ASSUME NEW s \in Seq(Buffer), Distinct(s)
  PROVE  Len(s) \in Nat /\ Len(s) <= Cardinality(Buffer) /\ Cardinality(Buffer) \in Nat
<1>1. Len(s) \in Nat /\ s \in [1..Len(s) -> Buffer]
  BY LenProperties
<1>2. s \in Injection(1..Len(s), Buffer)
  BY <1>1 DEF Injection, IsInjective, Distinct
<1>3. Cardinality(1..Len(s)) <= Cardinality(Buffer)
  BY <1>2, BuffersAssumption, FS_Injection
<1>4. Cardinality(1..Len(s)) = Len(s)
  BY <1>1, FS_Interval
<1> QED BY <1>1, <1>3, <1>4, BuffersAssumption, FS_CardinalityType

LEMMA PathOfChain ==
  ASSUME NEW c \in Seq(Buffer), c # <<>>, Distinct(c), next \in Pointers, Linked(next, c)
  PROVE  Path(c[1], c[Len(c)], c)
<1>1. Len(c) \in Nat /\ Len(c) <= Cardinality(Buffer) /\ Cardinality(Buffer) \in Nat
  BY Fits
<1>2. Len(c) \in 1..Len(c) /\ 1 \in 1..Len(c) /\ \A i \in 1..Len(c) : c[i] \in Buffer
  BY Elements
<1>3. c[1] # Null
  BY <1>2, Objects
<1>4. c \in Seq(Buffer \cup {Null}) /\ Len(c) \in 1..(Cardinality(Buffer) + 1)
  BY <1>1, <1>2
<1>5. ASSUME NEW i \in 1..(Len(c) - 1)
      PROVE  c[i] \in DOMAIN next /\ next[c[i]] = c[i + 1] /\ c[i] # c[Len(c)]
  <2>1. i \in 1..Len(c) /\ i # Len(c)
    BY <1>1
  <2> QED BY <1>2, <2>1 DEF Linked, Pointers, Distinct
<1> QED BY <1>3, <1>4, <1>5 DEF Path

LEMMA PathOfStack ==
  ASSUME NEW s \in Seq(Buffer), s # <<>>, Distinct(s), next \in Pointers,
         Stack(next, free, s)
  PROVE  Path(free, Null, Append(s, Null)) /\ Front(Append(s, Null)) = s /\ free # Null
<1>1. Len(s) \in Nat /\ Len(s) <= Cardinality(Buffer) /\ Cardinality(Buffer) \in Nat
  BY Fits
<1>2. Len(s) \in 1..Len(s) /\ 1 \in 1..Len(s)
      /\ \A i \in 1..Len(s) : s[i] \in Buffer /\ s[i] # Null
  BY Elements, Objects
<1>3. PICK a \in Seq(Buffer \cup {Null}) :
        /\ a = Append(s, Null) /\ Len(a) = Len(s) + 1
        /\ a[Len(s) + 1] = Null /\ \A i \in 1..Len(s) : a[i] = s[i]
  <2>1. s \in Seq(Buffer \cup {Null})
    BY <1>2
  <2>2. Append(s, Null) \in Seq(Buffer \cup {Null}) /\ Len(Append(s, Null)) = Len(s) + 1
    BY <2>1
  <2>3. Append(s, Null)[Len(s) + 1] = Null /\ \A i \in 1..Len(s) : Append(s, Null)[i] = s[i]
    BY <1>1, <2>1
  <2> QED BY <2>2, <2>3
<1>4. a[1] = free /\ free # Null
  BY <1>2, <1>3 DEF Stack, First
<1>5. ASSUME NEW i \in 1..Len(s)
      PROVE  a[i] \in DOMAIN next /\ next[a[i]] = a[i + 1] /\ a[i] # Null
  <2>1. CASE i = Len(s)
    BY <1>2, <1>3, <2>1 DEF Stack, Pointers
  <2>2. CASE i # Len(s)
    <3>1. i \in 1..(Len(s) - 1) /\ i + 1 \in 1..Len(s)
      BY <1>1, <2>2
    <3> QED BY <1>2, <1>3, <3>1 DEF Stack, Linked, Pointers
  <2> QED BY <2>1, <2>2
<1>6. Path(free, Null, a)
  <2>1. Len(a) \in 1..(Cardinality(Buffer) + 1) /\ Len(a) - 1 = Len(s) /\ a[Len(a)] = Null
    BY <1>1, <1>2, <1>3
  <2> QED BY <1>3, <1>4, <1>5, <2>1 DEF Path
<1>7. Front(a) = s
  <2>1. Front(a) = SubSeq(a, 1, Len(s))
    BY <1>1, <1>3 DEF Front
  <2>2. Front(a) = [i \in 1..Len(s) |-> a[i]]
    BY <1>1, <1>3, <2>1
  <2>3. s = [i \in 1..Len(s) |-> s[i]]
    OBVIOUS
  <2> QED BY <1>3, <2>2, <2>3
<1> QED BY <1>3, <1>4, <1>6, <1>7

LEMMA Shown ==
  \A q, fl, h : Lists(q, fl, h) =>
    Queue = q /\ FreeList = fl /\ \A t \in Thread : Held(t) = h[t]
<1> SUFFICES ASSUME NEW q, NEW fl, NEW h, Lists(q, fl, h)
             PROVE  Queue = q /\ FreeList = fl /\ \A t \in Thread : Held(t) = h[t]
  OBVIOUS
<1>1. /\ q \in Seq(Buffer) /\ fl \in Seq(Buffer) /\ next \in Pointers
      /\ Distinct(q) /\ Distinct(fl) /\ Ring(next, back, q) /\ Stack(next, free, fl)
      /\ \A t \in Thread : /\ h[t] \in Seq(Buffer) /\ Distinct(h[t])
                           /\ Segment(next, first[t], last[t], h[t])
  BY DEF Lists, Apart
<1>2. Queue = q
  <2>1. CASE q = <<>>
    BY <1>1, <2>1 DEF Queue, Ring, First
  <2>2. CASE q # <<>>
    <3>1. Path(q[1], q[Len(q)], q)
      BY <1>1, <2>2, PathOfChain DEF Ring
    <3>2. next[Header] = q[1] /\ back = q[Len(q)] /\ q[1] # Header
      BY <1>1, <2>2, Ends, Objects DEF Ring
    <3> QED BY <3>1, <3>2, ChainIs DEF Queue
  <2> QED BY <2>1, <2>2
<1>3. FreeList = fl
  <2>1. CASE fl = <<>>
    BY <1>1, <2>1 DEF FreeList, Stack, First
  <2>2. CASE fl # <<>>
    <3>1. Path(free, Null, Append(fl, Null)) /\ Front(Append(fl, Null)) = fl /\ free # Null
      BY <1>1, <2>2, PathOfStack
    <3>2. Chain(free, Null) = Append(fl, Null)
      BY <3>1, ChainIs
    <3> QED BY <3>1, <3>2 DEF FreeList
  <2> QED BY <2>1, <2>2
<1>4. ASSUME NEW t \in Thread PROVE Held(t) = h[t]
  <2>1. PICK c \in Seq(Buffer) : /\ c = h[t] /\ Distinct(c)
                                 /\ Segment(next, first[t], last[t], c)
    BY <1>1
  <2>2. CASE c = <<>>
    BY <2>1, <2>2 DEF Held, Chain, Segment, First
  <2>3. CASE c # <<>>
    <3>1. Path(c[1], c[Len(c)], c)
      BY <1>1, <2>1, <2>3, PathOfChain DEF Segment
    <3>2. first[t] = c[1] /\ last[t] = c[Len(c)]
      BY <2>1, <2>3 DEF Segment, First, End
    <3> QED BY <2>1, <3>1, <3>2, ChainIs DEF Held
  <2> QED BY <2>2, <2>3
<1> QED BY <1>2, <1>3, <1>4

LEMMA ShownPrimed ==
  (\A q, fl, h : Lists(q, fl, h) =>
     Queue = q /\ FreeList = fl /\ \A t \in Thread : Held(t) = h[t])'
BY Shown, PTL

-----------------------------------------------------------------------------
(* The steps.                                                              *)

(* What a step does to the queue and to the chains of the threads. *)
Moves(q, h, q2, h2) ==
  \/ q2 = q /\ h2 = h
  \/ \E t \in Thread :
       \/ \E b \in Buffer : /\ b \notin ToSet(q) /\ \A u \in Thread : b \notin ToSet(h[u])
                            /\ q2 = q /\ h2 = [h EXCEPT ![t] = h[t] \o <<b>>]
       \/ h[t] # <<>> /\ q2 = q /\ h2 = [h EXCEPT ![t] = Tail(h[t])]
       \/ h[t] # <<>> /\ q2 = q \o h[t] /\ h2 = [h EXCEPT ![t] = <<>>]
       \/ h[t] # <<>> /\ q2 = h[t] \o q /\ h2 = [h EXCEPT ![t] = <<>>]
       \/ q # <<>> /\ h[t] = <<>> /\ q2 = Tail(q) /\ h2 = [h EXCEPT ![t] = <<q[1]>>]
       \/ q # <<>> /\ h[t] = <<>> /\ q2 = <<>> /\ h2 = [h EXCEPT ![t] = q]

Leads(q, h) == \E q2, fl2, h2 : /\ Lists(q2, fl2, h2)' /\ Control(h2)'
                                /\ Moves(q, h, q2, h2)

(* t goes on at label; at most a waiting thread is woken. *)
Goes(t, label) ==
  /\ pc' \in [Thread -> Labels] /\ pc'[t] = label
  /\ \A u \in Thread : u # t => \/ pc'[u] = pc[u]
                                \/ pc[u] = "wait" /\ pc'[u] = "woken"

(* What Control says of one thread. *)
Fit(t, label, c) ==
  /\ label \in {"measure", "push", "save", "send", "hold"} => c # <<>>
  /\ label \in {"overflow", "pop", "wait", "woken"} => c = <<>>
  /\ label = "idle" /\ t \notin Producers => c = <<>>

LEMMA Goings ==
  ASSUME NEW t \in Thread, NEW label \in Labels, pc \in [Thread -> Labels], pc[t] # "wait"
  PROVE  Goto(t, label) \/ Signal(t, label) => Goes(t, label)
<1>1. ASSUME Goto(t, label) PROVE Goes(t, label)
  BY <1>1 DEF Goto, Goes
<1>2. ASSUME NEW w \in Waiting, pc' = [pc EXCEPT ![t] = label, ![w] = "woken"]
      PROVE  Goes(t, label)
  <2>1. w \in Thread /\ pc[w] = "wait" /\ w # t
    BY DEF Waiting
  <2> QED BY <1>2, <2>1 DEF Goes, Labels
<1>3. Signal(t, label) => Goto(t, label) \/ \E w \in Waiting :
                            pc' = [pc EXCEPT ![t] = label, ![w] = "woken"]
  BY DEF Signal
<1> QED BY <1>1, <1>2, <1>3

LEMMA ControlMoves ==
  ASSUME NEW h \in [Thread -> Seq(Buffer)], Control(h), NEW t \in Thread, NEW c,
         NEW label, Goes(t, label), Fit(t, label, c), added' \in [Thread -> Nat],
         \A u \in Thread : u # t => added'[u] = added[u],
         label = "push" => added'[t] = Len(c)
  PROVE  Control([h EXCEPT ![t] = c])'
<1> DEFINE g == [h EXCEPT ![t] = c]
<1>1. g[t] = c /\ \A u \in Thread : u # t => g[u] = h[u]
  OBVIOUS
<1> HIDE DEF g
<1> SUFFICES ASSUME NEW u \in Thread
             PROVE  /\ pc'[u] \in {"measure", "push", "save", "send", "hold"} => g[u] # <<>>
                    /\ pc'[u] \in {"overflow", "pop", "wait", "woken"} => g[u] = <<>>
                    /\ pc'[u] = "idle" /\ u \notin Producers => g[u] = <<>>
                    /\ pc'[u] = "push" => added'[u] = Len(g[u])
  BY DEF Control, Goes, g
<1>2. CASE u = t
  BY <1>1, <1>2 DEF Goes, Fit
<1>3. CASE u # t
  BY <1>1, <1>3 DEF Goes, Control
<1> QED BY <1>2, <1>3

LEMMA Stays ==
  ASSUME NEW q, NEW fl, NEW h, Lists(q, fl, h),
         UNCHANGED <<queueVars, poolVars, first, last>>
  PROVE  Lists(q, fl, h)'
BY DEF Lists, queueVars, poolVars

(* A step that changes no list. *)
LEMMA LeadsOn ==
  ASSUME NEW q, NEW fl, NEW h, Lists(q, fl, h), Control(h), NEW t \in Thread,
         NEW label \in Labels, Goto(t, label),
         UNCHANGED <<queueVars, poolVars, locals>>,
         Fit(t, label, h[t]), label # "push"
  PROVE  Leads(q, h)
<1>1. Lists(q, fl, h)'
  BY Stays DEF locals
<1>2. h \in [Thread -> Seq(Buffer)] /\ [h EXCEPT ![t] = h[t]] = h
  BY DEF Lists
<1>3. Goes(t, label)
  BY DEF Control, Goto, Goes
<1>4. Control([h EXCEPT ![t] = h[t]])'
  BY <1>2, <1>3, ControlMoves DEF Control, locals
<1>5. Control(h)'
  BY <1>2, <1>4
<1> QED BY <1>1, <1>5 DEF Leads, Moves

LEMMA LeadsGet ==
  ASSUME NEW q, NEW fl, NEW h, Lists(q, fl, h), Control(h), NEW p \in Producers, Get(p)
  PROVE  Leads(q, h)
<1>1. p \in Thread /\ pc' = pc /\ added' = added /\ pc[p] = "idle"
  BY DEF Get, Thread
<1>2. PICK fl2 : \E b \in Buffer :
        /\ b \notin ToSet(q) /\ \A u \in Thread : b \notin ToSet(h[u])
        /\ Lists(q, fl2, [h EXCEPT ![p] = h[p] \o <<b>>])'
  BY <1>1, DoesGet
<1> PICK b \in Buffer : /\ b \notin ToSet(q) /\ \A u \in Thread : b \notin ToSet(h[u])
                        /\ Lists(q, fl2, [h EXCEPT ![p] = h[p] \o <<b>>])'
  BY <1>2
<1>3. Control([h EXCEPT ![p] = h[p] \o <<b>>])'
  <2>1. h \in [Thread -> Seq(Buffer)]
    BY DEF Lists
  <2>2. Goes(p, "idle") /\ Fit(p, "idle", h[p] \o <<b>>)
    BY <1>1 DEF Goes, Fit, Control
  <2> QED BY <1>1, <2>1, <2>2, ControlMoves DEF Control
<1>4. Moves(q, h, q, [h EXCEPT ![p] = h[p] \o <<b>>])
  BY <1>1 DEF Moves
<1> QED BY <1>3, <1>4 DEF Leads

LEMMA LeadsPut ==
  ASSUME NEW q, NEW fl, NEW h, Lists(q, fl, h), Control(h), NEW t \in Thread,
         pc[t] \in {"save", "send", "hold"}, NEW label \in {"idle", "pop"}, Put(t, label)
  PROVE  Leads(q, h)
<1>1. h[t] # <<>> /\ h \in [Thread -> Seq(Buffer)] /\ pc \in [Thread -> Labels]
      /\ added' = added /\ added \in [Thread -> Nat]
  BY DEF Control, Lists, Put
<1>2. PICK fl2 : Lists(q, fl2, [h EXCEPT ![t] = Tail(h[t])])'
  BY <1>1, DoesPut
<1>3. first[t] = last[t] <=> Tail(h[t]) = <<>>
  BY <1>1, DoesPut
<1>4. Control([h EXCEPT ![t] = Tail(h[t])])'
  <2>1. CASE first[t] = last[t]
    <3>1. Goto(t, label)
      BY <2>1 DEF Put
    <3>2. Goes(t, label) /\ Fit(t, label, Tail(h[t])) /\ label # "push"
      BY <1>1, <1>3, <2>1, <3>1 DEF Goto, Goes, Fit, Labels
    <3> QED BY <1>1, <3>2, ControlMoves
  <2>2. CASE first[t] # last[t]
    <3>1. pc' = pc
      BY <2>2 DEF Put
    <3>2. Goes(t, pc[t]) /\ Fit(t, pc[t], Tail(h[t])) /\ pc[t] # "push"
      BY <1>1, <1>3, <2>2, <3>1 DEF Goes, Fit
    <3> QED BY <1>1, <3>2, ControlMoves
  <2> QED BY <2>1, <2>2
<1>5. Moves(q, h, q, [h EXCEPT ![t] = Tail(h[t])])
  BY <1>1 DEF Moves
<1> QED BY <1>2, <1>4, <1>5 DEF Leads

LEMMA LeadsPush ==
  ASSUME NEW q, NEW fl, NEW h, Lists(q, fl, h), Control(h), NEW t \in Thread,
         pc[t] = "push", NEW label \in {"idle", "pop", "overflow"},
         PushBack(t, label) \/ PushFront(t, label)
  PROVE  Leads(q, h)
<1>1. h[t] # <<>> /\ h \in [Thread -> Seq(Buffer)] /\ pc \in [Thread -> Labels]
      /\ added[t] = Len(h[t]) /\ added \in [Thread -> Nat]
  BY DEF Control, Lists
<1>2. added' = [added EXCEPT ![t] = 0] /\ Signal(t, label)
  BY DEF PushBack, PushFront, Added
<1>3. Control([h EXCEPT ![t] = <<>>])'
  <2>1. Goes(t, label) /\ Fit(t, label, <<>>) /\ label # "push"
    <3>1. label \in Labels /\ pc[t] # "wait"
      BY DEF Labels
    <3>2. Goes(t, label)
      BY <1>1, <1>2, <3>1, Goings
    <3> QED BY <3>2 DEF Fit
  <2> QED BY <1>1, <1>2, <2>1, ControlMoves
<1>4. CASE PushBack(t, label)
  <2>1. Lists(q \o h[t], fl, [h EXCEPT ![t] = <<>>])'
    BY <1>1, <1>4, DoesPushBack
  <2>2. Moves(q, h, q \o h[t], [h EXCEPT ![t] = <<>>])
    BY <1>1 DEF Moves
  <2> QED BY <1>3, <2>1, <2>2 DEF Leads
<1>5. CASE PushFront(t, label)
  <2>1. Lists(h[t] \o q, fl, [h EXCEPT ![t] = <<>>])'
    BY <1>1, <1>5, DoesPushFront
  <2>2. Moves(q, h, h[t] \o q, [h EXCEPT ![t] = <<>>])
    BY <1>1 DEF Moves
  <2> QED BY <1>3, <2>1, <2>2 DEF Leads
<1> QED BY <1>4, <1>5

LEMMA LeadsPop ==
  ASSUME NEW q, NEW fl, NEW h, Lists(q, fl, h), Control(h), NEW t \in Thread,
         h[t] = <<>>, NEW label \in {"save", "send", "hold"},
         PopAll(t, label) \/ PopFirst(t, label)
  PROVE  Leads(q, h)
<1>1. h \in [Thread -> Seq(Buffer)] /\ pc \in [Thread -> Labels]
      /\ added' = added /\ added \in [Thread -> Nat] /\ Goto(t, label)
  BY DEF Control, Lists, PopAll, PopFirst
<1>2. Goes(t, label) /\ label # "push"
  BY <1>1 DEF Goto, Goes, Labels
<1>3. CASE PopAll(t, label)
  <2>1. q # <<>> /\ Lists(<<>>, fl, [h EXCEPT ![t] = q])'
    BY <1>3, DoesPopAll
  <2>2. Fit(t, label, q)
    BY <2>1 DEF Fit
  <2>3. Control([h EXCEPT ![t] = q])'
    BY <1>1, <1>2, <2>2, ControlMoves
  <2>4. Moves(q, h, <<>>, [h EXCEPT ![t] = q])
    BY <2>1 DEF Moves
  <2> QED BY <2>1, <2>3, <2>4 DEF Leads
<1>4. CASE PopFirst(t, label)
  <2>1. q # <<>> /\ Lists(Tail(q), fl, [h EXCEPT ![t] = <<q[1]>>])'
    BY <1>4, DoesPopFirst
  <2>2. Fit(t, label, <<q[1]>>)
    BY DEF Fit
  <2>3. Control([h EXCEPT ![t] = <<q[1]>>])'
    BY <1>1, <1>2, <2>2, ControlMoves
  <2>4. Moves(q, h, Tail(q), [h EXCEPT ![t] = <<q[1]>>])
    BY <2>1 DEF Moves
  <2> QED BY <2>1, <2>3, <2>4 DEF Leads
<1> QED BY <1>3, <1>4

LEMMA LeadsMeasure ==
  ASSUME NEW q, NEW fl, NEW h, Lists(q, fl, h), Control(h), NEW t \in Thread, Measure(t)
  PROVE  Leads(q, h)
<1>1. h[t] # <<>> /\ h \in [Thread -> Seq(Buffer)] /\ pc \in [Thread -> Labels]
      /\ added \in [Thread -> Nat] /\ h[t] \in Seq(Buffer)
  BY DEF Control, Lists, Measure
<1>2. added' = [added EXCEPT ![t] = Len(h[t])] /\ Goto(t, "push")
  BY Shown DEF Measure, Held
<1>3. Lists(q, fl, h)'
  BY Stays DEF Measure
<1>4. Goes(t, "push") /\ Fit(t, "push", h[t])
  BY <1>1, <1>2 DEF Goto, Goes, Fit, Labels
<1>5. Control([h EXCEPT ![t] = h[t]])'
  <2>1. Len(h[t]) \in Nat
    BY <1>1, LenProperties
  <2>2. added' \in [Thread -> Nat] /\ added'[t] = Len(h[t])
        /\ \A u \in Thread : u # t => added'[u] = added[u]
    BY <1>1, <1>2, <2>1
  <2> QED BY <1>1, <1>4, <2>2, ControlMoves
<1>6. Control(h)'
  <2>1. [h EXCEPT ![t] = h[t]] = h
    BY <1>1
  <2> QED BY <1>5, <2>1
<1> QED BY <1>3, <1>6 DEF Leads, Moves

(* A wait that ends. *)
LEMMA LeadsWake ==
  ASSUME NEW q, NEW fl, NEW h, Lists(q, fl, h), Control(h), NEW t \in Thread,
         SpuriousWakeup(t) \/ Timeout(t)
  PROVE  Leads(q, h)
<1>1. PICK label \in {"woken", "pop", "idle"} :
        /\ pc[t] = "wait" /\ Goto(t, label)
        /\ UNCHANGED <<queueVars, poolVars, locals>>
  BY DEF SpuriousWakeup, Timeout, PopNothing
<1>2. Fit(t, label, h[t]) /\ label \in Labels /\ label # "push"
  BY <1>1 DEF Fit, Control, Labels
<1> QED BY <1>1, <1>2, LeadsOn

(* A thread without buffers that takes some, or sleeps. *)
LEMMA LeadsTake ==
  ASSUME NEW q, NEW fl, NEW h, Lists(q, fl, h), Control(h), NEW t \in Thread,
         h[t] = <<>>, NEW label \in {"send", "hold"}, Take(t, label) \/ Sleep(t)
  PROVE  Leads(q, h)
<1>1. CASE Take(t, label)
  BY <1>1, LeadsPop DEF Take
<1>2. CASE Sleep(t)
  <2>1. Fit(t, "wait", h[t]) /\ "wait" \in Labels
    BY DEF Fit, Labels
  <2> QED BY <1>2, <2>1, LeadsOn DEF Sleep
<1> QED BY <1>1, <1>2

LEMMA LeadsProducer ==
  ASSUME NEW q, NEW fl, NEW h, Lists(q, fl, h), Control(h), NEW p \in Producers,
         ProducerStep(p)
  PROVE  Leads(q, h)
<1>1. p \in Thread
  BY DEF Thread
<1>2. CASE Get(p)
  BY <1>2, LeadsGet
<1>3. CASE StartPush(p)
  <2>1. h[p] # <<>>
    BY <1>1, <1>3, Mine DEF Around, StartPush
  <2>2. Fit(p, "measure", h[p]) /\ "measure" \in Labels
    BY <2>1 DEF Fit, Labels
  <2> QED BY <1>1, <1>3, <2>2, LeadsOn DEF StartPush
<1>4. CASE Measure(p)
  BY <1>1, <1>4, LeadsMeasure
<1>5. CASE Send(p)
  BY <1>1, <1>5, LeadsPush DEF Send
<1>6. CASE SavePop(p)
  <2>1. h[p] = <<>>
    BY <1>1, <1>6 DEF SavePop, Control
  <2>2. CASE PopAll(p, "save")
    BY <1>1, <2>1, <2>2, LeadsPop
  <2>3. CASE PopNothing(p, "idle")
    <3>1. Fit(p, "idle", h[p]) /\ "idle" \in Labels
      BY <2>1 DEF Fit, Labels
    <3> QED BY <1>1, <2>3, <3>1, LeadsOn DEF PopNothing
  <2> QED BY <1>6, <2>2, <2>3 DEF SavePop
<1>7. CASE Saved(p)
  BY <1>1, <1>7, LeadsPut DEF Saved
<1> QED BY <1>2, <1>3, <1>4, <1>5, <1>6, <1>7 DEF ProducerStep

LEMMA LeadsRunner ==
  ASSUME NEW q, NEW fl, NEW h, Lists(q, fl, h), Control(h), RunnerStep
  PROVE  Leads(q, h)
<1>1. Runner \in Thread
  BY DEF Thread
<1>2. CASE RunnerTakes
  <2>1. h[Runner] = <<>>
    BY <1>1, <1>2 DEF RunnerTakes, Control
  <2> QED BY <1>1, <1>2, <2>1, LeadsTake DEF RunnerTakes
<1>3. CASE SpuriousWakeup(Runner)
  BY <1>1, <1>3, LeadsWake
<1>4. CASE Sent
  BY <1>1, <1>4, LeadsPut DEF Sent
<1>5. CASE SendFails
  <2>1. h[Runner] # <<>>
    BY <1>1, <1>5 DEF SendFails, Control
  <2>2. Fit(Runner, "measure", h[Runner]) /\ "measure" \in Labels
    BY <2>1 DEF Fit, Labels
  <2> QED BY <1>1, <1>5, <2>2, LeadsOn DEF SendFails
<1>6. CASE Measure(Runner)
  BY <1>1, <1>6, LeadsMeasure
<1>7. CASE PushUnsent
  BY <1>1, <1>7, LeadsPush DEF PushUnsent
<1> QED BY <1>2, <1>3, <1>4, <1>5, <1>6, <1>7 DEF RunnerStep

LEMMA LeadsConsumer ==
  ASSUME NEW q, NEW fl, NEW h, Lists(q, fl, h), Control(h), NEW c \in Consumers,
         ConsumerStep(c)
  PROVE  Leads(q, h)
<1>1. c \in Thread /\ c \notin Producers
  BY BuffersAssumption DEF Thread
<1>2. CASE ConsumerPops(c)
  <2>1. h[c] = <<>>
    BY <1>1, <1>2 DEF ConsumerPops, Control
  <2>2. CASE PopFirst(c, "hold")
    BY <1>1, <2>1, <2>2, LeadsPop
  <2>3. CASE PopNothing(c, "idle")
    <3>1. Fit(c, "idle", h[c]) /\ "idle" \in Labels
      BY <2>1 DEF Fit, Labels
    <3> QED BY <1>1, <2>3, <3>1, LeadsOn DEF PopNothing
  <2> QED BY <1>2, <2>2, <2>3 DEF ConsumerPops
<1>3. CASE ConsumerTakes(c)
  <2>1. h[c] = <<>>
    BY <1>1, <1>3 DEF ConsumerTakes, Control
  <2> QED BY <1>1, <1>3, <2>1, LeadsTake DEF ConsumerTakes
<1>4. CASE SpuriousWakeup(c)
  BY <1>1, <1>4, LeadsWake
<1>5. CASE ConsumerPuts(c)
  BY <1>1, <1>5, LeadsPut DEF ConsumerPuts
<1>6. CASE ConsumerPushes(c)
  <2>1. h[c] # <<>>
    BY <1>1, <1>6 DEF ConsumerPushes, Control
  <2>2. Fit(c, "measure", h[c]) /\ "measure" \in Labels
    BY <2>1 DEF Fit, Labels
  <2> QED BY <1>1, <1>6, <2>2, LeadsOn DEF ConsumerPushes
<1>7. CASE Measure(c)
  BY <1>1, <1>7, LeadsMeasure
<1>8. CASE PushSingle(c)
  BY <1>1, <1>8, LeadsPush DEF PushSingle
<1> QED BY <1>2, <1>3, <1>4, <1>5, <1>6, <1>7, <1>8 DEF ConsumerStep

(* Every step keeps the lists, and moves buffers in one of those ways. *)
LEMMA NextLeads ==
  ASSUME NEW q, NEW fl, NEW h, Lists(q, fl, h), Control(h), [Next]_vars
  PROVE  Leads(q, h)
<1>1. CASE UNCHANGED vars
  <2>1. Lists(q, fl, h)'
    BY <1>1, Stays DEF vars, locals
  <2>2. Control(h)'
    BY <1>1 DEF vars, locals, Control
  <2> QED BY <2>1, <2>2 DEF Leads, Moves
<1>2. ASSUME NEW p \in Producers, ProducerStep(p) PROVE Leads(q, h)
  BY <1>2, LeadsProducer
<1>3. ASSUME NEW c \in Consumers, ConsumerStep(c) \/ Timeout(c) PROVE Leads(q, h)
  <2>1. c \in Thread
    BY DEF Thread
  <2> QED BY <1>3, <2>1, LeadsConsumer, LeadsWake
<1>4. ASSUME RunnerStep \/ Timeout(Runner) PROVE Leads(q, h)
  <2>1. Runner \in Thread
    BY DEF Thread
  <2> QED BY <1>4, <2>1, LeadsRunner, LeadsWake
<1> QED BY <1>1, <1>2, <1>3, <1>4 DEF Next

LEMMA InitLists ==
  ASSUME Init
  PROVE  Lists(<<>>, <<>>, [t \in Thread |-> <<>>]) /\ Control([t \in Thread |-> <<>>])
<1> DEFINE h == [t \in Thread |-> <<>>]
<1>1. h \in [Thread -> Seq(Buffer)] /\ \A t \in Thread : h[t] = <<>>
  BY Nothing
<1> HIDE DEF h
<1>2. next \in Pointers /\ next[Header] = Header /\ fresh = Buffer
  BY DEF Init, Pointers, Pointer
<1>3. /\ first \in [Thread -> Buffer \cup {Null}] /\ last \in [Thread -> Buffer \cup {Null}]
      /\ \A t \in Thread : Segment(next, first[t], last[t], h[t])
  BY <1>1, Nothing DEF Init
<1>4. Ring(next, back, <<>>) /\ Stack(next, free, <<>>) /\ size = Len(<<>>)
  BY <1>2, Empties DEF Init, Ring, Stack, First, End
<1>5. Apart(<<>>, <<>>, h, fresh)
  BY <1>1, <1>2, Nothing DEF Apart
<1>6. Lists(<<>>, <<>>, h)
  BY <1>1, <1>2, <1>3, <1>4, <1>5, Nothing DEF Lists
<1>7. Control(h)
  BY <1>1, BuffersAssumption DEF Init, Control, Labels
<1> QED BY <1>6, <1>7 DEF h

LEMMA Always == Spec => []Inv
<1>1. Init => Inv
  BY InitLists DEF Inv
<1>2. Inv /\ [Next]_vars => Inv'
  <2> SUFFICES ASSUME Inv, [Next]_vars PROVE Inv'
    OBVIOUS
  <2>1. PICK q, fl, h : Lists(q, fl, h) /\ Control(h)
    BY DEF Inv
  <2>2. Leads(q, h)
    BY <2>1, NextLeads
  <2> QED BY <2>2 DEF Leads, Inv
<1> QED BY <1>1, <1>2, PTL DEF Spec

-----------------------------------------------------------------------------
(* The properties.                                                         *)

(* Whatever the threads do, pointers point to objects or are null and the  *)
(* count of the queue (net::buffers::_M_count) does not drop below zero.   *)
THEOREM TypeCorrect == Spec => []TypeOK
<1>1. Inv => TypeOK
  <2> SUFFICES ASSUME NEW q, NEW fl, NEW h, Lists(q, fl, h), Control(h) PROVE TypeOK
    BY DEF Inv
  <2>1. /\ q \in Seq(Buffer) /\ fl \in Seq(Buffer)
        /\ Ring(next, back, q) /\ Stack(next, free, fl) /\ size = Len(q)
    BY DEF Lists
  <2>2. back \in Buffer \cup {Header}
    <3>1. back = IF q = <<>> THEN Header ELSE q[Len(q)]
      BY <2>1 DEF Ring, End
    <3>2. q # <<>> => q[Len(q)] \in Buffer
      BY <2>1, Ends
    <3> QED BY <3>1, <3>2
  <2>3. free \in Buffer \cup {Null}
    <3>1. free = IF fl = <<>> THEN Null ELSE fl[1]
      BY <2>1 DEF Stack, First
    <3>2. fl # <<>> => fl[1] \in Buffer
      BY <2>1, Ends
    <3> QED BY <3>1, <3>2
  <2>4. size \in Nat
    BY <2>1, LenProperties
  <2> QED BY <2>2, <2>3, <2>4 DEF TypeOK, Lists, Control, Pointers
<1> QED BY <1>1, Always, PTL

(* Through whatever pushes and pops at both ends, the ring of the queue    *)
(* closes at Header and _M_count is its length, although a chain is        *)
(* counted by distance() before the mutex is locked.                       *)
THEOREM RingStaysIntact == Spec => []RingIntact
<1>1. Inv => RingIntact
  <2> SUFFICES ASSUME NEW q, NEW fl, NEW h, Lists(q, fl, h) PROVE RingIntact
    BY DEF Inv
  <2>1. Queue = q
    BY Shown
  <2>2. size = Len(q) /\ next[back] = Header
    BY DEF Lists, Ring
  <2> QED BY <2>1, <2>2 DEF RingIntact
<1> QED BY <1>1, Always, PTL

(* An index of b in a list without repetitions is the only one. *)
LEMMA OneIndex ==
  ASSUME NEW s \in Seq(Buffer), Distinct(s), NEW b
  PROVE  LET In == {i \in DOMAIN s : s[i] = b}
         IN /\ b \notin ToSet(s) => In = {}
            /\ b \in ToSet(s) => \E i : In = {i}
<1>1. DOMAIN s = 1..Len(s) /\ \A i \in 1..Len(s) : s[i] \in ToSet(s)
  BY Elements
<1>2. CASE b \notin ToSet(s)
  BY <1>1, <1>2
<1>3. CASE b \in ToSet(s)
  <2>1. PICK i \in 1..Len(s) : s[i] = b
    BY <1>3, Elements
  <2>2. {j \in DOMAIN s : s[j] = b} = {i}
    BY <1>1, <2>1 DEF Distinct
  <2> QED BY <1>3, <2>2
<1> QED BY <1>2, <1>3

(* No buffer is lost, shared or put back twice: an allocated one is in the *)
(* queue, in the free list of the allocator or in the hands of one thread, *)
(* and only once; one that is not allocated is nowhere.                    *)
THEOREM NoBufferTwice == Spec => []EveryBufferOnce
<1>1. Inv => EveryBufferOnce
  <2> SUFFICES ASSUME NEW q, NEW fl, NEW h, Lists(q, fl, h), NEW b \in Buffer
               PROVE  Cardinality(Sites(b)) = IF b \in fresh THEN 0 ELSE 1
    BY DEF Inv, EveryBufferOnce
  <2> DEFINE In(s) == {i \in DOMAIN s : s[i] = b}
             A == {"queue"} \X In(q)
             B == {"free"} \X In(fl)
             C(t) == {t} \X In(h[t])
  <2>1. Sites(b) = A \cup B \cup UNION {C(t) : t \in Thread}
    <3>1. Queue = q /\ FreeList = fl /\ \A t \in Thread : Held(t) = h[t]
      BY Shown
    <3> QED BY <3>1 DEF Sites
  <2>2. /\ b \notin ToSet(q) => In(q) = {}
        /\ b \in ToSet(q) => \E i : In(q) = {i}
    BY OneIndex DEF Lists, Apart
  <2>3. /\ b \notin ToSet(fl) => In(fl) = {}
        /\ b \in ToSet(fl) => \E i : In(fl) = {i}
    BY OneIndex DEF Lists, Apart
  <2>4. ASSUME NEW t \in Thread
        PROVE  /\ b \notin ToSet(h[t]) => In(h[t]) = {}
               /\ b \in ToSet(h[t]) => \E i : In(h[t]) = {i}
    <3>1. h[t] \in Seq(Buffer) /\ Distinct(h[t])
      BY DEF Lists, Apart
    <3> QED BY <3>1, OneIndex
  <2>5. /\ In(q) = {} => A = {}
        /\ \A i : In(q) = {i} => A = {<<"queue", i>>}
        /\ In(fl) = {} => B = {}
        /\ \A i : In(fl) = {i} => B = {<<"free", i>>}
        /\ \A t \in Thread : In(h[t]) = {} => C(t) = {}
        /\ \A t \in Thread : \A i : In(h[t]) = {i} => C(t) = {<<t, i>>}
    <3> HIDE DEF In
    <3> QED OBVIOUS
  <2> HIDE DEF In, A, B, C
  <2>6. CASE b \in fresh
    <3>1. b \notin ToSet(q) /\ b \notin ToSet(fl) /\ \A t \in Thread : b \notin ToSet(h[t])
      BY <2>6 DEF Lists, Apart
    <3>2. Sites(b) = {}
      BY <2>1, <2>2, <2>3, <2>4, <2>5, <3>1
    <3> QED BY <2>6, <3>2, FS_EmptySet
  <2>7. CASE b \notin fresh
    <3>1. \E x : Sites(b) = {x}
      <4>1. CASE b \in ToSet(q)
        <5>1. b \notin ToSet(fl) /\ \A t \in Thread : b \notin ToSet(h[t])
          BY <4>1 DEF Lists, Apart
        <5>2. B = {} /\ \A t \in Thread : C(t) = {}
          BY <2>3, <2>4, <2>5, <5>1
        <5>3. PICK x : A = {x}
          BY <2>2, <2>5, <4>1
        <5> QED BY <2>1, <5>2, <5>3
      <4>2. CASE b \in ToSet(fl)
        <5>1. b \notin ToSet(q) /\ \A t \in Thread : b \notin ToSet(h[t])
          BY <4>2 DEF Lists, Apart
        <5>2. A = {} /\ \A t \in Thread : C(t) = {}
          BY <2>2, <2>4, <2>5, <5>1
        <5>3. PICK x : B = {x}
          BY <2>3, <2>5, <4>2
        <5> QED BY <2>1, <5>2, <5>3
      <4>3. CASE b \notin ToSet(q) /\ b \notin ToSet(fl)
        <5>1. PICK u \in Thread : b \in ToSet(h[u])
          BY <2>7, <4>3 DEF Lists, Apart
        <5>2. \A t \in Thread : t # u => b \notin ToSet(h[t])
          BY <5>1 DEF Lists, Apart
        <5>3. A = {} /\ B = {} /\ \A t \in Thread : t # u => C(t) = {}
          BY <2>2, <2>3, <2>4, <2>5, <4>3, <5>2
        <5>4. PICK x : C(u) = {x}
          BY <2>4, <2>5, <5>1
        <5>5. UNION {C(t) : t \in Thread} = {x}
          BY <5>3, <5>4
        <5> QED BY <2>1, <5>3, <5>5
      <4> QED BY <4>1, <4>2, <4>3
    <3> QED BY <2>7, <3>1, FS_Singleton
  <2> QED BY <2>6, <2>7
<1> QED BY <1>1, Always, PTL

(* What net::buffers does with pointers, counts, signals and timeouts is   *)
(* what its header promises: a thread adds its chain of buffers at either  *)
(* end, and takes the first buffer or all of them, in order.               *)
THEOREM Implements == Spec => ImplementsQueue
<1> DEFINE heldNow == [t \in Thread |-> Held(t)]
<1>1. Init => Abstract!Init
  <2> SUFFICES ASSUME Init PROVE Abstract!Init
    OBVIOUS
  <2>1. Lists(<<>>, <<>>, [t \in Thread |-> <<>>])
    BY InitLists
  <2>2. Queue = <<>> /\ \A t \in Thread : Held(t) = [u \in Thread |-> <<>>][t]
    BY <2>1, Shown
  <2> QED BY <2>2 DEF Abstract!Init
<1>2. Inv /\ [Next]_vars => [Abstract!Next]_(Abstract!vars)
  <2> SUFFICES ASSUME NEW q, NEW fl, NEW h, Lists(q, fl, h), Control(h), [Next]_vars
               PROVE  [Abstract!Next]_(Abstract!vars)
    BY DEF Inv
  <2>1. PICK q2, fl2, h2 : Lists(q2, fl2, h2)' /\ Moves(q, h, q2, h2)
    BY NextLeads DEF Leads
  <2>2. /\ q \in Seq(Buffer) /\ h \in [Thread -> Seq(Buffer)]
        /\ h2 \in [Thread -> Seq(Buffer)]
    BY <2>1 DEF Lists
  <2>3. Queue = q /\ \A t \in Thread : Held(t) = h[t]
    BY Shown
  <2>4. Queue' = q2 /\ \A t \in Thread : Held(t)' = h2[t]
    BY <2>1, ShownPrimed
  <2>5. heldNow = h
    BY <2>2, <2>3
  <2>6. heldNow' = h2
    BY <2>2, <2>4
  <2> HIDE DEF heldNow
  <2>7. CASE q2 = q /\ h2 = h
    BY <2>3, <2>4, <2>5, <2>6, <2>7 DEF Abstract!vars, heldNow
  <2>8. ASSUME NEW t \in Thread, NEW b \in Buffer,
               b \notin ToSet(q), \A u \in Thread : b \notin ToSet(h[u]),
               q2 = q, h2 = [h EXCEPT ![t] = h[t] \o <<b>>]
        PROVE  Abstract!Obtain(t)
    <3>1. h[t] \o <<b>> = Append(h[t], b)
      BY <2>2, AppendIsConcat
    <3>2. heldNow' = [heldNow EXCEPT ![t] = Append(heldNow[t], b)]
      BY <2>5, <2>6, <2>8, <3>1
    <3>3. Abstract!Hold(t, Append(heldNow[t], b))
      BY <3>2 DEF Abstract!Hold, heldNow
    <3>4. Queue' = Queue /\ b \notin ToSet(Queue) /\ \A u \in Thread : b \notin ToSet(heldNow[u])
      BY <2>3, <2>4, <2>5, <2>8
    <3>5. \A s : Abstract!ToSet(s) = ToSet(s)
      BY DEF Abstract!ToSet, ToSet
    <3>6. \E a \in Buffer : /\ a \notin ToSet(Queue)
                            /\ \A u \in Thread : a \notin ToSet(heldNow[u])
                            /\ Abstract!Hold(t, Append(heldNow[t], a))
                            /\ Queue' = Queue
      BY <3>3, <3>4
    <3> QED BY <3>5, <3>6 DEF Abstract!Obtain, heldNow
  <2>9. ASSUME NEW t \in Thread, h[t] # <<>>, q2 = q, h2 = [h EXCEPT ![t] = Tail(h[t])]
        PROVE  Abstract!Release(t)
    <3>1. heldNow' = [heldNow EXCEPT ![t] = Tail(heldNow[t])] /\ heldNow[t] # <<>>
      BY <2>5, <2>6, <2>9
    <3>2. Queue' = Queue
      BY <2>3, <2>4, <2>9
    <3> QED BY <3>1, <3>2 DEF Abstract!Release, Abstract!Hold, heldNow
  <2>10. ASSUME NEW t \in Thread, h[t] # <<>>, q2 = q \o h[t], h2 = [h EXCEPT ![t] = <<>>]
         PROVE  Abstract!PushBack(t)
    <3>1. /\ heldNow' = [heldNow EXCEPT ![t] = <<>>] /\ heldNow[t] # <<>>
          /\ Queue' = Queue \o heldNow[t]
      BY <2>3, <2>4, <2>5, <2>6, <2>10
    <3> QED BY <3>1 DEF Abstract!PushBack, Abstract!Hold, heldNow
  <2>11. ASSUME NEW t \in Thread, h[t] # <<>>, q2 = h[t] \o q, h2 = [h EXCEPT ![t] = <<>>]
         PROVE  Abstract!PushFront(t)
    <3>1. /\ heldNow' = [heldNow EXCEPT ![t] = <<>>] /\ heldNow[t] # <<>>
          /\ Queue' = heldNow[t] \o Queue
      BY <2>3, <2>4, <2>5, <2>6, <2>11
    <3> QED BY <3>1 DEF Abstract!PushFront, Abstract!Hold, heldNow
  <2>12. ASSUME NEW t \in Thread, q # <<>>, h[t] = <<>>, q2 = Tail(q),
                h2 = [h EXCEPT ![t] = <<q[1]>>]
         PROVE  Abstract!PopFront(t)
    <3>1. Head(q) = q[1]
      BY <2>2, <2>12
    <3>2. /\ heldNow' = [heldNow EXCEPT ![t] = <<Head(Queue)>>] /\ heldNow[t] = <<>>
          /\ Queue # <<>> /\ Queue' = Tail(Queue)
      BY <2>3, <2>4, <2>5, <2>6, <2>12, <3>1
    <3> QED BY <3>2 DEF Abstract!PopFront, Abstract!Hold, heldNow
  <2>13. ASSUME NEW t \in Thread, q # <<>>, h[t] = <<>>, q2 = <<>>, h2 = [h EXCEPT ![t] = q]
         PROVE  Abstract!Pop(t)
    <3>1. /\ heldNow' = [heldNow EXCEPT ![t] = Queue] /\ heldNow[t] = <<>>
          /\ Queue # <<>> /\ Queue' = <<>>
      BY <2>3, <2>4, <2>5, <2>6, <2>13
    <3> QED BY <3>1 DEF Abstract!Pop, Abstract!Hold, heldNow
  <2>14. CASE ~(q2 = q /\ h2 = h)
    <3>1. \E t \in Thread : \/ Abstract!Obtain(t) \/ Abstract!Release(t)
                           \/ Abstract!PushBack(t) \/ Abstract!PushFront(t)
                           \/ Abstract!PopFront(t) \/ Abstract!Pop(t)
      BY <2>1, <2>8, <2>9, <2>10, <2>11, <2>12, <2>13, <2>14 DEF Moves
    <3> QED BY <3>1 DEF Abstract!Next
  <2> QED BY <2>7, <2>14
<1> QED BY <1>1, <1>2, Always, PTL DEF Spec, ImplementsQueue, Abstract!Spec
=============================================================================
