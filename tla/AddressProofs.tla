--------------------------- MODULE AddressProofs ----------------------------
(***************************************************************************)
(* Proofs about socket addresses (module Address), for all texts that      *)
(* callers build addresses of, for any number of objects and operations.   *)
(*                                                                         *)
(* The parser and the formatter fold over texts.  A fold is a function on  *)
(* sets of positions; that there is such a function is shown for any step  *)
(* (FoldExists), by induction over a set of natural numbers, and yields    *)
(* the values of the fold at the prefixes of a text (LengthOf, ParseOf,    *)
(* NumberOf).  From them follow the laws of Length, of ParsePort and of    *)
(* Decimal, and from these that extract_ip_port() recognizes exactly the   *)
(* texts of a host with a port (ParsesDenoted, ParsesOnlyDenoted).         *)
(*                                                                         *)
(* What is left is about the memory of objects: build() writes every byte  *)
(* that is compared later (BuildIs), and what an object holds is what its  *)
(* history says (Contents), the inductive invariant.                       *)
(***************************************************************************)
EXTENDS Address, SequenceTheorems, WellFoundedInduction, TLAPS

-----------------------------------------------------------------------------
(* Induction, for a set: a least element outside of it has a predecessor.  *)
LEMMA SetInduction ==
  ASSUME NEW K, 0 \in K, \A n \in Nat : n \in K => n + 1 \in K
  PROVE  Nat \subseteq K
<1> DEFINE R == OpToRel(<, Nat)
           T == Nat \ K
<1>1. ASSUME T # {} PROVE FALSE
  <2>1. IsWellFoundedOn(R, Nat)
    BY NatLessThanWellFounded
  <2>2. PICK x \in T : \A y \in T : ~(<<y, x>> \in R)
    <3> HIDE DEF R
    <3> QED BY <1>1, <2>1, WFMin
  <2>3. x \in Nat /\ x # 0 /\ x - 1 \in Nat
    OBVIOUS
  <2>4. x - 1 \notin K
    BY <2>3
  <2>5. <<x - 1, x>> \in R
    BY <2>3 DEF OpToRel
  <2> QED BY <2>2, <2>3, <2>4, <2>5
<1> QED BY <1>1

-----------------------------------------------------------------------------
(* Folds.                                                                  *)

LEMMA MaxIs ==
  ASSUME NEW S \in SUBSET Int, NEW m \in S, \A x \in S : x <= m
  PROVE  Max(S) = m
<1>1. \A x \in S : (\A y \in S : x >= y) => x = m
  OBVIOUS
<1>2. m \in S /\ \A y \in S : m >= y
  OBVIOUS
<1> QED BY <1>1, <1>2 DEF Max

(* w folds sets of positions, the greatest position last. *)
Folding(w, k, V, base, g) ==
  /\ w \in [SUBSET (1..k) -> V]
  /\ \A s \in SUBSET (1..k) :
       w[s] = IF s = {} THEN base ELSE g[<<Max(s), w[s \ {Max(s)}]>>]

(* There is a fold for every step. *)
LEMMA FoldExists ==
  ASSUME NEW N \in Nat, NEW V, NEW base, base \in V, NEW g, g \in [(1..N) \X V -> V]
  PROVE  \E w : Folding(w, N, V, base, g)
<1> USE DEF Folding
<1> DEFINE Good(w, k) == Folding(w, k, V, base, g)
           K == {k \in Nat : k <= N => \E w : Good(w, k)}
<1>1. 0 \in K
  <2> DEFINE w == [s \in SUBSET (1..0) |-> base]
  <2>1. \A s \in SUBSET (1..0) : s = {}
    OBVIOUS
  <2>2. Good(w, 0)
    BY <2>1
  <2>3. \E u : Good(u, 0)
    <3> HIDE DEF w, Good
    <3> QED BY <2>2
  <2> QED BY <2>3
<1>2. ASSUME NEW k \in Nat, k \in K PROVE k + 1 \in K
  <2> HIDE DEF Good
  <2> SUFFICES ASSUME k + 1 <= N PROVE \E w : Good(w, k + 1)
    OBVIOUS
  <2>1. PICK w : Good(w, k)
    BY <1>2
  <2> USE DEF Good
  <2> DEFINE v == [s \in SUBSET (1..(k + 1)) |->
                     IF k + 1 \in s THEN g[<<k + 1, w[s \ {k + 1}]>>] ELSE w[s]]
  <2>2. ASSUME NEW s \in SUBSET (1..(k + 1))
        PROVE  /\ v[s] \in V
               /\ v[s] = IF s = {} THEN base ELSE g[<<Max(s), v[s \ {Max(s)}]>>]
    <3>1. CASE k + 1 \in s
      <4>1. Max(s) = k + 1
        <5>1. s \in SUBSET Int /\ \A x \in s : x <= k + 1
          OBVIOUS
        <5> QED BY <3>1, <5>1, MaxIs
      <4>2. s \ {k + 1} \in SUBSET (1..k) /\ s \ {k + 1} \in SUBSET (1..(k + 1))
        OBVIOUS
      <4>3. w[s \ {k + 1}] \in V
        BY <2>1, <4>2
      <4>4. v[s] = g[<<k + 1, w[s \ {k + 1}]>>] /\ v[s \ {k + 1}] = w[s \ {k + 1}]
        BY <3>1, <4>2
      <4>5. <<k + 1, w[s \ {k + 1}]>> \in (1..N) \X V
        BY <4>3
      <4> QED BY <3>1, <4>1, <4>4, <4>5
    <3>2. CASE k + 1 \notin s
      <4>1. s \in SUBSET (1..k)
        BY <3>2
      <4>2. v[s] = w[s] /\ w[s] \in V
        BY <2>1, <3>2, <4>1
      <4>3. CASE s = {}
        BY <2>1, <4>1, <4>2, <4>3
      <4>4. CASE s # {}
        <5>1. w[s] = g[<<Max(s), w[s \ {Max(s)}]>>]
          BY <2>1, <4>1, <4>4
        <5>2. s \ {Max(s)} \in SUBSET (1..(k + 1)) /\ k + 1 \notin s \ {Max(s)}
          BY <3>2
        <5>3. v[s \ {Max(s)}] = w[s \ {Max(s)}]
          BY <5>2
        <5> QED BY <4>2, <4>4, <5>1, <5>3
      <4> QED BY <4>3, <4>4
    <3> QED BY <3>1, <3>2
  <2>3. Good(v, k + 1)
    <3>1. v \in [SUBSET (1..(k + 1)) -> V]
      <4> HIDE DEF Good
      <4>1. v = [s \in SUBSET (1..(k + 1)) |-> v[s]]
        OBVIOUS
      <4>2. \A s \in SUBSET (1..(k + 1)) : v[s] \in V
        BY <2>2
      <4> HIDE DEF v
      <4> QED BY <4>1, <4>2
    <3> HIDE DEF v
    <3> QED BY <2>2, <3>1
  <2> HIDE DEF v, Good
  <2> QED BY <2>3
<1>3. Nat \subseteq K
  <2> HIDE DEF K
  <2> QED BY <1>1, <1>2, SetInduction
<1>4. \E w : Good(w, N)
  <2> HIDE DEF Good
  <2> QED BY <1>3
<1> QED BY <1>4

(* The values of a fold at the prefixes of a text. *)
LEMMA RangeIs ==
  ASSUME NEW k \in Nat, k > 0
  PROVE  Max(1..k) = k /\ (1..k) \ {k} = 1..(k - 1) /\ 1..k # {}
<1>1. k \in 1..k /\ 1..k \in SUBSET Int /\ \A x \in 1..k : x <= k
  OBVIOUS
<1>2. Max(1..k) = k
  BY <1>1, MaxIs
<1>3. (1..k) \ {k} = 1..(k - 1)
  OBVIOUS
<1> QED BY <1>1, <1>2, <1>3

LEMMA LastOf ==
  ASSUME NEW N \in Nat, NEW s \in SUBSET (1..N), s # {}
  PROVE  Max(s) \in s /\ \A x \in s : x <= Max(s)
<1>1. \E m \in s : \A x \in s : x <= m
  <2> DEFINE P == {n \in Nat : \E x \in s : x >= n}
  <2>0. s \subseteq 1..N /\ \A x \in s : x \in Nat /\ x <= N
    OBVIOUS
  <2>1. 0 \in P
    <3>1. PICK x \in s : TRUE
      OBVIOUS
    <3>2. x >= 0
      BY <2>0
    <3> QED BY <3>2
  <2>2. ASSUME \A m \in s : \E x \in s : ~(x <= m), NEW n \in Nat, n \in P
        PROVE  n + 1 \in P
    <3>1. PICK x \in s : x >= n
      BY <2>2
    <3>2. PICK y \in s : ~(y <= x)
      BY <2>2
    <3>3. y >= n + 1
      BY <2>0, <3>1, <3>2
    <3> QED BY <3>3
  <2>3. ASSUME \A m \in s : \E x \in s : ~(x <= m) PROVE Nat \subseteq P
    <3>1. \A n \in Nat : n \in P => n + 1 \in P
      BY <2>2, <2>3
    <3> HIDE DEF P
    <3> QED BY <2>1, <3>1, SetInduction
  <2>4. N + 1 \in Nat /\ N + 1 \notin P
    BY <2>0
  <2> HIDE DEF P
  <2> QED BY <2>3, <2>4
<1>2. PICK m \in s : \A x \in s : x <= m
  BY <1>1
<1> QED BY <1>2, MaxIs

(* strlen() adds up the characters of the tokens. *)
Chars(c) == IF c \in DOMAIN Characters THEN Characters[c] ELSE 1

Lengths(t, v) ==
  /\ v \in [0..Len(t) -> Nat] /\ v[0] = 0
  /\ \A k \in 1..Len(t) : v[k] = v[k - 1] + Chars(t[k])

LEMMA CharsType == \A c : Chars(c) \in Nat /\ Chars(c) >= 1
<1>1. \A c \in DOMAIN Characters : Characters[c] \in Nat /\ Characters[c] >= 1
  BY DEF Characters
<1> QED BY <1>1 DEF Chars

LEMMA LengthOf ==
  ASSUME NEW S, NEW t \in Seq(S)
  PROVE  \E v : Lengths(t, v) /\ Length(t) = v[Len(t)]
<1>0. PICK N \in Nat : N = Len(t) /\ DOMAIN t = 1..N
  BY LenProperties
<1> DEFINE Fold(iter) ==
      iter = [s \in SUBSET (1..N) |->
                IF s = {} THEN 0 ELSE iter[s \ {Max(s)}] + Chars(t[Max(s)])]
<1>1. Length(t) = (CHOOSE iter : Fold(iter))[1..N]
  BY <1>0 DEF Length, FoldLeft, MapThenFoldSet, Chars
<1>2. \E iter : Fold(iter) /\ iter \in [SUBSET (1..N) -> Nat]
  <2> DEFINE g == [p \in (1..N) \X Nat |-> p[2] + Chars(t[p[1]])]
  <2>1. g \in [(1..N) \X Nat -> Nat]
    BY CharsType
  <2>2. PICK w : /\ w \in [SUBSET (1..N) -> Nat]
                 /\ \A s \in SUBSET (1..N) :
                      w[s] = IF s = {} THEN 0 ELSE g[<<Max(s), w[s \ {Max(s)}]>>]
    <3> HIDE DEF g
    <3>1. \E w : Folding(w, N, Nat, 0, g)
      BY <2>1, FoldExists
    <3> QED BY <3>1 DEF Folding
  <2>3. ASSUME NEW s \in SUBSET (1..N), s # {}
        PROVE  w[s] = w[s \ {Max(s)}] + Chars(t[Max(s)])
    <3>1. Max(s) \in 1..N /\ s \ {Max(s)} \in SUBSET (1..N)
      BY <2>3, LastOf
    <3>2. w[s \ {Max(s)}] \in Nat
      BY <2>2, <3>1
    <3> QED BY <2>2, <2>3, <3>1, <3>2
  <2>4. Fold(w)
    BY <2>2, <2>3
  <2> QED BY <2>2, <2>4
<1>3. PICK iter : Fold(iter) /\ Length(t) = iter[1..N]
  BY <1>1, <1>2
<1> DEFINE v == [k \in 0..N |-> iter[1..k]]
<1>4. v[0] = 0
  BY <1>3
<1>5. ASSUME NEW k \in 1..N PROVE v[k] = v[k - 1] + Chars(t[k])
  <2>1. 1..k \in SUBSET (1..N) /\ k \in Nat /\ k > 0
        /\ k \in 0..N /\ k - 1 \in 0..N
    OBVIOUS
  <2>2. Max(1..k) = k /\ (1..k) \ {k} = 1..(k - 1) /\ 1..k # {}
    BY <2>1, RangeIs
  <2>3. iter[1..k] = iter[(1..k) \ {Max(1..k)}] + Chars(t[Max(1..k)])
    BY <1>3, <2>1, <2>2
  <2>4. iter[1..k] = iter[1..(k - 1)] + Chars(t[k])
    BY <2>2, <2>3
  <2> QED BY <2>1, <2>4
<1>6. v \in [0..N -> Nat]
  <2> DEFINE K == {k \in Nat : k <= N => v[k] \in Nat}
  <2>1. 0 \in K
    BY <1>4
  <2>2. ASSUME NEW k \in Nat, k \in K PROVE k + 1 \in K
    <3> SUFFICES ASSUME k + 1 <= N PROVE v[k + 1] \in Nat
      OBVIOUS
    <3> HIDE DEF v
    <3>0. k + 1 \in 1..N /\ (k + 1) - 1 = k /\ k <= N
      OBVIOUS
    <3>1. v[k] \in Nat /\ v[k + 1] = v[k] + Chars(t[k + 1])
      BY <1>5, <2>2, <3>0
    <3> QED BY <3>1, CharsType
  <2>3. Nat \subseteq K
    <3> HIDE DEF K
    <3> QED BY <2>1, <2>2, SetInduction
  <2>4. \A k \in 0..N : k \in Nat /\ k <= N
    OBVIOUS
  <2>5. \A k \in 0..N : v[k] \in Nat
    <3> HIDE DEF v
    <3> QED BY <2>3, <2>4
  <2> QED BY <2>5
<1>7. Length(t) = v[N]
  <2>1. N \in 0..N
    OBVIOUS
  <2> QED BY <1>3, <2>1
<1>8. Lengths(t, v)
  <2> HIDE DEF v
  <2> QED BY <1>0, <1>4, <1>5, <1>6 DEF Lengths
<1> HIDE DEF v
<1> QED BY <1>0, <1>7, <1>8

-----------------------------------------------------------------------------
(* Lengths of texts.                                                       *)

LEMMA LengthPositive ==
  ASSUME NEW S, NEW t \in Seq(S)
  PROVE  Length(t) \in Nat /\ Len(t) <= Length(t)
<1>1. PICK v : Lengths(t, v) /\ Length(t) = v[Len(t)]
  BY LengthOf
<1>2. PICK N \in Nat : N = Len(t)
  BY LenProperties
<1> DEFINE K == {k \in Nat : k <= N => v[k] \in Nat /\ k <= v[k]}
<1>3. 0 \in K
  BY <1>1, <1>2 DEF Lengths
<1>4. ASSUME NEW k \in Nat, k \in K PROVE k + 1 \in K
  <2> SUFFICES ASSUME k + 1 <= N PROVE v[k + 1] \in Nat /\ k + 1 <= v[k + 1]
    OBVIOUS
  <2>1. k + 1 \in 1..N /\ (k + 1) - 1 = k /\ k <= N
    OBVIOUS
  <2>2. v[k] \in Nat /\ k <= v[k]
    BY <1>4, <2>1
  <2>3. v[k + 1] = v[k] + Chars(t[k + 1])
    BY <1>1, <1>2, <2>1 DEF Lengths
  <2>4. Chars(t[k + 1]) \in Nat /\ Chars(t[k + 1]) >= 1
    BY CharsType
  <2> QED BY <2>2, <2>3, <2>4
<1>5. Nat \subseteq K
  <2> HIDE DEF K
  <2> QED BY <1>3, <1>4, SetInduction
<1>6. v[N] \in Nat /\ N <= v[N]
  BY <1>5
<1> QED BY <1>1, <1>2, <1>6

LEMMA LengthConcat ==
  ASSUME NEW S, NEW s \in Seq(S), NEW t \in Seq(S)
  PROVE  Length(s \o t) = Length(s) + Length(t)
<1>1. /\ s \o t \in Seq(S) /\ Len(s \o t) = Len(s) + Len(t)
      /\ \A i \in 1..Len(s) : (s \o t)[i] = s[i]
      /\ \A i \in 1..Len(t) : (s \o t)[Len(s) + i] = t[i]
  <2>1. /\ s \o t \in Seq(S) /\ Len(s \o t) = Len(s) + Len(t)
        /\ \A i \in 1..(Len(s) + Len(t)) :
             (s \o t)[i] = IF i <= Len(s) THEN s[i] ELSE t[i - Len(s)]
    BY ConcatProperties
  <2>2. Len(s) \in Nat /\ Len(t) \in Nat
    BY LenProperties
  <2>3. ASSUME NEW i \in 1..Len(t) PROVE (s \o t)[Len(s) + i] = t[i]
    <3>1. Len(s) + i \in 1..(Len(s) + Len(t)) /\ ~(Len(s) + i <= Len(s))
          /\ (Len(s) + i) - Len(s) = i
      BY <2>2
    <3> QED BY <2>1, <3>1
  <2> QED BY <2>1, <2>2, <2>3
<1>2. PICK a, b, v : /\ Lengths(s, a) /\ Length(s) = a[Len(s)]
                     /\ Lengths(t, b) /\ Length(t) = b[Len(t)]
                     /\ Lengths(s \o t, v) /\ Length(s \o t) = v[Len(s) + Len(t)]
  BY <1>1, LengthOf
<1>3. PICK M \in Nat, N \in Nat : M = Len(s) /\ N = Len(t)
  BY LenProperties
<1>4. /\ \A k \in 1..(M + N) : v[k] = v[k - 1] + Chars((s \o t)[k])
      /\ \A k \in 1..M : a[k] = a[k - 1] + Chars(s[k])
      /\ \A k \in 1..N : b[k] = b[k - 1] + Chars(t[k])
      /\ v[0] = 0 /\ a[0] = 0 /\ b[0] = 0
      /\ \A k \in 0..M : a[k] \in Nat
      /\ \A k \in 0..N : b[k] \in Nat
  BY <1>1, <1>2, <1>3 DEF Lengths
<1>5. v[M] = a[M]
  <2> DEFINE K == {k \in Nat : k <= M => v[k] = a[k]}
  <2>1. 0 \in K
    BY <1>4
  <2>2. ASSUME NEW k \in Nat, k \in K PROVE k + 1 \in K
    <3> SUFFICES ASSUME k + 1 <= M PROVE v[k + 1] = a[k + 1]
      OBVIOUS
    <3>1. k + 1 \in 1..(M + N) /\ k + 1 \in 1..M /\ (k + 1) - 1 = k /\ k <= M
      OBVIOUS
    <3>2. v[k + 1] = v[k] + Chars((s \o t)[k + 1]) /\ a[k + 1] = a[k] + Chars(s[k + 1])
      BY <1>4, <3>1
    <3>3. (s \o t)[k + 1] = s[k + 1] /\ v[k] = a[k]
      BY <1>1, <1>3, <2>2, <3>1
    <3> QED BY <3>2, <3>3
  <2>3. Nat \subseteq K
    <3> HIDE DEF K
    <3> QED BY <2>1, <2>2, SetInduction
  <2> QED BY <2>3
<1>6. v[M + N] = a[M] + b[N]
  <2> DEFINE K == {k \in Nat : k <= N => v[M + k] = a[M] + b[k]}
  <2>0. a[M] \in Nat
    BY <1>4
  <2>1. 0 \in K
    BY <1>4, <1>5, <2>0
  <2>2. ASSUME NEW k \in Nat, k \in K PROVE k + 1 \in K
    <3> SUFFICES ASSUME k + 1 <= N PROVE v[M + (k + 1)] = a[M] + b[k + 1]
      OBVIOUS
    <3>1. /\ M + (k + 1) \in 1..(M + N) /\ (M + (k + 1)) - 1 = M + k
          /\ k + 1 \in 1..N /\ (k + 1) - 1 = k /\ k <= N /\ k \in 0..N
      OBVIOUS
    <3>2. /\ v[M + (k + 1)] = v[M + k] + Chars((s \o t)[M + (k + 1)])
          /\ b[k + 1] = b[k] + Chars(t[k + 1])
      BY <1>4, <3>1
    <3>3. (s \o t)[M + (k + 1)] = t[k + 1] /\ v[M + k] = a[M] + b[k]
      BY <1>1, <1>3, <2>2, <3>1
    <3>4. b[k] \in Nat /\ Chars(t[k + 1]) \in Nat
      BY <1>4, <3>1, CharsType
    <3> QED BY <2>0, <3>2, <3>3, <3>4
  <2>3. Nat \subseteq K
    <3> HIDE DEF K
    <3> QED BY <2>1, <2>2, SetInduction
  <2> QED BY <2>3
<1> QED BY <1>2, <1>3, <1>6

LEMMA LengthOne ==
  ASSUME NEW c
  PROVE  <<c>> \in Seq({c}) /\ Length(<<c>>) = Chars(c)
<1>1. <<c>> \in Seq({c}) /\ Len(<<c>>) = 1 /\ <<c>>[1] = c
  OBVIOUS
<1>2. PICK v : Lengths(<<c>>, v) /\ Length(<<c>>) = v[1]
  BY <1>1, LengthOf
<1>3. v[0] = 0 /\ v[1] = v[1 - 1] + Chars(c) /\ Chars(c) \in Nat
  BY <1>1, <1>2, CharsType DEF Lengths
<1> QED BY <1>1, <1>2, <1>3

-----------------------------------------------------------------------------
(* Numbers.                                                                *)

IsDigit(c) == c \in DOMAIN Digit

LEMMA DigitsAre ==
  /\ \A c \in DOMAIN Digit : Digit[c] \in 0..9
  /\ \A d \in 0..9 : Digits[d + 1] \in DOMAIN Digit /\ Digit[Digits[d + 1]] = d
  /\ \A c \in {":", "::", "[", "]"} : ~IsDigit(c)
  /\ \A c \in DOMAIN Digit : c \notin DOMAIN Characters
<1>1. ToSet(Digits) = {"0", "1", "2", "3", "4", "5", "6", "7", "8", "9"}
  BY DEF Digits, ToSet
<1>2. DOMAIN Digit = {"0", "1", "2", "3", "4", "5", "6", "7", "8", "9"}
  BY <1>1 DEF Digit
<1>3. \A d \in 0..9 : Digits[d + 1] \in DOMAIN Digit
  BY <1>2 DEF Digits
<1>4. \A d, e \in 0..9 : Digits[d + 1] = Digits[e + 1] => d = e
  BY DEF Digits
<1>5. \A c \in DOMAIN Digit : \E d \in 0..9 : Digits[d + 1] = c
  BY <1>2 DEF Digits
<1>6. \A c \in DOMAIN Digit : Digit[c] \in 0..9 /\ Digits[Digit[c] + 1] = c
  BY <1>1, <1>2, <1>5 DEF Digit
<1>7. \A d \in 0..9 : Digit[Digits[d + 1]] = d
  BY <1>3, <1>4, <1>6
<1>8. \A c \in DOMAIN Digit : c \notin DOMAIN Characters
  BY <1>2 DEF Characters
<1> QED BY <1>2, <1>3, <1>6, <1>7, <1>8 DEF IsDigit

(* What matters of the largest port (intervals up to a literal are slow). *)
LEMMA PortsAre == MaxPort \in Nat /\ 7 <= MaxPort /\ MaxPort < 100000
BY DEF MaxPort

(* parse_port() at one character. *)
Parsed(m, c) == IF m = -1 \/ ~IsDigit(c) \/ m * 10 + Digit[c] > MaxPort
                THEN -1 ELSE m * 10 + Digit[c]

Parses(t, v) ==
  /\ v \in [0..Len(t) -> (-1)..MaxPort] /\ v[0] = 0
  /\ \A k \in 1..Len(t) : v[k] = Parsed(v[k - 1], t[k])

LEMMA ParsedType ==
  ASSUME NEW m \in (-1)..MaxPort, NEW c
  PROVE  Parsed(m, c) \in (-1)..MaxPort
<1>0. -1 \in (-1)..MaxPort
  BY PortsAre
<1>1. CASE Parsed(m, c) = -1
  BY <1>0, <1>1
<1>2. CASE Parsed(m, c) # -1
  <2>1. /\ Parsed(m, c) = m * 10 + Digit[c]
        /\ m # -1 /\ IsDigit(c) /\ ~(m * 10 + Digit[c] > MaxPort)
    BY <1>2 DEF Parsed
  <2>2. Digit[c] \in 0..9
    BY <2>1, DigitsAre DEF IsDigit
  <2>3. PICK d \in 0..9 : d = Digit[c]
    BY <2>2
  <2>4. m \in Nat
    BY <2>1, PortsAre
  <2>5. PICK n \in Nat : n = m * 10 + d
    BY <2>4
  <2>6. Parsed(m, c) = n /\ ~(n > MaxPort)
    BY <2>1, <2>3, <2>5, PortsAre
  <2>7. n \in (-1)..MaxPort
    BY <2>6, PortsAre
  <2> QED BY <2>6, <2>7
<1> QED BY <1>1, <1>2

LEMMA ParseOf ==
  ASSUME NEW S, NEW t \in Seq(S)
  PROVE  \E v : /\ Parses(t, v)
                /\ ParsePort(t) = IF v[Len(t)] > 0 THEN v[Len(t)] ELSE -1
<1>0. PICK N \in Nat : N = Len(t) /\ DOMAIN t = 1..N
  BY LenProperties
<1> DEFINE V == (-1)..MaxPort
           Fold(iter) ==
      iter = [s \in SUBSET (1..N) |->
                IF s = {} THEN 0 ELSE Parsed(iter[s \ {Max(s)}], t[Max(s)])]
           n == (CHOOSE iter : Fold(iter))[1..N]
<1>1. ParsePort(t) = IF n > 0 THEN n ELSE -1
  BY <1>0 DEF ParsePort, FoldLeft, MapThenFoldSet, Parsed, IsDigit
<1>2. \E iter : Fold(iter)
  <2> DEFINE g == [p \in (1..N) \X V |-> Parsed(p[2], t[p[1]])]
  <2>0. 0 \in V
    BY PortsAre
  <2>1. g \in [(1..N) \X V -> V]
    <3>1. \A m \in V : \A c : Parsed(m, c) \in V
      BY ParsedType
    <3> HIDE DEF V
    <3> QED BY <3>1
  <2>2. PICK w : /\ w \in [SUBSET (1..N) -> V]
                 /\ \A s \in SUBSET (1..N) :
                      w[s] = IF s = {} THEN 0 ELSE g[<<Max(s), w[s \ {Max(s)}]>>]
    <3> HIDE DEF g, V
    <3>1. \E w : Folding(w, N, V, 0, g)
      BY <2>0, <2>1, FoldExists
    <3> QED BY <3>1 DEF Folding
  <2>3. ASSUME NEW s \in SUBSET (1..N), s # {}
        PROVE  w[s] = Parsed(w[s \ {Max(s)}], t[Max(s)])
    <3>1. Max(s) \in 1..N /\ s \ {Max(s)} \in SUBSET (1..N)
      BY <2>3, LastOf
    <3>2. w[s \ {Max(s)}] \in V
      BY <2>2, <3>1
    <3> HIDE DEF V
    <3> QED BY <2>2, <2>3, <3>1, <3>2
  <2>4. Fold(w)
    <3> HIDE DEF V
    <3> QED BY <2>2, <2>3
  <2> QED BY <2>4
<1>3. PICK iter : Fold(iter) /\ n = iter[1..N]
  BY <1>2
<1> DEFINE v == [k \in 0..N |-> iter[1..k]]
<1>4. v[0] = 0
  BY <1>3
<1>5. ASSUME NEW k \in 1..N PROVE v[k] = Parsed(v[k - 1], t[k])
  <2>1. 1..k \in SUBSET (1..N) /\ k \in Nat /\ k > 0
        /\ k \in 0..N /\ k - 1 \in 0..N
    OBVIOUS
  <2>2. Max(1..k) = k /\ (1..k) \ {k} = 1..(k - 1) /\ 1..k # {}
    BY <2>1, RangeIs
  <2>3. iter[1..k] = Parsed(iter[(1..k) \ {Max(1..k)}], t[Max(1..k)])
    BY <1>3, <2>1, <2>2
  <2>4. iter[1..k] = Parsed(iter[1..(k - 1)], t[k])
    BY <2>2, <2>3
  <2> QED BY <2>1, <2>4
<1>6. v \in [0..N -> V]
  <2> DEFINE K == {k \in Nat : k <= N => v[k] \in V}
  <2>1. 0 \in K
    <3>1. 0 \in V
      BY PortsAre
    <3> HIDE DEF v, V
    <3> QED BY <1>4, <3>1
  <2>2. ASSUME NEW k \in Nat, k \in K PROVE k + 1 \in K
    <3> SUFFICES ASSUME k + 1 <= N PROVE v[k + 1] \in V
      OBVIOUS
    <3> HIDE DEF v
    <3>0. k + 1 \in 1..N /\ (k + 1) - 1 = k /\ k <= N
      OBVIOUS
    <3>1. v[k] \in V /\ v[k + 1] = Parsed(v[k], t[k + 1])
      BY <1>5, <2>2, <3>0
    <3> QED BY <3>1, ParsedType
  <2>3. Nat \subseteq K
    <3> HIDE DEF K
    <3> QED BY <2>1, <2>2, SetInduction
  <2>4. \A k \in 0..N : k \in Nat /\ k <= N
    OBVIOUS
  <2>5. \A k \in 0..N : v[k] \in V
    <3> HIDE DEF v, V
    <3> QED BY <2>3, <2>4
  <2> HIDE DEF V
  <2> QED BY <2>5
<1>7. n = v[N]
  <2>1. N \in 0..N
    OBVIOUS
  <2> QED BY <1>3, <2>1
<1>8. Parses(t, v)
  <2> HIDE DEF v
  <2> QED BY <1>0, <1>4, <1>5, <1>6 DEF Parses
<1> HIDE DEF v, n
<1> QED BY <1>0, <1>1, <1>7, <1>8

(* The number that digits stand for. *)
Counts(t, v) ==
  /\ v \in [0..Len(t) -> Nat] /\ v[0] = 0
  /\ \A k \in 1..Len(t) : v[k] = v[k - 1] * 10 + Digit[t[k]]

AllDigits(t) == \A i \in 1..Len(t) : IsDigit(t[i])

LEMMA NumberOf ==
  ASSUME NEW S, NEW t \in Seq(S), AllDigits(t), t # <<>>
  PROVE  \E v : Counts(t, v) /\ Number(t) = v[Len(t)]
<1>0. PICK N \in Nat : N = Len(t) /\ DOMAIN t = 1..N
  BY LenProperties
<1> DEFINE Fold(iter) ==
      iter = [s \in SUBSET (1..N) |->
                IF s = {} THEN 0 ELSE iter[s \ {Max(s)}] * 10 + Digit[t[Max(s)]]]
<1>1. Number(t) = (CHOOSE iter : Fold(iter))[1..N]
  <2>1. ~(t = <<>> \/ \E i \in DOMAIN t : t[i] \notin DOMAIN Digit)
    BY <1>0 DEF AllDigits, IsDigit
  <2>2. Number(t) = FoldLeft(LAMBDA n, c : n * 10 + Digit[c], 0, t)
    BY <2>1 DEF Number
  <2> QED BY <1>0, <2>2 DEF FoldLeft, MapThenFoldSet
<1>d. \A i \in 1..N : Digit[t[i]] \in 0..9
  BY <1>0, DigitsAre DEF AllDigits, IsDigit
<1>2. \E iter : Fold(iter)
  <2> DEFINE g == [p \in (1..N) \X Nat |-> p[2] * 10 + Digit[t[p[1]]]]
  <2>1. ASSUME NEW i \in 1..N, NEW m \in Nat PROVE m * 10 + Digit[t[i]] \in Nat
    <3>1. PICK d \in 0..9 : d = Digit[t[i]]
      BY <1>d
    <3>2. m * 10 + d \in Nat
      OBVIOUS
    <3> QED BY <3>1, <3>2
  <2>2. g \in [(1..N) \X Nat -> Nat]
    BY <2>1
  <2>3. PICK w : /\ w \in [SUBSET (1..N) -> Nat]
                 /\ \A s \in SUBSET (1..N) :
                      w[s] = IF s = {} THEN 0 ELSE g[<<Max(s), w[s \ {Max(s)}]>>]
    <3> HIDE DEF g
    <3>1. \E w : Folding(w, N, Nat, 0, g)
      BY <2>2, FoldExists
    <3> QED BY <3>1 DEF Folding
  <2>4. ASSUME NEW s \in SUBSET (1..N), s # {}
        PROVE  w[s] = w[s \ {Max(s)}] * 10 + Digit[t[Max(s)]]
    <3>1. Max(s) \in 1..N /\ s \ {Max(s)} \in SUBSET (1..N)
      BY <2>4, LastOf
    <3>2. w[s \ {Max(s)}] \in Nat
      BY <2>3, <3>1
    <3> QED BY <2>3, <2>4, <3>1, <3>2
  <2>5. Fold(w)
    BY <2>3, <2>4
  <2> QED BY <2>5
<1>3. PICK iter : Fold(iter) /\ Number(t) = iter[1..N]
  BY <1>1, <1>2
<1> DEFINE v == [k \in 0..N |-> iter[1..k]]
<1>4. v[0] = 0
  BY <1>3
<1>5. ASSUME NEW k \in 1..N PROVE v[k] = v[k - 1] * 10 + Digit[t[k]]
  <2>1. 1..k \in SUBSET (1..N) /\ k \in Nat /\ k > 0
        /\ k \in 0..N /\ k - 1 \in 0..N
    OBVIOUS
  <2>2. Max(1..k) = k /\ (1..k) \ {k} = 1..(k - 1) /\ 1..k # {}
    BY <2>1, RangeIs
  <2>3. iter[1..k] = iter[(1..k) \ {Max(1..k)}] * 10 + Digit[t[Max(1..k)]]
    BY <1>3, <2>1, <2>2
  <2>4. iter[1..k] = iter[1..(k - 1)] * 10 + Digit[t[k]]
    BY <2>2, <2>3
  <2> QED BY <2>1, <2>4
<1>6. v \in [0..N -> Nat]
  <2> DEFINE K == {k \in Nat : k <= N => v[k] \in Nat}
  <2>1. 0 \in K
    BY <1>4
  <2>2. ASSUME NEW k \in Nat, k \in K PROVE k + 1 \in K
    <3> SUFFICES ASSUME k + 1 <= N PROVE v[k + 1] \in Nat
      OBVIOUS
    <3> HIDE DEF v
    <3>0. k + 1 \in 1..N /\ (k + 1) - 1 = k /\ k <= N
      OBVIOUS
    <3>1. v[k] \in Nat /\ v[k + 1] = v[k] * 10 + Digit[t[k + 1]]
      BY <1>5, <2>2, <3>0
    <3>2. PICK d \in 0..9 : d = Digit[t[k + 1]]
      BY <1>d, <3>0
    <3>3. PICK n \in Nat : n = v[k]
      BY <3>1
    <3>4. n * 10 + d \in Nat
      OBVIOUS
    <3> QED BY <3>1, <3>2, <3>3, <3>4
  <2>3. Nat \subseteq K
    <3> HIDE DEF K
    <3> QED BY <2>1, <2>2, SetInduction
  <2>4. \A k \in 0..N : k \in Nat /\ k <= N
    OBVIOUS
  <2>5. \A k \in 0..N : v[k] \in Nat
    <3> HIDE DEF v
    <3> QED BY <2>3, <2>4
  <2> QED BY <2>5
<1>7. Number(t) = v[N]
  <2>1. N \in 0..N
    OBVIOUS
  <2> QED BY <1>3, <2>1
<1>8. Counts(t, v)
  <2> HIDE DEF v
  <2> QED BY <1>0, <1>4, <1>5, <1>6 DEF Counts
<1> HIDE DEF v
<1> QED BY <1>0, <1>7, <1>8

(* parse_port() gives the number that the digits stand for, if it is the   *)
(* number of a port.                                                       *)
LEMMA PortIsNumber ==
  ASSUME NEW S, NEW t \in Seq(S)
  PROVE  ParsePort(t) = IF Number(t) \in 1..MaxPort THEN Number(t) ELSE -1
<1>1. PICK p : Parses(t, p) /\ ParsePort(t) = IF p[Len(t)] > 0 THEN p[Len(t)] ELSE -1
  BY ParseOf
<1>2. PICK N \in Nat : N = Len(t) /\ DOMAIN t = 1..N /\ (t = <<>> <=> N = 0)
  BY LenProperties, EmptySeq
<1>3. /\ p[0] = 0 /\ \A k \in 0..N : p[k] \in (-1)..MaxPort
      /\ \A k \in 1..N : p[k] = Parsed(p[k - 1], t[k])
  BY <1>1, <1>2 DEF Parses
<1>4. CASE t = <<>>
  <2>1. Number(t) = -1
    BY <1>4 DEF Number
  <2>2. ParsePort(t) = -1
    BY <1>1, <1>2, <1>3, <1>4
  <2> QED BY <2>1, <2>2
<1>5. CASE ~AllDigits(t)
  <2>1. PICK i \in 1..N : ~IsDigit(t[i])
    BY <1>2, <1>5 DEF AllDigits
  <2>2. Number(t) = -1
    BY <1>2, <2>1 DEF Number, IsDigit
  <2> DEFINE K == {k \in Nat : i + k <= N => p[i + k] = -1}
  <2>3. 0 \in K
    <3>1. p[i] = -1
      BY <1>3, <2>1 DEF Parsed
    <3> QED BY <3>1
  <2>4. ASSUME NEW k \in Nat, k \in K PROVE k + 1 \in K
    <3> SUFFICES ASSUME i + (k + 1) <= N PROVE p[i + (k + 1)] = -1
      OBVIOUS
    <3>1. i + (k + 1) \in 1..N /\ (i + (k + 1)) - 1 = i + k /\ i + k <= N
      OBVIOUS
    <3>2. p[i + k] = -1
      BY <2>4, <3>1
    <3>3. p[i + (k + 1)] = Parsed(p[i + k], t[i + (k + 1)])
      BY <1>3, <3>1
    <3> QED BY <3>2, <3>3 DEF Parsed
  <2>5. Nat \subseteq K
    <3> HIDE DEF K
    <3> QED BY <2>3, <2>4, SetInduction
  <2>6. N - i \in Nat /\ i + (N - i) = N
    OBVIOUS
  <2>7. p[N] = -1
    BY <2>5, <2>6
  <2> QED BY <1>1, <1>2, <2>2, <2>7
<1>6. CASE AllDigits(t) /\ t # <<>>
  <2>1. PICK n : Counts(t, n) /\ Number(t) = n[N]
    BY <1>2, <1>6, NumberOf
  <2>2. /\ n[0] = 0 /\ \A k \in 0..N : n[k] \in Nat
        /\ \A k \in 1..N : n[k] = n[k - 1] * 10 + Digit[t[k]]
    BY <1>2, <2>1 DEF Counts
  <2> DEFINE K == {k \in Nat : k <= N => p[k] = IF n[k] <= MaxPort THEN n[k] ELSE -1}
  <2>3. 0 \in K
    BY <1>3, <2>2, PortsAre
  <2>4. ASSUME NEW k \in Nat, k \in K PROVE k + 1 \in K
    <3> SUFFICES ASSUME k + 1 <= N
                 PROVE  p[k + 1] = IF n[k + 1] <= MaxPort THEN n[k + 1] ELSE -1
      OBVIOUS
    <3>1. k + 1 \in 1..N /\ (k + 1) - 1 = k /\ k <= N /\ k \in 0..N
      OBVIOUS
    <3>2. p[k] = IF n[k] <= MaxPort THEN n[k] ELSE -1
      BY <2>4, <3>1
    <3>3. IsDigit(t[k + 1])
      BY <1>2, <1>6, <3>1 DEF AllDigits
    <3>4. PICK d \in 0..9 : d = Digit[t[k + 1]]
      BY <3>3, DigitsAre DEF IsDigit
    <3>5. PICK m \in Nat : m = n[k]
      BY <2>2, <3>1
    <3>6. n[k + 1] = m * 10 + d /\ p[k + 1] = Parsed(p[k], t[k + 1])
      BY <1>3, <2>2, <3>1, <3>4, <3>5
    <3>7. CASE m <= MaxPort
      <4>1. p[k] = m /\ m # -1
        BY <3>2, <3>5, <3>7
      <4>2. p[k + 1] = IF m * 10 + d > MaxPort THEN -1 ELSE m * 10 + d
        BY <3>3, <3>4, <3>6, <4>1 DEF Parsed
      <4>3. m * 10 + d \in Nat
        OBVIOUS
      <4> QED BY <3>6, <4>2, <4>3, PortsAre
    <3>8. CASE ~(m <= MaxPort)
      <4>1. p[k] = -1
        BY <3>2, <3>5, <3>8
      <4>2. p[k + 1] = -1
        BY <3>6, <4>1 DEF Parsed
      <4>3. ~(m * 10 + d <= MaxPort)
        BY <3>8, PortsAre
      <4> QED BY <3>6, <4>2, <4>3
    <3> QED BY <3>7, <3>8
  <2>5. Nat \subseteq K
    <3> HIDE DEF K
    <3> QED BY <2>3, <2>4, SetInduction
  <2>6. p[N] = IF n[N] <= MaxPort THEN n[N] ELSE -1
    BY <2>5
  <2>7. PICK m \in Nat : m = n[N]
    BY <2>2
  <2>8. ParsePort(t) = IF (IF m <= MaxPort THEN m ELSE -1) > 0
                       THEN (IF m <= MaxPort THEN m ELSE -1) ELSE -1
    BY <1>1, <1>2, <2>6, <2>7
  <2> QED BY <2>1, <2>7, <2>8, PortsAre
<1> QED BY <1>4, <1>5, <1>6

LEMMA NumberType ==
  ASSUME NEW S, NEW t \in Seq(S)
  PROVE  /\ Number(t) \in Nat \/ Number(t) = -1
         /\ Number(t) # -1 => AllDigits(t) /\ t # <<>>
<1>1. DOMAIN t = 1..Len(t)
  BY LenProperties
<1>2. Number(t) # -1 => AllDigits(t) /\ t # <<>>
  BY <1>1 DEF Number, AllDigits, IsDigit
<1>3. CASE AllDigits(t) /\ t # <<>>
  <2>1. PICK v : Counts(t, v) /\ Number(t) = v[Len(t)]
    BY <1>3, NumberOf
  <2>2. Len(t) \in 0..Len(t)
    BY LenProperties
  <2> QED BY <1>2, <2>1, <2>2 DEF Counts
<1> QED BY <1>2, <1>3

LEMMA NumberOne ==
  ASSUME NEW c, IsDigit(c)
  PROVE  Number(<<c>>) = Digit[c] /\ AllDigits(<<c>>)
<1>1. <<c>> \in Seq({c}) /\ Len(<<c>>) = 1 /\ <<c>>[1] = c /\ <<c>> # <<>>
  OBVIOUS
<1>2. AllDigits(<<c>>)
  BY <1>1 DEF AllDigits
<1>3. PICK v : Counts(<<c>>, v) /\ Number(<<c>>) = v[1]
  BY <1>1, <1>2, NumberOf
<1>4. v[0] = 0 /\ v[1] = v[1 - 1] * 10 + Digit[c]
  BY <1>1, <1>3 DEF Counts
<1>5. Digit[c] \in 0..9
  BY DigitsAre DEF IsDigit
<1> QED BY <1>2, <1>3, <1>4, <1>5

(* One more digit. *)
LEMMA NumberAppend ==
  ASSUME NEW S, NEW t \in Seq(S), AllDigits(t), t # <<>>, NEW c \in S, IsDigit(c)
  PROVE  /\ AllDigits(Append(t, c)) /\ Append(t, c) # <<>>
         /\ Number(t) \in Nat /\ Number(Append(t, c)) = Number(t) * 10 + Digit[c]
<1> DEFINE u == Append(t, c)
<1>1. PICK N \in Nat : N = Len(t)
  BY LenProperties
<1>2. /\ u \in Seq(S) /\ Len(u) = N + 1 /\ u[N + 1] = c /\ u # <<>>
      /\ \A i \in 1..N : u[i] = t[i]
  BY <1>1, AppendProperties
<1> HIDE DEF u
<1>3. AllDigits(u)
  <2>1. \A i \in 1..(N + 1) : i = N + 1 \/ i \in 1..N
    OBVIOUS
  <2> QED BY <1>1, <1>2, <2>1 DEF AllDigits
<1>4. PICK v, w : /\ Counts(t, v) /\ Number(t) = v[N]
                  /\ Counts(u, w) /\ Number(u) = w[N + 1]
  BY <1>1, <1>2, <1>3, NumberOf
<1>5. /\ v[0] = 0 /\ w[0] = 0 /\ \A k \in 0..N : v[k] \in Nat
      /\ \A k \in 1..N : v[k] = v[k - 1] * 10 + Digit[t[k]]
      /\ \A k \in 1..(N + 1) : w[k] = w[k - 1] * 10 + Digit[u[k]]
  BY <1>1, <1>2, <1>4 DEF Counts
<1> DEFINE K == {k \in Nat : k <= N => w[k] = v[k]}
<1>6. 0 \in K
  BY <1>5
<1>7. ASSUME NEW k \in Nat, k \in K PROVE k + 1 \in K
  <2> SUFFICES ASSUME k + 1 <= N PROVE w[k + 1] = v[k + 1]
    OBVIOUS
  <2>1. k + 1 \in 1..N /\ k + 1 \in 1..(N + 1) /\ (k + 1) - 1 = k /\ k <= N
    OBVIOUS
  <2>2. w[k] = v[k] /\ u[k + 1] = t[k + 1]
    BY <1>2, <1>7, <2>1
  <2>3. v[k + 1] = v[k] * 10 + Digit[t[k + 1]]
    BY <1>5, <2>1
  <2>4. w[k + 1] = w[k] * 10 + Digit[u[k + 1]]
    BY <1>5, <2>1
  <2> QED BY <2>2, <2>3, <2>4
<1>8. Nat \subseteq K
  <2> HIDE DEF K
  <2> QED BY <1>6, <1>7, SetInduction
<1>9. w[N] = v[N]
  BY <1>8
<1>10. N + 1 \in 1..(N + 1) /\ (N + 1) - 1 = N /\ N \in 0..N
  OBVIOUS
<1>11. w[N + 1] = w[N] * 10 + Digit[u[N + 1]] /\ v[N] \in Nat
  BY <1>5, <1>10
<1> QED BY <1>2, <1>3, <1>4, <1>9, <1>11 DEF u

(* The last digit and what is before it. *)
LEMMA Divides ==
  ASSUME NEW n \in Nat
  PROVE  /\ n % 10 \in 0..9 /\ n \div 10 \in Nat /\ n = (n \div 10) * 10 + (n % 10)
         /\ n >= 10 => n \div 10 < n /\ 1 <= n \div 10
         /\ n < 10 => n % 10 = n
OBVIOUS

LEMMA DecimalIs ==
  ASSUME NEW n \in 0..MaxPort
  PROVE  Decimal[n] = IF n < 10 THEN <<Digits[(n % 10) + 1]>>
                      ELSE Append(Decimal[n \div 10], Digits[(n % 10) + 1])
<1> DEFINE Good(f, k) ==
             f = [m \in 0..k |-> IF m < 10 THEN <<Digits[(m % 10) + 1]>>
                                 ELSE Append(f[m \div 10], Digits[(m % 10) + 1])]
           K == {k \in Nat : \E f : Good(f, k)}
<1>1. 0 \in K
  <2> DEFINE f == [m \in 0..0 |-> <<Digits[(m % 10) + 1]>>]
  <2>1. \A m \in 0..0 : m < 10
    OBVIOUS
  <2>2. Good(f, 0)
    BY <2>1
  <2>3. \E g : Good(g, 0)
    <3> HIDE DEF f, Good
    <3> QED BY <2>2
  <2> QED BY <2>3
<1>2. ASSUME NEW k \in Nat, k \in K PROVE k + 1 \in K
  <2>1. PICK f : Good(f, k)
    BY <1>2
  <2> DEFINE Next1 == IF k + 1 < 10 THEN <<Digits[((k + 1) % 10) + 1]>>
                      ELSE Append(f[(k + 1) \div 10], Digits[((k + 1) % 10) + 1])
             g == [m \in 0..(k + 1) |-> IF m = k + 1 THEN Next1 ELSE f[m]]
  <2>2. ASSUME NEW m \in 0..(k + 1)
        PROVE  g[m] = IF m < 10 THEN <<Digits[(m % 10) + 1]>>
                      ELSE Append(g[m \div 10], Digits[(m % 10) + 1])
    <3>1. m >= 10 => m \div 10 \in 0..(k + 1) /\ m \div 10 # k + 1
      BY Divides
    <3>2. m >= 10 => g[m \div 10] = f[m \div 10]
      BY <3>1
    <3>3. CASE m = k + 1
      <4>1. g[m] = Next1
        BY <3>3
      <4> QED BY <3>2, <3>3, <4>1
    <3>4. CASE m # k + 1
      <4>1. m \in 0..k /\ g[m] = f[m]
        BY <3>4
      <4>2. f[m] = IF m < 10 THEN <<Digits[(m % 10) + 1]>>
                   ELSE Append(f[m \div 10], Digits[(m % 10) + 1])
        BY <2>1, <4>1
      <4> QED BY <3>2, <4>1, <4>2
    <3> QED BY <3>3, <3>4
  <2>3. Good(g, k + 1)
    <3>1. g = [m \in 0..(k + 1) |-> g[m]]
      OBVIOUS
    <3> HIDE DEF g
    <3> QED BY <2>2, <3>1
  <2>4. \E h : Good(h, k + 1)
    <3> HIDE DEF g, Good
    <3> QED BY <2>3
  <2> HIDE DEF g, Good
  <2> QED BY <2>4
<1>3. Nat \subseteq K
  <2> HIDE DEF K
  <2> QED BY <1>1, <1>2, SetInduction
<1>4. \E f : Good(f, MaxPort)
  <2> HIDE DEF Good
  <2> QED BY <1>3, PortsAre
<1>5. Good(Decimal, MaxPort)
  <2>1. Decimal = CHOOSE f : Good(f, MaxPort)
    BY DEF Decimal
  <2> HIDE DEF Good
  <2> QED BY <1>4, <2>1
<1> QED BY <1>5

(* snprintf() writes the digits that parse_port() reads, five at most.     *)
Written(n) == /\ Decimal[n] \in Seq(DOMAIN Digit) /\ Decimal[n] # <<>>
              /\ AllDigits(Decimal[n]) /\ Number(Decimal[n]) = n

LEMMA DecimalWrites ==
  ASSUME NEW n \in 0..MaxPort
  PROVE  Written(n)
<1> DEFINE K == {k \in Nat : \A m \in 0..MaxPort : m <= k => Written(m)}
<1>0. ASSUME NEW m \in 0..MaxPort
      PROVE  /\ Digits[(m % 10) + 1] \in DOMAIN Digit /\ IsDigit(Digits[(m % 10) + 1])
             /\ Digit[Digits[(m % 10) + 1]] = m % 10
  <2>1. m % 10 \in 0..9
    BY PortsAre, Divides
  <2> QED BY <2>1, DigitsAre DEF IsDigit
<1>1. ASSUME NEW m \in 0..MaxPort, m < 10 PROVE Written(m)
  <2>0. m \in Nat
    BY PortsAre
  <2>1. Decimal[m] = <<Digits[(m % 10) + 1]>> /\ m % 10 = m
    <3>1. Decimal[m] = <<Digits[(m % 10) + 1]>>
      BY <1>1, DecimalIs
    <3>2. m % 10 = m
      BY <1>1, <2>0, Divides
    <3> QED BY <3>1, <3>2
  <2>2. PICK c \in DOMAIN Digit : c = Digits[(m % 10) + 1] /\ IsDigit(c) /\ Digit[c] = m
    BY <1>0, <2>1
  <2>3. Number(<<c>>) = m /\ AllDigits(<<c>>)
    BY <2>2, NumberOne
  <2>4. <<c>> \in Seq(DOMAIN Digit) /\ <<c>> # <<>>
    OBVIOUS
  <2> QED BY <2>1, <2>2, <2>3, <2>4 DEF Written
<1>2. 0 \in K
  BY <1>1
<1>3. ASSUME NEW k \in Nat, k \in K PROVE k + 1 \in K
  <2> SUFFICES ASSUME NEW m \in 0..MaxPort, m <= k + 1, ~(m < 10) PROVE Written(m)
    BY <1>1
  <2>1. m \div 10 \in 0..MaxPort /\ m \div 10 <= k /\ m = (m \div 10) * 10 + (m % 10)
    BY PortsAre, Divides
  <2>2. Written(m \div 10)
    BY <1>3, <2>1
  <2>3. PICK c \in DOMAIN Digit :
          c = Digits[(m % 10) + 1] /\ IsDigit(c) /\ Digit[c] = m % 10
    BY <1>0
  <2>4. PICK s : s = Decimal[m \div 10]
    OBVIOUS
  <2>5. /\ s \in Seq(DOMAIN Digit) /\ s # <<>> /\ AllDigits(s)
        /\ Number(s) = m \div 10
    BY <2>2, <2>4 DEF Written
  <2>6. /\ AllDigits(Append(s, c)) /\ Append(s, c) # <<>>
        /\ Number(Append(s, c)) = Number(s) * 10 + Digit[c]
        /\ Append(s, c) \in Seq(DOMAIN Digit)
    BY <2>3, <2>5, NumberAppend, AppendProperties
  <2>7. Decimal[m] = Append(s, c)
    BY <2>3, <2>4, DecimalIs
  <2>8. Number(Append(s, c)) = m
    BY <2>1, <2>3, <2>5, <2>6
  <2> QED BY <2>6, <2>7, <2>8 DEF Written
<1>4. Nat \subseteq K
  <2> HIDE DEF K
  <2> QED BY <1>2, <1>3, SetInduction
<1>5. n \in Nat /\ n <= n
  BY PortsAre
<1> QED BY <1>4, <1>5

(* snprintf() of a port: one to five characters. *)
LEMMA DecimalLength ==
  ASSUME NEW n \in 0..MaxPort
  PROVE  Length(Decimal[n]) \in 1..5
<1>0. ASSUME NEW m \in 0..MaxPort
      PROVE  /\ Length(<<Digits[(m % 10) + 1]>>) = 1
             /\ m >= 10 => /\ m \div 10 \in 0..MaxPort
                           /\ Length(Decimal[m]) = Length(Decimal[m \div 10]) + 1
  <2>1. m % 10 \in 0..9 /\ (m >= 10 => m \div 10 \in 0..MaxPort)
    BY PortsAre, Divides
  <2>2. PICK c \in DOMAIN Digit : c = Digits[(m % 10) + 1]
    BY <2>1, DigitsAre
  <2>3. Length(<<c>>) = 1
    BY LengthOne, DigitsAre DEF Chars
  <2>4. ASSUME m >= 10 PROVE Length(Decimal[m]) = Length(Decimal[m \div 10]) + 1
    <3>1. PICK s : s = Decimal[m \div 10]
      OBVIOUS
    <3>2. s \in Seq(DOMAIN Digit)
      BY <2>1, <2>4, <3>1, DecimalWrites DEF Written
    <3>3. Decimal[m] = Append(s, c)
      <4>1. ~(m < 10)
        BY <2>4, PortsAre
      <4> QED BY <2>2, <3>1, <4>1, DecimalIs
    <3>4. Append(s, c) = s \o <<c>> /\ <<c>> \in Seq(DOMAIN Digit)
      BY <3>2, AppendIsConcat
    <3>5. Length(s \o <<c>>) = Length(s) + Length(<<c>>)
      BY <3>2, <3>4, LengthConcat
    <3> QED BY <2>3, <3>1, <3>3, <3>4, <3>5
  <2> QED BY <2>1, <2>2, <2>3, <2>4
<1>1. ASSUME NEW m \in 0..MaxPort, m < 10 PROVE Length(Decimal[m]) \in 1..1
  <2>1. Decimal[m] = <<Digits[(m % 10) + 1]>>
    BY <1>1, DecimalIs
  <2>2. Length(Decimal[m]) = 1
    BY <1>0, <2>1
  <2> QED BY <2>2
<1> DEFINE Short(b, l) == \A m \in 0..MaxPort : m < b => Length(Decimal[m]) \in 1..l
<1>2. ASSUME NEW b \in Nat, b >= 10, NEW l \in Nat, Short(b, l)
      PROVE  Short(10 * b, l + 1)
  <2> SUFFICES ASSUME NEW m \in 0..MaxPort, m < 10 * b
               PROVE  Length(Decimal[m]) \in 1..(l + 1)
    OBVIOUS
  <2>0. m \in Nat
    BY PortsAre
  <2>1. CASE m < b
    <3>1. Length(Decimal[m]) \in 1..l
      BY <1>2, <2>1
    <3> QED BY <3>1
  <2>2. CASE ~(m < b)
    <3>1. m >= 10
      BY <1>2, <2>0, <2>2
    <3>2. PICK q \in 0..MaxPort : q = m \div 10
      BY <1>0, <3>1
    <3>3. m = q * 10 + (m % 10) /\ m % 10 \in 0..9 /\ q \in Nat
      BY <2>0, <3>2, Divides
    <3>4. q < b
      BY <1>2, <2>0, <3>3
    <3>5. Length(Decimal[q]) \in 1..l
      BY <1>2, <3>4
    <3>6. Length(Decimal[m]) = Length(Decimal[q]) + 1
      BY <1>0, <3>1, <3>2
    <3> QED BY <3>5, <3>6
  <2> QED BY <2>1, <2>2
<1>3. Short(10, 1)
  BY <1>1
<1>4. Short(100000, 5)
  <2> HIDE DEF Short
  <2> QED BY <1>2, <1>3
<1>5. n < 100000
  BY PortsAre
<1> QED BY <1>4, <1>5

-----------------------------------------------------------------------------
(* Texts: what is joined, and cut again.                                   *)

LEMMA Joined ==
  ASSUME NEW S, NEW s \in Seq(S), NEW t \in Seq(S)
  PROVE  /\ s \o t \in Seq(S) /\ Len(s) \in Nat /\ Len(t) \in Nat
         /\ Len(s \o t) = Len(s) + Len(t)
         /\ \A i \in 1..Len(s) : (s \o t)[i] = s[i]
         /\ \A i \in 1..Len(t) : (s \o t)[Len(s) + i] = t[i]
<1>1. /\ s \o t \in Seq(S) /\ Len(s \o t) = Len(s) + Len(t)
      /\ \A i \in 1..(Len(s) + Len(t)) :
           (s \o t)[i] = IF i <= Len(s) THEN s[i] ELSE t[i - Len(s)]
  BY ConcatProperties
<1>2. Len(s) \in Nat /\ Len(t) \in Nat
  BY LenProperties
<1>3. ASSUME NEW i \in 1..Len(t) PROVE (s \o t)[Len(s) + i] = t[i]
  <2>1. Len(s) + i \in 1..(Len(s) + Len(t)) /\ ~(Len(s) + i <= Len(s))
        /\ (Len(s) + i) - Len(s) = i
    BY <1>2
  <2> QED BY <1>1, <2>1
<1> QED BY <1>1, <1>2, <1>3

LEMMA Cut ==
  ASSUME NEW S, NEW s \in Seq(S), NEW t \in Seq(S)
  PROVE  /\ SubSeq(s \o t, 1, Len(s)) = s
         /\ SubSeq(s \o t, Len(s) + 1, Len(s \o t)) = t
<1> DEFINE u == s \o t
<1>0. PICK M \in Nat, N \in Nat : M = Len(s) /\ N = Len(t)
  BY LenProperties
<1>1. /\ u \in Seq(S) /\ Len(u) = M + N /\ \A i \in 1..(M + N) : u[i] \in S
      /\ \A i \in 1..M : u[i] = s[i]
      /\ \A i \in 1..N : u[M + i] = t[i]
  <2>1. u \in Seq(S) /\ Len(u) = M + N
    BY <1>0, Joined
  <2> QED BY <1>0, <2>1, Joined, ElementOfSeq
<1> HIDE DEF u
<1>2. SubSeq(u, 1, M) = s
  <2>1. /\ SubSeq(u, 1, M) \in Seq(S) /\ Len(SubSeq(u, 1, M)) = M
        /\ \A i \in 1..M : SubSeq(u, 1, M)[i] = u[i]
    <3>1. \A i \in 1..M : u[i] \in S
      BY <1>1
    <3>2. /\ SubSeq(u, 1, M) \in Seq(S)
          /\ Len(SubSeq(u, 1, M)) = IF 1 <= M THEN (M - 1) + 1 ELSE 0
          /\ \A i \in 1..((M - 1) + 1) : SubSeq(u, 1, M)[i] = u[(1 + i) - 1]
      BY <3>1, SubSeqProperties
    <3>3. (M - 1) + 1 = M /\ \A i \in 1..M : (1 + i) - 1 = i
      OBVIOUS
    <3> QED BY <3>2, <3>3
  <2> QED BY <1>0, <1>1, <2>1, SeqEqual
<1>3. SubSeq(u, M + 1, M + N) = t
  <2> DEFINE v == SubSeq(u, M + 1, M + N)
  <2>1. v \in Seq(S) /\ Len(v) = N /\ \A i \in 1..N : v[i] = u[M + i]
    <3>1. \A i \in (M + 1)..(M + N) : u[i] \in S
      BY <1>1
    <3>2. /\ v \in Seq(S)
          /\ Len(v) = IF M + 1 <= M + N THEN ((M + N) - (M + 1)) + 1 ELSE 0
          /\ \A i \in 1..(((M + N) - (M + 1)) + 1) : v[i] = u[((M + 1) + i) - 1]
      BY <3>1, SubSeqProperties
    <3>3. ((M + N) - (M + 1)) + 1 = N /\ \A i \in 1..N : ((M + 1) + i) - 1 = M + i
      OBVIOUS
    <3> HIDE DEF v
    <3> QED BY <3>2, <3>3
  <2> HIDE DEF v
  <2>2. v = t
    BY <1>0, <1>1, <2>1, SeqEqual
  <2> QED BY <2>2 DEF v
<1> QED BY <1>0, <1>1, <1>2, <1>3 DEF u

LEMMA Pair ==
  ASSUME NEW c, NEW d
  PROVE  <<c, d>> = <<c>> \o <<d>>
<1>1. /\ <<c, d>> \in Seq({c, d}) /\ Len(<<c, d>>) = 2
      /\ <<c, d>>[1] = c /\ <<c, d>>[2] = d
  OBVIOUS
<1>2. /\ <<c>> \in Seq({c, d}) /\ <<d>> \in Seq({c, d})
      /\ Len(<<c>>) = 1 /\ Len(<<d>>) = 1 /\ <<c>>[1] = c /\ <<d>>[1] = d
      /\ 1 \in 1..1
  OBVIOUS
<1>3. /\ <<c>> \o <<d>> \in Seq({c, d}) /\ Len(<<c>> \o <<d>>) = 2
      /\ (<<c>> \o <<d>>)[1] = c /\ (<<c>> \o <<d>>)[1 + 1] = d
  BY <1>2, Joined
<1>4. \A i \in 1..2 : <<c, d>>[i] = (<<c>> \o <<d>>)[i]
  <2>1. 1 + 1 = 2 /\ \A i \in 1..2 : i = 1 \/ i = 2
    OBVIOUS
  <2>2. (<<c>> \o <<d>>)[2] = d
    BY <1>3, <2>1
  <2> QED BY <1>1, <1>3, <2>1, <2>2
<1> QED BY <1>1, <1>3, <1>4, SeqEqual

(* A text is what is before a position, what is there, and the rest. *)
LEMMA Around ==
  ASSUME NEW S, NEW t \in Seq(S), NEW i \in 1..Len(t)
  PROVE  /\ t = SubSeq(t, 1, i - 1) \o (<<t[i]>> \o SubSeq(t, i + 1, Len(t)))
         /\ SubSeq(t, 1, i - 1) \in Seq(S) /\ SubSeq(t, i + 1, Len(t)) \in Seq(S)
         /\ t[i] \in S
<1>0. Len(t) \in Nat
  BY LenProperties
<1>1. \A k \in 1..Len(t) : t[k] \in S
  BY ElementOfSeq
<1>2. SubSeq(t, 1, i - 1) \in Seq(S)
  <2>1. \A k \in 1..(i - 1) : t[k] \in S
    BY <1>0, <1>1
  <2> QED BY <2>1, SubSeqProperties
<1>3. SubSeq(t, i + 1, Len(t)) \in Seq(S)
  <2>1. \A k \in (i + 1)..Len(t) : t[k] \in S
    BY <1>0, <1>1
  <2> QED BY <1>0, <2>1, SubSeqProperties
<1>4. SubSeq(t, i, Len(t)) = <<t[i]>> \o SubSeq(t, i + 1, Len(t))
  <2>1. Len(t) \in i..Len(t)
    BY <1>0
  <2> QED BY <2>1, SubSeqRecursiveFirst
<1>5. SubSeq(t, 1, i - 1) \o SubSeq(t, i, Len(t)) = SubSeq(t, 1, Len(t))
  <2>1. /\ 1 \in 1..(Len(t) + 1) /\ i - 1 \in (1 - 1)..Len(t)
        /\ Len(t) \in (i - 1)..Len(t) /\ (i - 1) + 1 = i
    BY <1>0
  <2>2. SubSeq(t, 1, i - 1) \o SubSeq(t, (i - 1) + 1, Len(t)) = SubSeq(t, 1, Len(t))
    BY <2>1, ConcatAdjacentSubSeq
  <2> QED BY <2>1, <2>2
<1> QED BY <1>1, <1>2, <1>3, <1>4, <1>5, SubSeqFull

-----------------------------------------------------------------------------
(* Hosts.                                                                  *)

Hosts == DOMAIN Ipv4 \cup DOMAIN Ipv6

(* The tokens of texts; the provers do not know which strings are strings. *)
Tokens == STRING \cup {"quad", "::", "0", "7", ":", "[", "]"} \cup DOMAIN Digit

LEMMA HostsAre ==
  /\ DOMAIN Ipv4 = {<<"quad">>}
  /\ DOMAIN Ipv6 = {<<"::">>, <<"0", "::">>, <<"::", "7">>, <<"7", "::", "7">>}
  /\ DOMAIN Ipv4 \cap DOMAIN Ipv6 = {}
  /\ \A h \in DOMAIN Ipv4 : Ipv4[h] = h
  /\ \A h \in DOMAIN Ipv6 : Ipv6[h] \in DOMAIN Ipv6 /\ Ipv6[Ipv6[h]] = Ipv6[h]
BY DEF Ipv4, Ipv6

LEMMA HostText ==
  ASSUME NEW h \in Hosts
  PROVE  /\ h \in Seq(Tokens) /\ h # <<>> /\ Len(h) \in Nat /\ Len(h) >= 1
         /\ h[1] \notin {"[", "nul"} /\ h[Len(h)] # ":"
<1> DEFINE Good(t) == /\ t \in Seq({"quad", "::", "0", "7"}) /\ t # <<>>
                      /\ Len(t) \in Nat /\ Len(t) >= 1
                      /\ t[1] \notin {"[", "nul"} /\ t[Len(t)] # ":"
<1>1. Good(<<"quad">>) /\ Good(<<"::">>)
  OBVIOUS
<1>2. Good(<<"0", "::">>) /\ Good(<<"::", "7">>)
  OBVIOUS
<1>3. Good(<<"7", "::", "7">>)
  OBVIOUS
<1>4. Good(h)
  <2> HIDE DEF Good
  <2> QED BY <1>1, <1>2, <1>3, HostsAre DEF Hosts
<1>5. {"quad", "::", "0", "7"} \subseteq Tokens
  BY DEF Tokens
<1> QED BY <1>4, <1>5, SeqMonotonic

LEMMA HostLength ==
  ASSUME NEW h \in Hosts
  PROVE  Length(h) \in 1..9
<1>1. ASSUME NEW c, NEW d PROVE Length(<<c, d>>) = Chars(c) + Chars(d)
  <2>1. <<c>> \in Seq({c, d}) /\ <<d>> \in Seq({c, d})
    OBVIOUS
  <2>3. <<c, d>> = <<c>> \o <<d>>
    BY Pair
  <2>2. Length(<<c>> \o <<d>>) = Length(<<c>>) + Length(<<d>>)
    BY <2>1, LengthConcat
  <2> QED BY <2>2, <2>3, LengthOne
<1>2. ASSUME NEW c, NEW d, NEW e
      PROVE  Length(<<c, d, e>>) = Chars(c) + Chars(d) + Chars(e)
  <2>1. /\ <<c, d>> \in Seq({c, d, e}) /\ <<e>> \in Seq({c, d, e})
        /\ <<c, d, e>> = <<c, d>> \o <<e>>
    OBVIOUS
  <2>2. Length(<<c, d>> \o <<e>>) = Length(<<c, d>>) + Length(<<e>>)
    BY <2>1, LengthConcat
  <2> QED BY <1>1, <2>1, <2>2, LengthOne
<1>3. /\ Chars("quad") = 9 /\ Chars("::") = 2
      /\ Chars("0") = 1 /\ Chars("7") = 1
  BY DEF Chars, Characters
<1>4. /\ Length(<<"quad">>) = 9 /\ Length(<<"::">>) = 2
  BY <1>3, LengthOne
<1>5. Length(<<"0", "::">>) = 3 /\ Length(<<"::", "7">>) = 3
  BY <1>1, <1>3
<1>6. Length(<<"7", "::", "7">>) = 4
  BY <1>2, <1>3
<1> QED BY <1>4, <1>5, <1>6, HostsAre DEF Hosts

-----------------------------------------------------------------------------
(* extract_ip_port().                                                      *)

(* What it makes of what is before and behind the last colon. *)
Extracted(before, digits) ==
  LET open == before # <<>> /\ before[1] = "["
      host == IF open THEN SubSeq(before, 2, Len(before) - 1) ELSE before
      port == ParsePort(digits)
  IN IF \/ before = <<>> \/ port = -1
        \/ open /\ (Length(before) <= 2 \/ Last(before) # "]")
        \/ Length(host) >= HostSize
     THEN Nothing ELSE <<host, port>>

IsColon(c) == c \in {":", "::"}
Half(c)    == IF c = "::" THEN <<":">> ELSE <<>>

LEMMA ExtractNone ==
  ASSUME NEW S, NEW t \in Seq(S), \A i \in 1..Len(t) : ~IsColon(t[i])
  PROVE  ExtractIpPort(t) = Nothing
<1>1. DOMAIN t = 1..Len(t)
  BY LenProperties
<1>2. Colons(t) = {}
  BY <1>1 DEF Colons, IsColon
<1> QED BY <1>2 DEF ExtractIpPort

LEMMA ExtractAt ==
  ASSUME NEW S, NEW t \in Seq(S), NEW i \in 1..Len(t), IsColon(t[i]),
         \A j \in (i + 1)..Len(t) : ~IsColon(t[j])
  PROVE  ExtractIpPort(t) = Extracted(SubSeq(t, 1, i - 1) \o Half(t[i]),
                                      SubSeq(t, i + 1, Len(t)))
<1>1. DOMAIN t = 1..Len(t) /\ Len(t) \in Nat
  BY LenProperties
<1>2. i \in Colons(t) /\ \A j \in Colons(t) : j \in Nat /\ j <= i
  BY <1>1 DEF Colons, IsColon
<1>3. (CHOOSE k \in Colons(t) : \A j \in Colons(t) : k >= j) = i
  <2>1. \A j \in Colons(t) : i >= j
    BY <1>2
  <2>2. \A k \in Colons(t) : (\A j \in Colons(t) : k >= j) => k = i
    BY <1>2
  <2> QED BY <1>2, <2>1, <2>2
<1> QED BY <1>2, <1>3 DEF ExtractIpPort, Extracted, Half

LEMMA ExtractJoined ==
  ASSUME NEW S, NEW s \in Seq(S), NEW c \in S, IsColon(c), NEW d \in Seq(S), AllDigits(d)
  PROVE  ExtractIpPort(s \o (<<c>> \o d)) = Extracted(s \o Half(c), d)
<1> DEFINE t == s \o (<<c>> \o d)
           i == Len(s) + 1
<1>1. /\ <<c>> \in Seq(S) /\ Len(<<c>>) = 1 /\ <<c>>[1] = c
      /\ <<c>> \o d \in Seq(S) /\ Len(<<c>> \o d) = 1 + Len(d)
      /\ (<<c>> \o d)[1] = c /\ \A k \in 1..Len(d) : (<<c>> \o d)[1 + k] = d[k]
  <2>1. <<c>> \in Seq(S) /\ Len(<<c>>) = 1 /\ <<c>>[1] = c /\ 1 \in 1..1
    OBVIOUS
  <2> QED BY <2>1, Joined
<1>2. /\ t \in Seq(S) /\ Len(s) \in Nat /\ Len(d) \in Nat
      /\ Len(t) = Len(s) + (1 + Len(d))
      /\ \A k \in 1..(1 + Len(d)) : t[Len(s) + k] = (<<c>> \o d)[k]
  <2>1. Len(d) \in Nat
    BY LenProperties
  <2> QED BY <1>1, <2>1, Joined
<1>3. i \in 1..Len(t) /\ t[i] = c
  BY <1>1, <1>2
<1>4. ASSUME NEW j \in (i + 1)..Len(t) PROVE ~IsColon(t[j])
  <2>1. PICK k \in 1..Len(d) : j = Len(s) + (1 + k)
    <3>1. j - (Len(s) + 1) \in 1..Len(d) /\ j = Len(s) + (1 + (j - (Len(s) + 1)))
      BY <1>2
    <3> QED BY <3>1
  <2>2. 1 + k \in 1..(1 + Len(d))
    BY <1>2
  <2>3. t[j] = d[k]
    BY <1>1, <1>2, <2>1, <2>2
  <2>4. IsDigit(d[k])
    BY DEF AllDigits
  <2> QED BY <2>3, <2>4, DigitsAre DEF IsColon
<1>5. SubSeq(t, 1, i - 1) = s
  <2>1. i - 1 = Len(s)
    BY <1>2
  <2>2. SubSeq(t, 1, Len(s)) = s
    BY <1>1, Cut
  <2> QED BY <2>1, <2>2
<1>6. SubSeq(t, i + 1, Len(t)) = d
  <2>1. t = (s \o <<c>>) \o d
    BY <1>1, ConcatAssociative
  <2>2. s \o <<c>> \in Seq(S) /\ Len(s \o <<c>>) = i
    BY <1>1, Joined
  <2>3. SubSeq((s \o <<c>>) \o d, Len(s \o <<c>>) + 1, Len((s \o <<c>>) \o d)) = d
    BY <2>2, Cut
  <2> QED BY <2>1, <2>2, <2>3
<1>7. ExtractIpPort(t) = Extracted(SubSeq(t, 1, i - 1) \o Half(t[i]),
                                   SubSeq(t, i + 1, Len(t)))
  <2> HIDE DEF t, i
  <2> QED BY <1>2, <1>3, <1>4, ExtractAt
<1> HIDE DEF t, i
<1>8. ExtractIpPort(t) = Extracted(s \o Half(c), d)
  BY <1>3, <1>5, <1>6, <1>7
<1> QED BY <1>8 DEF t

(* A host in brackets. *)
Bracketed(h) == <<"[">> \o h \o <<"]">>

LEMMA BracketsAround ==
  ASSUME NEW S, NEW h \in Seq(S), "[" \in S, "]" \in S
  PROVE  /\ Bracketed(h) \in Seq(S) /\ Len(Bracketed(h)) = Len(h) + 2
         /\ Bracketed(h)[1] = "[" /\ Last(Bracketed(h)) = "]"
         /\ SubSeq(Bracketed(h), 2, Len(Bracketed(h)) - 1) = h
         /\ Length(Bracketed(h)) = Length(h) + 2
<1> DEFINE a == <<"[">> \o h
           b == a \o <<"]">>
<1>0. /\ <<"[">> \in Seq(S) /\ <<"]">> \in Seq(S) /\ Len(h) \in Nat
      /\ Len(<<"[">>) = 1 /\ Len(<<"]">>) = 1 /\ <<"[">>[1] = "[" /\ <<"]">>[1] = "]"
      /\ 1 \in 1..1
  BY LenProperties
<1>1. /\ a \in Seq(S) /\ Len(a) = 1 + Len(h) /\ a[1] = "["
      /\ \A i \in 1..Len(h) : a[1 + i] = h[i]
  BY <1>0, Joined
<1> HIDE DEF a
<1>2. /\ b \in Seq(S) /\ Len(b) = Len(h) + 2 /\ b[Len(h) + 2] = "]"
      /\ \A i \in 1..(1 + Len(h)) : b[i] = a[i]
  <2>1. /\ b \in Seq(S) /\ Len(b) = Len(a) + 1
        /\ \A i \in 1..Len(a) : b[i] = a[i]
        /\ b[Len(a) + 1] = "]"
    BY <1>0, <1>1, Joined
  <2>2. Len(a) + 1 = Len(h) + 2
    BY <1>0, <1>1
  <2> HIDE DEF b
  <2> QED BY <1>1, <2>1, <2>2
<1>l. Length(b) = Length(h) + 2
  <2>1. Length(a) = Length(<<"[">>) + Length(h)
    BY <1>0, LengthConcat DEF a
  <2>2. Length(b) = Length(a) + Length(<<"]">>)
    BY <1>0, <1>1, LengthConcat
  <2>3. Chars("[") = 1 /\ Chars("]") = 1
    BY DEF Chars, Characters
  <2>4. Length(h) \in Nat
    BY LengthPositive
  <2> QED BY <2>1, <2>2, <2>3, <2>4, LengthOne
<1> HIDE DEF b
<1>3. b[1] = "[" /\ \A i \in 1..Len(h) : b[1 + i] = h[i]
  <2>1. 1 \in 1..(1 + Len(h)) /\ \A i \in 1..Len(h) : 1 + i \in 1..(1 + Len(h))
    BY <1>0
  <2> QED BY <1>1, <1>2, <2>1
<1>4. SubSeq(b, 2, Len(b) - 1) = h
  <2> DEFINE c == SubSeq(b, 2, Len(b) - 1)
  <2>1. \A i \in 2..(Len(b) - 1) : b[i] \in S
    <3>1. \A i \in 2..(Len(b) - 1) : i \in 1..Len(b)
      BY <1>0, <1>2
    <3> QED BY <1>2, <3>1, ElementOfSeq
  <2>2. /\ c \in Seq(S) /\ Len(c) = IF 2 <= Len(b) - 1 THEN ((Len(b) - 1) - 2) + 1 ELSE 0
        /\ \A i \in 1..(((Len(b) - 1) - 2) + 1) : c[i] = b[(2 + i) - 1]
    <3>1. Len(b) - 1 \in Int
      BY <1>0, <1>2
    <3> QED BY <2>1, <3>1, SubSeqProperties
  <2>3. ((Len(b) - 1) - 2) + 1 = Len(h) /\ \A i \in 1..Len(h) : (2 + i) - 1 = 1 + i
    BY <1>0, <1>2
  <2> HIDE DEF c
  <2>4. Len(c) = Len(h)
    BY <1>0, <1>2, <2>2, <2>3
  <2>5. \A i \in 1..Len(h) : c[i] = h[i]
    BY <1>3, <2>2, <2>3
  <2>6. c = h
    BY <2>2, <2>4, <2>5, SeqEqual
  <2> QED BY <2>6 DEF c
<1>5. Last(b) = "]"
  BY <1>2 DEF Last
<1> QED BY <1>l, <1>2, <1>3, <1>4, <1>5 DEF Bracketed, a, b

LEMMA BetweenBrackets ==
  ASSUME NEW S, NEW b \in Seq(S), b # <<>>, b[1] = "[", Last(b) = "]"
  PROVE  b = Bracketed(SubSeq(b, 2, Len(b) - 1)) /\ SubSeq(b, 2, Len(b) - 1) \in Seq(S)
<1>0. Len(b) \in Nat /\ Len(b) >= 1
  BY EmptySeq
<1>1. b[Len(b)] = "]"
  BY DEF Last
<1>2. Len(b) >= 2
  BY <1>0, <1>1
<1>3. SubSeq(b, 2, Len(b) - 1) \in Seq(S)
  <2>1. \A i \in 2..(Len(b) - 1) : i \in 1..Len(b)
    BY <1>0
  <2>2. \A i \in 2..(Len(b) - 1) : b[i] \in S
    BY <2>1, ElementOfSeq
  <2>3. Len(b) - 1 \in Int
    BY <1>0
  <2> QED BY <2>2, <2>3, SubSeqProperties
<1>4. SubSeq(b, 1, Len(b)) = <<"[">> \o SubSeq(b, 2, Len(b))
  <2>1. 1 \in 1..Len(b) /\ Len(b) \in 1..Len(b) /\ 1 + 1 = 2
    BY <1>0
  <2>2. SubSeq(b, 1, Len(b)) = <<b[1]>> \o SubSeq(b, 1 + 1, Len(b))
    BY <2>1, SubSeqRecursiveFirst
  <2> QED BY <2>1, <2>2
<1>5. SubSeq(b, 2, Len(b)) = SubSeq(b, 2, Len(b) - 1) \o <<"]">>
  <2>1. 2 \in 1..Len(b) /\ Len(b) \in 2..Len(b)
    BY <1>0, <1>2
  <2> QED BY <1>1, <2>1, SubSeqRecursiveSecond
<1>6. <<"[">> \in Seq(S) /\ <<"]">> \in Seq(S)
  <2>1. b[1] \in S /\ b[Len(b)] \in S
    <3>1. 1 \in 1..Len(b) /\ Len(b) \in 1..Len(b)
      BY <1>0
    <3> QED BY <3>1, ElementOfSeq
  <2>2. "[" \in S /\ "]" \in S
    BY <1>1, <2>1
  <2> QED BY <2>2
<1>7. (<<"[">> \o SubSeq(b, 2, Len(b) - 1)) \o <<"]">>
      = <<"[">> \o (SubSeq(b, 2, Len(b) - 1) \o <<"]">>)
  <2>1. \A r, s, t \in Seq(S) : (r \o s) \o t = r \o (s \o t)
    BY ConcatAssociative
  <2> QED BY <1>3, <1>6, <2>1
<1>8. SubSeq(b, 1, Len(b)) = b
  BY SubSeqFull
<1>9. Bracketed(SubSeq(b, 2, Len(b) - 1))
      = (<<"[">> \o SubSeq(b, 2, Len(b) - 1)) \o <<"]">>
  BY DEF Bracketed
<1> QED BY <1>3, <1>4, <1>5, <1>7, <1>8, <1>9

(* A host and a port, with or without brackets. *)
LEMMA ExtractedPlain ==
  ASSUME NEW h \in Hosts, NEW S, NEW d \in Seq(S), Number(d) \in 1..MaxPort
  PROVE  Extracted(h, d) = <<h, Number(d)>>
<1>1. ParsePort(d) = Number(d) /\ Number(d) # -1
  BY PortIsNumber, PortsAre
<1>2. h # <<>> /\ h[1] # "["
  BY HostText
<1>3. ~(Length(h) >= HostSize)
  BY HostLength DEF HostSize
<1> QED BY <1>1, <1>2, <1>3 DEF Extracted

LEMMA ExtractedBracketed ==
  ASSUME NEW h \in Hosts, NEW S, NEW d \in Seq(S), Number(d) \in 1..MaxPort
  PROVE  Extracted(Bracketed(h), d) = <<h, Number(d)>>
<1> DEFINE b == Bracketed(h)
<1>1. ParsePort(d) = Number(d) /\ Number(d) # -1
  BY PortIsNumber, PortsAre
<1>2. h \in Seq(Tokens) /\ Len(h) \in Nat /\ "[" \in Tokens /\ "]" \in Tokens
  BY HostText DEF Tokens
<1>3. Length(h) \in 1..9
  BY HostLength
<1>4. /\ b \in Seq(Tokens) /\ Len(b) = Len(h) + 2 /\ b[1] = "[" /\ Last(b) = "]"
      /\ SubSeq(b, 2, Len(b) - 1) = h /\ Length(b) = Length(h) + 2
  BY <1>2, BracketsAround
<1> HIDE DEF b
<1>5. b # <<>> /\ ~(Length(b) <= 2) /\ ~(Length(h) >= HostSize)
  <2>1. Len(b) # 0
    BY <1>2, <1>4
  <2> QED BY <1>3, <1>4, <2>1 DEF HostSize
<1>6. Extracted(b, d) = <<h, Number(d)>>
  BY <1>1, <1>4, <1>5 DEF Extracted
<1> QED BY <1>6 DEF b

(* The ways to write a host and a port. *)
Associates(r, s, t) == (r \o s) \o t = r \o (s \o t)

LEMMA HostAndPort ==
  ASSUME NEW S, NEW h \in Seq(S), NEW d \in Seq(S), {"[", "]", ":"} \subseteq S
  PROVE  /\ (h \o <<":">>) \o d = h \o (<<":">> \o d)
         /\ <<"[">> \o h \o <<"]", ":">> \o d = Bracketed(h) \o (<<":">> \o d)
         /\ <<"[">> \o h \o (<<"]", ":">> \o d) = Bracketed(h) \o (<<":">> \o d)
<1>1. ASSUME NEW r \in Seq(S), NEW s \in Seq(S), NEW t \in Seq(S)
      PROVE  Associates(r, s, t)
  <2>1. (r \o s) \o t = r \o (s \o t)
    BY ConcatAssociative, SMTT(30)
  <2> QED BY <2>1 DEF Associates
<1>2. \A r, s \in Seq(S) : r \o s \in Seq(S)
  BY Joined
<1>3. <<"[">> \in Seq(S) /\ <<"]">> \in Seq(S) /\ <<":">> \in Seq(S)
  OBVIOUS
<1>4. PICK a \in Seq(S), b \in Seq(S), c \in Seq(S) :
        a = <<"[">> /\ b = <<"]">> /\ c = <<":">>
  BY <1>3
<1>5. PICK u \in Seq(S) : u = a \o h
  BY <1>2
<1>6. PICK v \in Seq(S), w \in Seq(S) : v = u \o b /\ w = b \o c
  BY <1>2
<1>7. Bracketed(h) = v /\ <<"]", ":">> = w
  BY <1>4, <1>5, <1>6, Pair DEF Bracketed
<1>8. /\ Associates(h, c, d) /\ Associates(u, b, c) /\ Associates(v, c, d)
      /\ Associates(u, w, d)
  BY <1>1
<1>9. (h \o c) \o d = h \o (c \o d)
  BY <1>8 DEF Associates
<1>10. (u \o w) \o d = v \o (c \o d)
  BY <1>6, <1>8 DEF Associates
<1>11. u \o (w \o d) = v \o (c \o d)
  BY <1>8, <1>10 DEF Associates
<1> QED BY <1>4, <1>5, <1>7, <1>9, <1>10, <1>11

LEMMA Denotes ==
  ASSUME NEW h \in Hosts, NEW d \in Seq(Tokens), Number(d) \in 1..MaxPort
  PROVE  /\ ExtractIpPort(h \o (<<":">> \o d)) = <<h, Number(d)>>
         /\ ExtractIpPort(Bracketed(h) \o (<<":">> \o d)) = <<h, Number(d)>>
<1>1. h \in Seq(Tokens) /\ ":" \in Tokens /\ "[" \in Tokens /\ "]" \in Tokens
  BY HostText DEF Tokens
<1>2. Bracketed(h) \in Seq(Tokens)
  BY <1>1, BracketsAround
<1>3. AllDigits(d)
  BY NumberType, PortsAre
<1>4. IsColon(":") /\ Half(":") = <<>>
  BY DEF IsColon, Half
<1>5. h \o <<>> = h /\ Bracketed(h) \o <<>> = Bracketed(h)
  BY <1>1, <1>2, ConcatEmptySeq
<1>6. ExtractIpPort(h \o (<<":">> \o d)) = Extracted(h \o Half(":"), d)
  BY <1>1, <1>3, <1>4, ExtractJoined
<1>7. ExtractIpPort(Bracketed(h) \o (<<":">> \o d)) = Extracted(Bracketed(h) \o Half(":"), d)
  BY <1>1, <1>2, <1>3, <1>4, ExtractJoined
<1> QED BY <1>4, <1>5, <1>6, <1>7, ExtractedPlain, ExtractedBracketed

(* What is no port, for example 0, ends no address. *)
LEMMA NoAddress ==
  ASSUME NEW s \in Seq(Tokens), NEW d \in Seq(Tokens), AllDigits(d),
         Number(d) \notin 1..MaxPort
  PROVE  ExtractIpPort(s \o (<<":">> \o d)) = Nothing
<1>1. ":" \in Tokens /\ IsColon(":")
  BY DEF Tokens, IsColon
<1>2. ExtractIpPort(s \o (<<":">> \o d)) = Extracted(s \o Half(":"), d)
  BY <1>1, ExtractJoined
<1>3. ParsePort(d) = -1
  BY PortIsNumber
<1> QED BY <1>2, <1>3 DEF Extracted

(* extract_ip_port() recognizes every text of a host with a port. *)
LEMMA ParsesDenoted ==
  ASSUME NEW t \in Seq(Tokens), NEW hp \in Denoted(t)
  PROVE  /\ hp[1] \in Hosts /\ Number(hp[2]) \in 1..MaxPort
         /\ ExtractIpPort(t) = <<hp[1], Number(hp[2])>>
<1>1. PICK h \in Hosts, i \in DOMAIN t :
        /\ hp[1] = h /\ hp[2] = SubSeq(t, i, Len(t))
        /\ Number(hp[2]) \in 1..MaxPort
        /\ t \in {h \o <<":">> \o hp[2], <<"[">> \o h \o <<"]", ":">> \o hp[2]}
  BY DEF Denoted, Hosts
<1>2. PICK d : d = hp[2]
  OBVIOUS
<1>3. d \in Seq(Tokens)
  <2>1. Len(t) \in Nat /\ DOMAIN t = 1..Len(t)
    BY LenProperties
  <2>2. \A k \in i..Len(t) : k \in 1..Len(t)
    BY <2>1
  <2>3. \A k \in i..Len(t) : t[k] \in Tokens
    BY <2>2, ElementOfSeq
  <2>4. SubSeq(t, i, Len(t)) \in Seq(Tokens)
    BY <2>1, <2>3, SubSeqProperties
  <2> QED BY <1>1, <1>2, <2>4
<1>4. t = h \o (<<":">> \o d) \/ t = Bracketed(h) \o (<<":">> \o d)
  <2>1. {"[", "]", ":"} \subseteq Tokens /\ h \in Seq(Tokens)
    BY HostText DEF Tokens
  <2>2. /\ (h \o <<":">>) \o d = h \o (<<":">> \o d)
        /\ <<"[">> \o h \o <<"]", ":">> \o d = Bracketed(h) \o (<<":">> \o d)
    BY <1>3, <2>1, HostAndPort
  <2> QED BY <1>1, <1>2, <2>2
<1> QED BY <1>1, <1>2, <1>3, <1>4, Denotes

(* What it recognizes is a host with a port, unless the host is no address. *)
LEMMA ParsesOnlyDenoted ==
  ASSUME NEW t \in Seq(Tokens), ExtractIpPort(t) # Nothing
  PROVE  \E h, p : /\ ExtractIpPort(t) = <<h, p>> /\ p \in 1..MaxPort
                   /\ h \in Hosts => \E hp \in Denoted(t) : hp[1] = h /\ Number(hp[2]) = p
<1>0. Len(t) \in Nat /\ DOMAIN t = 1..Len(t)
  BY LenProperties
<1>1. PICK i \in 1..Len(t) : IsColon(t[i]) /\ \A j \in (i + 1)..Len(t) : ~IsColon(t[j])
  <2> DEFINE C == {k \in 1..Len(t) : IsColon(t[k])}
  <2>1. C # {}
    BY ExtractNone
  <2>2. Max(C) \in C /\ \A x \in C : x <= Max(C)
    <3> HIDE DEF C
    <3>1. C \in SUBSET (1..Len(t))
      BY DEF C
    <3> QED BY <1>0, <2>1, <3>1, LastOf
  <2>3. PICK m \in 1..Len(t) : IsColon(t[m]) /\ \A x \in C : x <= m
    BY <2>2
  <2>4. \A j \in (m + 1)..Len(t) : j \in 1..Len(t) /\ ~(j <= m)
    BY <1>0
  <2>5. \A j \in (m + 1)..Len(t) : ~IsColon(t[j])
    BY <2>3, <2>4
  <2> QED BY <2>3, <2>5
<1>2. PICK s, c, d : s = SubSeq(t, 1, i - 1) /\ c = t[i] /\ d = SubSeq(t, i + 1, Len(t))
  OBVIOUS
<1>3. t = s \o (<<c>> \o d) /\ s \in Seq(Tokens) /\ d \in Seq(Tokens) /\ c \in Tokens
  BY <1>2, Around
<1>4. ExtractIpPort(t) = Extracted(s \o Half(c), d)
  BY <1>1, <1>2, ExtractAt
<1>5. PICK b : b = s \o Half(c)
  OBVIOUS
<1>6. PICK h : h = IF b[1] = "[" THEN SubSeq(b, 2, Len(b) - 1) ELSE b
  OBVIOUS
<1>7. /\ b # <<>> /\ ParsePort(d) # -1
      /\ b[1] = "[" => Last(b) = "]"
      /\ ExtractIpPort(t) = <<h, ParsePort(d)>>
  BY <1>4, <1>5, <1>6 DEF Extracted
<1>8. ParsePort(d) = Number(d) /\ Number(d) \in 1..MaxPort
  BY <1>3, <1>7, PortIsNumber
<1>9. ASSUME h \in Hosts
      PROVE  \E hp \in Denoted(t) : hp[1] = h /\ Number(hp[2]) = ParsePort(d)
  <2>0. {"[", "]", ":"} \subseteq Tokens
    BY DEF Tokens
  <2>1. c = ":"
    <3>1. ASSUME c = "::" PROVE FALSE
      <4>1. b = s \o <<":">>
        BY <1>5, <3>1 DEF Half
      <4>2. <<":">> \in Seq(Tokens) /\ Len(<<":">>) = 1 /\ <<":">>[1] = ":" /\ 1 \in 1..1
        BY <2>0
      <4>3. b[Len(s) + 1] = ":" /\ Len(b) = Len(s) + 1
        BY <1>3, <4>1, <4>2, Joined
      <4>4. Last(b) = ":"
        BY <4>3 DEF Last
      <4>5. h = b
        BY <1>6, <1>7, <4>4
      <4> QED BY <1>9, <4>3, <4>5, HostText
    <3> QED BY <1>1, <1>2, <3>1 DEF IsColon
  <2>2. b = s
    BY <1>3, <1>5, <2>1, ConcatEmptySeq DEF Half
  <2>3. t = h \o (<<":">> \o d) \/ t = Bracketed(h) \o (<<":">> \o d)
    <3>1. CASE b[1] = "["
      <4>1. b = Bracketed(h)
        BY <1>3, <1>6, <1>7, <2>2, <3>1, BetweenBrackets
      <4> QED BY <1>3, <2>1, <2>2, <4>1
    <3>2. CASE b[1] # "["
      BY <1>3, <1>6, <2>1, <2>2, <3>2
    <3> QED BY <3>1, <3>2
  <2>4. t \in {h \o <<":">> \o d, <<"[">> \o h \o <<"]", ":">> \o d}
    <3>1. h \in Seq(Tokens)
      BY <1>9, HostText
    <3>2. /\ (h \o <<":">>) \o d = h \o (<<":">> \o d)
          /\ <<"[">> \o h \o <<"]", ":">> \o d = Bracketed(h) \o (<<":">> \o d)
      BY <1>3, <2>0, <3>1, HostAndPort
    <3> QED BY <2>3, <3>2
  <2>5. i + 1 \in DOMAIN t
    <3>1. d # <<>>
      BY <1>3, <1>8, NumberType, PortsAre
    <3>2. ~(Len(t) < i + 1)
      <4>1. i + 1 \in Int /\ Len(t) \in Int
        BY <1>0
      <4> QED BY <1>2, <3>1, <4>1, SubSeqEmpty
    <3> QED BY <1>0, <3>2
  <2>6. <<h, d>> \in Denoted(t)
    BY <1>2, <1>8, <1>9, <2>4, <2>5 DEF Denoted, Hosts
  <2> QED BY <1>8, <2>6
<1> QED BY <1>7, <1>8, <1>9

-----------------------------------------------------------------------------
(* Memory.                                                                 *)

Memory(m)    == m = [i \in 1..Storage |-> m[i]]
Starts(m, c) == \A i \in 1..Len(c) : m[i] = c[i]

(* A tuple of cells. *)
Cells(c) == \E T : c \in Seq(T)

LEMMA CellsOf ==
  ASSUME NEW T, NEW c \in Seq(T)
  PROVE  Cells(c)
BY DEF Cells

LEMMA StartsIs ==
  ASSUME NEW m, NEW c, Cells(c)
  PROVE  SubSeq(m, 1, Len(c)) = c <=> Starts(m, c)
<1>0. PICK T : c \in Seq(T)
  BY DEF Cells
<1>1. PICK n \in Nat : c \in Seq(T) /\ n = Len(c)
  BY <1>0, LenProperties
<1> DEFINE S == T \cup {m[i] : i \in 1..n}
           s == SubSeq(m, 1, n)
<1>2. c \in Seq(S)
  BY <1>1, SeqMonotonic
<1>3. s \in Seq(S) /\ Len(s) = n /\ \A i \in 1..n : s[i] = m[i]
  <2>1. \A i \in 1..n : m[i] \in S
    OBVIOUS
  <2>2. /\ s \in Seq(S) /\ Len(s) = IF 1 <= n THEN (n - 1) + 1 ELSE 0
        /\ \A i \in 1..((n - 1) + 1) : s[i] = m[(1 + i) - 1]
    <3> HIDE DEF S
    <3> QED BY <2>1, SubSeqProperties
  <2>3. (n - 1) + 1 = n /\ \A i \in 1..n : (1 + i) - 1 = i
    OBVIOUS
  <2> HIDE DEF s, S
  <2> QED BY <2>2, <2>3
<1> HIDE DEF s, S
<1>4. ASSUME Starts(m, c) PROVE s = c
  <2>1. \A i \in 1..n : s[i] = c[i]
    BY <1>1, <1>3, <1>4 DEF Starts
  <2> QED BY <1>1, <1>2, <1>3, <2>1, SeqEqual
<1>5. ASSUME s = c PROVE Starts(m, c)
  BY <1>1, <1>3, <1>5 DEF Starts
<1> QED BY <1>1, <1>4, <1>5 DEF s

LEMMA MemoryIs ==
  ASSUME NEW m, Memory(m)
  PROVE  DOMAIN m = 1..Storage /\ Len(m) = Storage /\ Cells(m) /\ m # Nothing
<1>1. DOMAIN m = 1..Storage
  BY DEF Memory
<1>2. m \in [1..Storage -> {m[i] : i \in 1..Storage}] /\ Storage \in Nat
  BY DEF Memory, Storage
<1>3. m \in Seq({m[i] : i \in 1..Storage})
  BY <1>2, SeqDef
<1>4. Len(m) = Storage
  BY <1>1, <1>2, <1>3, LenProperties DEF Storage
<1>5. Len(m) # Len(Nothing)
  BY <1>4 DEF Nothing, Storage
<1>6. Cells(m)
  BY <1>3 DEF Cells
<1> QED BY <1>1, <1>4, <1>5, <1>6

LEMMA SizesAre ==
  /\ DOMAIN SizeOf = {"AF_INET", "AF_INET6", "AF_UNIX"}
  /\ SizeOf["AF_INET"] = 4 /\ SizeOf["AF_INET6"] = 6 /\ SizeOf["AF_UNIX"] = 7
BY DEF SizeOf

(* The cells of an address. *)
Cells4(c, ip, port) ==
  /\ Cells(c) /\ Len(c) = 4 /\ c[1] = <<"family", "AF_INET">>
  /\ c[2] = <<"port", port>> /\ c[3] = <<"ip", ip>>

Cells6(c, ip, port) ==
  /\ Cells(c) /\ Len(c) = 6 /\ c[1] = <<"family", "AF_INET6">>
  /\ c[2] = <<"port", port>> /\ c[4] = <<"ip", ip>> /\ c[5] = <<"ip", ip>>

CellsPath(c, path) ==
  /\ Cells(c) /\ Len(c) \in {2, 7} /\ c[1] = <<"family", "AF_UNIX">>
  /\ c[2] = <<"path", path>>

PathCells(path) ==
  <<<<"family", "AF_UNIX">>, <<"path", path>>, Zero, Zero, Zero, Zero, Zero>>

LEMMA CellsOf4 ==
  ASSUME NEW h \in DOMAIN Ipv4, NEW p
  PROVE  Cells4(Expected(h, p), h, p) /\ Expected(h, p)[4] = Zero
<1>1. Expected(h, p) = <<<<"family", "AF_INET">>, <<"port", p>>, <<"ip", h>>, Zero>>
  BY HostsAre DEF Expected
<1>2. ASSUME NEW a, NEW b, NEW c, NEW d
      PROVE  Cells(<<a, b, c, d>>) /\ Len(<<a, b, c, d>>) = 4
  <2>1. <<a, b, c, d>> \in Seq({a, b, c, d}) /\ Len(<<a, b, c, d>>) = 4
    OBVIOUS
  <2> QED BY <2>1, CellsOf
<1>3. Cells(Expected(h, p)) /\ Len(Expected(h, p)) = 4
  BY <1>1, <1>2
<1>4. ASSUME NEW a, NEW b, NEW c, NEW d
      PROVE  LET t == <<a, b, c, d>> IN t[1] = a /\ t[2] = b /\ t[3] = c /\ t[4] = d
  OBVIOUS
<1>5. PICK c : c = Expected(h, p)
  OBVIOUS
<1>6. /\ c[1] = <<"family", "AF_INET">> /\ c[2] = <<"port", p>> /\ c[3] = <<"ip", h>>
      /\ c[4] = Zero
  BY <1>1, <1>4, <1>5
<1> QED BY <1>3, <1>5, <1>6 DEF Cells4

LEMMA CellsOf6 ==
  ASSUME NEW h \in DOMAIN Ipv6, NEW p
  PROVE  /\ Cells6(Expected(h, p), Ipv6[h], p)
         /\ Expected(h, p)[3] = Zero /\ Expected(h, p)[6] = Zero
         /\ Expected(Ipv6[h], p) = Expected(h, p)
<1>1. h \notin DOMAIN Ipv4 /\ Ipv6[h] \in DOMAIN Ipv6 /\ Ipv6[h] \notin DOMAIN Ipv4
      /\ Ipv6[Ipv6[h]] = Ipv6[h]
  BY HostsAre
<1>2. PICK ip : ip = Ipv6[h]
  OBVIOUS
<1>3. Expected(h, p) = <<<<"family", "AF_INET6">>, <<"port", p>>, Zero, <<"ip", ip>>,
                         <<"ip", ip>>, Zero>>
  BY <1>1, <1>2 DEF Expected
<1>4. Expected(Ipv6[h], p) = Expected(h, p)
  BY <1>1, <1>2, <1>3 DEF Expected
<1>5. ASSUME NEW a, NEW b, NEW c, NEW d, NEW e, NEW f
      PROVE  Cells(<<a, b, c, d, e, f>>) /\ Len(<<a, b, c, d, e, f>>) = 6
  <2>1. /\ <<a, b, c, d, e, f>> \in Seq({a, b, c, d, e, f})
        /\ Len(<<a, b, c, d, e, f>>) = 6
    OBVIOUS
  <2> QED BY <2>1, CellsOf
<1>6. Cells(Expected(h, p)) /\ Len(Expected(h, p)) = 6
  BY <1>3, <1>5
<1>7. ASSUME NEW a, NEW b, NEW c, NEW d, NEW e, NEW f
      PROVE  LET t == <<a, b, c, d, e, f>>
             IN  /\ t[1] = a /\ t[2] = b /\ t[3] = c
                 /\ t[4] = d /\ t[5] = e /\ t[6] = f
  OBVIOUS
<1>8. PICK c : c = Expected(h, p)
  OBVIOUS
<1>9. /\ c[1] = <<"family", "AF_INET6">> /\ c[2] = <<"port", p>> /\ c[3] = Zero
      /\ c[4] = <<"ip", ip>> /\ c[5] = <<"ip", ip>> /\ c[6] = Zero
  BY <1>3, <1>7, <1>8
<1> QED BY <1>2, <1>4, <1>6, <1>8, <1>9 DEF Cells6

LEMMA CellsOfPath ==
  ASSUME NEW t
  PROVE  /\ CellsPath(PathCells(t), t) /\ Len(PathCells(t)) = 7
         /\ \A i \in 3..7 : PathCells(t)[i] = Zero
<1>1. ASSUME NEW a, NEW b, NEW c
      PROVE  /\ Cells(<<a, b, c, c, c, c, c>>)
             /\ Len(<<a, b, c, c, c, c, c>>) = 7
             /\ \A i \in 3..7 : <<a, b, c, c, c, c, c>>[i] = c
  <2>1. /\ <<a, b, c, c, c, c, c>> \in Seq({a, b, c})
        /\ Len(<<a, b, c, c, c, c, c>>) = 7
        /\ \A i \in 3..7 : <<a, b, c, c, c, c, c>>[i] = c
    OBVIOUS
  <2> QED BY <2>1, CellsOf
<1>2. Cells(PathCells(t)) /\ Len(PathCells(t)) = 7
      /\ \A i \in 3..7 : PathCells(t)[i] = Zero
  BY <1>1 DEF PathCells
<1>3. PICK c : c = PathCells(t)
  OBVIOUS
<1>4. c[1] = <<"family", "AF_UNIX">> /\ c[2] = <<"path", t>>
  BY <1>3 DEF PathCells
<1>5. Len(c) \in {2, 7}
  BY <1>2, <1>3
<1> QED BY <1>2, <1>3, <1>4, <1>5 DEF CellsPath

(* What build() leaves starts with the cells of the address, whatever the  *)
(* object held before; nothing that is compared later is left of that.     *)
LEMMA BuildIpIs ==
  ASSUME NEW m, Memory(m), NEW h \in Hosts, NEW p
  PROVE  /\ Memory(BuildIp(m, h, p)) /\ Starts(BuildIp(m, h, p), Expected(h, p))
         /\ SizeOf[Family(BuildIp(m, h, p))] = Len(Expected(h, p))
<1> DEFINE b == BuildIp(m, h, p)
<1>0. DOMAIN m = 1..8 /\ Storage = 8
  BY DEF Memory, Storage
<1>1. CASE h \in DOMAIN Ipv4
  <2>1. b = [[m EXCEPT ![1] = <<"family", "AF_INET">>, ![4] = Zero]
               EXCEPT ![2] = <<"port", p>>, ![3] = <<"ip", Ipv4[h]>>]
    BY <1>1, HostsAre DEF BuildIp, Build4, WriteIp
  <2> HIDE DEF b
  <2>2. Memory(b)
    BY <1>0, <2>1 DEF Memory
  <2>3. /\ b[1] = <<"family", "AF_INET">> /\ b[2] = <<"port", p>> /\ b[3] = <<"ip", h>>
        /\ b[4] = Zero
    BY <1>0, <1>1, <2>1, HostsAre
  <2>4. PICK c : c = Expected(h, p)
    OBVIOUS
  <2>5. /\ Len(c) = 4 /\ c[1] = <<"family", "AF_INET">> /\ c[2] = <<"port", p>>
        /\ c[3] = <<"ip", h>> /\ c[4] = Zero
    BY <1>1, <2>4, CellsOf4 DEF Cells4
  <2>6. Starts(b, c)
    BY <2>3, <2>5 DEF Starts
  <2>7. SizeOf[Family(b)] = 4
    <3>1. Family(b) = "AF_INET"
      BY <2>3 DEF Family
    <3> QED BY <3>1, SizesAre
  <2> QED BY <2>2, <2>4, <2>5, <2>6, <2>7 DEF b
<1>2. CASE h \in DOMAIN Ipv6
  <2>1. b = [[m EXCEPT ![1] = <<"family", "AF_INET6">>, ![3] = Zero, ![6] = Zero]
               EXCEPT ![2] = <<"port", p>>, ![4] = <<"ip", Ipv6[h]>>,
                      ![5] = <<"ip", Ipv6[h]>>]
    <3>1. BuildIp(m, h, p) = Build6(m, h, p)
      BY <1>2, HostsAre DEF BuildIp
    <3> QED BY <3>1 DEF Build6, WriteIp
  <2> HIDE DEF b
  <2>2. Memory(b)
    BY <1>0, <2>1 DEF Memory
  <2>3. /\ b[1] = <<"family", "AF_INET6">> /\ b[2] = <<"port", p>> /\ b[3] = Zero
        /\ b[4] = <<"ip", Ipv6[h]>> /\ b[5] = <<"ip", Ipv6[h]>> /\ b[6] = Zero
    BY <1>0, <2>1
  <2>4. PICK c : c = Expected(h, p)
    OBVIOUS
  <2>5. /\ Len(c) = 6 /\ c[1] = <<"family", "AF_INET6">> /\ c[2] = <<"port", p>>
        /\ c[3] = Zero /\ c[4] = <<"ip", Ipv6[h]>> /\ c[5] = <<"ip", Ipv6[h]>>
        /\ c[6] = Zero
    BY <1>2, <2>4, CellsOf6 DEF Cells6
  <2>6. Starts(b, c)
    BY <2>3, <2>5 DEF Starts
  <2>7. SizeOf[Family(b)] = 6
    <3>1. Family(b) = "AF_INET6"
      BY <2>3 DEF Family
    <3> QED BY <3>1, SizesAre
  <2> QED BY <2>2, <2>4, <2>5, <2>6, <2>7 DEF b
<1> QED BY <1>1, <1>2 DEF Hosts

LEMMA BuildPathIs ==
  ASSUME NEW m, NEW n \in {7, Storage}, m = [i \in 1..n |-> m[i]], NEW t
  PROVE  /\ BuildPath(m, t) = [i \in 1..n |-> BuildPath(m, t)[i]]
         /\ Starts(BuildPath(m, t), PathCells(t))
<1>1. PICK c : c = PathCells(t)
  OBVIOUS
<1>2. Len(c) = 7
  BY <1>1, CellsOfPath
<1>3. BuildPath(m, t) = Over(m, c, 7)
  BY <1>1 DEF BuildPath, PathCells
<1>4. Over(m, c, 7) = [i \in 1..n |-> IF i <= 7 /\ i <= 7 THEN c[i] ELSE m[i]]
  BY <1>2 DEF Over
<1>5. \A i \in 1..7 : i \in 1..n /\ i <= 7
  BY DEF Storage
<1> QED BY <1>1, <1>2, <1>3, <1>4, <1>5 DEF Starts

(* The texts that build() accepts, and the cells that it makes of them. *)
Accepts(t) == LET ip == ExtractIpPort(t)
              IN IF ip # Nothing THEN ip[1] \in Hosts ELSE IsPath(t)

Bytes(t) == LET ip == ExtractIpPort(t)
            IN IF ip # Nothing THEN Expected(ip[1], ip[2]) ELSE PathCells(t)

LEMMA BuildIs ==
  ASSUME NEW m, Memory(m), NEW t
  PROVE  /\ ~Accepts(t) => Build(m, t) = Nothing
         /\ Accepts(t) => /\ Build(m, t) # Nothing /\ Memory(Build(m, t))
                          /\ Starts(Build(m, t), Bytes(t))
                          /\ SizeOf[Family(Build(m, t))] = Len(Bytes(t))
<1>1. PICK ip : ip = ExtractIpPort(t)
  OBVIOUS
<1>2. CASE ip # Nothing
  <2>1. Build(m, t) = BuildIp(m, ip[1], ip[2])
    BY <1>1, <1>2 DEF Build
  <2>2. Accepts(t) <=> ip[1] \in Hosts
    BY <1>1, <1>2 DEF Accepts
  <2>3. ASSUME ip[1] \notin Hosts PROVE Build(m, t) = Nothing
    BY <2>1, <2>3 DEF BuildIp, Hosts
  <2>4. Bytes(t) = Expected(ip[1], ip[2])
    BY <1>1, <1>2 DEF Bytes
  <2>5. ASSUME ip[1] \in Hosts
        PROVE  /\ Memory(BuildIp(m, ip[1], ip[2]))
               /\ Starts(BuildIp(m, ip[1], ip[2]), Expected(ip[1], ip[2]))
               /\ SizeOf[Family(BuildIp(m, ip[1], ip[2]))] = Len(Expected(ip[1], ip[2]))
    BY <2>5, BuildIpIs
  <2> QED BY <2>1, <2>2, <2>3, <2>4, <2>5, MemoryIs
<1>3. CASE ip = Nothing
  <2>1. Accepts(t) <=> IsPath(t)
    BY <1>1, <1>3 DEF Accepts
  <2>2. ~IsPath(t) => Build(m, t) = Nothing
    BY <1>1, <1>3 DEF Build
  <2>3. ASSUME IsPath(t)
        PROVE  /\ Memory(Build(m, t)) /\ Starts(Build(m, t), Bytes(t))
               /\ SizeOf[Family(Build(m, t))] = Len(Bytes(t))
    <3>1. Build(m, t) = BuildPath(m, t)
      BY <1>1, <1>3, <2>3 DEF Build
    <3>2. PICK b : b = BuildPath(m, t)
      OBVIOUS
    <3>3. Memory(b) /\ Starts(b, PathCells(t))
      <4>1. Storage \in {7, Storage} /\ m = [i \in 1..Storage |-> m[i]]
        BY DEF Memory
      <4>2. /\ BuildPath(m, t) = [i \in 1..Storage |-> BuildPath(m, t)[i]]
            /\ Starts(BuildPath(m, t), PathCells(t))
        BY <4>1, BuildPathIs
      <4> QED BY <3>2, <4>2 DEF Memory
    <3>4. Bytes(t) = PathCells(t) /\ Len(PathCells(t)) = 7
          /\ PathCells(t)[1] = <<"family", "AF_UNIX">>
      BY <1>1, <1>3, CellsOfPath DEF Bytes, CellsPath
    <3>5. b[1] = <<"family", "AF_UNIX">>
      <4>1. 1 \in 1..Len(PathCells(t))
        BY <3>4
      <4> QED BY <3>3, <3>4, <4>1 DEF Starts
    <3>6. SizeOf[Family(b)] = 7
      <4>1. Family(b) = "AF_UNIX"
        BY <3>5 DEF Family
      <4> QED BY <4>1, SizesAre
    <3> QED BY <3>1, <3>2, <3>3, <3>4, <3>6
  <2> QED BY <2>1, <2>2, <2>3, MemoryIs
<1> QED BY <1>2, <1>3

(* What is in them. *)
LEMMA BytesAre ==
  ASSUME NEW t \in Seq(Tokens), Accepts(t)
  PROVE  \/ \E h \in DOMAIN Ipv4, p \in 1..MaxPort :
              /\ Bytes(t) = Expected(h, p) /\ Cells4(Bytes(t), h, p)
              /\ ExtractIpPort(t) = <<h, p>>
         \/ \E h \in DOMAIN Ipv6, p \in 1..MaxPort :
              /\ Bytes(t) = Expected(h, p) /\ Cells6(Bytes(t), Ipv6[h], p)
              /\ ExtractIpPort(t) = <<h, p>>
         \/ /\ ExtractIpPort(t) = Nothing /\ IsPath(t)
            /\ Bytes(t) = PathCells(t) /\ CellsPath(Bytes(t), t)
<1>1. CASE ExtractIpPort(t) # Nothing
  <2>1. PICK h, p : ExtractIpPort(t) = <<h, p>> /\ p \in 1..MaxPort
    BY <1>1, ParsesOnlyDenoted
  <2>2. h \in Hosts /\ Bytes(t) = Expected(h, p)
    BY <1>1, <2>1 DEF Accepts, Bytes
  <2> QED BY <2>1, <2>2, CellsOf4, CellsOf6 DEF Hosts
<1>2. CASE ExtractIpPort(t) = Nothing
  BY <1>2, CellsOfPath DEF Accepts, Bytes
<1> QED BY <1>1, <1>2

(* The addresses that build() makes: of a host and a port, which may be 0  *)
(* only when the caller gave it beside the host, or of a path.             *)
Made(c) ==
  \/ \E h \in Hosts, p \in 0..MaxPort : c = Expected(h, p)
  \/ \E t \in Seq(Tokens) :
       ExtractIpPort(t) = Nothing /\ IsPath(t) /\ c = PathCells(t)

LEMMA MadeIs ==
  ASSUME NEW c, Made(c)
  PROVE  \/ \E h \in DOMAIN Ipv4, p \in 0..MaxPort : c = Expected(h, p) /\ Cells4(c, h, p)
         \/ \E h \in DOMAIN Ipv6, p \in 0..MaxPort :
              c = Expected(h, p) /\ Cells6(c, Ipv6[h], p)
         \/ \E t \in Seq(Tokens) :
              /\ ExtractIpPort(t) = Nothing /\ IsPath(t)
              /\ c = PathCells(t) /\ CellsPath(c, t)
<1>1. CASE \E h \in Hosts, p \in 0..MaxPort : c = Expected(h, p)
  BY <1>1, CellsOf4, CellsOf6 DEF Hosts
<1>2. CASE \E t \in Seq(Tokens) :
             ExtractIpPort(t) = Nothing /\ IsPath(t) /\ c = PathCells(t)
  BY <1>2, CellsOfPath
<1> QED BY <1>1, <1>2 DEF Made

LEMMA BytesMade ==
  ASSUME NEW t \in Seq(Tokens), Accepts(t)
  PROVE  Made(Bytes(t))
<1>1. \A p \in 1..MaxPort : p \in 0..MaxPort
  BY PortsAre
<1> QED BY <1>1, BytesAre DEF Made, Hosts

(* The addresses that the kernel gives. *)
LEMMA PeersAre ==
  ASSUME NEW c \in Peers
  PROVE  \/ Cells4(c, <<"quad">>, 7)
         \/ Cells6(c, <<"::", "7">>, 7)
         \/ Cells(c) /\ Len(c) = 1 /\ c[1] = <<"family", "AF_UNIX">>
         \/ \E path \in {<<"p">>, <<"nul", "p">>, <<"name107">>} : CellsPath(c, path)
<1>1. ASSUME c = <<<<"family", "AF_INET">>, <<"port", 7>>, <<"ip", <<"quad">>>>, Zero>>
      PROVE  Cells4(c, <<"quad">>, 7)
  <2>1. c = Expected(<<"quad">>, 7) /\ <<"quad">> \in DOMAIN Ipv4
    BY <1>1, HostsAre DEF Expected
  <2> QED BY <2>1, CellsOf4
<1>2. ASSUME NEW ip, NEW scope,
             c = <<<<"family", "AF_INET6">>, <<"port", 7>>, Zero, <<"ip", ip>>,
                   <<"ip", ip>>, scope>>
      PROVE  Cells6(c, ip, 7)
  <2>1. ASSUME NEW a, NEW b, NEW d, NEW e, NEW f
        PROVE  LET t == <<a, b, d, e, e, f>>
               IN  /\ Cells(t) /\ Len(t) = 6
                   /\ t[1] = a /\ t[2] = b /\ t[4] = e /\ t[5] = e
    <3> DEFINE t == <<a, b, d, e, e, f>>
    <3>1. /\ t \in Seq({a, b, d, e, f}) /\ Len(t) = 6
          /\ t[1] = a /\ t[2] = b /\ t[4] = e /\ t[5] = e
      OBVIOUS
    <3> HIDE DEF t
    <3>2. Cells(t)
      BY <3>1, CellsOf
    <3> QED BY <3>1, <3>2 DEF t
  <2>2. /\ Cells(c) /\ Len(c) = 6
        /\ c[1] = <<"family", "AF_INET6">> /\ c[2] = <<"port", 7>>
        /\ c[4] = <<"ip", ip>> /\ c[5] = <<"ip", ip>>
    BY <1>2, <2>1
  <2> QED BY <2>2 DEF Cells6
<1>3. ASSUME c = <<<<"family", "AF_UNIX">>>>
      PROVE  Cells(c) /\ Len(c) = 1 /\ c[1] = <<"family", "AF_UNIX">>
  <2>1. c \in Seq({<<"family", "AF_UNIX">>}) /\ Len(c) = 1 /\ c[1] = <<"family", "AF_UNIX">>
    BY <1>3
  <2> QED BY <2>1, CellsOf
<1>4. ASSUME NEW path, c = <<<<"family", "AF_UNIX">>, <<"path", path>>>>
      PROVE  CellsPath(c, path)
  <2>1. ASSUME NEW a, NEW b
        PROVE  LET t == <<a, b>>
               IN t \in Seq({a, b}) /\ Len(t) = 2 /\ t[1] = a /\ t[2] = b
    OBVIOUS
  <2>2. /\ c \in Seq({<<"family", "AF_UNIX">>, <<"path", path>>}) /\ Len(c) = 2
        /\ c[1] = <<"family", "AF_UNIX">> /\ c[2] = <<"path", path>>
    BY <1>4, <2>1
  <2> QED BY <2>2, CellsOf DEF CellsPath
<1>5. ASSUME c = <<<<"family", "AF_UNIX">>, <<"path", <<"name107">>>>, Zero, Zero, Zero,
                   Zero, Zero>>
      PROVE  CellsPath(c, <<"name107">>)
  <2>1. c = PathCells(<<"name107">>)
    BY <1>5 DEF PathCells
  <2> QED BY <2>1, CellsOfPath
<1> QED BY <1>1, <1>2, <1>3, <1>4, <1>5 DEF Peers

LEMMA PeerSize ==
  ASSUME NEW c \in Peers
  PROVE  /\ Cells(c) /\ Len(c) \in {1, 2, 4, 6, 7} /\ Family(c) \in DOMAIN SizeOf
         /\ Family(c) = "AF_INET" => Len(c) = 4
         /\ Family(c) = "AF_INET6" => Len(c) = 6
<1>1. CASE Cells4(c, <<"quad">>, 7)
  BY <1>1, SizesAre DEF Cells4, Family
<1>2. CASE Cells6(c, <<"::", "7">>, 7)
  BY <1>2, SizesAre DEF Cells6, Family
<1>3. CASE Cells(c) /\ Len(c) = 1 /\ c[1] = <<"family", "AF_UNIX">>
  BY <1>3, SizesAre DEF Family
<1>4. CASE \E path \in {<<"p">>, <<"nul", "p">>, <<"name107">>} : CellsPath(c, path)
  BY <1>4, SizesAre DEF CellsPath, Family
<1> QED BY <1>1, <1>2, <1>3, <1>4, PeersAre

-----------------------------------------------------------------------------
(* The inductive invariant: an object has the content that its history     *)
(* says, and the length of it.                                             *)

Content(m, n, source) ==
  /\ Memory(m) /\ n \in 1..Storage
  /\ source = "none" => n = Storage
  /\ source = "text" =>
       \E c : Made(c) /\ n = Len(c) /\ Starts(m, c)
  /\ source \in {"peer", "sockaddr"} =>
       \E peer \in Peers : n = Len(peer) /\ Starts(m, peer)
  /\ source \in {"none", "text", "peer", "sockaddr", "reused"}

Objects ==
  /\ DOMAIN mem = Object /\ DOMAIN len = Object /\ DOMAIN from = Object
  /\ \A a \in Object : Content(mem[a], len[a], from[a])

(* An object of a class: what its constructor wrote, and what build() did. *)
Constructed(f, m) ==
  /\ m[1] = <<"family", f>>
  /\ f = "AF_INET" => m[4] = Zero
  /\ f = "AF_INET6" => m[3] = Zero /\ m[6] = Zero

(* A host and a port are what build() was given, or in its text. *)
Gives(given, h, p) ==
  IF given[2] = NoPort THEN ExtractIpPort(given[1]) = <<h, p>>
  ELSE given[1] = h /\ given[2] = p

BuiltTyped(f, m, given) ==
  /\ given[1] \in Seq(Tokens)
  /\ \/ f = "AF_UNIX" /\ given[2] = NoPort /\ m = PathCells(given[1])
     \/ \E h \in Hosts : \E p :
          /\ Gives(given, h, p) /\ m = Expected(h, p)
          /\ f = IF h \in DOMAIN Ipv4 THEN "AF_INET" ELSE "AF_INET6"

TypedContent(f, m, source, given) ==
  /\ DOMAIN m = 1..SizeOf[f] /\ m = [i \in DOMAIN m |-> m[i]]
  /\ source \in {"none", "port", "text"} => Constructed(f, m)
  /\ source = "text" => BuiltTyped(f, m, given)
  /\ source \in {"none", "port", "text", "sockaddr", "mixed"}

TypedObjects ==
  /\ DOMAIN typed = DOMAIN SizeOf /\ DOMAIN origin = DOMAIN SizeOf
  /\ DOMAIN basis = DOMAIN SizeOf
  /\ \A f \in DOMAIN SizeOf : TypedContent(f, typed[f], origin[f], basis[f])

Contents == texts \in TextSets /\ Objects /\ TypedObjects

LEMMA InitContents == Init => Contents
<1> SUFFICES ASSUME Init PROVE Contents
  OBVIOUS
<1>1. Objects
  <2>1. ASSUME NEW a \in Object PROVE Content(mem[a], len[a], from[a])
    <3>1. mem[a] = [i \in 1..Storage |-> Junk] /\ len[a] = Storage /\ from[a] = "none"
      BY DEF Init
    <3> QED BY <3>1 DEF Content, Memory, Storage
  <2> QED BY <2>1 DEF Init, Objects
<1>2. TypedObjects
  <2>1. ASSUME NEW f \in DOMAIN SizeOf PROVE TypedContent(f, typed[f], origin[f], basis[f])
    <3>1. typed[f] = Construct(f) /\ origin[f] = "none"
      BY DEF Init
    <3>2. PICK m : m = Construct(f)
      OBVIOUS
    <3>3. DOMAIN m = 1..SizeOf[f] /\ m = [i \in DOMAIN m |-> m[i]]
      BY <3>2 DEF Construct
    <3>4. Constructed(f, m)
      BY <3>2, SizesAre DEF Construct, Constructed
    <3> QED BY <3>1, <3>2, <3>3, <3>4 DEF TypedContent
  <2> QED BY <2>1 DEF Init, TypedObjects
<1> QED BY <1>1, <1>2 DEF Init, Contents

(* Assignments copy the content. *)
LEMMA OverStarts ==
  ASSUME NEW m, Memory(m), NEW c, NEW n \in Nat, NEW l \in Nat, l = Len(c),
         NEW d, NEW k \in Nat, k = Len(d), k <= Storage, k <= n, k <= l, Starts(c, d)
  PROVE  Memory(Over(m, c, n)) /\ Starts(Over(m, c, n), d)
<1>1. Over(m, c, n) = [i \in 1..Storage |-> IF i <= n /\ i <= l THEN c[i] ELSE m[i]]
  BY MemoryIs DEF Over
<1>2. \A i \in 1..k : i \in 1..Storage /\ i <= n /\ i <= l
  BY DEF Storage
<1>3. PICK o : o = Over(m, c, n)
  OBVIOUS
<1>4. Memory(o)
  BY <1>1, <1>3 DEF Memory
<1>5. ASSUME NEW i \in 1..k PROVE o[i] = d[i]
  BY <1>1, <1>2, <1>3 DEF Starts
<1> QED BY <1>3, <1>4, <1>5 DEF Starts

LEMMA OverMemory ==
  ASSUME NEW m, Memory(m), NEW c, NEW n
  PROVE  Memory(Over(m, c, n))
BY MemoryIs DEF Over, Memory

LEMMA TextsAre ==
  ASSUME Contents, NEW t \in texts
  PROVE  t \in Seq(Tokens)
<1>1. t \in Seq(STRING) /\ STRING \subseteq Tokens
  BY AddressAssumption DEF Contents, Tokens
<1> QED BY <1>1, SeqMonotonic

LEMMA MadeSize ==
  ASSUME NEW c, Made(c)
  PROVE  Cells(c) /\ Len(c) \in {4, 6, 7}
<1>1. CASE \E h \in DOMAIN Ipv4, p \in 0..MaxPort : Cells4(c, h, p)
  BY <1>1 DEF Cells4
<1>2. CASE \E h \in DOMAIN Ipv6, p \in 0..MaxPort : Cells6(c, Ipv6[h], p)
  BY <1>2 DEF Cells6
<1>3. CASE \E t : c = PathCells(t) /\ CellsPath(c, t)
  BY <1>3, CellsOfPath DEF CellsPath
<1> QED BY <1>1, <1>2, <1>3, MadeIs

(* What the source of a content says of it survives a copy of n cells. *)
LEMMA CopyContent ==
  ASSUME NEW m, Memory(m), NEW o, NEW n, NEW source, Content(o, n, source)
  PROVE  Content(Over(m, o, n), n, source)
<1> DEFINE w == Over(m, o, n)
<1>1. Memory(o) /\ n \in 1..Storage /\ Storage \in Nat /\ Len(o) = Storage
  BY MemoryIs DEF Content, Storage
<1>2. Memory(w)
  BY OverMemory
<1>3. ASSUME NEW d, n = Len(d), Starts(o, d) PROVE Starts(w, d)
  BY <1>1, <1>3, OverStarts
<1> HIDE DEF w
<1>4. ASSUME source = "text"
      PROVE  \E c : Made(c) /\ n = Len(c) /\ Starts(w, c)
  BY <1>3, <1>4 DEF Content
<1>5. ASSUME source \in {"peer", "sockaddr"}
      PROVE  \E peer \in Peers : n = Len(peer) /\ Starts(w, peer)
  BY <1>3, <1>5 DEF Content
<1>6. Content(w, n, source)
  BY <1>2, <1>4, <1>5 DEF Content
<1> QED BY <1>6 DEF w

(* A sockaddr that is stored in at least as many cells as it has. *)
LEMMA StorePeer ==
  ASSUME NEW m, Memory(m), NEW peer \in Peers, NEW n \in Nat, Len(peer) <= n,
         NEW source \in {"peer", "sockaddr"}
  PROVE  Content(Over(m, peer, n), Len(peer), source)
<1>1. PICK k \in {1, 2, 4, 6, 7} : k = Len(peer)
  BY PeerSize
<1>2. k \in Nat /\ k <= Storage /\ k \in 1..Storage
  BY DEF Storage
<1>3. Starts(peer, peer)
  BY DEF Starts
<1>4. Memory(Over(m, peer, n)) /\ Starts(Over(m, peer, n), peer)
  BY <1>1, <1>2, <1>3, OverStarts
<1> QED BY <1>1, <1>2, <1>4 DEF Content

LEMMA SetKeeps ==
  ASSUME Objects, NEW a \in Object, NEW m, NEW n, NEW source, Set(a, m, n, source),
         Content(m, n, source)
  PROVE  Objects' /\ UNCHANGED <<texts, typed, origin, basis>>
<1>1. /\ mem' = [mem EXCEPT ![a] = m] /\ len' = [len EXCEPT ![a] = n]
      /\ from' = [from EXCEPT ![a] = source] /\ UNCHANGED <<texts, typed, origin, basis>>
  BY DEF Set
<1>2. DOMAIN mem = Object /\ DOMAIN len = Object /\ DOMAIN from = Object
  BY DEF Objects
<1>3. DOMAIN mem' = Object /\ DOMAIN len' = Object /\ DOMAIN from' = Object
  BY <1>1, <1>2
<1>4. ASSUME NEW b \in Object PROVE Content(mem'[b], len'[b], from'[b])
  <2>1. CASE b = a
    <3>1. mem'[b] = m /\ len'[b] = n /\ from'[b] = source
      BY <1>1, <1>2, <2>1
    <3> QED BY <3>1
  <2>2. CASE b # a
    <3>1. mem'[b] = mem[b] /\ len'[b] = len[b] /\ from'[b] = from[b]
      BY <1>1, <1>2, <2>2
    <3> QED BY <3>1 DEF Objects
  <2> QED BY <2>1, <2>2
<1> QED BY <1>1, <1>3, <1>4 DEF Objects

LEMMA BuildAddressKeeps ==
  ASSUME Contents, NEW a \in Object, NEW given, BuildAddress(a, given),
         \/ given[2] = NoPort /\ given[1] \in texts
         \/ given[2] # NoPort /\ given[2] \in Ports
  PROVE  Objects' /\ UNCHANGED <<texts, typed, origin, basis>>
<1>1. PICK m : m = BuildGiven(mem[a], given)
  OBVIOUS
<1>2. m # Nothing /\ Set(a, m, SizeOf[Family(m)], "text")
  BY <1>1 DEF BuildAddress
<1>3. Objects /\ Memory(mem[a])
  BY DEF Contents, Objects, Content
<1>4. \E c : Made(c) /\ Memory(m) /\ Starts(m, c) /\ SizeOf[Family(m)] = Len(c)
  <2>1. CASE given[2] = NoPort /\ given[1] \in texts
    <3>1. PICK t \in texts : t = given[1]
      BY <2>1
    <3>2. m = Build(mem[a], t) /\ t \in Seq(Tokens)
      BY <1>1, <2>1, <3>1, TextsAre DEF BuildGiven
    <3> QED BY <1>2, <1>3, <3>2, BuildIs, BytesMade
  <2>2. CASE given[2] # NoPort /\ given[2] \in Ports
    <3>1. PICK h, p : h = given[1] /\ p = given[2]
      OBVIOUS
    <3>2. m = BuildIp(mem[a], h, p) /\ p \in 0..MaxPort
      BY <1>1, <2>2, <3>1, AddressAssumption DEF BuildGiven
    <3>3. h \in Hosts
      BY <1>2, <3>2 DEF BuildIp, Hosts
    <3>4. Memory(m) /\ Starts(m, Expected(h, p)) /\ SizeOf[Family(m)] = Len(Expected(h, p))
      BY <1>3, <3>2, <3>3, BuildIpIs
    <3>5. Made(Expected(h, p))
      BY <3>2, <3>3 DEF Made
    <3> QED BY <3>4, <3>5
  <2> QED BY <2>1, <2>2
<1>5. SizeOf[Family(m)] \in 1..Storage
  BY <1>4, MadeSize DEF Storage
<1>6. Content(m, SizeOf[Family(m)], "text")
  BY <1>4, <1>5 DEF Content
<1> QED BY <1>2, <1>3, <1>6, SetKeeps

LEMMA BuildTextKeeps ==
  ASSUME Contents, NEW a \in Object, NEW t \in texts, BuildText(a, t)
  PROVE  Objects' /\ UNCHANGED <<texts, typed, origin, basis>>
<1>1. PICK given : given = <<t, NoPort>>
  OBVIOUS
<1>2. BuildAddress(a, given) /\ given[1] = t /\ given[2] = NoPort
  BY <1>1 DEF BuildText
<1> QED BY <1>2, BuildAddressKeeps

LEMMA BuildHostPortKeeps ==
  ASSUME Contents, NEW a \in Object, NEW h, NEW p \in Ports, BuildHostPort(a, h, p)
  PROVE  Objects' /\ UNCHANGED <<texts, typed, origin, basis>>
<1>1. PICK given : given = <<h, p>>
  OBVIOUS
<1>2. BuildAddress(a, given) /\ given[1] = h /\ given[2] = p
  BY <1>1 DEF BuildHostPort
<1>3. p # NoPort
  BY AddressAssumption, PortsAre DEF NoPort
<1> QED BY <1>2, <1>3, BuildAddressKeeps

LEMMA AssignKeeps ==
  ASSUME Contents, NEW a \in Object, NEW b \in Object, Assign(a, b)
  PROVE  Objects' /\ UNCHANGED <<texts, typed, origin, basis>>
<1>1. Objects /\ Memory(mem[a]) /\ Content(mem[b], len[b], from[b])
  BY DEF Contents, Objects, Content
<1>2. Content(Over(mem[a], mem[b], len[b]), len[b], from[b])
  BY <1>1, CopyContent
<1>3. Set(a, Over(mem[a], mem[b], len[b]), len[b], from[b])
  BY DEF Assign
<1> QED BY <1>1, <1>2, <1>3, SetKeeps

LEMMA AssignSockaddrKeeps ==
  ASSUME Contents, NEW a \in Object, NEW peer \in Peers, AssignSockaddr(a, peer)
  PROVE  Objects' /\ UNCHANGED <<texts, typed, origin, basis>>
<1>1. Objects /\ Memory(mem[a])
  BY DEF Contents, Objects, Content
<1>2. PICK n \in Nat : n = Len(peer) /\ Len(peer) <= n
  BY PeerSize
<1>3. Content(Over(mem[a], peer, n), n, "sockaddr")
  BY <1>1, <1>2, StorePeer
<1>4. Set(a, Over(mem[a], peer, n), n, "sockaddr")
  BY <1>2 DEF AssignSockaddr
<1> QED BY <1>1, <1>3, <1>4, SetKeeps

LEMMA AcceptKeeps ==
  ASSUME Contents, NEW a \in Object, NEW peer \in Peers, Accept(a, peer)
  PROVE  Objects' /\ UNCHANGED <<texts, typed, origin, basis>>
<1>1. Objects /\ Content(mem[a], len[a], from[a]) /\ Memory(mem[a])
  BY DEF Contents, Objects, Content
<1>2. PICK source :
        /\ source = IF from[a] = "none" \/ AcceptsAgain(a, peer) THEN "peer" ELSE "reused"
        /\ Set(a, Over(mem[a], peer, len[a]), Len(peer), source)
  BY DEF Accept
<1>3. PICK k \in {1, 2, 4, 6, 7} : k = Len(peer)
  BY PeerSize
<1>4. len[a] \in Nat /\ k \in 1..Storage /\ k <= Storage
  BY <1>1 DEF Content, Storage
<1>5. ASSUME from[a] = "none" \/ AcceptsAgain(a, peer)
      PROVE  k <= len[a]
  <2>1. CASE from[a] = "none"
    BY <1>1, <1>3, <1>4, <2>1 DEF Content
  <2>2. CASE AcceptsAgain(a, peer)
    <3>1. /\ from[a] = "peer" /\ Family(mem[a]) = Family(peer)
          /\ Family(peer) # "AF_UNIX"
      BY <2>2 DEF AcceptsAgain
    <3>2. PICK old \in Peers : len[a] = Len(old) /\ Starts(mem[a], old)
      BY <1>1, <3>1 DEF Content
    <3>3. Family(mem[a]) = Family(old)
      <4>1. PICK o \in {1, 2, 4, 6, 7} : o = Len(old)
        BY PeerSize
      <4>2. 1 \in 1..o
        OBVIOUS
      <4> QED BY <3>2, <4>1, <4>2 DEF Starts, Family
    <3>4. Len(old) = Len(peer)
      <4>1. Family(peer) = "AF_INET" \/ Family(peer) = "AF_INET6"
        BY <3>1, PeerSize, SizesAre
      <4> QED BY <3>1, <3>3, <4>1, PeerSize
    <3> QED BY <1>3, <3>2, <3>4
  <2> QED BY <1>5, <2>1, <2>2
<1>6. Content(Over(mem[a], peer, len[a]), Len(peer), source)
  <2>1. CASE source = "peer"
    <3>1. k <= len[a]
      BY <1>2, <1>5, <2>1
    <3>2. Len(peer) <= len[a]
      BY <1>3, <3>1
    <3> QED BY <1>1, <1>4, <2>1, <3>2, StorePeer
  <2>2. CASE source # "peer"
    <3>1. source = "reused" /\ Len(peer) \in 1..Storage
      BY <1>2, <1>3, <1>4, <2>2
    <3> QED BY <1>1, <3>1, OverMemory DEF Content
  <2> QED BY <2>1, <2>2
<1> QED BY <1>1, <1>2, <1>6, SetKeeps

LEMMA SetTypedKeeps ==
  ASSUME TypedObjects, NEW f \in DOMAIN SizeOf, NEW m, NEW source, NEW given,
         SetTyped(f, m, source, given), TypedContent(f, m, source, given)
  PROVE  TypedObjects' /\ UNCHANGED <<texts, mem, len, from>>
<1>1. /\ typed' = [typed EXCEPT ![f] = m] /\ origin' = [origin EXCEPT ![f] = source]
      /\ basis' = [basis EXCEPT ![f] = given]
      /\ UNCHANGED <<texts, mem, len, from>>
  BY DEF SetTyped
<1>2. /\ DOMAIN typed = DOMAIN SizeOf /\ DOMAIN origin = DOMAIN SizeOf
      /\ DOMAIN basis = DOMAIN SizeOf
  BY DEF TypedObjects
<1>3. /\ DOMAIN typed' = DOMAIN SizeOf /\ DOMAIN origin' = DOMAIN SizeOf
      /\ DOMAIN basis' = DOMAIN SizeOf
  BY <1>1, <1>2
<1>4. ASSUME NEW g \in DOMAIN SizeOf
      PROVE  TypedContent(g, typed'[g], origin'[g], basis'[g])
  <2>1. CASE g = f
    <3>1. typed'[g] = m /\ origin'[g] = source /\ basis'[g] = given
      BY <1>1, <1>2, <2>1
    <3> QED BY <2>1, <3>1
  <2>2. CASE g # f
    <3>1. typed'[g] = typed[g] /\ origin'[g] = origin[g] /\ basis'[g] = basis[g]
      BY <1>1, <1>2, <2>2
    <3> QED BY <3>1 DEF TypedObjects
  <2> QED BY <2>1, <2>2
<1> QED BY <1>1, <1>3, <1>4 DEF TypedObjects

(* Bytes that have the cells of an address, and no other, are the address. *)
LEMMA SameCells ==
  ASSUME NEW m, NEW n \in Nat, m = [i \in 1..n |-> m[i]], NEW c, Cells(c), Len(c) = n,
         Starts(m, c)
  PROVE  m = c
<1>1. PICK T : c \in Seq(T)
  BY DEF Cells
<1>2. DOMAIN c = 1..n /\ c \in [1..n -> T]
  BY <1>1, LenProperties
<1>3. \A i \in 1..n : m[i] = c[i]
  BY DEF Starts
<1>4. c = [i \in 1..n |-> c[i]]
  BY <1>2
<1> QED BY <1>3, <1>4

LEMMA PathBuilt ==
  ASSUME NEW m, m = [i \in DOMAIN m |-> m[i]], DOMAIN m = 1..SizeOf["AF_UNIX"], NEW t
  PROVE  /\ BuildPath(m, t) = [i \in 1..7 |-> BuildPath(m, t)[i]]
         /\ BuildPath(m, t) = PathCells(t)
<1>1. m = [i \in 1..7 |-> m[i]] /\ 7 \in {7, Storage}
  BY SizesAre
<1>2. PICK b : b = BuildPath(m, t)
  OBVIOUS
<1>3. b = [i \in 1..7 |-> b[i]] /\ Starts(b, PathCells(t))
  BY <1>1, <1>2, BuildPathIs
<1>4. Cells(PathCells(t)) /\ Len(PathCells(t)) = 7
  BY CellsOfPath DEF CellsPath
<1>5. b = PathCells(t)
  BY <1>3, <1>4, SameCells
<1> QED BY <1>2, <1>3, <1>5

LEMMA PathContent ==
  ASSUME NEW m, m = [i \in DOMAIN m |-> m[i]], DOMAIN m = 1..SizeOf["AF_UNIX"],
         NEW t \in Seq(Tokens), NEW source \in {"text", "mixed"},
         NEW given, given[1] = t, given[2] = NoPort
  PROVE  TypedContent("AF_UNIX", BuildPath(m, t), source, given)
<1>2. PICK b : b = BuildPath(m, t)
  OBVIOUS
<1>3. b = [i \in 1..7 |-> b[i]] /\ b = PathCells(t)
  BY <1>2, PathBuilt
<1>4. b = PathCells(t)
  BY <1>3
<1>5. b[1] = <<"family", "AF_UNIX">>
  BY <1>4, CellsOfPath DEF CellsPath
<1>6. DOMAIN b = 1..SizeOf["AF_UNIX"] /\ b = [i \in DOMAIN b |-> b[i]]
  BY <1>3, SizesAre
<1>7. Constructed("AF_UNIX", b)
  BY <1>5 DEF Constructed
<1>8. BuiltTyped("AF_UNIX", b, given)
  BY <1>4 DEF BuiltTyped
<1> QED BY <1>2, <1>6, <1>7, <1>8 DEF TypedContent

(* ipv4::build() and ipv6::build() write what the constructor did not. *)
LEMMA WriteIpIs ==
  ASSUME NEW f \in {"AF_INET", "AF_INET6"}, NEW m, m = [i \in DOMAIN m |-> m[i]],
         DOMAIN m = 1..SizeOf[f], Constructed(f, m), NEW p,
         NEW h \in IF f = "AF_INET" THEN DOMAIN Ipv4 ELSE DOMAIN Ipv6
  PROVE  WriteIp(m, f, (IF f = "AF_INET" THEN Ipv4 ELSE Ipv6)[h], p) = Expected(h, p)
<1>1. CASE f = "AF_INET"
  <2>1. PICK b : b = [m EXCEPT ![2] = <<"port", p>>, ![3] = <<"ip", h>>]
    OBVIOUS
  <2>2. DOMAIN m = 1..4 /\ m[1] = <<"family", "AF_INET">> /\ m[4] = Zero
    BY <1>1, SizesAre DEF Constructed
  <2>3. /\ b = [i \in 1..4 |-> b[i]] /\ b[1] = <<"family", "AF_INET">>
        /\ b[2] = <<"port", p>> /\ b[3] = <<"ip", h>> /\ b[4] = Zero
    <3>1. b = [i \in 1..4 |-> b[i]]
      BY <2>1, <2>2
    <3>2. \A i \in 1..4 : b[i] = IF i = 3 THEN <<"ip", h>>
                                 ELSE IF i = 2 THEN <<"port", p>> ELSE m[i]
      BY <2>1, <2>2
    <3> QED BY <2>2, <3>1, <3>2
  <2>4. PICK c : c = Expected(h, p)
    OBVIOUS
  <2>5. /\ Cells(c) /\ Len(c) = 4 /\ c[1] = <<"family", "AF_INET">>
        /\ c[2] = <<"port", p>> /\ c[3] = <<"ip", h>> /\ c[4] = Zero
    BY <1>1, <2>4, CellsOf4 DEF Cells4
  <2>6. Starts(b, c)
    BY <2>3, <2>5 DEF Starts
  <2>7. b = c
    BY <2>3, <2>5, <2>6, SameCells
  <2> QED BY <1>1, <2>1, <2>4, <2>7, HostsAre DEF WriteIp
<1>2. CASE f = "AF_INET6"
  <2>0. PICK ip : ip = Ipv6[h]
    OBVIOUS
  <2>1. PICK b : b = [m EXCEPT ![2] = <<"port", p>>, ![4] = <<"ip", ip>>,
                               ![5] = <<"ip", ip>>]
    OBVIOUS
  <2>2. /\ DOMAIN m = 1..6 /\ m[1] = <<"family", "AF_INET6">>
        /\ m[3] = Zero /\ m[6] = Zero
    BY <1>2, SizesAre DEF Constructed
  <2>3. /\ b = [i \in 1..6 |-> b[i]] /\ b[1] = <<"family", "AF_INET6">>
        /\ b[2] = <<"port", p>> /\ b[3] = Zero /\ b[4] = <<"ip", ip>>
        /\ b[5] = <<"ip", ip>> /\ b[6] = Zero
    <3>1. b = [i \in 1..6 |-> b[i]]
      BY <2>1, <2>2
    <3>2. \A i \in 1..6 : b[i] = IF i \in {4, 5} THEN <<"ip", ip>>
                                 ELSE IF i = 2 THEN <<"port", p>> ELSE m[i]
      BY <2>1, <2>2
    <3> QED BY <2>2, <3>1, <3>2
  <2>4. PICK c : c = Expected(h, p)
    OBVIOUS
  <2>5. /\ Cells(c) /\ Len(c) = 6 /\ c[1] = <<"family", "AF_INET6">>
        /\ c[2] = <<"port", p>> /\ c[3] = Zero /\ c[4] = <<"ip", ip>>
        /\ c[5] = <<"ip", ip>> /\ c[6] = Zero
    BY <1>2, <2>0, <2>4, CellsOf6 DEF Cells6
  <2>6. Starts(b, c)
    BY <2>3, <2>5 DEF Starts
  <2>7. b = c
    BY <2>3, <2>5, <2>6, SameCells
  <2> QED BY <1>2, <2>0, <2>1, <2>4, <2>7 DEF WriteIp
<1> QED BY <1>1, <1>2

(* build() of a class for IP, of an object that no sockaddr was stored in. *)
LEMMA TypedIpContent ==
  ASSUME NEW f \in {"AF_INET", "AF_INET6"}, NEW t, t = [i \in DOMAIN t |-> t[i]],
         DOMAIN t = 1..SizeOf[f], NEW source \in {"text", "mixed"},
         source = "text" => Constructed(f, t),
         NEW h, NEW p, NEW m, m = BuildTypedIp(t, f, h, p), m # Nothing,
         NEW given, given[1] \in Seq(Tokens), Gives(given, h, p)
  PROVE  TypedContent(f, m, source, given)
<1> DEFINE Pton == IF f = "AF_INET" THEN Ipv4 ELSE Ipv6
<1>1. h \in DOMAIN Pton /\ m = WriteIp(t, f, Pton[h], p)
  BY DEF BuildTypedIp
<1>2. DOMAIN m = DOMAIN t /\ m = [i \in DOMAIN m |-> m[i]]
  BY <1>1 DEF WriteIp
<1>3. CASE source = "text"
  <2>1. h \in IF f = "AF_INET" THEN DOMAIN Ipv4 ELSE DOMAIN Ipv6
    BY <1>1
  <2>2. m = Expected(h, p)
    BY <1>1, <1>3, <2>1, WriteIpIs
  <2>3. h \in Hosts /\ f = IF h \in DOMAIN Ipv4 THEN "AF_INET" ELSE "AF_INET6"
    BY <2>1, HostsAre DEF Hosts
  <2>4. BuiltTyped(f, m, given)
    BY <2>2, <2>3 DEF BuiltTyped
  <2>5. Constructed(f, m)
    <3>1. CASE f = "AF_INET"
      BY <2>1, <2>2, <3>1, CellsOf4 DEF Constructed, Cells4
    <3>2. CASE f = "AF_INET6"
      BY <2>1, <2>2, <3>2, CellsOf6 DEF Constructed, Cells6
    <3> QED BY <3>1, <3>2
  <2> QED BY <1>2, <1>3, <2>4, <2>5 DEF TypedContent
<1>4. CASE source # "text"
  BY <1>2, <1>4 DEF TypedContent
<1> QED BY <1>3, <1>4

(* An object of a class before its build(). *)
LEMMA TypedBefore ==
  ASSUME Contents, NEW f \in DOMAIN SizeOf
  PROVE  /\ TypedObjects
         /\ typed[f] = [i \in DOMAIN typed[f] |-> typed[f][i]]
         /\ DOMAIN typed[f] = 1..SizeOf[f]
         /\ Mixes(f, "text") \in {"text", "mixed"}
         /\ Mixes(f, "text") = "text" => Constructed(f, typed[f])
<1>1. TypedObjects /\ TypedContent(f, typed[f], origin[f], basis[f])
  BY DEF Contents, TypedObjects
<1> QED BY <1>1 DEF TypedContent, Mixes

LEMMA BuildTypedTextKeeps ==
  ASSUME Contents, NEW f \in DOMAIN SizeOf, NEW text \in texts, BuildTypedText(f, text)
  PROVE  TypedObjects' /\ UNCHANGED <<texts, mem, len, from>>
<1>1. PICK t, m, source, given :
        /\ t = typed[f] /\ m = BuildTyped(t, f, text) /\ m # Nothing
        /\ source = Mixes(f, "text") /\ given = <<text, NoPort>>
        /\ SetTyped(f, m, source, given)
  BY DEF BuildTypedText
<1>2. /\ TypedObjects /\ t = [i \in DOMAIN t |-> t[i]] /\ DOMAIN t = 1..SizeOf[f]
      /\ source \in {"text", "mixed"} /\ (source = "text" => Constructed(f, t))
  BY <1>1, TypedBefore
<1>3. given[1] = text /\ given[2] = NoPort /\ text \in Seq(Tokens)
  BY <1>1, TextsAre
<1>4. TypedContent(f, m, source, given)
  <2>1. CASE f = "AF_UNIX"
    <3>1. m = BuildPath(t, text)
      BY <1>1, <2>1 DEF BuildTyped
    <3> QED BY <1>2, <1>3, <2>1, <3>1, PathContent
  <2>2. CASE f \in {"AF_INET", "AF_INET6"}
    <3>1. PICK ip : ip = ExtractIpPort(text)
      OBVIOUS
    <3>2. ip # Nothing /\ m = BuildTypedIp(t, f, ip[1], ip[2])
      BY <1>1, <2>2, <3>1 DEF BuildTyped
    <3>3. PICK h, p : ip = <<h, p>>
      BY <1>3, <3>1, <3>2, ParsesOnlyDenoted
    <3>4. m = BuildTypedIp(t, f, h, p) /\ Gives(given, h, p)
      BY <1>3, <3>1, <3>2, <3>3 DEF Gives
    <3> QED BY <1>1, <1>2, <1>3, <2>2, <3>4, TypedIpContent
  <2> QED BY <2>1, <2>2, SizesAre
<1> QED BY <1>1, <1>2, <1>4, SetTypedKeeps

LEMMA BuildTypedHostPortKeeps ==
  ASSUME Contents, NEW f \in DOMAIN SizeOf, NEW h \in texts, NEW p \in Ports,
         BuildTypedHostPort(f, h, p)
  PROVE  TypedObjects' /\ UNCHANGED <<texts, mem, len, from>>
<1>1. PICK t, m, source, given :
        /\ t = typed[f] /\ m = BuildTypedIp(t, f, h, p) /\ m # Nothing
        /\ source = Mixes(f, "text") /\ given = <<h, p>>
        /\ SetTyped(f, m, source, given)
  BY DEF BuildTypedHostPort
<1>2. /\ TypedObjects /\ t = [i \in DOMAIN t |-> t[i]] /\ DOMAIN t = 1..SizeOf[f]
      /\ source \in {"text", "mixed"} /\ (source = "text" => Constructed(f, t))
  BY <1>1, TypedBefore
<1>3. given[1] = h /\ given[2] = p /\ h \in Seq(Tokens)
  BY <1>1, TextsAre
<1>4. p # NoPort
  BY AddressAssumption, PortsAre DEF NoPort
<1>5. Gives(given, h, p) /\ f \in {"AF_INET", "AF_INET6"}
  BY <1>3, <1>4, SizesAre DEF Gives, BuildTypedHostPort
<1>6. TypedContent(f, m, source, given)
  BY <1>1, <1>2, <1>3, <1>5, TypedIpContent
<1> QED BY <1>1, <1>2, <1>6, SetTypedKeeps

LEMMA BuildTypedBytesKeeps ==
  ASSUME Contents, NEW text \in texts, BuildTypedBytes(text)
  PROVE  TypedObjects' /\ UNCHANGED <<texts, mem, len, from>>
<1>1. TypedObjects /\ "AF_UNIX" \in DOMAIN SizeOf /\ text \in Seq(Tokens)
  BY SizesAre, TextsAre DEF Contents
<1>2. PICK t, given : t = typed["AF_UNIX"] /\ given = <<text, NoPort>>
  OBVIOUS
<1>3. DOMAIN t = 1..SizeOf["AF_UNIX"] /\ t = [i \in DOMAIN t |-> t[i]]
  BY <1>1, <1>2 DEF TypedObjects, TypedContent
<1>4. given[1] = text /\ given[2] = NoPort
  BY <1>2
<1>5. TypedContent("AF_UNIX", BuildPath(t, text), "text", given)
  BY <1>1, <1>3, <1>4, PathContent
<1>6. SetTyped("AF_UNIX", BuildPath(t, text), "text", given)
  BY <1>2 DEF BuildTypedBytes
<1> QED BY <1>1, <1>5, <1>6, SetTypedKeeps

LEMMA SetPortKeeps ==
  ASSUME Contents, NEW f \in DOMAIN SizeOf, NEW port, SetPort(f, port)
  PROVE  TypedObjects' /\ UNCHANGED <<texts, mem, len, from>>
<1>1. TypedObjects /\ TypedContent(f, typed[f], origin[f], basis[f])
  BY DEF Contents, TypedObjects
<1>2. PICK t, source :
        /\ t = typed[f]
        /\ source = IF origin[f] \in {"sockaddr", "mixed"} THEN "mixed" ELSE "port"
        /\ SetTyped(f, [t EXCEPT ![2] = <<"port", port>>], source, basis[f])
  BY DEF SetPort, Mixes
<1>3. PICK m : m = [t EXCEPT ![2] = <<"port", port>>]
  OBVIOUS
<1>4. DOMAIN t = 1..SizeOf[f] /\ (source = "port" => Constructed(f, t))
  BY <1>1, <1>2 DEF TypedContent
<1>5. DOMAIN m = DOMAIN t /\ m = [i \in DOMAIN m |-> m[i]]
  BY <1>3
<1>6. Constructed(f, t) => Constructed(f, m)
  <2>1. \A i \in DOMAIN t \ {2} : m[i] = t[i]
    BY <1>3
  <2>2. 1 \in DOMAIN t /\ (f = "AF_INET" => 4 \in DOMAIN t)
        /\ (f = "AF_INET6" => 3 \in DOMAIN t /\ 6 \in DOMAIN t)
    BY <1>4, SizesAre
  <2> QED BY <2>1, <2>2 DEF Constructed
<1>7. TypedContent(f, m, source, basis[f])
  BY <1>2, <1>4, <1>5, <1>6 DEF TypedContent
<1> QED BY <1>1, <1>2, <1>3, <1>7, SetTypedKeeps

LEMMA AssignTypedKeeps ==
  ASSUME Contents, NEW peer \in Peers, AssignTyped(peer)
  PROVE  TypedObjects' /\ UNCHANGED <<texts, mem, len, from>>
<1>1. PICK f, t, m :
        /\ f = Family(peer) /\ t = typed[f] /\ m \in {peer, Assigned(t, peer)}
        /\ SetTyped(f, m, "sockaddr", basis[f])
  BY DEF AssignTyped
<1>2. f \in DOMAIN SizeOf /\ Cells(peer) /\ Len(peer) = SizeOf[f]
  BY <1>1, PeerSize DEF AssignTyped, Whole
<1>3. TypedObjects /\ DOMAIN t = 1..SizeOf[f]
  BY <1>1, <1>2 DEF Contents, TypedObjects, TypedContent
<1>4. PICK T : peer \in Seq(T)
  BY <1>2 DEF Cells
<1>5. DOMAIN peer = 1..SizeOf[f] /\ peer = [i \in DOMAIN peer |-> peer[i]]
  BY <1>2, <1>4, LenProperties
<1>6. DOMAIN m = 1..SizeOf[f] /\ m = [i \in DOMAIN m |-> m[i]]
  <2>1. CASE m = peer
    BY <1>5, <2>1
  <2>2. CASE m = Assigned(t, peer)
    BY <1>3, <2>2 DEF Assigned
  <2> QED BY <1>1, <2>1, <2>2
<1>7. TypedContent(f, m, "sockaddr", basis[f])
  BY <1>6 DEF TypedContent
<1> QED BY <1>1, <1>2, <1>3, <1>7, SetTypedKeeps

LEMMA NextContents == Contents /\ [Next]_vars => Contents'
<1> SUFFICES ASSUME Contents, [Next]_vars PROVE Contents'
  OBVIOUS
<1>o. ASSUME Objects', UNCHANGED <<texts, typed, origin, basis>> PROVE Contents'
  BY <1>o DEF Contents, TypedObjects
<1>t. ASSUME TypedObjects', UNCHANGED <<texts, mem, len, from>> PROVE Contents'
  BY <1>t DEF Contents, Objects
<1>1. ASSUME NEW a \in Object, NEW t \in texts, BuildText(a, t) PROVE Contents'
  BY <1>o, <1>1, BuildTextKeeps
<1>p. ASSUME NEW a \in Object, NEW t \in texts, NEW port \in Ports,
             BuildHostPort(a, t, port)
      PROVE  Contents'
  BY <1>o, <1>p, BuildHostPortKeeps
<1>2. ASSUME NEW a \in Object, NEW b \in Object \ {a}, Assign(a, b) PROVE Contents'
  BY <1>o, <1>2, AssignKeeps
<1>3. ASSUME NEW a \in Object, NEW peer \in Peers, AssignSockaddr(a, peer)
      PROVE  Contents'
  BY <1>o, <1>3, AssignSockaddrKeeps
<1>4. ASSUME NEW a \in Object, NEW peer \in Peers, Accept(a, peer) PROVE Contents'
  BY <1>o, <1>4, AcceptKeeps
<1>5. ASSUME NEW f \in DOMAIN SizeOf, NEW t \in texts, BuildTypedText(f, t)
      PROVE  Contents'
  BY <1>t, <1>5, BuildTypedTextKeeps
<1>q. ASSUME NEW f \in DOMAIN SizeOf, NEW t \in texts, NEW port \in Ports,
             BuildTypedHostPort(f, t, port)
      PROVE  Contents'
  BY <1>t, <1>q, BuildTypedHostPortKeeps
<1>6. ASSUME NEW f \in DOMAIN SizeOf, NEW port \in Ports, SetPort(f, port)
      PROVE  Contents'
  BY <1>t, <1>6, SetPortKeeps
<1>7. ASSUME NEW t \in texts, BuildTypedBytes(t) PROVE Contents'
  BY <1>t, <1>7, BuildTypedBytesKeeps
<1>8. ASSUME NEW peer \in Peers, AssignTyped(peer) PROVE Contents'
  BY <1>t, <1>8, AssignTypedKeeps
<1>9. CASE UNCHANGED vars
  BY <1>9 DEF vars, Contents, Objects, TypedObjects
<1> QED BY <1>1, <1>p, <1>2, <1>3, <1>4, <1>5, <1>q, <1>6, <1>7, <1>8, <1>9 DEF Next

(* An object of class address has what its history says, in the length it  *)
(* remembers, and one of class ipv4, ipv6 or local what its constructor    *)
(* and build() wrote, after any operations on any number of objects.       *)
THEOREM ContentsInvariant == Spec => []Contents
BY InitContents, NextContents, PTL DEF Spec

-----------------------------------------------------------------------------
(* What a content is, with the cells that the object's length covers.      *)

IsAddress(c) ==
  \/ \E ip \in Hosts, p \in 0..MaxPort : Cells4(c, ip, p) \/ Cells6(c, ip, p)
  \/ Cells(c) /\ Len(c) = 1 /\ c[1] = <<"family", "AF_UNIX">>
  \/ \E path : CellsPath(c, path) /\ IsPath(path)

LEMMA PeerIsAddress ==
  ASSUME NEW c \in Peers
  PROVE  IsAddress(c)
<1>1. <<"quad">> \in Hosts /\ <<"::", "7">> \in Hosts
  BY HostsAre DEF Hosts
<1>2. 7 \in 0..MaxPort
  BY PortsAre
<1>3. ASSUME NEW path \in {<<"p">>, <<"nul", "p">>, <<"name107">>} PROVE IsPath(path)
  <2>1. Chars("p") = 1 /\ Chars("nul") = 1 /\ Chars("name107") = 107
    BY DEF Chars, Characters
  <2>2. <<"nul">> \in Seq({"nul", "p"}) /\ <<"p">> \in Seq({"nul", "p"})
    OBVIOUS
  <2>3. Length(<<"nul">> \o <<"p">>) = Length(<<"nul">>) + Length(<<"p">>)
    BY <2>2, LengthConcat
  <2>4. <<"nul", "p">> = <<"nul">> \o <<"p">>
    BY Pair
  <2>5. Length(<<"p">>) = 1 /\ Length(<<"nul">>) = 1 /\ Length(<<"name107">>) = 107
    BY <2>1, LengthOne
  <2>6. Length(path) \in {1, 2, 107}
    <3>1. Length(<<"nul", "p">>) = 1 + 1
      BY <2>3, <2>4, <2>5
    <3>2. CASE path = <<"p">>
      BY <2>5, <3>2
    <3>3. CASE path = <<"nul", "p">>
      BY <3>1, <3>3
    <3>4. CASE path = <<"name107">>
      BY <2>5, <3>4
    <3> QED BY <3>2, <3>3, <3>4
  <2> QED BY <2>6 DEF IsPath, PathSize
<1> QED BY <1>1, <1>2, <1>3, PeersAre DEF IsAddress

LEMMA MadeIsAddress ==
  ASSUME NEW c, Made(c)
  PROVE  IsAddress(c)
<1>1. \A h \in DOMAIN Ipv6 : Ipv6[h] \in Hosts
  BY HostsAre DEF Hosts
<1>2. \A h \in DOMAIN Ipv4 : h \in Hosts
  BY DEF Hosts
<1> QED BY <1>1, <1>2, MadeIs DEF IsAddress

LEMMA ContentIsAddress ==
  ASSUME NEW m, NEW n, NEW source, source \notin {"none", "reused"},
         Content(m, n, source)
  PROVE  \E c : IsAddress(c) /\ n = Len(c) /\ Starts(m, c)
<1>1. CASE source = "text"
  BY <1>1, MadeIsAddress DEF Content
<1>2. CASE source \in {"peer", "sockaddr"}
  BY <1>2, PeerIsAddress DEF Content
<1> QED BY <1>1, <1>2 DEF Content

(* The first cells, one by one. *)
LEMMA StartCells ==
  ASSUME NEW m, NEW c, Starts(m, c), IsAddress(c)
  PROVE  /\ \A ip, p : Cells4(c, ip, p) =>
              /\ m[1] = <<"family", "AF_INET">> /\ m[2] = <<"port", p>>
              /\ m[3] = <<"ip", ip>>
         /\ \A ip, p : Cells6(c, ip, p) =>
              /\ m[1] = <<"family", "AF_INET6">> /\ m[2] = <<"port", p>>
              /\ m[4] = <<"ip", ip>> /\ m[5] = <<"ip", ip>>
         /\ c[1] = <<"family", "AF_UNIX">> => m[1] = <<"family", "AF_UNIX">>
         /\ \A path : CellsPath(c, path) => m[2] = <<"path", path>>
<1>1. Len(c) \in {1, 2, 4, 6, 7}
  BY DEF IsAddress, Cells4, Cells6, CellsPath
<1>2. PICK n \in {1, 2, 4, 6, 7} : n = Len(c)
  BY <1>1
<1>3. \A i \in 1..n : m[i] = c[i]
  BY <1>2 DEF Starts
<1>4. m[1] = c[1]
  BY <1>3
<1>5. ASSUME NEW ip, NEW p, Cells4(c, ip, p)
      PROVE  m[2] = <<"port", p>> /\ m[3] = <<"ip", ip>>
  <2>1. n = 4 /\ c[2] = <<"port", p>> /\ c[3] = <<"ip", ip>>
    BY <1>2, <1>5 DEF Cells4
  <2>2. 2 \in 1..4 /\ 3 \in 1..4
    OBVIOUS
  <2> QED BY <1>3, <2>1, <2>2
<1>6. ASSUME NEW ip, NEW p, Cells6(c, ip, p)
      PROVE  m[2] = <<"port", p>> /\ m[4] = <<"ip", ip>> /\ m[5] = <<"ip", ip>>
  <2>1. n = 6 /\ c[2] = <<"port", p>> /\ c[4] = <<"ip", ip>> /\ c[5] = <<"ip", ip>>
    BY <1>2, <1>6 DEF Cells6
  <2>2. 2 \in 1..6 /\ 4 \in 1..6 /\ 5 \in 1..6
    OBVIOUS
  <2> QED BY <1>3, <2>1, <2>2
<1>7. ASSUME NEW path, CellsPath(c, path)
      PROVE  m[2] = <<"path", path>>
  <2>1. n \in {2, 7} /\ c[2] = <<"path", path>>
    BY <1>2, <1>7 DEF CellsPath
  <2>2. 2 \in 1..n
    BY <2>1
  <2> QED BY <1>3, <2>1, <2>2
<1> QED BY <1>4, <1>5, <1>6, <1>7 DEF Cells4, Cells6

-----------------------------------------------------------------------------
(* accept() (socket.h): an object that accept() may be called with has the *)
(* peer's address and its length.                                          *)
THEOREM AcceptReturnsPeer == Spec => []AcceptedIsPeer
<1>1. ASSUME Contents PROVE AcceptedIsPeer
  <2> SUFFICES ASSUME NEW a \in Object, from[a] = "peer"
               PROVE  \E peer \in Peers : SubSeq(mem[a], 1, len[a]) = peer
    BY DEF AcceptedIsPeer
  <2>1. PICK peer \in Peers : len[a] = Len(peer) /\ Starts(mem[a], peer)
    BY <1>1 DEF Contents, Objects, Content
  <2>2. SubSeq(mem[a], 1, Len(peer)) = peer
    BY <2>1, PeerSize, StartsIs
  <2> QED BY <2>1, <2>2
<1> QED BY <1>1, ContentsInvariant, PTL

(* build() of the classes and of address (socket.cpp) agree: an object of  *)
(* class ipv4, ipv6 or local that build() filled has the bytes of address. *)
THEOREM ClassesAgree == Spec => []TypedAgrees
<1>1. ASSUME Contents PROVE TypedAgrees
  <2> SUFFICES ASSUME NEW f \in DOMAIN SizeOf, NEW given, given = basis[f],
                      NEW m, m = BuildGiven(New, given), origin[f] = "text",
                      m # Nothing, Family(m) = f
               PROVE  SubSeq(m, 1, SizeOf[f]) = typed[f]
    BY DEF TypedAgrees
  <2>1. BuiltTyped(f, typed[f], given)
    BY <1>1 DEF Contents, TypedObjects, TypedContent
  <2>2. Memory(New)
    BY DEF Memory, New
  <2>3. CASE given[2] = NoPort
    <3>1. PICK t \in Seq(Tokens) : t = given[1]
      BY <2>1 DEF BuiltTyped
    <3>2. /\ Accepts(t) /\ Starts(m, Bytes(t)) /\ SizeOf[f] = Len(Bytes(t))
          /\ Made(Bytes(t)) /\ Cells(Bytes(t))
      <4>1. m = Build(New, t)
        BY <2>3, <3>1 DEF BuildGiven
      <4>2. Accepts(t) /\ Starts(m, Bytes(t)) /\ SizeOf[f] = Len(Bytes(t))
        BY <2>2, <4>1, BuildIs
      <4> QED BY <4>2, BytesMade, MadeSize
    <3>3. SubSeq(m, 1, SizeOf[f]) = Bytes(t)
      BY <3>2, StartsIs
    <3>4. CASE f = "AF_UNIX"
      <4>1. typed[f] = PathCells(t) /\ m[1][2] = "AF_UNIX"
        <5>1. typed[f] = PathCells(t)
          BY <2>1, <3>1, <3>4, HostsAre DEF BuiltTyped
        <5> QED BY <3>4, <5>1 DEF Family
      <4>2. ASSUME NEW h, NEW p, Cells4(Bytes(t), h, p) \/ Cells6(Bytes(t), h, p)
            PROVE  FALSE
        <5>1. m[1] = <<"family", "AF_INET">> \/ m[1] = <<"family", "AF_INET6">>
          BY <3>2, <4>2, MadeIsAddress, StartCells
        <5> QED BY <4>1, <5>1
      <4>3. Bytes(t) = PathCells(t)
        BY <3>2, <4>2, BytesAre
      <4> QED BY <3>3, <4>1, <4>3
    <3>5. CASE f # "AF_UNIX"
      <4>1. PICK h, p : ExtractIpPort(t) = <<h, p>> /\ typed[f] = Expected(h, p)
        BY <2>1, <2>3, <3>1, <3>5 DEF BuiltTyped, Gives
      <4>2. <<h, p>> # Nothing
        BY DEF Nothing
      <4>3. PICK ip : ip = ExtractIpPort(t)
        OBVIOUS
      <4>4. ip # Nothing /\ ip[1] = h /\ ip[2] = p
        BY <4>1, <4>2, <4>3
      <4>5. Bytes(t) = Expected(h, p)
        BY <4>3, <4>4 DEF Bytes
      <4> QED BY <3>3, <4>1, <4>5
    <3> QED BY <3>4, <3>5
  <2>4. CASE given[2] # NoPort
    <3>1. PICK h, p : /\ h \in Hosts /\ given[1] = h /\ given[2] = p
                      /\ typed[f] = Expected(h, p)
      BY <2>1, <2>4 DEF BuiltTyped, Gives
    <3>2. m = BuildIp(New, h, p)
      BY <2>4, <3>1 DEF BuildGiven
    <3>3. Starts(m, Expected(h, p)) /\ SizeOf[f] = Len(Expected(h, p))
      BY <2>2, <3>1, <3>2, BuildIpIs
    <3>4. Cells(Expected(h, p))
      BY <3>1, CellsOf4, CellsOf6 DEF Hosts, Cells4, Cells6
    <3> QED BY <3>1, <3>3, <3>4, StartsIs
  <2> QED BY <2>3, <2>4
<1> QED BY <1>1, ContentsInvariant, PTL

-----------------------------------------------------------------------------
(* What BuildsDenoted says of the memory that build() leaves. *)
Stores(m, t) ==
  IF Denoted(t) # {}
  THEN \E hp \in Denoted(t) :
         LET c == Expected(hp[1], Number(hp[2]))
         IN m # Nothing /\ SubSeq(m, 1, Len(c)) = c /\ SizeOf[Family(m)] = Len(c)
  ELSE m # Nothing => /\ Family(m) = "AF_UNIX" /\ m[2] = <<"path", t>>
                      /\ \A i \in 3..7 : m[i] = Zero
                      /\ Length(t) < PathSize

(* build() (socket.cpp): it stores every text of a host with a port as     *)
(* that, and every other text that it accepts as a path, uncut, in any     *)
(* object, whatever that held before.                                      *)
THEOREM BuildStores == Spec => []BuildsDenoted
<1>1. ASSUME Contents PROVE BuildsDenoted
  <2> SUFFICES ASSUME NEW a \in Object, NEW text \in texts
               PROVE  Stores(Build(mem[a], text), text)
    BY DEF BuildsDenoted, Stores
  <2> SUFFICES ASSUME NEW m, m = Build(mem[a], text) PROVE Stores(m, text)
    OBVIOUS
  <2>1. text \in Seq(Tokens) /\ Memory(mem[a])
    BY <1>1, TextsAre DEF Contents, Objects, Content
  <2>2. /\ ~Accepts(text) => m = Nothing
        /\ Accepts(text) => /\ m # Nothing /\ Starts(m, Bytes(text))
                            /\ SizeOf[Family(m)] = Len(Bytes(text))
    BY <2>1, BuildIs
  <2>3. CASE Denoted(text) # {}
    <3>1. PICK hp \in Denoted(text) : TRUE
      BY <2>3
    <3>2. PICK h, p : h = hp[1] /\ p = Number(hp[2])
      OBVIOUS
    <3>3. h \in Hosts /\ ExtractIpPort(text) = <<h, p>>
      BY <2>1, <3>1, <3>2, ParsesDenoted
    <3>4. <<h, p>> # Nothing /\ <<h, p>>[1] = h /\ <<h, p>>[2] = p
      BY DEF Nothing
    <3>5. Accepts(text) /\ Bytes(text) = Expected(h, p)
      BY <3>3, <3>4 DEF Accepts, Bytes
    <3>6. Cells(Expected(h, p))
      BY <3>3, CellsOf4, CellsOf6 DEF Hosts, Cells4, Cells6
    <3>7. SubSeq(m, 1, Len(Expected(h, p))) = Expected(h, p)
      BY <2>2, <3>5, <3>6, StartsIs
    <3> QED BY <2>2, <2>3, <3>1, <3>2, <3>5, <3>7 DEF Stores
  <2>4. CASE Denoted(text) = {}
    <3> SUFFICES ASSUME m # Nothing
                 PROVE  /\ Family(m) = "AF_UNIX" /\ m[2] = <<"path", text>>
                        /\ \A i \in 3..7 : m[i] = Zero
                        /\ Length(text) < PathSize
      BY <2>4 DEF Stores
    <3>1. Accepts(text) /\ Starts(m, Bytes(text))
      BY <2>2
    <3>2. ExtractIpPort(text) = Nothing
      <4> SUFFICES ASSUME ExtractIpPort(text) # Nothing PROVE FALSE
        OBVIOUS
      <4>1. PICK h, p : /\ ExtractIpPort(text) = <<h, p>>
                        /\ h \in Hosts => \E hp \in Denoted(text) : TRUE
        BY <2>1, ParsesOnlyDenoted
      <4>2. h \in Hosts
        BY <3>1, <4>1 DEF Accepts
      <4> QED BY <2>4, <4>1, <4>2
    <3>3. IsPath(text) /\ Bytes(text) = PathCells(text)
      BY <3>1, <3>2 DEF Accepts, Bytes
    <3>4. PICK c : c = PathCells(text)
      OBVIOUS
    <3>5. /\ Len(c) = 7 /\ c[1] = <<"family", "AF_UNIX">> /\ c[2] = <<"path", text>>
          /\ \A i \in 3..7 : c[i] = Zero
      BY <3>4, CellsOfPath DEF CellsPath
    <3>6. \A i \in 1..7 : m[i] = c[i]
      BY <3>1, <3>3, <3>4, <3>5 DEF Starts
    <3>7. m[1] = <<"family", "AF_UNIX">> /\ m[2] = <<"path", text>>
      BY <3>5, <3>6
    <3>8. \A i \in 3..7 : m[i] = Zero
      BY <3>5, <3>6
    <3>9. Length(text) < PathSize
      <4>1. Length(text) \in Nat
        BY <2>1, LengthPositive
      <4> QED BY <3>3, <4>1 DEF IsPath, PathSize
    <3> QED BY <3>7, <3>8, <3>9 DEF Family
  <2> QED BY <2>3, <2>4
<1> QED BY <1>1, ContentsInvariant, PTL

-----------------------------------------------------------------------------
(* to_string(), for the cells of each kind of address.                     *)

(* The text of a port: a colon and its digits. *)
LEMMA PortText ==
  ASSUME NEW p \in 0..MaxPort
  PROVE  /\ Decimal[p] \in Seq(Tokens) /\ Number(Decimal[p]) = p
         /\ AllDigits(Decimal[p])
         /\ Length(Decimal[p]) \in 1..5
         /\ Length(<<":">> \o Decimal[p]) = 1 + Length(Decimal[p])
         /\ Length(<<"]", ":">> \o Decimal[p]) = 2 + Length(Decimal[p])
         /\ <<":">> \o Decimal[p] \in Seq(Tokens)
<1>2. /\ Decimal[p] \in Seq(DOMAIN Digit) /\ Number(Decimal[p]) = p
      /\ AllDigits(Decimal[p]) /\ Length(Decimal[p]) \in 1..5
  BY DecimalWrites, DecimalLength DEF Written
<1>3. DOMAIN Digit \subseteq Tokens /\ ":" \in Tokens /\ "]" \in Tokens
  BY DEF Tokens
<1>4. PICK d \in Seq(Tokens) : d = Decimal[p]
  BY <1>2, <1>3, SeqMonotonic
<1>5. <<":">> \in Seq(Tokens) /\ <<"]">> \in Seq(Tokens)
  BY <1>3
<1>6. Length(<<":">>) = 1 /\ Length(<<"]">>) = 1
  <2>1. Chars(":") = 1 /\ Chars("]") = 1
    BY DEF Chars, Characters
  <2> QED BY <2>1, LengthOne
<1>7. PICK c \in Seq(Tokens), b \in Seq(Tokens) : c = <<":">> /\ b = <<"]">>
  BY <1>5
<1>8. PICK w : w = b \o c
  OBVIOUS
<1>9. w \in Seq(Tokens) /\ Length(w) = 2
  <2>1. Length(w) = Length(b) + Length(c)
    BY <1>8, LengthConcat
  <2>2. Length(b) = 1 /\ Length(c) = 1
    BY <1>6, <1>7
  <2> QED BY <1>8, <2>1, <2>2, Joined
<1>10. w = <<"]", ":">>
  BY <1>7, <1>8, Pair
<1>11. Length(c \o d) = 1 + Length(d) /\ Length(w \o d) = 2 + Length(d)
  <2>1. Length(c \o d) = Length(c) + Length(d) /\ Length(w \o d) = Length(w) + Length(d)
    BY <1>9, LengthConcat
  <2> QED BY <1>6, <1>7, <1>9, <2>1
<1>12. c \o d \in Seq(Tokens)
  BY Joined
<1> QED BY <1>2, <1>4, <1>7, <1>10, <1>11, <1>12

LEMMA Text4 ==
  ASSUME NEW m, NEW ip \in Hosts, NEW p \in 0..MaxPort, NEW v, NEW n \in Int,
         m[1] = <<"family", "AF_INET">>, m[2] = <<"port", p>>, m[3] = <<"ip", ip>>
  PROVE  ToText(m, v, n) = IF Length(ip) + 1 + Length(Decimal[p]) < n
                           THEN ip \o (<<":">> \o Decimal[p]) ELSE Nothing
<1>1. Family(m) = "AF_INET" /\ Port(m) = Decimal[p] /\ m[3][2] = ip
  BY DEF Family, Port
<1>2. PICK port : port = <<":">> \o Decimal[p]
  OBVIOUS
<1>3. ToText(m, v, n) = IF Fits(ip, n) /\ Fits(port, n - Length(ip))
                        THEN ip \o port ELSE Nothing
  BY <1>1, <1>2 DEF ToText
<1>4. PICK L \in Nat, D \in Nat :
        L = Length(ip) /\ D = Length(Decimal[p]) /\ Length(port) = 1 + D
  <2>1. Length(ip) \in Nat
    BY HostLength
  <2>2. Length(Decimal[p]) \in Nat /\ Length(port) = 1 + Length(Decimal[p])
    BY <1>2, PortText
  <2> QED BY <2>1, <2>2
<1>5. Fits(ip, n) /\ Fits(port, n - Length(ip)) <=> L + 1 + D < n
  BY <1>4 DEF Fits
<1> QED BY <1>2, <1>3, <1>4, <1>5

LEMMA Text6 ==
  ASSUME NEW m, NEW ip \in Hosts, NEW p \in 0..MaxPort, NEW v, NEW n \in Int,
         m[1] = <<"family", "AF_INET6">>, m[2] = <<"port", p>>, m[4] = <<"ip", ip>>
  PROVE  ToText(m, v, n) = IF Length(ip) + 3 + Length(Decimal[p]) < n
                           THEN Bracketed(ip) \o (<<":">> \o Decimal[p]) ELSE Nothing
<1>1. Family(m) = "AF_INET6" /\ Port(m) = Decimal[p] /\ m[4][2] = ip
  BY DEF Family, Port
<1>2. PICK port : port = <<"]", ":">> \o Decimal[p]
  OBVIOUS
<1>3. ToText(m, v, n) = IF n > 1 /\ Fits(ip, n - 1) /\ Fits(port, n - (1 + Length(ip)))
                        THEN <<"[">> \o ip \o port ELSE Nothing
  BY <1>1, <1>2 DEF ToText
<1>4. PICK L \in Nat, D \in Nat :
        L = Length(ip) /\ D = Length(Decimal[p]) /\ Length(port) = 2 + D
  <2>1. Length(ip) \in Nat
    BY HostLength
  <2>2. Length(Decimal[p]) \in Nat /\ Length(port) = 2 + Length(Decimal[p])
    BY <1>2, PortText
  <2> QED BY <2>1, <2>2
<1>5. n > 1 /\ Fits(ip, n - 1) /\ Fits(port, n - (1 + Length(ip))) <=> L + 3 + D < n
  BY <1>4 DEF Fits
<1>6. <<"[">> \o ip \o port = Bracketed(ip) \o (<<":">> \o Decimal[p])
  <2>1. {"[", "]", ":"} \subseteq Tokens /\ ip \in Seq(Tokens) /\ Decimal[p] \in Seq(Tokens)
    BY HostText, PortText DEF Tokens
  <2> QED BY <1>2, <2>1, HostAndPort
<1> QED BY <1>3, <1>4, <1>5, <1>6

LEMMA TextPath ==
  ASSUME NEW m, NEW path, NEW v \in {1, 2, 7}, NEW n \in Int,
         m[1] = <<"family", "AF_UNIX">>, v > 1 => m[2] = <<"path", path>>
  PROVE  ToText(m, v, n) =
           IF /\ v > 1
              /\ IF IsAbstract(path) THEN PathSize <= n ELSE Length(path) < n
           THEN path ELSE Nothing
<1>1. Family(m) = "AF_UNIX"
  BY DEF Family
<1>2. CASE v > 1
  <2>1. m[2][2] = path
    BY <1>2
  <2>2. ToText(m, v, n) = IF IF IsAbstract(path) THEN PathSize <= n ELSE Fits(path, n)
                          THEN path ELSE Nothing
    BY <1>1, <1>2, <2>1 DEF ToText
  <2> QED BY <1>2, <2>2 DEF Fits
<1>3. CASE ~(v > 1)
  <2>1. ToText(m, v, n) = Nothing
    BY <1>1, <1>3 DEF ToText
  <2> QED BY <1>3, <2>1
<1> QED BY <1>2, <1>3

(* to_string() and build(): what build() made of a text, or of a host and  *)
(* a port, is written as a text of which build() makes the same bytes      *)
(* again, in any object, unless the port is 0; that text it takes for a    *)
(* path.                                                                   *)
LEMMA ReadIp ==
  ASSUME NEW h \in Hosts, NEW p \in 0..MaxPort, NEW u,
         \/ u = h \o (<<":">> \o Decimal[p])
         \/ u = Bracketed(h) \o (<<":">> \o Decimal[p])
  PROVE  /\ Accepts(u)
         /\ Bytes(u) = IF p = 0 THEN PathCells(u) ELSE Expected(h, p)
<1>1. /\ Decimal[p] \in Seq(Tokens) /\ Number(Decimal[p]) = p
      /\ AllDigits(Decimal[p]) /\ Length(Decimal[p]) \in 1..5
      /\ <<":">> \o Decimal[p] \in Seq(Tokens)
      /\ Length(<<":">> \o Decimal[p]) = 1 + Length(Decimal[p])
  BY PortText
<1>2. CASE p = 0
  <2>1. PICK b : b \in {h, Bracketed(h)} /\ u = b \o (<<":">> \o Decimal[p])
    OBVIOUS
  <2>2. b \in Seq(Tokens) /\ Length(b) \in 1..11
    <3>1. h \in Seq(Tokens) /\ "[" \in Tokens /\ "]" \in Tokens
      BY HostText DEF Tokens
    <3>2. Length(h) \in 1..9
      BY HostLength
    <3>3. Bracketed(h) \in Seq(Tokens) /\ Length(Bracketed(h)) = Length(h) + 2
      BY <3>1, BracketsAround
    <3> QED BY <2>1, <3>1, <3>2, <3>3
  <2>3. Number(Decimal[p]) \notin 1..MaxPort
    BY <1>1, <1>2
  <2>4. ExtractIpPort(u) = Nothing
    BY <1>1, <2>1, <2>2, <2>3, NoAddress
  <2>5. Length(u) = Length(b) + Length(<<":">> \o Decimal[p])
    BY <1>1, <2>1, <2>2, LengthConcat
  <2>6. PICK L \in 1..11, D \in 1..5 : L = Length(b) /\ Length(u) = L + (1 + D)
    BY <1>1, <2>2, <2>5
  <2>7. L + (1 + D) \in 1..(108 - 1)
    OBVIOUS
  <2>8. IsPath(u)
    BY <2>6, <2>7 DEF IsPath, PathSize
  <2> QED BY <1>2, <2>4, <2>8 DEF Accepts, Bytes
<1>3. CASE p # 0
  <2>1. p \in 1..MaxPort
    BY <1>3, PortsAre
  <2>2. ExtractIpPort(u) = <<h, p>>
    BY <1>1, <2>1, Denotes
  <2>3. <<h, p>> # Nothing /\ <<h, p>>[1] = h /\ <<h, p>>[2] = p
    BY DEF Nothing
  <2> QED BY <1>3, <2>2, <2>3 DEF Accepts, Bytes
<1> QED BY <1>2, <1>3

THEOREM ReadsBack == Spec => []RoundTrip
<1>1. ASSUME Contents PROVE RoundTrip
  <2> SUFFICES ASSUME NEW a \in Object, NEW n \in Sizes, NEW s, from[a] = "text",
                      s = ToText(mem[a], len[a], n), s # Nothing
               PROVE  IF HasPortZero(mem[a])
                      THEN Build(New, s) # Nothing /\ Family(Build(New, s)) = "AF_UNIX"
                      ELSE /\ Build(New, s) # Nothing
                           /\ SubSeq(Build(New, s), 1, len[a]) = SubSeq(mem[a], 1, len[a])
    BY DEF RoundTrip
  <2>0. n \in Nat /\ n \in Int
    BY AddressAssumption
  <2>1. Memory(New)
    BY DEF Memory, New
  <2>2. PICK c : Made(c) /\ len[a] = Len(c) /\ Starts(mem[a], c)
    BY <1>1 DEF Contents, Objects, Content
  <2>3. Cells(c) /\ IsAddress(c)
    BY <2>2, MadeSize, MadeIsAddress
  <2>4. /\ Accepts(s)
        /\ Bytes(s) = IF HasPortZero(mem[a]) THEN PathCells(s) ELSE c
    <3>1. ASSUME NEW h \in DOMAIN Ipv4, NEW p \in 0..MaxPort,
                 c = Expected(h, p), Cells4(c, h, p)
          PROVE  Accepts(s) /\ Bytes(s) = IF HasPortZero(mem[a]) THEN PathCells(s) ELSE c
      <4>1. h \in Hosts
        BY DEF Hosts
      <4>2. /\ mem[a][1] = <<"family", "AF_INET">> /\ mem[a][2] = <<"port", p>>
            /\ mem[a][3] = <<"ip", h>>
        BY <2>2, <2>3, <3>1, StartCells
      <4>3. s = h \o (<<":">> \o Decimal[p])
        BY <2>0, <4>1, <4>2, Text4
      <4>4. HasPortZero(mem[a]) <=> p = 0
        BY <4>2 DEF HasPortZero, Family
      <4> QED BY <3>1, <4>1, <4>3, <4>4, ReadIp
    <3>2. ASSUME NEW h \in DOMAIN Ipv6, NEW p \in 0..MaxPort,
                 c = Expected(h, p), Cells6(c, Ipv6[h], p)
          PROVE  Accepts(s) /\ Bytes(s) = IF HasPortZero(mem[a]) THEN PathCells(s) ELSE c
      <4>1. Ipv6[h] \in Hosts /\ Expected(Ipv6[h], p) = Expected(h, p)
        BY HostsAre, CellsOf6 DEF Hosts
      <4>2. /\ mem[a][1] = <<"family", "AF_INET6">> /\ mem[a][2] = <<"port", p>>
            /\ mem[a][4] = <<"ip", Ipv6[h]>>
        BY <2>2, <2>3, <3>2, StartCells
      <4>3. s = Bracketed(Ipv6[h]) \o (<<":">> \o Decimal[p])
        BY <2>0, <4>1, <4>2, Text6
      <4>4. HasPortZero(mem[a]) <=> p = 0
        BY <4>2 DEF HasPortZero, Family
      <4> QED BY <3>2, <4>1, <4>3, <4>4, ReadIp
    <3>3. ASSUME NEW t \in Seq(Tokens), ExtractIpPort(t) = Nothing, IsPath(t),
                 c = PathCells(t), CellsPath(c, t)
          PROVE  Accepts(s) /\ Bytes(s) = IF HasPortZero(mem[a]) THEN PathCells(s) ELSE c
      <4>1. mem[a][1] = <<"family", "AF_UNIX">> /\ mem[a][2] = <<"path", t>>
        BY <2>2, <2>3, <3>3, StartCells DEF CellsPath
      <4>2. len[a] \in {1, 2, 7}
        BY <2>2, <3>3 DEF CellsPath
      <4>3. s = t
        BY <2>0, <4>1, <4>2, TextPath
      <4>4. ~HasPortZero(mem[a])
        BY <4>1 DEF HasPortZero, Family
      <4> QED BY <3>3, <4>3, <4>4 DEF Accepts, Bytes
    <3> QED BY <2>2, <3>1, <3>2, <3>3, MadeIs
  <2>5. /\ Build(New, s) # Nothing /\ Starts(Build(New, s), Bytes(s))
        /\ SizeOf[Family(Build(New, s))] = Len(Bytes(s))
    BY <2>1, <2>4, BuildIs
  <2>6. CASE HasPortZero(mem[a])
    <3>1. PICK m, d : m = Build(New, s) /\ d = PathCells(s)
      OBVIOUS
    <3>2. Starts(m, d) /\ Len(d) = 7 /\ d[1] = <<"family", "AF_UNIX">>
      BY <2>4, <2>5, <2>6, <3>1, CellsOfPath DEF CellsPath
    <3>3. m[1] = <<"family", "AF_UNIX">>
      BY <3>2 DEF Starts
    <3> QED BY <2>5, <2>6, <3>1, <3>3 DEF Family
  <2>7. CASE ~HasPortZero(mem[a])
    <3>1. Starts(Build(New, s), c)
      BY <2>4, <2>5, <2>7
    <3>2. SubSeq(Build(New, s), 1, len[a]) = c /\ SubSeq(mem[a], 1, len[a]) = c
      BY <2>2, <2>3, <3>1, StartsIs
    <3> QED BY <2>5, <2>7, <3>2
  <2> QED BY <2>6, <2>7
<1> QED BY <1>1, ContentsInvariant, PTL

(* The room that a text needs, which is what to_string() asks for. *)
Room(s) == IF IsAbstract(s) THEN PathSize ELSE Length(s) + 1

LEMMA AddressText ==
  ASSUME NEW ip \in Hosts, NEW p \in 0..MaxPort, NEW b \in {ip, Bracketed(ip)}
  PROVE  LET s == b \o (<<":">> \o Decimal[p])
         IN Room(s) = Length(b) + 2 + Length(Decimal[p])
<1>1. /\ ip \in Seq(Tokens) /\ "[" \in Tokens /\ "]" \in Tokens
      /\ Len(ip) \in Nat /\ Len(ip) >= 1 /\ ip[1] # "nul"
  BY HostText DEF Tokens
<1>2. /\ b \in Seq(Tokens) /\ Len(b) \in Nat /\ Len(b) >= 1 /\ b[1] # "nul"
      /\ Length(b) \in Nat
  <2>1. CASE b = ip
    BY <1>1, <2>1, LengthPositive
  <2>2. CASE b = Bracketed(ip)
    <3>1. /\ b \in Seq(Tokens) /\ Len(b) = Len(ip) + 2 /\ b[1] = "["
      BY <1>1, <2>2, BracketsAround
    <3> QED BY <1>1, <3>1, LengthPositive
  <2> QED BY <2>1, <2>2
<1>3. PICK q \in Seq(Tokens) : q = <<":">> \o Decimal[p]
  BY PortText
<1>4. Length(q) = 1 + Length(Decimal[p]) /\ Length(Decimal[p]) \in 1..5
  BY <1>3, PortText
<1>5. PICK s : s = b \o q
  OBVIOUS
<1>6. Length(s) = Length(b) + Length(q)
  BY <1>2, <1>5, LengthConcat
<1>7. s[1] = b[1]
  <2>1. 1 \in 1..Len(b)
    BY <1>2
  <2> QED BY <1>2, <1>5, <2>1, Joined
<1>8. ~IsAbstract(s)
  BY <1>2, <1>7 DEF IsAbstract
<1>9. Room(s) = Length(b) + 2 + Length(Decimal[p])
  BY <1>2, <1>4, <1>6, <1>8 DEF Room
<1> QED BY <1>3, <1>5, <1>9

(* An address has one text, which every buffer with room for it gets, and  *)
(* no other.                                                               *)
LEMMA Formats ==
  ASSUME NEW c, IsAddress(c), NEW m, Starts(m, c)
  PROVE  \E s : /\ Room(s) \in Nat /\ Room(s) <= 2 * PathSize
                /\ \A n \in Nat :
                     ToText(m, Len(c), n) = IF n < Room(s) THEN Nothing ELSE s
<1>1. ASSUME NEW ip \in Hosts, NEW p \in 0..MaxPort, Cells4(c, ip, p)
      PROVE  \E s : /\ Room(s) \in Nat /\ Room(s) <= 2 * PathSize
                    /\ \A n \in Nat :
                         ToText(m, Len(c), n) = IF n < Room(s) THEN Nothing ELSE s
  <2>1. /\ m[1] = <<"family", "AF_INET">> /\ m[2] = <<"port", p>>
        /\ m[3] = <<"ip", ip>>
    BY <1>1, StartCells
  <2>2. PICK s : s = ip \o (<<":">> \o Decimal[p])
    OBVIOUS
  <2>3. PICK L \in 1..9, D \in 1..5 : L = Length(ip) /\ D = Length(Decimal[p])
    BY HostLength, PortText
  <2>4. Room(s) = L + 2 + D
    BY <2>2, <2>3, AddressText
  <2>5. Room(s) \in Nat /\ Room(s) <= 2 * PathSize
    BY <2>4 DEF PathSize
  <2>6. ASSUME NEW n \in Nat
        PROVE  ToText(m, Len(c), n) = IF n < Room(s) THEN Nothing ELSE s
    <3>1. ToText(m, Len(c), n) = IF L + 1 + D < n THEN s ELSE Nothing
      <4>1. n \in Int
        OBVIOUS
      <4> QED BY <2>1, <2>2, <2>3, <4>1, Text4
    <3>2. L + 1 + D < n <=> ~(n < L + 2 + D)
      OBVIOUS
    <3> QED BY <2>4, <3>1, <3>2
  <2> QED BY <2>5, <2>6
<1>2. ASSUME NEW ip \in Hosts, NEW p \in 0..MaxPort, Cells6(c, ip, p)
      PROVE  \E s : /\ Room(s) \in Nat /\ Room(s) <= 2 * PathSize
                    /\ \A n \in Nat :
                         ToText(m, Len(c), n) = IF n < Room(s) THEN Nothing ELSE s
  <2>1. /\ m[1] = <<"family", "AF_INET6">> /\ m[2] = <<"port", p>>
        /\ m[4] = <<"ip", ip>>
    BY <1>2, StartCells
  <2>2. PICK s : s = Bracketed(ip) \o (<<":">> \o Decimal[p])
    OBVIOUS
  <2>3. PICK L \in 1..9, D \in 1..5 : L = Length(ip) /\ D = Length(Decimal[p])
    BY HostLength, PortText
  <2>4. Room(s) = L + 4 + D
    <3>1. Length(Bracketed(ip)) = L + 2
      <4>1. ip \in Seq(Tokens) /\ "[" \in Tokens /\ "]" \in Tokens
        BY HostText DEF Tokens
      <4> QED BY <2>3, <4>1, BracketsAround
    <3>2. Room(s) = Length(Bracketed(ip)) + 2 + D
      BY <2>2, <2>3, AddressText
    <3> QED BY <3>1, <3>2
  <2>5. Room(s) \in Nat /\ Room(s) <= 2 * PathSize
    BY <2>4 DEF PathSize
  <2>6. ASSUME NEW n \in Nat
        PROVE  ToText(m, Len(c), n) = IF n < Room(s) THEN Nothing ELSE s
    <3>1. ToText(m, Len(c), n) = IF L + 3 + D < n THEN s ELSE Nothing
      <4>1. n \in Int
        OBVIOUS
      <4> QED BY <2>1, <2>2, <2>3, <4>1, Text6
    <3>2. L + 3 + D < n <=> ~(n < L + 4 + D)
      OBVIOUS
    <3> QED BY <2>4, <3>1, <3>2
  <2> QED BY <2>5, <2>6
<1>3. ASSUME Len(c) = 1, c[1] = <<"family", "AF_UNIX">>
      PROVE  \E s : /\ Room(s) \in Nat /\ Room(s) <= 2 * PathSize
                    /\ \A n \in Nat :
                         ToText(m, Len(c), n) = IF n < Room(s) THEN Nothing ELSE s
  <2>1. m[1] = <<"family", "AF_UNIX">>
    BY <1>3, StartCells
  <2>2. ASSUME NEW n \in Nat PROVE ToText(m, Len(c), n) = Nothing
    <3>1. PICK v \in {1, 2, 7} : v = Len(c) /\ ~(v > 1)
      BY <1>3
    <3>2. n \in Int
      OBVIOUS
    <3>3. m[1] = <<"family", "AF_UNIX">> /\ (v > 1 => m[2] = <<"path", Nothing>>)
      BY <2>1, <3>1
    <3>4. ToText(m, v, n) = IF /\ v > 1
                               /\ IF IsAbstract(Nothing) THEN PathSize <= n
                                  ELSE Length(Nothing) < n
                            THEN Nothing ELSE Nothing
      BY <3>2, <3>3, TextPath
    <3> QED BY <3>1, <3>4
  <2>3. Room(Nothing) \in Nat /\ Room(Nothing) <= 2 * PathSize
    <3>1. Chars("nothing") = 1
      BY DEF Chars, Characters
    <3>2. Length(Nothing) = 1
      BY <3>1, LengthOne DEF Nothing
    <3> QED BY <3>2 DEF Room, PathSize
  <2> QED BY <2>2, <2>3
<1>4. ASSUME NEW path, CellsPath(c, path), IsPath(path)
      PROVE  \E s : /\ Room(s) \in Nat /\ Room(s) <= 2 * PathSize
                    /\ \A n \in Nat :
                         ToText(m, Len(c), n) = IF n < Room(s) THEN Nothing ELSE s
  <2>1. m[1] = <<"family", "AF_UNIX">> /\ m[2] = <<"path", path>>
    BY <1>4, StartCells DEF CellsPath
  <2>2. PICK L \in Nat : L = Length(path) /\ L < 108
    BY <1>4 DEF IsPath, PathSize
  <2>3. Room(path) \in Nat /\ Room(path) <= 2 * PathSize
    BY <2>2 DEF Room, PathSize
  <2>4. ASSUME NEW n \in Nat
        PROVE  ToText(m, Len(c), n) = IF n < Room(path) THEN Nothing ELSE path
    <3>1. PICK v \in {1, 2, 7} : v = Len(c) /\ v > 1
      BY <1>4 DEF CellsPath
    <3>2. ToText(m, v, n) = IF IF IsAbstract(path) THEN PathSize <= n ELSE L < n
                            THEN path ELSE Nothing
      <4>1. n \in Int /\ (v > 1 => m[2] = <<"path", path>>)
        BY <2>1
      <4>2. ToText(m, v, n) =
              IF /\ v > 1
                 /\ IF IsAbstract(path) THEN PathSize <= n ELSE Length(path) < n
              THEN path ELSE Nothing
        BY <2>1, <4>1, TextPath
      <4> QED BY <2>2, <3>1, <4>2
    <3>3. (IF IsAbstract(path) THEN PathSize <= n ELSE L < n) <=> ~(n < Room(path))
      BY <2>2 DEF Room, PathSize
    <3> QED BY <3>1, <3>2, <3>3
  <2> QED BY <2>3, <2>4
<1> QED BY <1>1, <1>2, <1>3, <1>4 DEF IsAddress

(* to_string(): it fills no buffer beyond its end, refuses none that has   *)
(* room for the text and its terminator, and gives all others the same.    *)
THEOREM FormatStaysInside == Spec => []FormatFits
<1>1. ASSUME Contents PROVE FormatFits
  <2> SUFFICES ASSUME NEW a \in Object, from[a] \notin {"none", "reused"},
                      NEW n \in Sizes, NEW r, r = ToText(mem[a], len[a], 2 * PathSize)
               PROVE  ToText(mem[a], len[a], n) =
                        IF r = Nothing \/ n < Room(r) THEN Nothing ELSE r
    BY DEF FormatFits, Room
  <2>1. PICK c : IsAddress(c) /\ len[a] = Len(c) /\ Starts(mem[a], c)
    BY <1>1, ContentIsAddress DEF Contents, Objects
  <2>2. PICK s : /\ Room(s) \in Nat /\ Room(s) <= 2 * PathSize
                 /\ \A k \in Nat :
                      ToText(mem[a], len[a], k) = IF k < Room(s) THEN Nothing ELSE s
    BY <2>1, Formats
  <2>3. n \in Nat /\ 2 * PathSize \in Nat
    BY AddressAssumption DEF PathSize
  <2>4. r = s
    <3>1. ~(2 * PathSize < Room(s))
      BY <2>2, <2>3
    <3> QED BY <2>2, <2>3, <3>1
  <2> QED BY <2>2, <2>3, <2>4
<1> QED BY <1>1, ContentsInvariant, PTL

-----------------------------------------------------------------------------
(* The two comparisons.                                                    *)

(* The members of what build() made. *)
LEMMA Members ==
  ASSUME NEW c, Made(c), NEW m, Starts(m, c)
  PROVE  \/ \E h, p : /\ c = Expected(h, p) /\ m[1] = <<"family", "AF_INET">>
                     /\ m[2] = <<"port", p>> /\ m[3] = <<"ip", h>>
         \/ \E h, p : /\ c = Expected(h, p) /\ m[1] = <<"family", "AF_INET6">>
                     /\ m[2] = <<"port", p>> /\ m[4] = <<"ip", h>>
         \/ \E t : /\ c = PathCells(t) /\ m[1] = <<"family", "AF_UNIX">>
                  /\ m[2] = <<"path", t>>
<1>0. IsAddress(c)
  BY MadeIsAddress
<1>1. ASSUME NEW h, NEW p, c = Expected(h, p), Cells4(c, h, p)
      PROVE  /\ m[1] = <<"family", "AF_INET">> /\ m[2] = <<"port", p>>
             /\ m[3] = <<"ip", h>>
  BY <1>0, <1>1, StartCells
<1>2. ASSUME NEW h \in DOMAIN Ipv6, NEW p, c = Expected(h, p), Cells6(c, Ipv6[h], p)
      PROVE  /\ c = Expected(Ipv6[h], p)
             /\ m[1] = <<"family", "AF_INET6">> /\ m[2] = <<"port", p>>
             /\ m[4] = <<"ip", Ipv6[h]>>
  <2>1. Expected(Ipv6[h], p) = Expected(h, p)
    BY CellsOf6
  <2>2. /\ m[1] = <<"family", "AF_INET6">> /\ m[2] = <<"port", p>>
        /\ m[4] = <<"ip", Ipv6[h]>>
    BY <1>0, <1>2, StartCells
  <2> QED BY <1>2, <2>1, <2>2
<1>3. ASSUME NEW t, c = PathCells(t), CellsPath(c, t)
      PROVE  m[1] = <<"family", "AF_UNIX">> /\ m[2] = <<"path", t>>
  BY <1>0, <1>3, StartCells DEF CellsPath
<1>4. CASE \E h, p : c = Expected(h, p) /\ Cells4(c, h, p)
  BY <1>1, <1>4
<1>5. CASE \E h \in DOMAIN Ipv6 : \E p : c = Expected(h, p) /\ Cells6(c, Ipv6[h], p)
  BY <1>2, <1>5
<1>6. CASE \E t : c = PathCells(t) /\ CellsPath(c, t)
  BY <1>3, <1>6
<1> QED BY <1>4, <1>5, <1>6, MadeIs

LEMMA EqualBytes ==
  ASSUME NEW c, Made(c), NEW m1, Starts(m1, c), NEW d, Made(d), NEW m2, Starts(m2, d),
         Equal(m1, m2)
  PROVE  c = d
<1>1. /\ m1[1] = m2[1]
      /\ \/ Family(m1) = "AF_INET" /\ m1[2] = m2[2] /\ m1[3] = m2[3]
         \/ Family(m1) = "AF_INET6" /\ m1[2] = m2[2] /\ m1[4] = m2[4]
         \/ Family(m1) = "AF_UNIX" /\ m1[2] = m2[2]
  BY DEF Equal
<1>2. CASE \E h, p : /\ c = Expected(h, p) /\ m1[1] = <<"family", "AF_INET">>
                    /\ m1[2] = <<"port", p>> /\ m1[3] = <<"ip", h>>
  <2>1. m2[1] = <<"family", "AF_INET">> /\ m1[2] = m2[2] /\ m1[3] = m2[3]
    BY <1>1, <1>2 DEF Family
  <2>2. m2[1] \notin {<<"family", "AF_INET6">>, <<"family", "AF_UNIX">>}
    BY <2>1
  <2>3. PICK h, p : d = Expected(h, p) /\ m2[2] = <<"port", p>> /\ m2[3] = <<"ip", h>>
    BY <2>2, Members
  <2> QED BY <1>2, <2>1, <2>3
<1>3. CASE \E h, p : /\ c = Expected(h, p) /\ m1[1] = <<"family", "AF_INET6">>
                    /\ m1[2] = <<"port", p>> /\ m1[4] = <<"ip", h>>
  <2>1. m2[1] = <<"family", "AF_INET6">> /\ m1[2] = m2[2] /\ m1[4] = m2[4]
    BY <1>1, <1>3 DEF Family
  <2>2. m2[1] \notin {<<"family", "AF_INET">>, <<"family", "AF_UNIX">>}
    BY <2>1
  <2>3. PICK h, p : d = Expected(h, p) /\ m2[2] = <<"port", p>> /\ m2[4] = <<"ip", h>>
    BY <2>2, Members
  <2> QED BY <1>3, <2>1, <2>3
<1>4. CASE \E t : /\ c = PathCells(t) /\ m1[1] = <<"family", "AF_UNIX">>
                 /\ m1[2] = <<"path", t>>
  <2>1. m2[1] = <<"family", "AF_UNIX">> /\ m1[2] = m2[2]
    BY <1>1, <1>4 DEF Family
  <2>2. m2[1] \notin {<<"family", "AF_INET">>, <<"family", "AF_INET6">>}
    BY <2>1
  <2>3. PICK t : d = PathCells(t) /\ m2[2] = <<"path", t>>
    BY <2>2, Members
  <2> QED BY <1>4, <2>1, <2>3
<1> QED BY <1>2, <1>3, <1>4, Members

(* Bytes of a length that covers the members. *)
LEMMA SameMembers ==
  ASSUME NEW c, IsAddress(c), NEW m1, Starts(m1, c), NEW m2,
         \A i \in 1..Len(c) : m1[i] = m2[i],
         \/ Family(m1) # "AF_UNIX"
         \/ Len(c) = SizeOf["AF_UNIX"]
         \/ Len(c) > 1 /\ ~IsAbstract(m1[2][2])
  PROVE  Equal(m1, m2)
<1>1. ASSUME NEW ip, NEW p, Cells4(c, ip, p) PROVE Equal(m1, m2)
  <2>1. m1[1] = <<"family", "AF_INET">> /\ Len(c) = 4
    BY <1>1, StartCells DEF Cells4
  <2>2. Family(m1) = "AF_INET" /\ \A i \in 1..4 : m1[i] = m2[i]
    BY <2>1 DEF Family
  <2> QED BY <2>2 DEF Equal
<1>2. ASSUME NEW ip, NEW p, Cells6(c, ip, p) PROVE Equal(m1, m2)
  <2>1. m1[1] = <<"family", "AF_INET6">> /\ Len(c) = 6
    BY <1>2, StartCells DEF Cells6
  <2>2. Family(m1) = "AF_INET6" /\ \A i \in 1..6 : m1[i] = m2[i]
    BY <2>1 DEF Family
  <2> QED BY <2>2 DEF Equal
<1>3. ASSUME c[1] = <<"family", "AF_UNIX">>, Len(c) = 1 PROVE Equal(m1, m2)
  <2>1. m1[1] = <<"family", "AF_UNIX">>
    BY <1>3, StartCells
  <2> QED BY <1>3, <2>1, SizesAre DEF Family
<1>4. ASSUME NEW path, CellsPath(c, path) PROVE Equal(m1, m2)
  <2>1. /\ m1[1] = <<"family", "AF_UNIX">> /\ m1[2] = <<"path", path>>
        /\ Len(c) \in {2, 7}
    BY <1>4, StartCells DEF CellsPath
  <2>2. Family(m1) = "AF_UNIX" /\ m1[2][1] = "path"
    BY <2>1 DEF Family
  <2>3. m1[1] = m2[1] /\ m1[2] = m2[2]
    <3>1. 1 \in 1..Len(c) /\ 2 \in 1..Len(c)
      BY <2>1
    <3> QED BY <3>1
  <2>4. CASE Len(c) = 7
    <3>1. \A i \in 3..7 : m1[i] = m2[i]
      BY <2>4
    <3> QED BY <2>2, <2>3, <3>1 DEF Equal
  <2>5. CASE Len(c) = 2
    <3>1. ~IsAbstract(m1[2][2])
      BY <2>2, <2>5, SizesAre
    <3> QED BY <2>2, <2>3, <3>1 DEF Equal
  <2> QED BY <2>1, <2>4, <2>5
<1> QED BY <1>1, <1>2, <1>3, <1>4 DEF IsAddress

(* operator== (socket.h, socket.cpp): the same bytes are equal members, if *)
(* the length covers these; of what build() made of any two texts, or of   *)
(* hosts and ports, equal members are the same bytes.                      *)
THEOREM ComparisonsAgree == Spec => []EqualityAgrees
<1>1. ASSUME Contents PROVE EqualityAgrees
  <2> SUFFICES ASSUME NEW a \in Object, NEW b \in Object
               PROVE  /\ (/\ {from[a], from[b]} \cap {"none", "reused"} = {}
                          /\ Covered(a) /\ Same(a, b))
                           => Equal(mem[a], mem[b])
                      /\ from[a] = "text" /\ from[b] = "text" /\ Equal(mem[a], mem[b])
                           => Same(a, b)
    BY DEF EqualityAgrees
  <2>1. Content(mem[a], len[a], from[a]) /\ Content(mem[b], len[b], from[b])
    BY <1>1 DEF Contents, Objects
  <2>2. ASSUME {from[a], from[b]} \cap {"none", "reused"} = {}, Covered(a), Same(a, b)
        PROVE  Equal(mem[a], mem[b])
    <3>1. from[a] \notin {"none", "reused"}
      BY <2>2
    <3>2. PICK c : IsAddress(c) /\ len[a] = Len(c) /\ Starts(mem[a], c)
      BY <2>1, <3>1, ContentIsAddress
    <3>3. \A i \in 1..Len(c) : mem[a][i] = mem[b][i]
      BY <2>2, <3>2 DEF Same
    <3>4. \/ Family(mem[a]) # "AF_UNIX"
          \/ Len(c) = SizeOf["AF_UNIX"]
          \/ Len(c) > 1 /\ ~IsAbstract(mem[a][2][2])
      BY <2>2, <3>2 DEF Covered
    <3> QED BY <3>2, <3>3, <3>4, SameMembers
  <2>3. ASSUME from[a] = "text", from[b] = "text", Equal(mem[a], mem[b])
        PROVE  Same(a, b)
    <3>1. PICK c : Made(c) /\ len[a] = Len(c) /\ Starts(mem[a], c)
      BY <2>1, <2>3 DEF Content
    <3>2. PICK d : Made(d) /\ len[b] = Len(d) /\ Starts(mem[b], d)
      BY <2>1, <2>3 DEF Content
    <3>3. c = d
      BY <2>3, <3>1, <3>2, EqualBytes
    <3> QED BY <3>1, <3>2, <3>3 DEF Same, Starts
  <2> QED BY <2>2, <2>3
<1> QED BY <1>1, ContentsInvariant, PTL
=============================================================================
