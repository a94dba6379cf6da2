--------------------------- MODULE FramingProofs ---------------------------
(***************************************************************************)
(* Lemmas about Framing, for streams of any number of messages of any      *)
(* length: what the recursive EndsOf computes, that the positions it gives *)
(* grow, and that no byte order makes a short message look complete.       *)
(***************************************************************************)
EXTENDS Framing, WellFoundedInduction, TLAPS

-----------------------------------------------------------------------------
(* Induction.  The induction theorems of the library take a predicate as a *)
(* parameter; the least element of a set of numbers serves as well.        *)
Less == {ss \in Nat \X Nat : ss[1] < ss[2]}

LEMMA LeastNat ==
  ASSUME NEW T \in SUBSET Nat, T # {}
  PROVE  \E m \in T : \A n \in T : m <= n
<1>1. Less = OpToRel(<, Nat)
  BY DEF OpToRel, Less
<1>2. IsWellFoundedOn(Less, Nat)
  BY <1>1, NatLessThanWellFounded, Zenon
<1>3. \A x, y \in Nat : x < y => <<x, y>> \in Less
  BY DEF Less
<1>4. PICK x \in T : \A y \in T : ~ (<<y, x>> \in Less)
  BY <1>2, WFMin, Zenon
<1>5. ASSUME NEW y \in T PROVE x <= y
  <2>1. x \in Nat /\ y \in Nat
    OBVIOUS
  <2>2. ~(y < x)
    BY <1>3, <1>4, <2>1, Zenon
  <2> QED
    BY <2>1, <2>2
<1> QED
  BY <1>5

LEMMA SetInduction ==
  ASSUME NEW S \in SUBSET Nat, 0 \in S, \A n \in S : n + 1 \in S
  PROVE  S = Nat
<1> SUFFICES ASSUME Nat \ S # {} PROVE FALSE
  OBVIOUS
<1>1. PICK m \in Nat \ S : \A n \in Nat \ S : m <= n
  BY LeastNat
<1>2. m - 1 \in S
  BY <1>1
<1> QED
  BY <1>1, <1>2

-----------------------------------------------------------------------------
(* The recursion of EndsOf, up to message n, has a solution.               *)
Sums(u, s, n) == u = [k \in 0..n |-> IF k = 0 THEN 0 ELSE u[k - 1] + s[k]]

LEMMA SumsExist ==
  ASSUME NEW s, NEW n \in Nat
  PROVE  \E u : Sums(u, s, n)
<1> DEFINE S == {m \in Nat : \E u : Sums(u, s, m)}
<1>1. 0 \in S
  <2> DEFINE u == [k \in 0..0 |-> 0]
  <2>1. u = [k \in 0..0 |-> IF k = 0 THEN 0 ELSE u[k - 1] + s[k]]
    OBVIOUS
  <2>2. Sums(u, s, 0)
    BY <2>1 DEF Sums
  <2> QED
    BY <2>2
<1>2. ASSUME NEW m \in S PROVE m + 1 \in S
  <2>1. PICK u : Sums(u, s, m)
    OBVIOUS
  <2> DEFINE v == [k \in 0..(m + 1) |-> IF k = m + 1 THEN u[m] + s[m + 1] ELSE u[k]]
  <2>2. \A k \in 0..m : u[k] = IF k = 0 THEN 0 ELSE u[k - 1] + s[k]
    BY <2>1 DEF Sums
  <2>3. \A k \in 0..(m + 1) : v[k] = IF k = 0 THEN 0 ELSE v[k - 1] + s[k]
    <3> SUFFICES ASSUME NEW k \in 0..(m + 1)
                 PROVE  v[k] = IF k = 0 THEN 0 ELSE v[k - 1] + s[k]
      OBVIOUS
    <3>1. CASE k = m + 1
      BY <3>1
    <3>2. CASE k \in 0..m
      BY <2>2, <3>2
    <3> QED
      BY <3>1, <3>2
  <2>4. v = [k \in 0..(m + 1) |-> IF k = 0 THEN 0 ELSE v[k - 1] + s[k]]
    BY <2>3
  <2>5. Sums(v, s, m + 1)
    BY <2>4 DEF Sums
  <2> QED
    BY <2>5
<1>3. S = Nat
  BY <1>1, <1>2, SetInduction
<1> QED
  BY <1>3

(* EndsOf computes what its definition says.                               *)
LEMMA EndsOfIs ==
  ASSUME NEW s, NEW n \in Nat, Len(s) = n
  PROVE  /\ DOMAIN EndsOf(s) = 0..n
         /\ EndsOf(s)[0] = 0
         /\ \A k \in 1..n : EndsOf(s)[k] = EndsOf(s)[k - 1] + s[k]
<1> DEFINE u == CHOOSE u : Sums(u, s, n)
<1>1. Sums(u, s, n)
  BY SumsExist, Zenon
<1>2. EndsOf(s) = [k \in 0..n |-> u[k]]
  BY DEF EndsOf, Sums
<1> HIDE DEF u
<1>3. \A k \in 0..n : u[k] = IF k = 0 THEN 0 ELSE u[k - 1] + s[k]
  BY <1>1 DEF Sums
<1> QED
  BY <1>2, <1>3

LEMMA LenOf ==
  ASSUME NEW s, NEW n \in Nat, s = [k \in 1..n |-> s[k]]
  PROVE  Len(s) = n
<1> DEFINE S == {s[k] : k \in 1..n}
<1>1. \A k \in 1..n : s[k] \in S
  OBVIOUS
<1> HIDE DEF S
<1>2. s \in [1..n -> S]
  BY <1>1
<1>3. s \in Seq(S) /\ DOMAIN s = 1..n
  BY <1>2
<1> QED
  BY <1>3

(* Messages of positive size, n of them.                                   *)
Stream(s, n) == n \in Nat /\ Len(s) = n /\ \A k \in 1..n : s[k] \in Nat \ {0}

LEMMA EndsType ==
  ASSUME NEW s, NEW n, Stream(s, n)
  PROVE  EndsOf(s) \in [0..n -> Nat]
<1>1. /\ n \in Nat /\ DOMAIN EndsOf(s) = 0..n /\ EndsOf(s)[0] = 0
      /\ \A k \in 1..n : s[k] \in Nat /\ EndsOf(s)[k] = EndsOf(s)[k - 1] + s[k]
  BY EndsOfIs DEF Stream
<1> DEFINE S == {m \in Nat : m \in 0..n => EndsOf(s)[m] \in Nat}
<1>2. 0 \in S
  BY <1>1
<1>3. ASSUME NEW m \in S PROVE m + 1 \in S
  <2> SUFFICES ASSUME m + 1 \in 0..n PROVE EndsOf(s)[m + 1] \in Nat
    OBVIOUS
  <2>1. m \in 0..n /\ m + 1 \in 1..n /\ (m + 1) - 1 = m
    BY <1>1
  <2>2. EndsOf(s)[m] \in Nat /\ EndsOf(s)[m + 1] = EndsOf(s)[m] + s[m + 1]
    BY <1>1, <2>1
  <2> QED
    BY <1>1, <2>1, <2>2
<1>4. S = Nat
  BY <1>2, <1>3, SetInduction
<1>5. \A m \in 0..n : EndsOf(s)[m] \in Nat
  <2> SUFFICES ASSUME NEW m \in 0..n PROVE EndsOf(s)[m] \in Nat
    OBVIOUS
  <2>1. m \in Nat
    BY <1>1
  <2>2. m \in S
    <3> HIDE DEF S
    <3> QED
      BY <1>4, <2>1
  <2> QED
    BY <2>2
<1>6. EndsOf(s) = [k \in 0..n |-> EndsOf(s)[k]]
  BY EndsOfIs DEF Stream, EndsOf
<1> QED
  BY <1>5, <1>6

(* The end of a message is before the start of every later one.            *)
LEMMA EndsGrow ==
  ASSUME NEW s, NEW n, Stream(s, n)
  PROVE  /\ EndsOf(s)[0] = 0
         /\ \A k \in 1..n : EndsOf(s)[k] = EndsOf(s)[k - 1] + s[k]
         /\ \A j, k \in 0..n : j <= k => EndsOf(s)[j] <= EndsOf(s)[k]
         /\ \A j, k \in 0..n : j < k => EndsOf(s)[j] + s[j + 1] <= EndsOf(s)[k]
<1> DEFINE e == EndsOf(s)
<1>1. /\ n \in Nat /\ e \in [0..n -> Nat] /\ e[0] = 0
      /\ \A k \in 1..n : s[k] \in Nat \ {0} /\ e[k] = e[k - 1] + s[k]
  BY EndsOfIs, EndsType DEF Stream
<1> HIDE DEF e
<1>2. ASSUME NEW j \in 0..n PROVE \A k \in 0..n : j <= k => e[j] <= e[k]
  <2> DEFINE S == {m \in Nat : m \in 0..n /\ j <= m => e[j] <= e[m]}
  <2>1. 0 \in S
    BY <1>1
  <2>2. ASSUME NEW m \in S PROVE m + 1 \in S
    <3> SUFFICES ASSUME m + 1 \in 0..n, j <= m + 1 PROVE e[j] <= e[m + 1]
      OBVIOUS
    <3>1. CASE j = m + 1
      BY <1>1, <3>1
    <3>2. CASE j <= m
      <4>1. m \in 0..n /\ m + 1 \in 1..n /\ (m + 1) - 1 = m
        BY <1>1
      <4>2. e[j] <= e[m] /\ e[m + 1] = e[m] + s[m + 1] /\ s[m + 1] \in Nat
        BY <1>1, <3>2, <4>1
      <4> QED
        BY <1>1, <4>1, <4>2
    <3> QED
      BY <3>1, <3>2
  <2>3. S = Nat
    BY <2>1, <2>2, SetInduction
  <2>4. \A m \in Nat : m \in 0..n /\ j <= m => e[j] <= e[m]
    BY <2>3
  <2> QED
    BY <1>1, <2>4
<1>3. ASSUME NEW j \in 0..n, NEW k \in 0..n, j < k PROVE e[j] + s[j + 1] <= e[k]
  <2>1. j + 1 \in 1..n /\ j + 1 \in 0..n /\ j + 1 <= k /\ (j + 1) - 1 = j
    BY <1>1, <1>3
  <2>2. e[j + 1] = e[j] + s[j + 1]
    BY <1>1, <2>1
  <2>3. e[j + 1] <= e[k]
    BY <1>2, <2>1
  <2> QED
    BY <2>2, <2>3
<1> QED
  BY <1>1, <1>2, <1>3 DEF e

(* A position behind a message belongs to that message only.               *)
LEMMA EndsDiffer ==
  ASSUME NEW s, NEW n, Stream(s, n), NEW j \in 0..n, NEW k \in 0..n,
         EndsOf(s)[j] = EndsOf(s)[k]
  PROVE  j = k
<1>1. EndsOf(s)[j] \in Nat /\ EndsOf(s)[k] \in Nat
  BY EndsType
<1>2. ASSUME NEW x \in 0..n, NEW y \in 0..n, x < y, EndsOf(s)[x] \in Nat
      PROVE  EndsOf(s)[x] # EndsOf(s)[y]
  <2>1. s[x + 1] \in Nat \ {0} /\ EndsOf(s)[x] + s[x + 1] <= EndsOf(s)[y]
    <3>1. x + 1 \in 1..n
      BY <1>2 DEF Stream
    <3>2. s[x + 1] \in Nat \ {0}
      BY <3>1 DEF Stream
    <3>3. EndsOf(s)[x] + s[x + 1] <= EndsOf(s)[y]
      BY <1>2, EndsGrow
    <3> QED
      BY <3>2, <3>3
  <2>2. EndsOf(s)[y] \in Nat
    BY EndsType
  <2> QED
    BY <1>2, <2>1, <2>2
<1>3. j \in Int /\ k \in Int
  OBVIOUS
<1> QED
  BY <1>1, <1>2, <1>3

(* With five bytes or more in every message, as tag and len are, all of    *)
(* this of its positions.                                                  *)
Apart(e, s, n) ==
    /\ n \in Nat /\ e[0] = 0 /\ \A k \in 0..n : e[k] \in Nat
    /\ \A k \in 1..n : e[k] = e[k - 1] + s[k]
    /\ \A j, k \in 0..n : j <= k => e[j] <= e[k]
    /\ \A j, k \in 0..n : j < k => e[j] + 5 <= e[k]
    /\ \A j, k \in 0..n : e[j] = e[k] => j = k

LEMMA EndsApart ==
  ASSUME NEW s, NEW n, Stream(s, n), \A k \in 1..n : s[k] >= 5
  PROVE  Apart(EndsOf(s), s, n)
<1> DEFINE e == EndsOf(s)
<1>1. n \in Nat /\ e \in [0..n -> Nat]
  BY EndsType DEF Stream
<1>2. /\ e[0] = 0
      /\ \A k \in 1..n : e[k] = e[k - 1] + s[k]
      /\ \A j, k \in 0..n : j <= k => e[j] <= e[k]
      /\ \A j, k \in 0..n : j < k => e[j] + s[j + 1] <= e[k]
  BY EndsGrow
<1>3. \A j, k \in 0..n : e[j] = e[k] => j = k
  BY EndsDiffer
<1> HIDE DEF e
<1>4. ASSUME NEW j \in 0..n, NEW k \in 0..n, j < k PROVE e[j] + 5 <= e[k]
  <2>1. j + 1 \in 1..n
    BY <1>1, <1>4
  <2> DEFINE z == s[j + 1]
  <2>2. z \in Nat /\ z >= 5
    BY <2>1 DEF Stream
  <2>3. e[j] + z <= e[k]
    BY <1>2, <1>4
  <2> HIDE DEF z
  <2> QED
    BY <1>1, <2>2, <2>3
<1>5. Apart(e, s, n)
  BY <1>1, <1>2, <1>3, <1>4 DEF Apart
<1> QED
  BY <1>5 DEF e

(* A piece ends at a byte of the stream.                                   *)
LEMMA PiecesFit ==
  ASSUME NEW s, NEW n, Stream(s, n), DOMAIN s = 1..n, NEW offsets, NEW e \in PiecesOf(s, offsets)
  PROVE  e \in Nat /\ e <= EndsOf(s)[n]
<1>1. PICK k \in 1..n :
         \/ e = EndsOf(s)[k]
         \/ \E o \in offsets \cap 1..s[k] : e = EndsOf(s)[k - 1] + o
  BY DEF PiecesOf
<1>2. n \in Nat /\ k \in 0..n /\ k - 1 \in 0..n /\ n \in 0..n /\ k <= n
  BY DEF Stream
<1>3. EndsOf(s)[k] \in Nat /\ EndsOf(s)[k - 1] \in Nat /\ EndsOf(s)[n] \in Nat
  BY <1>2, EndsType
<1>4. EndsOf(s)[k] = EndsOf(s)[k - 1] + s[k] /\ EndsOf(s)[k] <= EndsOf(s)[n]
  BY <1>2, EndsGrow
<1> DEFINE z == s[k]
<1>5. z \in Nat
  BY DEF Stream
<1>6. /\ EndsOf(s)[k] = EndsOf(s)[k - 1] + z
      /\ e = EndsOf(s)[k] \/ \E o \in 1..z : e = EndsOf(s)[k - 1] + o
  BY <1>1, <1>4
<1> HIDE DEF z
<1> QED
  BY <1>3, <1>4, <1>5, <1>6

-----------------------------------------------------------------------------
(* The length of a message that is shorter than 2^16 bytes is never taken *)
(* for less than it is: a wrong byte order can only make it wait.          *)
LEMMA NeverShorter ==
  ASSUME NEW big \in BOOLEAN, NEW len \in 0..(2^16 - 1)
  PROVE  PeekTagLen(big, len) \in Nat /\ PeekTagLen(big, len) >= len
<1> DEFINE a == len % 256
           b == len \div 256
<1>1. a \in 0..255 /\ b \in 0..255 /\ len = a + 256 * b
  OBVIOUS
<1>2. len \div 2^16 = 0 /\ len \div 2^24 = 0 /\ b % 256 = b
  OBVIOUS
<1>3. SwapBytes(len) = a * 2^24 + b * 2^16
  BY <1>1, <1>2 DEF SwapBytes
<1> HIDE DEF a, b
<1>4. SwapBytes(len) \in Nat /\ SwapBytes(len) >= len
  BY <1>1, <1>3
<1> QED
  BY <1>4 DEF PeekTagLen
=============================================================================
