---------------------------- MODULE BufferProofs ----------------------------
(***************************************************************************)
(* Theorems about Buffer, for any size of the array, of extrabuf and of    *)
(* what is put in: the type invariant, when a store can go wrong, and that *)
(* Buffer implements ByteQueue: exactly the bytes given to it are added.   *)
(***************************************************************************)
EXTENDS Buffer, SequenceTheorems, TLAPS

(* A buffer with its indices in order, whose content consists of bytes     *)
(* that were put in: no element between the indices is unwritten.          *)
IsBuffer(b) ==
    /\ b = [mem |-> b.mem, cap |-> b.cap, rd |-> b.rd, wr |-> b.wr]
    /\ b.cap \in Nat \ {0}
    /\ b.mem \in [0..(b.cap - 1) -> Byte \cup {Junk}]
    /\ b.rd \in 0..b.wr
    /\ b.wr \in 0..b.cap
    /\ \A i \in b.rd..(b.wr - 1) : b.mem[i] \in Byte

-----------------------------------------------------------------------------
(* The operators of Buffer.                                                *)

LEMMA FunIsSeq ==
  ASSUME NEW S, NEW n \in Nat, NEW f \in [1..n -> S]
  PROVE  f \in Seq(S) /\ Len(f) = n
  OBVIOUS

LEMMA BytesConcat ==
  \A u, s, t \in Seq(Byte) : (u \o s) \o t = u \o (s \o t)
  BY ConcatAssociative, SMTT(20)

(* EXCEPT on the fields of a buffer.                                       *)
LEMMA SetMemWr ==
  ASSUME NEW b, IsBuffer(b), NEW x, NEW y \in Int
  PROVE  [b EXCEPT !.mem = x, !.wr = y]
           = [mem |-> x, cap |-> b.cap, rd |-> b.rd, wr |-> y]
<1> DEFINE B == [mem : {b.mem, x}, cap : Nat, rd : Int, wr : Int]
           d == [b EXCEPT !.mem = x]
<1>1. b \in B
  BY DEF IsBuffer
<1>2. d \in B /\ d = [mem |-> x, cap |-> b.cap, rd |-> b.rd, wr |-> b.wr]
  BY <1>1
<1> HIDE DEF d
<1>3. [d EXCEPT !.wr = y] = [mem |-> x, cap |-> b.cap, rd |-> b.rd, wr |-> y]
  BY <1>2
<1>4. [b EXCEPT !.mem = x, !.wr = y] = [[b EXCEPT !.mem = x] EXCEPT !.wr = y]
  OBVIOUS
<1> QED  BY <1>3, <1>4 DEF d

LEMMA SetRd ==
  ASSUME NEW b, IsBuffer(b), NEW x \in Int
  PROVE  [b EXCEPT !.rd = x]
           = [mem |-> b.mem, cap |-> b.cap, rd |-> x, wr |-> b.wr]
<1>1. b \in [mem : {b.mem}, cap : Nat, rd : Int, wr : Int]
  BY DEF IsBuffer
<1> QED  BY <1>1

LEMMA ContentIsSeq ==
  ASSUME NEW b, IsBuffer(b)
  PROVE  /\ Content(b) \in Seq(Byte)
         /\ Len(Content(b)) = GetLength(b)
         /\ GetLength(b) \in Nat
         /\ \A i \in 1..GetLength(b) : Content(b)[i] = b.mem[b.rd + i - 1]
<1>1. GetLength(b) \in Nat
  BY DEF IsBuffer, GetLength
<1>2. \A i \in 1..GetLength(b) : b.mem[b.rd + i - 1] \in Byte
  BY DEF IsBuffer, GetLength
<1>3. Content(b) \in [1..GetLength(b) -> Byte]
      /\ \A i \in 1..GetLength(b) : Content(b)[i] = b.mem[b.rd + i - 1]
  BY <1>1, <1>2 DEF Content
<1> QED  BY <1>1, <1>3, FunIsSeq

(* A block of bytes stored within the array.                               *)
LEMMA StoreType ==
  ASSUME NEW cap \in Nat, NEW at \in Nat, NEW s \in Seq(Byte),
         NEW mem \in [0..(cap - 1) -> Byte \cup {Junk}],
         at + Len(s) <= cap
  PROVE  /\ Store(mem, at, s) \in [0..(cap - 1) -> Byte \cup {Junk}]
         /\ \A i \in 0..(at - 1) : Store(mem, at, s)[i] = mem[i]
         /\ \A i \in 1..Len(s) : Store(mem, at, s)[at + i - 1] = s[i]
<1>1. \A i \in at..(at + Len(s) - 1) : s[i - at + 1] \in Byte
  OBVIOUS
<1>2. /\ Store(mem, at, s) \in [0..(cap - 1) -> Byte \cup {Junk}]
      /\ \A i \in 0..(cap - 1) :
              Store(mem, at, s)[i] = IF i \in at..(at + Len(s) - 1)
                                     THEN s[i - at + 1] ELSE mem[i]
  BY <1>1 DEF Store
<1>3. \A i \in 0..(at - 1) : i \in 0..(cap - 1) /\ i \notin at..(at + Len(s) - 1)
  OBVIOUS
<1>4. \A i \in 1..Len(s) : /\ at + i - 1 \in 0..(cap - 1)
                           /\ at + i - 1 \in at..(at + Len(s) - 1)
                           /\ (at + i - 1) - at + 1 = i
  OBVIOUS
<1> QED  BY <1>2, <1>3, <1>4

(* A buffer of which the elements rd .. wr-1 are those of u and then those *)
(* of s has the content u \o s.                                            *)
Holds(c, u, s) ==
    /\ c = [mem |-> c.mem, cap |-> c.cap, rd |-> c.rd,
            wr |-> c.rd + Len(u) + Len(s)]
    /\ c.rd \in Nat
    /\ c.cap \in Nat \ {0}
    /\ c.mem \in [0..(c.cap - 1) -> Byte \cup {Junk}]
    /\ c.rd + Len(u) + Len(s) <= c.cap
    /\ \A i \in 1..Len(u) : c.mem[c.rd + i - 1] = u[i]
    /\ \A i \in 1..Len(s) : c.mem[c.rd + Len(u) + i - 1] = s[i]

LEMMA ContentIs ==
  ASSUME NEW u \in Seq(Byte), NEW s \in Seq(Byte), NEW c, Holds(c, u, s)
  PROVE  IsBuffer(c) /\ Content(c) = u \o s
<1> USE DEF Holds
<1> DEFINE t == u \o s
<1>1. /\ t \in Seq(Byte) /\ Len(t) = Len(u) + Len(s)
      /\ \A i \in 1..Len(t) : t[i] \in Byte
  BY ConcatProperties, ElementOfSeq
<1>2. \A i \in 1..Len(t) : c.mem[c.rd + i - 1] = t[i]
  <2> SUFFICES ASSUME NEW i \in 1..Len(t) PROVE c.mem[c.rd + i - 1] = t[i]
    OBVIOUS
  <2>0. Len(u) \in Nat /\ Len(s) \in Nat
    OBVIOUS
  <2>1. t[i] = IF i <= Len(u) THEN u[i] ELSE s[i - Len(u)]
    BY <1>1, ConcatProperties
  <2>2. CASE i <= Len(u)
    BY <1>1, <2>0, <2>1, <2>2
  <2>3. CASE i > Len(u)
    <3>1. i - Len(u) \in 1..Len(s)
          /\ c.rd + Len(u) + (i - Len(u)) - 1 = c.rd + i - 1
      BY <1>1, <2>0, <2>3
    <3>2. c.mem[c.rd + Len(u) + (i - Len(u)) - 1] = s[i - Len(u)]
      BY <3>1
    <3> QED  BY <2>0, <2>1, <2>3, <3>1, <3>2
  <2> QED  BY <2>0, <2>2, <2>3
<1> HIDE DEF t
<1>3. c.rd \in Nat /\ c.wr = c.rd + Len(t) /\ Len(t) \in Nat
  BY <1>1
<1>4. \A i \in c.rd..(c.wr - 1) : c.mem[i] \in Byte
  <2> SUFFICES ASSUME NEW i \in c.rd..(c.wr - 1) PROVE c.mem[i] \in Byte
    OBVIOUS
  <2>1. i - c.rd + 1 \in 1..Len(t) /\ c.rd + (i - c.rd + 1) - 1 = i
    BY <1>3
  <2> QED  BY <1>1, <1>2, <2>1
<1>5. IsBuffer(c)
  <2>1. c.rd \in 0..c.wr /\ c.wr \in 0..c.cap
    BY <1>1, <1>3
  <2>2. c = [mem |-> c.mem, cap |-> c.cap, rd |-> c.rd, wr |-> c.wr]
    BY <1>1, <1>3
  <2> QED  BY <1>4, <2>1, <2>2 DEF IsBuffer
<1>6. /\ Content(c) \in Seq(Byte) /\ Len(Content(c)) = Len(t)
      /\ \A i \in 1..Len(t) : Content(c)[i] = t[i]
  <2>1. /\ Content(c) \in Seq(Byte)
        /\ Len(Content(c)) = GetLength(c)
        /\ \A i \in 1..GetLength(c) : Content(c)[i] = c.mem[c.rd + i - 1]
    BY <1>5, ContentIsSeq
  <2>2. GetLength(c) = Len(t)
    BY <1>3 DEF GetLength
  <2> QED  BY <1>2, <1>3, <2>1, <2>2
<1>7. Content(c) = t
  BY <1>1, <1>6, SeqEqual
<1> QED  BY <1>5, <1>7 DEF t

(* Put adds the bytes behind the content and leaves the rest alone.        *)
LEMMA PutAppends ==
  ASSUME NEW b, IsBuffer(b), NEW s \in Seq(Byte), Fits(b, s)
  PROVE  /\ IsBuffer(Put(b, s))
         /\ Put(b, s).cap = b.cap
         /\ Put(b, s).wr = b.wr + Len(s)
         /\ Content(Put(b, s)) = Content(b) \o s
<1> DEFINE mem == Store(b.mem, b.wr, s)
           c == Put(b, s)
           u == Content(b)
<1>1. b.wr \in Nat /\ b.rd \in Nat /\ b.cap \in Nat \ {0} /\ Len(s) \in Nat
      /\ b.wr + Len(s) <= b.cap /\ b.rd <= b.wr
  BY DEF IsBuffer, Fits
<1>2. /\ mem \in [0..(b.cap - 1) -> Byte \cup {Junk}]
      /\ \A i \in 0..(b.wr - 1) : mem[i] = b.mem[i]
      /\ \A i \in 1..Len(s) : mem[b.wr + i - 1] = s[i]
  BY <1>1, StoreType DEF IsBuffer
<1>3. c = [mem |-> mem, cap |-> b.cap, rd |-> b.rd, wr |-> b.wr + Len(s)]
  <2>1. c = [b EXCEPT !.mem = mem, !.wr = b.wr + Len(s)]
    BY DEF Put
  <2>2. b.wr + Len(s) \in Int
    BY <1>1
  <2> QED  BY <2>1, <2>2, SetMemWr
<1> HIDE DEF mem, c
<1>4. /\ u \in Seq(Byte) /\ Len(u) \in Nat /\ b.wr = b.rd + Len(u)
      /\ \A i \in 1..Len(u) : u[i] = b.mem[b.rd + i - 1]
  BY <1>1, ContentIsSeq DEF GetLength
<1> HIDE DEF u
<1>5. \A i \in 1..Len(u) : mem[b.rd + i - 1] = u[i]
  <2> SUFFICES ASSUME NEW i \in 1..Len(u)
               PROVE  mem[b.rd + i - 1] = u[i]
    OBVIOUS
  <2>1. b.rd + i - 1 \in 0..(b.wr - 1)
    BY <1>1, <1>4
  <2>2. mem[b.rd + i - 1] = b.mem[b.rd + i - 1]
    BY <1>2, <2>1
  <2> QED  BY <1>4, <2>2
<1>6. \A i \in 1..Len(s) : mem[b.rd + Len(u) + i - 1] = s[i]
  <2>1. b.rd + Len(u) = b.wr
    BY <1>4
  <2>2. \A i \in 1..Len(s) : mem[b.wr + i - 1] = s[i]
    BY <1>2
  <2> QED  BY <2>1, <2>2, Zenon
<1>7. IsBuffer(c) /\ Content(c) = u \o s
  <2>1. /\ c.mem = mem /\ c.cap = b.cap
        /\ c.rd = b.rd
        /\ c = [mem |-> c.mem, cap |-> c.cap, rd |-> c.rd,
                wr |-> c.rd + Len(u) + Len(s)]
        /\ c.rd + Len(u) + Len(s) <= c.cap
    BY <1>1, <1>3, <1>4
  <2>2. /\ c.rd \in Nat /\ c.cap \in Nat \ {0}
        /\ c.mem \in [0..(c.cap - 1) -> Byte \cup {Junk}]
    BY <1>1, <1>2, <2>1
  <2>3. /\ \A i \in 1..Len(u) : c.mem[c.rd + i - 1] = u[i]
        /\ \A i \in 1..Len(s) : c.mem[c.rd + Len(u) + i - 1] = s[i]
    BY <1>5, <1>6, <2>1, Zenon
  <2>4. Holds(c, u, s)
    BY <2>1, <2>2, <2>3, Zenon DEF Holds
  <2> QED  BY <1>4, <2>4, ContentIs
<1> QED  BY <1>3, <1>7 DEF c, u

(* Content(b) at the front of an array mem of cap elements.                *)
LEMMA ContentMoved ==
  ASSUME NEW b, IsBuffer(b), NEW cap \in Nat \ {0},
         GetLength(b) <= cap,
         NEW mem \in [0..(cap - 1) -> Byte \cup {Junk}], NEW c,
         c = [mem |-> Store(mem, 0, Content(b)), cap |-> cap,
              rd |-> 0, wr |-> GetLength(b)]
  PROVE  IsBuffer(c) /\ Content(c) = Content(b)
<1> DEFINE u == Content(b)
           m == Store(mem, 0, u)
<1>1. u \in Seq(Byte) /\ Len(u) = GetLength(b) /\ Len(u) \in Nat
  BY ContentIsSeq
<1> HIDE DEF u
<1>2. /\ m \in [0..(cap - 1) -> Byte \cup {Junk}]
      /\ \A i \in 1..Len(u) : m[0 + i - 1] = u[i]
  BY <1>1, StoreType
<1>3. c.mem = m /\ c.cap = cap /\ c.rd = 0
      /\ c = [mem |-> c.mem, cap |-> c.cap, rd |-> c.rd, wr |-> c.rd + Len(u) + 0]
  BY <1>1 DEF u
<1> HIDE DEF m
<1> DEFINE z == <<>>
<1>4. z \in Seq(Byte) /\ Len(z) = 0 /\ u \o z = u
  BY <1>1, ConcatEmptySeq
<1> HIDE DEF z
<1>5. IsBuffer(c) /\ Content(c) = u \o z
  <2>1. \A i \in 1..Len(z) : c.mem[c.rd + Len(u) + i - 1] = z[i]
    BY <1>4
  <2>2. c = [mem |-> c.mem, cap |-> c.cap, rd |-> c.rd,
             wr |-> c.rd + Len(u) + Len(z)]
        /\ c.rd + Len(u) + Len(z) <= c.cap
    BY <1>1, <1>3, <1>4 DEF u
  <2>3. \A i \in 1..Len(u) : c.mem[c.rd + i - 1] = u[i]
    BY <1>2, <1>3, <1>1
  <2>4. c.rd \in Nat /\ c.cap \in Nat \ {0}
        /\ c.mem \in [0..(c.cap - 1) -> Byte \cup {Junk}]
    BY <1>2, <1>3, <1>1
  <2> HIDE DEF u
  <2>5. Holds(c, u, z)
    BY <2>1, <2>2, <2>3, <2>4, Zenon DEF Holds
  <2> QED  BY <1>1, <1>4, <2>5, ContentIs
<1> QED  BY <1>4, <1>5 DEF u

(* adjust and grow keep the content; grow allocates enough for n more.     *)
LEMMA AdjustKeeps ==
  ASSUME NEW b, IsBuffer(b)
  PROVE  /\ IsBuffer(Adjust(b))
         /\ Content(Adjust(b)) = Content(b)
         /\ Adjust(b).cap = b.cap
         /\ Adjust(b).wr = GetLength(b)
<1> DEFINE m == Store(b.mem, 0, Content(b))
<1>1. GetLength(b) \in Nat /\ GetLength(b) <= b.cap
  BY ContentIsSeq DEF IsBuffer, GetLength
<1>2. Adjust(b) = [mem |-> m, cap |-> b.cap, rd |-> 0, wr |-> GetLength(b)]
  <2> DEFINE d == [b EXCEPT !.mem = m, !.wr = GetLength(b)]
  <2>1. d = [mem |-> m, cap |-> b.cap, rd |-> b.rd, wr |-> GetLength(b)]
    <3> HIDE DEF m
    <3>1. GetLength(b) \in Int
      BY <1>1
    <3> QED  BY <3>1, SetMemWr
  <2>2. Adjust(b) = [d EXCEPT !.rd = 0]
    BY DEF Adjust
  <2> HIDE DEF d
  <2> QED  BY <2>1, <2>2
<1>3. IsBuffer(Adjust(b)) /\ Content(Adjust(b)) = Content(b)
  BY <1>1, <1>2, ContentMoved DEF IsBuffer
<1> QED  BY <1>2, <1>3

LEMMA ReallocKeeps ==
  ASSUME NEW b, IsBuffer(b), NEW n \in Nat
  PROVE  /\ IsBuffer(Realloc(b, n))
         /\ Content(Realloc(b, n)) = Content(b)
         /\ Realloc(b, n).wr + n <= Realloc(b, n).cap
<1> DEFINE cap == b.cap * 2 + n
           mem == [i \in 0..(cap - 1) |-> Junk]
<1>1. /\ GetLength(b) \in Nat /\ cap \in Nat \ {0}
      /\ GetLength(b) <= cap /\ GetLength(b) + n <= cap
  BY ContentIsSeq DEF IsBuffer, GetLength
<1>2. mem \in [0..(cap - 1) -> Byte \cup {Junk}]
  OBVIOUS
<1>3. Realloc(b, n) = [mem |-> Store(mem, 0, Content(b)), cap |-> cap,
                       rd |-> 0, wr |-> GetLength(b)]
  BY DEF Realloc
<1> HIDE DEF mem, cap
<1>4. IsBuffer(Realloc(b, n)) /\ Content(Realloc(b, n)) = Content(b)
  BY <1>1, <1>2, <1>3, ContentMoved
<1> QED  BY <1>1, <1>3, <1>4

(* ensureCapacity keeps the content, and leaves too little room for n more *)
(* bytes only when they and the content are longer than the array.         *)
LEMMA EnsureCapacityKeeps ==
  ASSUME NEW b, IsBuffer(b), NEW n \in Nat
  PROVE  LET e == EnsureCapacity(b, n)
         IN  /\ IsBuffer(e)
             /\ Content(e) = Content(b)
             /\ e.wr + n > e.cap => GetLength(e) + n > e.cap
<1>1. CASE b.cap - b.wr >= n
  <2>1. EnsureCapacity(b, n) = b
    BY <1>1 DEF EnsureCapacity, IsBuffer
  <2>2. ~(b.wr + n > b.cap)
    BY <1>1 DEF IsBuffer
  <2> QED  BY <2>1, <2>2
<1>2. CASE b.cap - b.wr < n /\ b.wr + b.cap - b.rd < n
  <2>1. EnsureCapacity(b, n) = Realloc(b, n)
    BY <1>2 DEF EnsureCapacity, Grow
  <2>2. ~(Realloc(b, n).wr + n > Realloc(b, n).cap)
    <3>1. IsBuffer(Realloc(b, n)) /\ Realloc(b, n).wr + n <= Realloc(b, n).cap
      BY ReallocKeeps
    <3> QED  BY <3>1 DEF IsBuffer
  <2> QED  BY <2>1, <2>2, ReallocKeeps
<1>3. CASE b.cap - b.wr < n /\ ~(b.wr + b.cap - b.rd < n)
  <2> DEFINE e == Adjust(b)
  <2>1. EnsureCapacity(b, n) = e
    BY <1>3 DEF EnsureCapacity, Grow
  <2>2. /\ IsBuffer(e) /\ Content(e) = Content(b)
        /\ e.wr = GetLength(b)
    BY AdjustKeeps
  <2>3. GetLength(e) = GetLength(b)
    <3>1. Len(Content(e)) = GetLength(e) /\ Len(Content(b)) = GetLength(b)
      BY <2>2, ContentIsSeq
    <3> QED  BY <2>2, <3>1
  <2> QED  BY <2>1, <2>2, <2>3
<1> QED  BY <1>1, <1>2, <1>3 DEF IsBuffer

-----------------------------------------------------------------------------
(* What a buffer may become, as a step of ByteQueue: the next bytes are    *)
(* added, the first ones are taken, or nothing changes.                    *)
Stored == fed - overrun

Fresh(p, k) == [i \in 1..k |-> p + i]

Adds == \E k \in Nat : /\ Stored' = Stored + k
                       /\ Content(buf') = Content(buf) \o Fresh(Stored, k)

Takes(u, v) == \E n \in 1..Len(u) : v = SubSeq(u, n + 1, Len(u))

(* The inductive invariant: the type invariant with what IsBuffer adds to  *)
(* it, and the length of a failed store.                                   *)
IInv == /\ IsBuffer(buf)
        /\ fed \in 0..MaxBytes
        /\ overrun \in 0..MaxBytes
        /\ SafeWhileItFits

LEMMA IInvImplies == IInv => TypeOK /\ SafeWhileItFits
  BY DEF IInv, IsBuffer, TypeOK

(* append(), of n > 0 bytes not put in before, to a buffer b.              *)
LEMMA AppendStep ==
  ASSUME NEW b, IsBuffer(b), NEW s \in Seq(Byte), Len(s) \in 0..MaxBytes,
         AppendTo(b, s)
  PROVE  /\ IsBuffer(buf')
         /\ overrun' \in 0..MaxBytes
         /\ overrun' > 0 => GetLength(buf') + overrun' > buf'.cap
         /\ \/ overrun' = 0 /\ Content(buf') = Content(b) \o s
            \/ overrun' = Len(s) /\ Content(buf') = Content(b)
<1> DEFINE e == EnsureCapacity(b, Len(s))
<1>0. Len(s) \in Nat
  OBVIOUS
<1>1. /\ IsBuffer(e) /\ Content(e) = Content(b)
      /\ e.wr + Len(s) > e.cap => GetLength(e) + Len(s) > e.cap
  BY <1>0, EnsureCapacityKeeps
<1>2. \/ Fits(e, s) /\ buf' = Put(e, s) /\ overrun' = 0
      \/ ~Fits(e, s) /\ buf' = e /\ overrun' = Len(s)
  BY DEF AppendTo
<1> HIDE DEF e
<1>3. CASE Fits(e, s) /\ buf' = Put(e, s) /\ overrun' = 0
  <2>1. IsBuffer(Put(e, s)) /\ Content(Put(e, s)) = Content(e) \o s
    BY <1>1, <1>3, PutAppends
  <2>2. overrun' \in 0..MaxBytes /\ ~(overrun' > 0)
    BY <1>3, BufferAssumption
  <2> QED  BY <1>1, <1>3, <2>1, <2>2, Zenon
<1>4. CASE ~Fits(e, s) /\ buf' = e /\ overrun' = Len(s)
  <2>1. e.wr + Len(s) > e.cap
    BY <1>0, <1>1, <1>4 DEF Fits, IsBuffer
  <2> QED  BY <1>1, <1>4, <2>1
<1> QED  BY <1>2, <1>3, <1>4

(* NewBytes(n) is a sequence of bytes, none of them put in before.         *)
LEMMA NewBytesIsSeq ==
  ASSUME fed \in 0..MaxBytes, NEW n \in Nat, fed + n <= MaxBytes
  PROVE  NewBytes(n) \in Seq(Byte) /\ Len(NewBytes(n)) = n
<1>1. \A i \in 1..n : fed + i \in Byte
  BY BufferAssumption DEF Byte
<1>2. NewBytes(n) \in [1..n -> Byte]
  BY <1>1 DEF NewBytes
<1> QED  BY <1>2, FunIsSeq

(* Adding no byte, and the two parts of a sequence.                        *)
LEMMA NothingFresh ==
  ASSUME NEW u \in Seq(Byte)
  PROVE  u = u \o Fresh(Stored, 0)
<1>1. Fresh(Stored, 0) = <<>>
  BY DEF Fresh
<1> QED  BY <1>1, ConcatEmptySeq

LEMMA Split ==
  ASSUME NEW d \in Seq(Byte), NEW t \in 0..Len(d)
  PROVE  SubSeq(d, 1, t) \o SubSeq(d, t + 1, Len(d)) = d
<1> DEFINE x == SubSeq(d, 1, t)
           y == SubSeq(d, t + 1, Len(d))
<1>0. Len(d) \in Nat /\ t \in Nat
  OBVIOUS
<1>1. /\ x \in Seq(Byte) /\ Len(x) = t
      /\ \A i \in 1..t : x[i] = d[i]
  OBVIOUS
<1>2. /\ y \in Seq(Byte) /\ Len(y) = Len(d) - t
      /\ \A i \in 1..(Len(d) - t) : y[i] = d[t + i]
  OBVIOUS
<1> HIDE DEF x, y
<1>3. /\ x \o y \in Seq(Byte) /\ Len(x \o y) = Len(d)
      /\ \A i \in 1..Len(d) :
            (x \o y)[i] = IF i <= Len(x) THEN x[i] ELSE y[i - Len(x)]
  BY <1>0, <1>1, <1>2, ConcatProperties
<1>4. ASSUME NEW i \in 1..Len(d) PROVE (x \o y)[i] = d[i]
  <2>1. CASE i <= t
    BY <1>0, <1>1, <1>3, <2>1
  <2>2. CASE i > t
    <3>1. i - t \in 1..(Len(d) - t) /\ t + (i - t) = i
      BY <1>0, <2>2
    <3>2. y[i - t] = d[i]
      BY <1>2, <3>1
    <3> QED  BY <1>0, <1>1, <1>3, <2>2, <3>2
  <2>3. i <= t \/ i > t
    BY <1>0
  <2> QED  BY <2>1, <2>2, <2>3, Zenon
<1>5. x \o y = d
  <2> DEFINE z == x \o y
  <2>1. /\ z \in Seq(Byte) /\ Len(z) = Len(d)
        /\ \A i \in 1..Len(z) : z[i] = d[i]
    BY <1>3, <1>4
  <2> HIDE DEF z
  <2>2. z = d
    BY <2>1, SeqEqual
  <2> QED  BY <2>2 DEF z
<1> QED  BY <1>5 DEF x, y

(* AppendBytes and ReadFd, the two operations that put bytes in.           *)
LEMMA AppendBytesStep ==
  ASSUME IInv, NEW n \in 1..MaxBytes, AppendBytes(n)
  PROVE  IInv' /\ Adds
<1>0. /\ n \in Nat /\ IsBuffer(buf) /\ fed \in 0..MaxBytes
      /\ fed + n <= MaxBytes /\ Stored = fed
  BY BufferAssumption DEF IInv, AppendBytes, Defined, Stored
<1>1. NewBytes(n) \in Seq(Byte) /\ Len(NewBytes(n)) = n
  BY <1>0, NewBytesIsSeq
<1>2. AppendTo(buf, NewBytes(n)) /\ fed' = fed + n
  BY DEF AppendBytes
<1>3. /\ IsBuffer(buf') /\ overrun' \in 0..MaxBytes
      /\ overrun' > 0 => GetLength(buf') + overrun' > buf'.cap
      /\ \/ overrun' = 0 /\ Content(buf') = Content(buf) \o NewBytes(n)
         \/ overrun' = n /\ Content(buf') = Content(buf)
  <2>1. Len(NewBytes(n)) \in 0..MaxBytes
    BY <1>0, <1>1, BufferAssumption
  <2> HIDE DEF NewBytes
  <2> QED  BY <1>0, <1>1, <1>2, <2>1, AppendStep
<1>4. fed' \in 0..MaxBytes
  BY <1>0, <1>2, BufferAssumption
<1>5. IInv'
  BY <1>3, <1>4 DEF IInv, SafeWhileItFits
<1>6. Content(buf) \in Seq(Byte)
  BY <1>0, ContentIsSeq
<1>7. NewBytes(n) = Fresh(Stored, n)
  BY <1>0 DEF NewBytes, Fresh
<1>8. Adds
  <2>1. CASE overrun' = 0 /\ Content(buf') = Content(buf) \o NewBytes(n)
    <3>1. Stored' = Stored + n
      BY <1>0, <1>2, <2>1 DEF Stored
    <3> QED  BY <1>0, <1>7, <2>1, <3>1, Zenon DEF Adds
  <2>2. CASE overrun' = n /\ Content(buf') = Content(buf)
    <3>1. Stored' = Stored + 0
      BY <1>0, <1>2, <2>2 DEF Stored
    <3> QED  BY <1>6, <2>2, <3>1, NothingFresh DEF Adds
  <2> QED  BY <1>3, <2>1, <2>2
<1> QED  BY <1>5, <1>8

LEMMA ReadFdStep ==
  ASSUME IInv, NEW n \in 1..MaxBytes, ReadFd(n)
  PROVE  IInv' /\ Adds
<1> DEFINE w == buf.cap - buf.wr
           data == NewBytes(n)
           one == SubSeq(data, 1, w)
           two == SubSeq(data, w + 1, n)
           c == Content(buf)
<1>0. /\ n \in Nat /\ IsBuffer(buf) /\ fed \in 0..MaxBytes
      /\ fed + n <= MaxBytes /\ w \in Nat /\ fed' = fed + n /\ Stored = fed
  <2>1. n \in Nat /\ IsBuffer(buf) /\ fed \in 0..MaxBytes
    BY BufferAssumption DEF IInv
  <2>2. fed + n <= MaxBytes /\ fed' = fed + n /\ overrun = 0
    BY DEF ReadFd, Defined
  <2>3. w \in Nat
    BY <2>1 DEF IsBuffer
  <2> QED  BY <2>1, <2>2, <2>3 DEF Stored
<1>1. data \in Seq(Byte) /\ Len(data) = n /\ data = Fresh(Stored, n)
  BY <1>0, NewBytesIsSeq DEF NewBytes, Fresh
<1>2. c \in Seq(Byte)
  BY <1>0, ContentIsSeq
<1>3. fed' \in 0..MaxBytes
  BY <1>0, BufferAssumption
<1>4. CASE n <= w
  <2>1. buf' = Put(buf, data) /\ overrun' = 0
    BY <1>4 DEF ReadFd
  <2>2. Fits(buf, data)
    BY <1>0, <1>1, <1>4 DEF Fits, IsBuffer
  <2>3. IsBuffer(buf') /\ Content(buf') = c \o data
    BY <1>0, <1>1, <2>1, <2>2, PutAppends
  <2>4. IInv'
    BY <1>3, <2>1, <2>3, BufferAssumption DEF IInv, SafeWhileItFits
  <2>5. Stored' = Stored + n
    BY <1>0, <2>1 DEF Stored
  <2> HIDE DEF data
  <2> QED  BY <1>0, <1>1, <2>3, <2>4, <2>5 DEF Adds
<1>5. CASE n > w
  <2>1. AppendTo(Put(buf, one), two)
    BY <1>0, <1>5 DEF ReadFd
  <2>2. /\ one \in Seq(Byte) /\ two \in Seq(Byte)
        /\ Len(one) = w /\ Len(two) = n - w /\ Len(two) \in 0..MaxBytes
        /\ one = Fresh(Stored, w) /\ one \o two = data
    <3>1. 1 \in 1..(n + 1) /\ w \in 0..n /\ w + 1 \in 1..(n + 1) /\ n \in 0..n
      BY <1>0, <1>5
    <3>2. n - w \in 0..MaxBytes
      BY <1>0, <1>5, BufferAssumption
    <3>3. w \in 0..Len(data)
      BY <1>1, <3>1
    <3> HIDE DEF data, w
    <3>4. one \in Seq(Byte) /\ Len(one) = w
          /\ \A i \in 1..w : one[i] = data[i]
      BY <1>0, <1>1, <3>1
    <3>5. two \in Seq(Byte) /\ Len(two) = n - w
      BY <1>0, <1>1, <3>1
    <3>6. one \o two = data
      BY <1>1, <3>3, Split
    <3>7. one = Fresh(Stored, w)
      <4>1. \A i \in 1..w : i \in 1..n
        BY <1>0, <3>1
      <4>2. \A i \in 1..n : Fresh(Stored, n)[i] = Stored + i
        BY DEF Fresh
      <4>3. \A i \in 1..w : one[i] = Stored + i
        BY <1>1, <3>4, <4>1, <4>2, Zenon
      <4>4. \A i \in 1..w : Fresh(Stored, w)[i] = Stored + i
        BY DEF Fresh
      <4>5. Fresh(Stored, w) \in Seq(Byte) /\ Len(Fresh(Stored, w)) = w
        <5>1. \A i \in 1..w : Stored + i \in Byte
          BY <1>0, <3>1, BufferAssumption DEF Byte
        <5>2. Fresh(Stored, w) \in [1..w -> Byte]
          BY <5>1 DEF Fresh
        <5> QED  BY <1>0, <5>2, FunIsSeq
      <4> QED  BY <3>4, <4>3, <4>4, <4>5, SeqEqual
    <3> QED  BY <3>2, <3>4, <3>5, <3>6, <3>7
  <2> HIDE DEF one, two
  <2>3. IsBuffer(Put(buf, one)) /\ Content(Put(buf, one)) = c \o one
    <3>1. Fits(buf, one)
      BY <1>0, <2>2 DEF Fits, IsBuffer
    <3> QED  BY <1>0, <2>2, <3>1, PutAppends
  <2>4. /\ IsBuffer(buf') /\ overrun' \in 0..MaxBytes
        /\ overrun' > 0 => GetLength(buf') + overrun' > buf'.cap
        /\ \/ overrun' = 0 /\ Content(buf') = (c \o one) \o two
           \/ overrun' = n - w /\ Content(buf') = c \o one
    <3> HIDE DEF w, c
    <3> QED  BY <2>1, <2>2, <2>3, AppendStep
  <2>5. IInv'
    BY <1>3, <2>4 DEF IInv, SafeWhileItFits
  <2> HIDE DEF c
  <2>6. (c \o one) \o two = c \o data
    <3>1. (c \o one) \o two = c \o (one \o two)
      BY <1>2, <2>2, BytesConcat, Zenon
    <3>2. one \o two = data
      BY <2>2
    <3> QED  BY <3>1, <3>2, Zenon
  <2>7. Adds
    <3>1. CASE overrun' = 0 /\ Content(buf') = (c \o one) \o two
      <4>1. Stored' = Stored + n
        BY <1>0, <3>1 DEF Stored
      <4>2. Content(buf') = Content(buf) \o Fresh(Stored, n)
        BY <1>1, <2>6, <3>1 DEF c
      <4> QED  BY <1>0, <4>1, <4>2, Zenon DEF Adds
    <3>2. CASE overrun' = n - w /\ Content(buf') = c \o one
      <4>1. Stored' = Stored + w
        BY <1>0, <3>2 DEF Stored
      <4>2. Content(buf') = Content(buf) \o Fresh(Stored, w)
        BY <2>2, <3>2 DEF c
      <4> QED  BY <1>0, <4>1, <4>2, Zenon DEF Adds
    <3> QED  BY <2>4, <3>1, <3>2
  <2> QED  BY <2>5, <2>7
<1> QED  BY <1>0, <1>4, <1>5

(* Reading the first n bytes, and forgetting all of them.                  *)
LEMMA AdvanceTakes ==
  ASSUME NEW b, IsBuffer(b), NEW n \in 0..GetLength(b), NEW c,
         c = [b EXCEPT !.rd = @ + n]
  PROVE  /\ IsBuffer(c)
         /\ Content(c) = SubSeq(Content(b), n + 1, Len(Content(b)))
<1> DEFINE u == Content(b)
           v == SubSeq(u, n + 1, Len(u))
<1>0. b.rd \in Nat /\ b.wr \in Nat /\ n \in Nat /\ b.rd + n <= b.wr
      /\ GetLength(b) \in Nat
  BY DEF IsBuffer, GetLength
<1>1. c = [mem |-> b.mem, cap |-> b.cap, rd |-> b.rd + n, wr |-> b.wr]
  <2>1. b.rd + n \in Int
    BY <1>0
  <2> QED  BY <2>1, SetRd
<1>2. IsBuffer(c)
  BY <1>0, <1>1 DEF IsBuffer
<1>3. /\ u \in Seq(Byte) /\ Len(u) = GetLength(b)
      /\ \A i \in 1..GetLength(b) : u[i] = b.mem[b.rd + i - 1]
  BY ContentIsSeq
<1>4. /\ Content(c) \in Seq(Byte) /\ Len(Content(c)) = GetLength(c)
      /\ \A i \in 1..GetLength(c) : Content(c)[i] = c.mem[c.rd + i - 1]
  BY <1>2, ContentIsSeq
<1>5. GetLength(c) = GetLength(b) - n
  BY <1>0, <1>1 DEF GetLength
<1> HIDE DEF u
<1>6. /\ v \in Seq(Byte) /\ Len(v) = GetLength(b) - n
      /\ \A i \in 1..(GetLength(b) - n) : v[i] = u[n + i]
  <2>1. n + 1 \in Int /\ Len(u) \in Int
    BY <1>0, <1>3
  <2>2. \A i \in (n + 1)..Len(u) : u[i] \in Byte
    BY <1>0, <1>3
  <2>3. /\ v \in Seq(Byte)
        /\ Len(v) = IF n + 1 <= Len(u) THEN Len(u) - (n + 1) + 1 ELSE 0
        /\ \A i \in 1..(Len(u) - (n + 1) + 1) : v[i] = u[(n + 1) + i - 1]
    BY <2>1, <2>2, SubSeqProperties
  <2> HIDE DEF v
  <2> QED  BY <1>0, <1>3, <2>3
<1>7. ASSUME NEW i \in 1..(GetLength(b) - n)
      PROVE  Content(c)[i] = v[i]
  <2>1. n + i \in 1..GetLength(b) /\ b.rd + (n + i) - 1 = c.rd + i - 1
    BY <1>0, <1>1
  <2>2. u[n + i] = b.mem[c.rd + i - 1]
    BY <1>3, <2>1
  <2>3. Content(c)[i] = b.mem[c.rd + i - 1]
    BY <1>1, <1>4, <1>5
  <2> QED  BY <1>6, <2>2, <2>3
<1> HIDE DEF v
<1>8. Content(c) = v
  BY <1>4, <1>5, <1>6, <1>7, SeqEqual
<1> QED  BY <1>2, <1>8 DEF u, v

LEMMA ResetTakes ==
  ASSUME NEW b, IsBuffer(b), NEW c, c = [b EXCEPT !.rd = 0, !.wr = 0]
  PROVE  /\ IsBuffer(c)
         /\ Content(c) = Content(b) \/ Takes(Content(b), Content(c))
<1> DEFINE d == [b EXCEPT !.rd = 0]
           u == Content(b)
<1>1. c = [mem |-> b.mem, cap |-> b.cap, rd |-> 0, wr |-> 0]
  <2>1. d = [mem |-> b.mem, cap |-> b.cap, rd |-> 0, wr |-> b.wr]
    BY SetRd
  <2>2. c = [d EXCEPT !.wr = 0]
    OBVIOUS
  <2> HIDE DEF d
  <2> QED  BY <2>1, <2>2
<1>2. IsBuffer(c)
  <2>1. \A i \in c.rd..(c.wr - 1) : c.mem[i] \in Byte
    BY <1>1
  <2>2. c = [mem |-> c.mem, cap |-> c.cap, rd |-> c.rd, wr |-> c.wr]
        /\ c.rd = 0 /\ c.wr = 0 /\ c.cap = b.cap /\ c.mem = b.mem
    BY <1>1
  <2> QED  BY <2>1, <2>2 DEF IsBuffer
<1>3. u \in Seq(Byte) /\ Len(u) \in Nat
  BY ContentIsSeq
<1>4. Content(c) \in Seq(Byte) /\ Len(Content(c)) = 0
  <2>1. GetLength(c) = 0
    BY <1>1 DEF GetLength
  <2> QED  BY <1>2, <2>1, ContentIsSeq
<1>5. Content(c) = <<>>
  BY <1>4, EmptySeq
<1> HIDE DEF u
<1>6. CASE Len(u) = 0
  <2>1. u = <<>>
    BY <1>3, <1>6, EmptySeq
  <2> QED  BY <1>2, <1>5, <2>1 DEF u
<1>7. CASE Len(u) > 0
  <2>1. Len(u) \in 1..Len(u)
    BY <1>3, <1>7
  <2>2. SubSeq(u, Len(u) + 1, Len(u)) = <<>>
    BY <1>3
  <2>3. Takes(u, Content(c))
    BY <1>5, <2>1, <2>2, Zenon DEF Takes
  <2> QED  BY <1>2, <2>3 DEF u
<1> QED  BY <1>3, <1>6, <1>7

-----------------------------------------------------------------------------
(* Every step keeps IInv and is, for the content, a step of ByteQueue or   *)
(* none.                                                                   *)
LEMMA ReadStep ==
  ASSUME IInv, NEW n \in Nat, n <= GetLength(buf), Defined,
         buf' = [buf EXCEPT !.rd = @ + n], UNCHANGED <<fed, overrun>>
  PROVE  /\ IInv'
         /\ Content(buf') = Content(buf) \/ Takes(Content(buf), Content(buf'))
<1> DEFINE u == Content(buf)
<1>1. IsBuffer(buf) /\ u \in Seq(Byte) /\ Len(u) = GetLength(buf)
      /\ n \in 0..GetLength(buf)
  BY ContentIsSeq DEF IInv
<1>2. IsBuffer(buf') /\ Content(buf') = SubSeq(u, n + 1, Len(u))
  BY <1>1, AdvanceTakes
<1>3. IInv'
  BY <1>2, BufferAssumption DEF IInv, Defined, SafeWhileItFits
<1> HIDE DEF u
<1>4. CASE n = 0
  <2>1. SubSeq(u, 1, Len(u)) = u
    BY <1>1
  <2> QED  BY <1>2, <1>3, <1>4, <2>1 DEF u
<1>5. CASE n > 0
  <2>1. n \in 1..Len(u)
    BY <1>1, <1>5
  <2>2. Takes(u, Content(buf'))
    BY <1>2, <2>1, Zenon DEF Takes
  <2> QED  BY <1>3, <2>2 DEF u
<1> QED  BY <1>4, <1>5

LEMMA ResetStep ==
  ASSUME IInv, Defined, buf' = [buf EXCEPT !.rd = 0, !.wr = 0],
         UNCHANGED <<fed, overrun>>
  PROVE  /\ IInv'
         /\ Content(buf') = Content(buf) \/ Takes(Content(buf), Content(buf'))
<1>1. IsBuffer(buf)
  BY DEF IInv
<1>2. /\ IsBuffer(buf')
      /\ Content(buf') = Content(buf) \/ Takes(Content(buf), Content(buf'))
  BY <1>1, ResetTakes
<1>3. IInv'
  BY <1>2, BufferAssumption DEF IInv, Defined, SafeWhileItFits
<1> QED  BY <1>2, <1>3

LEMMA EveryStep ==
  ASSUME IInv, [Next]_vars
  PROVE  /\ IInv'
         /\ \/ Adds
            \/ /\ Stored' = Stored
               /\ \/ Content(buf') = Content(buf)
                  \/ Takes(Content(buf), Content(buf'))
<1> DEFINE Goal == /\ IInv'
                   /\ \/ Adds
                      \/ /\ Stored' = Stored
                         /\ \/ Content(buf') = Content(buf)
                            \/ Takes(Content(buf), Content(buf'))
<1> USE DEF Stored
<1>1. CASE Clear
  BY <1>1, ResetStep DEF Clear
<1>2. ASSUME NEW n \in 1..MaxBytes, AppendBytes(n) PROVE Goal
  BY <1>2, AppendBytesStep
<1>3. ASSUME NEW n \in 1..MaxBytes, ReadFd(n) PROVE Goal
  BY <1>3, ReadFdStep
<1>4. ASSUME NEW n \in 1..MaxBytes, Read(n) PROVE Goal
  BY <1>4, ReadStep DEF Read
<1>5. ASSUME NEW n \in 0..MaxBytes, Forward(n) PROVE Goal
  <2>1. CASE n < GetLength(buf)
    <3>1. n \in Nat /\ n <= GetLength(buf)
      BY <2>1, ContentIsSeq DEF IInv
    <3> QED  BY <1>5, <2>1, <3>1, ReadStep DEF Forward
  <2>2. CASE ~(n < GetLength(buf))
    BY <1>5, <2>2, ResetStep DEF Forward
  <2> QED  BY <2>1, <2>2
<1>6. CASE UNCHANGED vars
  BY <1>6 DEF vars, IInv, SafeWhileItFits, Stored
<1> QED  BY <1>1, <1>2, <1>3, <1>4, <1>5, <1>6 DEF Next

LEMMA InitStep == Init => IInv /\ Content(buf) = <<>> /\ Stored = 0
<1> SUFFICES ASSUME Init PROVE IInv /\ Content(buf) = <<>> /\ Stored = 0
  OBVIOUS
<1>1. IsBuffer(buf) /\ GetLength(buf) = 0
  BY BufferAssumption DEF Init, IsBuffer, GetLength
<1>2. Content(buf) = <<>>
  BY <1>1, ContentIsSeq, EmptySeq
<1> QED  BY <1>1, <1>2, BufferAssumption
         DEF Init, IInv, SafeWhileItFits, Stored

-----------------------------------------------------------------------------
(* The indices of Buffer stay in order and within the array, and the array *)
(* keeps its length in capacity_, whatever is appended, read and cleared.  *)
THEOREM TypeCorrect == Spec => []TypeOK
<1>1. IInv /\ [Next]_vars => IInv'
  BY EveryStep
<1> QED  BY <1>1, InitStep, IInvImplies, PTL DEF Spec

(* The memcpy of append() leaves the array only if the content and the new *)
(* bytes together are longer than it.                                      *)
THEOREM SafeWhileItFitsHolds == Spec => []SafeWhileItFits
<1>1. IInv /\ [Next]_vars => IInv'
  BY EveryStep
<1> QED  BY <1>1, InitStep, IInvImplies, PTL DEF Spec

(* Buffer implements a queue of bytes: what a reader sees changes only by  *)
(* the next bytes, all of them and in their order, added behind it, and by *)
(* bytes taken from its front.                                             *)
THEOREM ImplementsByteQueue == Spec => QueueOfBytes
<1>1. Init => Bytes!Init
  BY InitStep DEF Bytes!Init, Stored
<1>2. IInv /\ [Next]_vars => [Bytes!Next]_<<Content(buf), fed - overrun>>
  <2> SUFFICES ASSUME IInv, [Next]_vars
               PROVE  [Bytes!Next]_<<Content(buf), fed - overrun>>
    OBVIOUS
  <2>1. fed - overrun \in Int
    BY BufferAssumption DEF IInv
  <2>2. CASE Adds
    <3>1. PICK k \in Nat : /\ Stored' = Stored + k
                          /\ Content(buf') = Content(buf) \o Fresh(Stored, k)
      BY <2>2 DEF Adds
    <3>2. CASE k = 0
      <4>1. Content(buf) \in Seq(Byte)
        BY ContentIsSeq DEF IInv
      <4>2. Content(buf') = Content(buf)
        BY <3>1, <3>2, <4>1, NothingFresh
      <4> QED  BY <2>1, <3>1, <3>2, <4>2 DEF Stored
    <3>3. CASE k > 0
      <4>1. /\ (fed - overrun)' > fed - overrun
            /\ (fed - overrun)' - (fed - overrun) = k
        BY <2>1, <3>1, <3>3 DEF Stored
      <4>2. Bytes!Produce
        BY <3>1, <4>1 DEF Bytes!Produce, Fresh, Stored
      <4> QED  BY <4>2 DEF Bytes!Next
    <3> QED  BY <3>2, <3>3
  <2>3. CASE Stored' = Stored /\ Content(buf') = Content(buf)
    BY <2>3 DEF Stored
  <2>4. CASE Stored' = Stored /\ Takes(Content(buf), Content(buf'))
    BY <2>4 DEF Stored, Takes, Bytes!Next, Bytes!Consume
  <2> QED  BY <2>2, <2>3, <2>4, EveryStep
<1>3. IInv /\ [Next]_vars => IInv'
  BY EveryStep
<1> QED  BY <1>1, <1>2, <1>3, InitStep, PTL DEF Spec, QueueOfBytes, Bytes!Spec
=============================================================================
