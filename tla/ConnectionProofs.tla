-------------------------- MODULE ConnectionProofs --------------------------
(***************************************************************************)
(* Theorems about Connection, for any threads, any lengths of the Sends    *)
(* and any capacity of the socket: bytes keep their order from Send to the *)
(* socket, none is stranded, nothing is read after HandleClose, and what   *)
(* was posted before a Close never meets a freed connection.               *)
(***************************************************************************)
EXTENDS Connection, SequenceTheorems, TLAPS

Byte == 1..MaxBytes

(* The functors as they are posted: Functor with bytes for data.           *)
Posted == [op : {"start", "close"}] \cup [op : {"send"}, data : Seq(Byte)]

(* The functors still to be executed, in order; and the bytes that the     *)
(* socket took followed by those kept for it.                              *)
Waiting(b, n, p) == SubSeq(b, n, Len(b)) \o p
Queue == Waiting(batch, next, pending)
Stream == wire \o sendBuf

(* at[i] bytes were accepted before the functor q[i] was posted: those of  *)
(* the first are the bytes written or buffered, each Send that waits       *)
(* carries the next ones, and with the last all are accounted for.         *)
Numbered(at, s, q, acc) ==
    /\ at[1] = Len(s)
    /\ at[Len(q) + 1] = acc
    /\ \A i \in 1..Len(q) :
         IF q[i].op = "send"
         THEN /\ at[i + 1] = at[i] + Len(q[i].data)
              /\ \A k \in 1..Len(q[i].data) : q[i].data[k] = at[i] + k
         ELSE at[i + 1] = at[i]

Counts(s) == \A i \in 1..Len(s) : s[i] = i

(* A functor with no Close at its place or behind was posted after the     *)
(* last call of Close: at least mark bytes were accepted before it.        *)
NoClose(q, k) == \A j \in k..Len(q) : q[j].op # "close"
Marked(at, q, mark) == \A k \in 1..(Len(q) + 1) : NoClose(q, k) => at[k] >= mark

Straight(s, q, acc, mark) ==
    /\ Counts(s)
    /\ \E at \in [1..(Len(q) + 1) -> 0..MaxBytes] :
          Numbered(at, s, q, acc) /\ Marked(at, q, mark)

-----------------------------------------------------------------------------
(* The inductive invariant.                                                *)
Typed == /\ TypeOK
         /\ pending \in Seq(Posted) /\ batch \in Seq(Posted)

NextIsOne == batch = <<>> => next = 1

(* Start is the first functor that is ever executed, and executed once.    *)
FirstOnly(q) == \A i \in 1..Len(q) : q[i].op = "start" => i = 1
HasStart(q) == \E i \in 1..Len(q) : q[i].op = "start"

StartFirst == /\ FirstOnly(Queue)
              /\ HasStart(Queue) => interest = {} /\ ~closed

NoReadLeft == closed => "R" \notin interest

(* Within a batch the object is held: a Close in it holds it to the end,   *)
(* and no other functor makes anybody let go of it.                        *)
HeldInBatch == next > 1 => HeldOutside

InOrder == Straight(Stream, Queue, accepted, closeMark)

IInv == /\ Typed /\ NextIsOne /\ StartFirst /\ NoReadLeft
        /\ HeldInBatch /\ NeverStranded /\ FreedBehindClose
        /\ InOrder

-----------------------------------------------------------------------------
(* Sequences.                                                              *)
LEMMA FunIsSeq ==
  ASSUME NEW S, NEW n \in Nat, NEW f \in [1..n -> S]
  PROVE  f \in Seq(S) /\ Len(f) = n
  OBVIOUS

LEMMA BytesConcat ==
  /\ \A u, v \in Seq(Byte) : u \o v \in Seq(Byte)
  /\ \A u, v, w \in Seq(Byte) : (u \o v) \o w = u \o (v \o w)
  BY ConcatProperties, ConcatAssociative

LEMMA SplitBytes ==
  \A w, d \in Seq(Byte) : \A t \in 0..Len(d) :
     /\ SubSeq(d, 1, t) \in Seq(Byte)
     /\ SubSeq(d, t + 1, Len(d)) \in Seq(Byte)
     /\ (w \o SubSeq(d, 1, t)) \o SubSeq(d, t + 1, Len(d)) = w \o d
<1> SUFFICES ASSUME NEW w \in Seq(Byte), NEW d \in Seq(Byte), NEW t \in 0..Len(d)
             PROVE  /\ SubSeq(d, 1, t) \in Seq(Byte)
                    /\ SubSeq(d, t + 1, Len(d)) \in Seq(Byte)
                    /\ (w \o SubSeq(d, 1, t)) \o SubSeq(d, t + 1, Len(d)) = w \o d
  OBVIOUS
<1> DEFINE x == SubSeq(d, 1, t)
           y == SubSeq(d, t + 1, Len(d))
<1>1. x \in Seq(Byte) /\ Len(x) = t
  OBVIOUS
<1>2. y \in Seq(Byte) /\ Len(y) = Len(d) - t
  OBVIOUS
<1>3. x \o y = d
  <2>1. x \o y \in Seq(Byte) /\ Len(x \o y) = Len(d)
    <3>1. Len(d) \in Nat /\ t \in Nat
      OBVIOUS
    <3> HIDE DEF x, y
    <3>2. x \o y \in Seq(Byte) /\ Len(x \o y) = Len(x) + Len(y)
      BY <1>1, <1>2, ConcatProperties
    <3> QED  BY <1>1, <1>2, <3>1, <3>2
  <2>2. ASSUME NEW i \in 1..Len(d) PROVE (x \o y)[i] = d[i]
    <3>1. (x \o y)[i] = IF i <= Len(x) THEN x[i] ELSE y[i - Len(x)]
      <4> HIDE DEF x, y
      <4> QED  BY <1>1, <1>2, <2>1, ConcatProperties
    <3>2. i <= t => x[i] = d[i]
      OBVIOUS
    <3>3. i > t => y[i - t] = d[i]
      OBVIOUS
    <3> HIDE DEF x, y
    <3> QED  BY <1>1, <3>1, <3>2, <3>3
  <2> HIDE DEF x, y
  <2> QED  BY <2>1, <2>2, SeqEqual
<1> HIDE DEF x, y
<1>4. (w \o x) \o y = w \o (x \o y)
  BY <1>1, <1>2, BytesConcat, Zenon
<1>5. (w \o x) \o y = w \o d
  BY <1>3, <1>4
<1> QED  BY <1>1, <1>2, <1>5 DEF x, y

LEMMA WaitingType ==
  ASSUME NEW S, NEW b \in Seq(S), NEW n \in Nat \ {0}, NEW p \in Seq(S)
  PROVE  /\ SubSeq(b, n, Len(b)) \in Seq(S)
         /\ Waiting(b, n, p) \in Seq(S)
  BY DEF Waiting

(* Posting appends to what waits; swapping and dropping an executed batch  *)
(* leave it as it is; executing takes the first.                           *)
LEMMA WaitingAppend ==
  ASSUME NEW S, NEW b \in Seq(S), NEW n \in Nat \ {0}, NEW p \in Seq(S),
         NEW e \in S
  PROVE  Waiting(b, n, Append(p, e)) = Append(Waiting(b, n, p), e)
<1>1. \A r \in Seq(S) : r \o Append(p, e) = Append(r \o p, e)
  OBVIOUS
<1> QED  BY <1>1, WaitingType DEF Waiting

LEMMA WaitingPosted ==
  \A b, p \in Seq(Posted), n \in Nat \ {0}, f \in Posted :
     Waiting(b, n, Append(p, f)) = Append(Waiting(b, n, p), f)
  BY WaitingAppend

LEMMA WaitingSwap ==
  ASSUME NEW S, NEW p \in Seq(S)
  PROVE  Waiting(p, 1, <<>>) = p /\ Waiting(<<>>, 1, p) = p
  BY DEF Waiting

LEMMA WaitingDone ==
  ASSUME NEW S, NEW b \in Seq(S), NEW n \in Nat \ {0}, NEW p \in Seq(S),
         n > Len(b)
  PROVE  Waiting(b, n, p) = p
<1>1. SubSeq(b, n, Len(b)) = <<>>
  OBVIOUS
<1> QED  BY <1>1, ConcatEmptySeq DEF Waiting

LEMMA WaitingRun ==
  ASSUME NEW S, NEW b \in Seq(S), NEW n \in Nat \ {0}, NEW p \in Seq(S),
         n <= Len(b)
  PROVE  /\ Waiting(b, n, p) # <<>>
         /\ Head(Waiting(b, n, p)) = b[n]
         /\ Tail(Waiting(b, n, p)) = Waiting(b, n + 1, p)
<1> DEFINE r == SubSeq(b, n, Len(b))
<1>0. Len(b) \in Nat /\ n \in Nat
  OBVIOUS
<1>1. /\ r \in Seq(S) /\ Len(r) = Len(b) - n + 1
      /\ \A i \in 1..(Len(b) - n + 1) : r[i] = b[n + i - 1]
  OBVIOUS
<1>2. r # <<>> /\ Head(r) = b[n]
  <2> HIDE DEF r
  <2> QED  BY <1>0, <1>1
<1>3. Tail(r) = SubSeq(b, n + 1, Len(b))
  <2> DEFINE v == SubSeq(b, n + 1, Len(b))
  <2>1. /\ v \in Seq(S) /\ Len(v) = Len(b) - n
        /\ \A i \in 1..(Len(b) - n) : v[i] = b[n + i]
    OBVIOUS
  <2> HIDE DEF r, v
  <2>2. /\ Tail(r) \in Seq(S) /\ Len(Tail(r)) = Len(b) - n
        /\ \A i \in 1..(Len(b) - n) : Tail(r)[i] = r[i + 1]
    BY <1>0, <1>1, <1>2
  <2>3. ASSUME NEW i \in 1..(Len(b) - n) PROVE Tail(r)[i] = v[i]
    <3>1. i + 1 \in 1..(Len(b) - n + 1) /\ n + (i + 1) - 1 = n + i
      BY <1>0
    <3>2. r[i + 1] = b[n + i]
      BY <1>1, <3>1
    <3> QED  BY <2>1, <2>2, <3>2
  <2>4. Tail(r) = v
    BY <2>1, <2>2, <2>3, SeqEqual
  <2> QED  BY <2>4 DEF v
<1>4. \A u \in Seq(S) : u # <<>> =>
         /\ u \o p # <<>>
         /\ Head(u \o p) = Head(u)
         /\ Tail(u \o p) = Tail(u) \o p
  OBVIOUS
<1> QED  BY <1>1, <1>2, <1>3, <1>4 DEF Waiting

-----------------------------------------------------------------------------
(* The numbering of the bytes.                                             *)

(* A functor is posted: the bytes of a Send are the next ones.             *)
LEMMA StraightPost ==
  ASSUME NEW s \in Seq(Byte), NEW q \in Seq(Posted), NEW acc \in 0..MaxBytes,
         NEW f \in Posted, NEW total \in 0..MaxBytes,
         IF f.op = "send"
         THEN /\ total = acc + Len(f.data)
              /\ \A k \in 1..Len(f.data) : f.data[k] = acc + k
         ELSE total = acc,
         NEW mark \in 0..MaxBytes, NEW newMark \in 0..MaxBytes,
         newMark = IF f.op = "close" THEN acc ELSE mark,
         Straight(s, q, acc, mark)
  PROVE  Straight(s, Append(q, f), total, newMark)
<1> DEFINE r == Append(q, f)
           L == Len(q)
<1>0. MaxBytes \in Nat /\ L \in Nat /\ acc \in Nat
  BY ConnectionAssumption
<1>1. PICK at \in [1..(L + 1) -> 0..MaxBytes] :
         Numbered(at, s, q, acc) /\ Marked(at, q, mark)
  BY DEF Straight
<1> DEFINE new == [i \in 1..(L + 2) |-> IF i = L + 2 THEN total ELSE at[i]]
<1>2. /\ Len(r) = L + 1 /\ r[L + 1] = f
      /\ \A i \in 1..L : r[i] = q[i]
  OBVIOUS
<1> HIDE DEF r
<1>3. /\ new \in [1..(L + 2) -> 0..MaxBytes]
      /\ new[L + 2] = total
      /\ \A i \in 1..(L + 1) : new[i] = at[i]
  BY <1>0, <1>1
<1> HIDE DEF new, L
<1>4. ASSUME NEW i \in 1..(L + 1)
      PROVE  IF r[i].op = "send"
             THEN /\ new[i + 1] = new[i] + Len(r[i].data)
                  /\ \A k \in 1..Len(r[i].data) : r[i].data[k] = new[i] + k
             ELSE new[i + 1] = new[i]
  <2>1. CASE i = L + 1
    <3>1. new[i] = acc /\ new[i + 1] = total /\ r[i] = f
      <4>1. at[L + 1] = acc
        BY <1>1 DEF Numbered, L
      <4>2. i \in 1..(L + 1) /\ i + 1 = L + 2
        BY <1>0, <2>1
      <4>3. new[i] = at[i] /\ new[i + 1] = total
        BY <1>3, <4>2
      <4> QED  BY <1>2, <2>1, <4>1, <4>3
    <3>2. IF f.op = "send"
          THEN /\ new[i + 1] = new[i] + Len(f.data)
               /\ \A k \in 1..Len(f.data) : f.data[k] = new[i] + k
          ELSE new[i + 1] = new[i]
      BY <3>1
    <3>3. r[i] = f
      BY <3>1
    <3> QED  BY <3>2, <3>3, Zenon
  <2>2. CASE i # L + 1
    <3>1. i \in 1..L /\ i \in 1..(L + 1) /\ i + 1 \in 1..(L + 1)
      BY <1>0, <2>2
    <3>2. new[i] = at[i] /\ new[i + 1] = at[i + 1] /\ r[i] = q[i]
      BY <1>2, <1>3, <3>1
    <3>3. IF q[i].op = "send"
          THEN /\ at[i + 1] = at[i] + Len(q[i].data)
               /\ \A k \in 1..Len(q[i].data) : q[i].data[k] = at[i] + k
          ELSE at[i + 1] = at[i]
      BY <1>1, <3>1 DEF Numbered, L
    <3> QED  BY <3>2, <3>3, Zenon
  <2> QED  BY <2>1, <2>2
<1>5. /\ new[1] = Len(s) /\ Len(r) + 1 = L + 2
      /\ new[Len(r) + 1] = total
  BY <1>0, <1>1, <1>2, <1>3 DEF Numbered
<1>6. Numbered(new, s, r, total)
  BY <1>2, <1>4, <1>5, Zenon DEF Numbered
<1>7. new \in [1..(Len(r) + 1) -> 0..MaxBytes]
  BY <1>3, <1>5
<1>8. ASSUME NEW k \in 1..(L + 2), NoClose(r, k) PROVE new[k] >= newMark
  <2>0. mark \in Nat /\ newMark \in Nat /\ total \in Nat /\ Len(r) = L + 1
    BY <1>0, <1>2
  <2>1. total >= acc
    <3>1. f.op = "send" => Len(f.data) \in Nat
      BY DEF Posted
    <3> QED  BY <1>0, <3>1
  <2>2. at[L + 1] = acc
    BY <1>1 DEF Numbered, L
  <2>3. CASE k = L + 2
    <3>1. NoClose(q, L + 1)
      BY <1>0 DEF NoClose, L
    <3>2. acc >= mark
      <4>1. L + 1 \in 1..(Len(q) + 1)
        BY <1>0 DEF L
      <4> QED  BY <1>1, <2>2, <3>1, <4>1 DEF Marked
    <3> QED  BY <1>0, <1>3, <2>0, <2>1, <2>3, <3>2
  <2>4. CASE k \in 1..(L + 1)
    <3>1. L + 1 \in k..Len(r)
      BY <1>0, <2>0, <2>4
    <3>2. f.op # "close"
      BY <1>2, <1>8, <3>1 DEF NoClose
    <3>3. NoClose(q, k)
      <4> SUFFICES ASSUME NEW j \in k..Len(q) PROVE q[j].op # "close"
        BY DEF NoClose
      <4>1. j \in 1..L /\ j \in k..Len(r)
        BY <1>0, <2>0, <2>4 DEF L
      <4> QED  BY <1>2, <1>8, <4>1 DEF NoClose
    <3>4. at[k] >= mark
      BY <1>1, <2>4, <3>3 DEF Marked, L
    <3> QED  BY <1>3, <2>4, <3>2, <3>4
  <2> QED  BY <1>0, <2>3, <2>4
<1>9. Marked(new, r, newMark)
  BY <1>5, <1>8 DEF Marked
<1>10. Counts(s)
  BY DEF Straight
<1> QED  BY <1>6, <1>7, <1>9, <1>10, Zenon DEF Straight, r

(* The first functor is executed: a Send's bytes follow those before.      *)
LEMMA StraightRun ==
  ASSUME NEW s \in Seq(Byte), NEW q \in Seq(Posted), NEW acc,
         NEW mark, q # <<>>, Straight(s, q, acc, mark), NEW t \in Seq(Byte),
         t = IF Head(q).op = "send" THEN s \o Head(q).data ELSE s
  PROVE  Straight(t, Tail(q), acc, mark)
<1> DEFINE r == Tail(q)
           h == Head(q)
           L == Len(q)
<1>0. MaxBytes \in Nat /\ L \in Nat \ {0} /\ Len(s) \in Nat
  BY ConnectionAssumption
<1>1. PICK at \in [1..(L + 1) -> 0..MaxBytes] :
         Numbered(at, s, q, acc) /\ Marked(at, q, mark)
  BY DEF Straight
<1> DEFINE new == [i \in 1..L |-> at[i + 1]]
<1>2. /\ Len(r) = L - 1 /\ h = q[1]
      /\ \A i \in 1..(L - 1) : r[i] = q[i + 1]
  BY <1>0
<1>h. h \in Posted
  BY <1>0
<1> HIDE DEF r, h
<1>3. /\ new \in [1..L -> 0..MaxBytes]
      /\ \A i \in 1..L : new[i] = at[i + 1]
  BY <1>0, <1>1
<1> HIDE DEF new, L
<1>4. ASSUME NEW i \in 1..(L - 1)
      PROVE  IF r[i].op = "send"
             THEN /\ new[i + 1] = new[i] + Len(r[i].data)
                  /\ \A k \in 1..Len(r[i].data) : r[i].data[k] = new[i] + k
             ELSE new[i + 1] = new[i]
  <2>1. i + 1 \in 1..L /\ i \in 1..L
    BY <1>0
  <2>2. new[i] = at[i + 1] /\ new[i + 1] = at[(i + 1) + 1] /\ r[i] = q[i + 1]
    BY <1>2, <1>3, <2>1
  <2>3. IF q[i + 1].op = "send"
        THEN /\ at[(i + 1) + 1] = at[i + 1] + Len(q[i + 1].data)
             /\ \A k \in 1..Len(q[i + 1].data) :
                    q[i + 1].data[k] = at[i + 1] + k
        ELSE at[(i + 1) + 1] = at[i + 1]
    BY <1>1, <2>1 DEF Numbered, L
  <2> QED  BY <2>2, <2>3, Zenon
<1>5. /\ at[1] = Len(s) /\ at[L + 1] = acc
      /\ IF h.op = "send"
         THEN /\ at[2] = at[1] + Len(h.data)
              /\ \A k \in 1..Len(h.data) : h.data[k] = at[1] + k
         ELSE at[2] = at[1]
  <2>1. 1 \in 1..L /\ 1 + 1 = 2
    BY <1>0
  <2>2. /\ at[1] = Len(s) /\ at[L + 1] = acc
        /\ IF q[1].op = "send"
           THEN /\ at[1 + 1] = at[1] + Len(q[1].data)
                /\ \A k \in 1..Len(q[1].data) : q[1].data[k] = at[1] + k
           ELSE at[1 + 1] = at[1]
    BY <1>1, <2>1, Zenon DEF Numbered, L
  <2> QED  BY <1>2, <2>1, <2>2, Zenon
<1>6. new[1] = at[2] /\ new[L] = acc
  BY <1>0, <1>3, <1>5
<1>7. Counts(t) /\ Len(t) = at[2]
  <2>1. CASE h.op = "send"
    <3>1. h.data \in Seq(Byte)
      BY <1>h, <2>1 DEF Posted
    <3>2. /\ t = s \o h.data /\ Len(t) = Len(s) + Len(h.data)
          /\ \A i \in 1..Len(t) : t[i] = IF i <= Len(s) THEN s[i]
                                         ELSE h.data[i - Len(s)]
      <4>1. t = s \o h.data
        BY <2>1 DEF h
      <4>2. Len(t) = Len(s) + Len(h.data)
        BY <3>1, <4>1, ConcatProperties
      <4>3. \A i \in 1..(Len(s) + Len(h.data)) :
               (s \o h.data)[i] = IF i <= Len(s) THEN s[i]
                                  ELSE h.data[i - Len(s)]
        BY <3>1, ConcatProperties
      <4> QED  BY <4>1, <4>2, <4>3, Zenon
    <3>3. \A i \in 1..Len(s) : s[i] = i
      BY DEF Straight, Counts
    <3>4. Len(h.data) \in Nat
      BY <3>1
    <3>5. ASSUME NEW i \in 1..Len(t) PROVE t[i] = i
      <4>1. CASE i <= Len(s)
        BY <1>0, <3>2, <3>3, <4>1
      <4>2. CASE i > Len(s)
        <5>1. i - Len(s) \in 1..Len(h.data)
          BY <1>0, <3>2, <3>4, <4>2
        <5>2. h.data[i - Len(s)] = Len(s) + (i - Len(s))
          BY <1>5, <2>1, <5>1
        <5>3. Len(s) + (i - Len(s)) = i /\ ~(i <= Len(s))
          BY <1>0, <4>2
        <5> QED  BY <3>2, <5>2, <5>3
      <4> QED  BY <1>0, <4>1, <4>2
    <3> QED  BY <1>5, <2>1, <3>2, <3>5 DEF Counts
  <2>2. CASE h.op # "send"
    <3>1. t = s
      BY <2>2 DEF h
    <3> QED  BY <1>5, <2>2, <3>1 DEF Straight
  <2> QED  BY <2>1, <2>2
<1>8. Len(r) = L - 1 /\ Len(r) + 1 = L
  BY <1>0, <1>2
<1>9. Numbered(new, t, r, acc)
  BY <1>4, <1>6, <1>7, <1>8 DEF Numbered
<1>10. new \in [1..(Len(r) + 1) -> 0..MaxBytes]
  BY <1>3, <1>8
<1>11. ASSUME NEW k \in 1..L, NoClose(r, k) PROVE new[k] >= mark
  <2>1. k + 1 \in 1..(L + 1) /\ new[k] = at[k + 1]
    BY <1>0, <1>3
  <2>2. NoClose(q, k + 1)
    <3> SUFFICES ASSUME NEW j \in (k + 1)..Len(q) PROVE q[j].op # "close"
      BY DEF NoClose
    <3>1. /\ j - 1 \in 1..(L - 1) /\ j - 1 \in k..Len(r) /\ (j - 1) + 1 = j
      BY <1>0, <1>8 DEF L
    <3>2. r[j - 1] = q[j]
      BY <1>2, <3>1
    <3> QED  BY <1>11, <3>1, <3>2 DEF NoClose
  <2> QED  BY <1>1, <2>1, <2>2 DEF Marked, L
<1>12. Marked(new, r, mark)
  BY <1>8, <1>11 DEF Marked
<1> QED  BY <1>7, <1>9, <1>10, <1>12, Zenon DEF Straight, r

(* Start stays the first, and is gone once something was executed.         *)
LEMMA StartAppend ==
  ASSUME NEW q \in Seq(Posted), NEW f \in Posted, f.op # "start",
         FirstOnly(q)
  PROVE  /\ FirstOnly(Append(q, f))
         /\ HasStart(Append(q, f)) => HasStart(q)
<1> DEFINE r == Append(q, f)
<1>1. /\ Len(q) \in Nat /\ Len(r) = Len(q) + 1 /\ r[Len(q) + 1] = f
      /\ \A i \in 1..Len(q) : r[i] = q[i]
  OBVIOUS
<1> HIDE DEF r
<1>2. \A i \in 1..Len(r) : r[i].op = "start" => i \in 1..Len(q) /\ r[i] = q[i]
  BY <1>1
<1>3. FirstOnly(r)
  BY <1>2 DEF FirstOnly
<1>4. HasStart(r) => HasStart(q)
  BY <1>2 DEF HasStart
<1> QED  BY <1>3, <1>4 DEF r

LEMMA StartTail ==
  ASSUME NEW q \in Seq(Posted), q # <<>>, FirstOnly(q)
  PROVE  /\ FirstOnly(Tail(q))
         /\ ~HasStart(Tail(q))
         /\ Head(q).op # "start" => ~HasStart(q)
<1> DEFINE r == Tail(q)
<1>1. /\ Len(q) \in Nat \ {0} /\ Len(r) = Len(q) - 1 /\ Head(q) = q[1]
      /\ \A i \in 1..(Len(q) - 1) : r[i] = q[i + 1]
  OBVIOUS
<1> HIDE DEF r
<1>2. \A i \in 1..Len(r) : r[i].op # "start"
  BY <1>1 DEF FirstOnly
<1>3. Head(q).op # "start" => \A i \in 1..Len(q) : q[i].op # "start"
  BY <1>1 DEF FirstOnly
<1> QED  BY <1>2, <1>3 DEF FirstOnly, HasStart, r

-----------------------------------------------------------------------------
(* Types.                                                                  *)
LEMMA SendFunctor ==
  ASSUME NEW acc \in 0..MaxBytes, NEW n \in Nat, acc + n <= MaxBytes
  PROVE  LET f == [op |-> "send", data |-> [i \in 1..n |-> acc + i]]
         IN  /\ f \in Posted /\ f.op = "send" /\ Len(f.data) = n
             /\ \A k \in 1..n : f.data[k] = acc + k
<1> DEFINE d == [i \in 1..n |-> acc + i]
<1>1. \A i \in 1..n : acc + i \in Byte
  BY ConnectionAssumption DEF Byte
<1>2. d \in [1..n -> Byte] /\ \A k \in 1..n : d[k] = acc + k
  BY <1>1
<1>3. d \in Seq(Byte) /\ Len(d) = n
  BY <1>2, FunIsSeq
<1> HIDE DEF d
<1>4. [op |-> "send", data |-> d] \in Posted
  BY <1>3 DEF Posted
<1> QED  BY <1>2, <1>3, <1>4 DEF d

(* What the socket takes of the bytes offered to it.                       *)
LEMMA TakenType ==
  ASSUME Typed, NEW d \in Seq(Byte)
  PROVE  /\ Taken(d) \in 0..Len(d)
         /\ unread + Taken(d) \in 0..KernelCap
<1>1. Len(d) \in Nat /\ unread \in 0..KernelCap /\ KernelCap \in Nat
  BY ConnectionAssumption DEF Typed, TypeOK
<1> QED  BY <1>1 DEF Taken, Min2

LEMMA WriteStep ==
  ASSUME Typed, NEW d \in Seq(Byte), Write(d)
  PROVE  /\ wire' \in Seq(Byte) /\ unread' \in 0..KernelCap
         /\ input' \in 0..MaxInput
         /\ peer' \in {"open", "fin", "reset", "gone"}
         /\ Rest(d) \in Seq(Byte)
         /\ wire' \o Rest(d) = wire \o d
<1>1. wire \in Seq(Byte) /\ Taken(d) \in 0..Len(d)
  BY TakenType DEF Typed, TypeOK, Byte
<1>2. /\ SubSeq(d, 1, Taken(d)) \in Seq(Byte) /\ Rest(d) \in Seq(Byte)
      /\ (wire \o SubSeq(d, 1, Taken(d))) \o Rest(d) = wire \o d
  BY <1>1, SplitBytes, Zenon DEF Rest
<1>3. wire' = wire \o SubSeq(d, 1, Taken(d))
  BY DEF Write
<1>4. wire' \in Seq(Byte)
  BY <1>1, <1>2, <1>3, BytesConcat, Zenon
<1>5. /\ unread' \in 0..KernelCap /\ input' \in 0..MaxInput
      /\ peer' \in {"open", "fin", "reset", "gone"}
  BY TakenType DEF Write, Typed, TypeOK
<1> QED  BY <1>2, <1>3, <1>4, <1>5

LEMMA AppendPosted ==
  \A q \in Seq(Posted), f \in Posted : Append(q, f) \in Seq(Posted)
  OBVIOUS

LEMMA PostedIsFunctor ==
  ASSUME NEW q \in Seq(Posted) PROVE q \in Seq(Functor)
<1>1. \A s : s \in Seq(Byte) => s \in Seq(Nat)
  <2>1. Byte \subseteq Nat
    BY DEF Byte
  <2> QED  BY <2>1, SeqMonotonic
<1>2. Posted \subseteq Functor
  BY <1>1 DEF Posted, Functor
<1> QED  BY <1>2, SeqMonotonic

(* A call of Send or Close that goes through.                              *)
LEMMA PostSendStep ==
  ASSUME Typed, NEW n \in SendLens, PostSend(n)
  PROVE  /\ pending' \in Seq(Posted)
         /\ accepted' \in 0..MaxBytes /\ sends' \in 0..MaxSends
         /\ UNCHANGED <<batch, next, keepers, closes, closeMark>>
         /\ \E f \in Posted :
               /\ f.op = "send" /\ pending' = Append(pending, f)
               /\ accepted' = accepted + Len(f.data)
               /\ \A k \in 1..Len(f.data) : f.data[k] = accepted + k
<1> DEFINE f == [op |-> "send", data |-> [i \in 1..n |-> accepted + i]]
<1>1. n \in Nat /\ accepted \in 0..MaxBytes /\ accepted + n <= MaxBytes
      /\ MaxBytes \in Nat /\ MaxSends \in Nat
  BY ConnectionAssumption DEF PostSend, Room, Typed, TypeOK
<1>2. /\ f \in Posted /\ f.op = "send" /\ Len(f.data) = n
      /\ \A k \in 1..n : f.data[k] = accepted + k
  BY <1>1, SendFunctor
<1>3. pending' = Append(pending, f) /\ accepted' = accepted + n
  BY DEF PostSend
<1> HIDE DEF f
<1>4. pending' \in Seq(Posted)
  BY <1>2, <1>3, AppendPosted DEF Typed
<1>5. accepted' \in 0..MaxBytes /\ sends' \in 0..MaxSends
      /\ UNCHANGED <<batch, next, keepers, closes, closeMark>>
  BY <1>1 DEF PostSend, Room, Typed, TypeOK
<1> QED  BY <1>2, <1>3, <1>4, <1>5

LEMMA PostCloseStep ==
  ASSUME Typed, PostClose
  PROVE  /\ pending' \in Seq(Posted) /\ closes' \in 0..MaxCloses
         /\ closeMark' = accepted
         /\ UNCHANGED <<batch, next, keepers, accepted, sends>>
         /\ \E f \in Posted : f.op = "close" /\ pending' = Append(pending, f)
<1> DEFINE f == [op |-> "close"]
<1>1. f \in Posted /\ f.op = "close"
  BY DEF Posted
<1>2. pending' = Append(pending, f)
  BY DEF PostClose
<1> HIDE DEF f
<1>3. pending' \in Seq(Posted)
  BY <1>1, <1>2, AppendPosted DEF Typed
<1>4. closes' \in 0..MaxCloses /\ closeMark' = accepted
      /\ UNCHANGED <<batch, next, keepers, accepted, sends>>
  BY ConnectionAssumption DEF PostClose, Typed, TypeOK
<1> QED  BY <1>1, <1>2, <1>3, <1>4

-----------------------------------------------------------------------------
(* What a step does to the bytes, the functors and the events registered:  *)
(* nothing; or it posts a functor, executes the first that waits, closes   *)
(* on an event, or writes on an event.                                     *)
Still == /\ UNCHANGED <<interest, sendBuf, wire, accepted, closed, closeMark>>
         /\ Queue' = Queue

Posting ==
    /\ UNCHANGED <<interest, sendBuf, wire, closed>>
    /\ \E f \in Posted :
          /\ f.op # "start"
          /\ Queue' = Append(Queue, f)
          /\ IF f.op = "send"
             THEN /\ accepted' = accepted + Len(f.data)
                  /\ \A k \in 1..Len(f.data) : f.data[k] = accepted + k
             ELSE accepted' = accepted
          /\ closeMark' = IF f.op = "close" THEN accepted ELSE closeMark

Executing ==
    /\ Queue # <<>> /\ Queue' = Tail(Queue)
    /\ \/ Head(Queue).op = "start" /\ Start
       \/ Head(Queue).op = "send" /\ SendInLoop(Head(Queue).data)
       \/ Head(Queue).op = "close" /\ HandleClose /\ UNCHANGED wire
    /\ UNCHANGED <<accepted, closeMark>>

Ending == /\ Queue' = Queue
          /\ interest # {} /\ HandleClose
          /\ UNCHANGED <<wire, accepted, closeMark>>

Writing == /\ Queue' = Queue
           /\ HandleWrite
           /\ UNCHANGED <<accepted, closed, closeMark>>

Kinds == Still \/ Posting \/ Executing \/ Ending \/ Writing

(* What a step preserves of the types, and of its kind.                    *)
Goal == Typed' /\ NextIsOne' /\ Kinds

LEMMA QueueSame ==
  ASSUME UNCHANGED loopVars
  PROVE  Queue' = Queue /\ (NextIsOne => NextIsOne')
  BY DEF loopVars, Queue, NextIsOne

LEMMA QueuePost ==
  ASSUME Typed, NEW f \in Posted, pending' = Append(pending, f),
         UNCHANGED <<batch, next>>
  PROVE  Queue' = Append(Queue, f) /\ (NextIsOne => NextIsOne')
<1>1. batch \in Seq(Posted) /\ pending \in Seq(Posted) /\ next \in Nat \ {0}
  BY DEF Typed, TypeOK
<1>2. Waiting(batch, next, Append(pending, f))
        = Append(Waiting(batch, next, pending), f)
  BY <1>1, WaitingPosted, Zenon
<1> QED  BY <1>2 DEF Queue, NextIsOne

LEMMA UserPosts ==
  ASSUME Typed, NextIsOne, NEW n \in SendLens, PostSend(n),
         upc' \in [Users -> {"idle", "checked"}],
         UNCHANGED <<connVars, lpc, wantWrite, sockVars, closed>>
  PROVE  Goal
<1>1. /\ pending' \in Seq(Posted)
      /\ accepted' \in 0..MaxBytes /\ sends' \in 0..MaxSends
      /\ UNCHANGED <<batch, next, keepers, closes, closeMark>>
      /\ \E f \in Posted :
               /\ f.op = "send" /\ pending' = Append(pending, f)
               /\ accepted' = accepted + Len(f.data)
               /\ \A k \in 1..Len(f.data) : f.data[k] = accepted + k
  BY PostSendStep
<1>2. Typed'
  <2>1. pending' \in Seq(Functor)
    BY <1>1, PostedIsFunctor
  <2> QED  BY <1>1, <2>1 DEF Typed, TypeOK, connVars, sockVars
<1>3. NextIsOne' /\ Posting
  <2>1. PICK f \in Posted :
               /\ f.op = "send" /\ pending' = Append(pending, f)
               /\ accepted' = accepted + Len(f.data)
               /\ \A k \in 1..Len(f.data) : f.data[k] = accepted + k
    BY <1>1
  <2>2. Queue' = Append(Queue, f) /\ NextIsOne'
    BY <1>1, <2>1, QueuePost
  <2>3. UNCHANGED <<interest, sendBuf, wire, closed>>
    BY DEF connVars, sockVars
  <2>4. f.op # "start" /\ closeMark' = IF f.op = "close" THEN accepted ELSE closeMark
    BY <1>1, <2>1
  <2> QED  BY <2>1, <2>2, <2>3, <2>4, Zenon DEF Posting
<1> QED  BY <1>2, <1>3 DEF Goal, Kinds

LEMMA UserCloses ==
  ASSUME Typed, NextIsOne, PostClose,
         UNCHANGED <<connVars, lpc, wantWrite, upc, sockVars, closed>>
  PROVE  Goal
<1>1. /\ pending' \in Seq(Posted) /\ closes' \in 0..MaxCloses
      /\ closeMark' = accepted
      /\ UNCHANGED <<batch, next, keepers, accepted, sends>>
      /\ \E f \in Posted : f.op = "close" /\ pending' = Append(pending, f)
  BY PostCloseStep
<1>2. Typed'
  <2>1. pending' \in Seq(Functor)
    BY <1>1, PostedIsFunctor
  <2> QED  BY <1>1, <2>1 DEF Typed, TypeOK, connVars, sockVars
<1>3. NextIsOne' /\ Posting
  <2>1. PICK f \in Posted : f.op = "close" /\ pending' = Append(pending, f)
    BY <1>1
  <2>2. Queue' = Append(Queue, f) /\ NextIsOne'
    BY <1>1, <2>1, QueuePost
  <2>3. UNCHANGED <<interest, sendBuf, wire, closed>>
    BY DEF connVars, sockVars
  <2>4. /\ f.op # "start" /\ f.op # "send" /\ accepted' = accepted
        /\ closeMark' = IF f.op = "close" THEN accepted ELSE closeMark
    BY <1>1, <2>1
  <2> QED  BY <2>2, <2>3, <2>4, Zenon DEF Posting
<1> QED  BY <1>2, <1>3 DEF Goal, Kinds

(* Steps that change none of the variables about functors.                 *)
LEMMA QuietStep ==
  ASSUME Typed, NextIsOne, TypeOK', UNCHANGED loopVars,
         UNCHANGED <<interest, sendBuf, wire, accepted, closed, closeMark>>
  PROVE  Goal
<1>1. Queue' = Queue /\ NextIsOne'
  BY QueueSame
<1>2. pending' \in Seq(Posted) /\ batch' \in Seq(Posted)
  BY DEF Typed, loopVars
<1> QED  BY <1>1, <1>2 DEF Goal, Kinds, Still, Typed

LEMMA TouchFreedStep ==
  ASSUME Typed, NextIsOne, TouchFreed
  PROVE  Goal
<1>1. TypeOK'
  BY DEF TouchFreed, Typed, TypeOK, connVars, loopVars, sockVars, userVars
<1> QED  BY <1>1, QuietStep DEF TouchFreed, connVars, sockVars, userVars

LEMMA UserGoal ==
  ASSUME Typed, NextIsOne, UserStep \/ CallbackStep
  PROVE  Goal
<1>1. ASSUME NEW u \in Users, SendCheck(u) PROVE Goal
  <2>1. TypeOK'
    BY <1>1 DEF SendCheck, Typed, TypeOK, connVars, loopVars, sockVars, userVars
  <2> QED  BY <1>1, <2>1, QuietStep
           DEF SendCheck, connVars, sockVars, userVars
<1>2. ASSUME NEW u \in Users, SendPost(u) PROVE Goal
  <2>1. CASE TouchFreed
    BY <2>1, TouchFreedStep
  <2>2. ASSUME NEW n \in SendLens, PostSend(n), upc' = [upc EXCEPT ![u] = "idle"],
               UNCHANGED <<connVars, lpc, wantWrite, sockVars, closed>>
        PROVE  Goal
    <3>1. upc' \in [Users -> {"idle", "checked"}]
      BY <2>2 DEF Typed, TypeOK
    <3> QED  BY <2>2, <3>1, UserPosts
  <2> QED  BY <1>2, <2>1, <2>2 DEF SendPost
<1>3. ASSUME NEW u \in Users, Close(u) PROVE Goal
  BY <1>3, UserCloses DEF Close
<1>4. CASE CallbackSends
  <2>1. upc' \in [Users -> {"idle", "checked"}]
    BY <1>4 DEF CallbackSends, Typed, TypeOK
  <2> QED  BY <1>4, <2>1, UserPosts DEF CallbackSends
<1>5. CASE CallbackCloses
  BY <1>5, UserCloses DEF CallbackCloses
<1> QED  BY <1>1, <1>2, <1>3, <1>4, <1>5 DEF UserStep, CallbackStep

LEMMA PeerGoal ==
  ASSUME Typed, NextIsOne, PeerStep \/ UNCHANGED vars
  PROVE  Goal
<1> USE DEF PeerOnly, connVars, loopVars, sockVars, userVars
<1>1. CASE PeerReads
  <2>1. TypeOK'
    BY <1>1, ConnectionAssumption DEF PeerReads, Typed, TypeOK
  <2> QED  BY <1>1, <2>1, QuietStep DEF PeerReads
<1>2. CASE PeerSends
  <2>1. TypeOK'
    BY <1>2, ConnectionAssumption DEF PeerSends, Typed, TypeOK
  <2> QED  BY <1>2, <2>1, QuietStep DEF PeerSends
<1>3. CASE PeerLeaves
  <2>1. TypeOK'
    BY <1>3 DEF PeerLeaves, Typed, TypeOK
  <2> QED  BY <1>3, <2>1, QuietStep DEF PeerLeaves
<1>4. CASE UNCHANGED vars
  <2>1. TypeOK'
    BY <1>4 DEF vars, Typed, TypeOK
  <2> QED  BY <1>4, <2>1, QuietStep DEF vars
<1> QED  BY <1>1, <1>2, <1>3, <1>4 DEF PeerStep

LEMMA SwapGoal ==
  ASSUME Typed, NextIsOne, Swap
  PROVE  Goal
<1>1. /\ batch = <<>> /\ next = 1 /\ batch' = pending /\ pending' = <<>>
      /\ next' = 1 /\ pending # <<>>
  BY DEF Swap, LoopIdle, NextIsOne
<1>2. pending \in Seq(Posted) /\ pending' \in Seq(Posted)
      /\ pending' \in Seq(Functor) /\ batch' \in Seq(Functor)
  BY <1>1, PostedIsFunctor DEF Typed
<1>3. Typed'
  BY <1>1, <1>2 DEF Swap, Typed, TypeOK, connVars, sockVars, userVars
<1>4. Queue' = Queue
  BY <1>1, <1>2, WaitingSwap DEF Queue
<1>5. Still /\ NextIsOne'
  BY <1>1, <1>4
     DEF Swap, Still, NextIsOne, connVars, sockVars, userVars
<1> QED  BY <1>3, <1>5 DEF Goal, Kinds

LEMMA BatchDoneGoal ==
  ASSUME Typed, NextIsOne, BatchDone
  PROVE  Goal
<1>1. /\ next > Len(batch) /\ batch' = <<>> /\ next' = 1 /\ pending' = pending
  BY DEF BatchDone
<1>2. /\ pending \in Seq(Posted) /\ batch \in Seq(Posted)
      /\ next \in Nat \ {0} /\ <<>> \in Seq(Posted) /\ <<>> \in Seq(Functor)
  BY DEF Typed, TypeOK
<1>3. Typed'
  BY <1>1, <1>2 DEF BatchDone, Typed, TypeOK, connVars, sockVars, userVars
<1>4. Queue' = Queue
  BY <1>1, <1>2, WaitingSwap, WaitingDone DEF Queue
<1>5. Still /\ NextIsOne'
  BY <1>1, <1>4
     DEF BatchDone, Still, NextIsOne, connVars, sockVars, userVars
<1> QED  BY <1>3, <1>5 DEF Goal, Kinds

(* SendInLoop adds its data behind the bytes written and buffered.         *)
LEMMA SendInLoopStep ==
  ASSUME Typed, NEW d \in Seq(Byte), SendInLoop(d)
  PROVE  /\ sendBuf' \in Seq(Byte) /\ wire' \in Seq(Byte)
         /\ unread' \in 0..KernelCap /\ input' \in 0..MaxInput
         /\ peer' \in {"open", "fin", "reset", "gone"}
         /\ Stream' = Stream \o d
<1>0. sendBuf \in Seq(Byte) /\ wire \in Seq(Byte)
  BY DEF Typed, TypeOK, Byte
<1>1. CASE Direct
  <2>1. Write(d) /\ sendBuf = <<>> /\ sendBuf' = sendBuf \o Rest(d)
    BY <1>1 DEF SendInLoop, Direct
  <2>2. /\ wire' \in Seq(Byte) /\ unread' \in 0..KernelCap
        /\ input' \in 0..MaxInput
        /\ peer' \in {"open", "fin", "reset", "gone"}
        /\ Rest(d) \in Seq(Byte)
        /\ wire' \o Rest(d) = wire \o d
    BY <2>1, WriteStep
  <2>3. sendBuf' = Rest(d) /\ wire \o sendBuf = wire
    BY <1>0, <2>1, <2>2, ConcatEmptySeq
  <2>4. Stream' = Stream \o d
    BY <2>2, <2>3 DEF Stream
  <2> QED  BY <2>2, <2>3, <2>4
<1>2. CASE ~Direct
  <2>1. sendBuf' = sendBuf \o d /\ UNCHANGED sockVars
    BY <1>2 DEF SendInLoop
  <2>2. sendBuf' \in Seq(Byte)
    BY <1>0, <2>1, BytesConcat, Zenon
  <2>3. Stream' = Stream \o d
    BY <1>0, <2>1, BytesConcat, Zenon DEF Stream, sockVars
  <2> QED  BY <1>0, <2>1, <2>2, <2>3 DEF Typed, TypeOK, sockVars
<1> QED  BY <1>1, <1>2

LEMMA RunFunctorGoal ==
  ASSUME Typed, NextIsOne, RunFunctor
  PROVE  Goal
<1>1. CASE TouchFreed
  BY <1>1, TouchFreedStep
<1>2. CASE Execute(batch[next]) /\ next' = next + 1
           /\ UNCHANGED <<pending, batch, upc, userVars>>
  <2> DEFINE f == batch[next]
  <2>1. /\ next <= Len(batch) /\ next \in Nat \ {0}
        /\ batch \in Seq(Posted) /\ pending \in Seq(Posted) /\ f \in Posted
        /\ batch \in Seq(Functor) /\ pending \in Seq(Functor)
    BY DEF RunFunctor, Typed, TypeOK
  <2>2. Queue # <<>> /\ Head(Queue) = f /\ Queue' = Tail(Queue)
    BY <1>2, <2>1, WaitingRun DEF Queue
  <2>3. NextIsOne'
    BY <1>2, <2>1 DEF NextIsOne
  <2> HIDE DEF f
  <2>4. CASE f.op = "start" /\ Start
    <3>1. Typed'
      BY <1>2, <2>1, <2>4 DEF Start, EnableRead, Register, Typed, TypeOK,
         Callbacks, sockVars, userVars
    <3>2. Executing
      BY <1>2, <2>2, <2>4 DEF Executing, userVars
    <3> QED  BY <2>3, <3>1, <3>2 DEF Goal, Kinds
  <2>5. CASE f.op = "send" /\ SendInLoop(f.data)
    <3>1. f.data \in Seq(Byte)
      BY <2>1, <2>5 DEF Posted
    <3>2. /\ sendBuf' \in Seq(Byte) /\ wire' \in Seq(Byte)
          /\ unread' \in 0..KernelCap /\ input' \in 0..MaxInput
          /\ peer' \in {"open", "fin", "reset", "gone"}
      BY <2>5, <3>1, SendInLoopStep
    <3>3. interest' \subseteq {"R", "W"}
      BY <2>5 DEF SendInLoop, AskForWrite, EnableWrite, Register, Typed, TypeOK
    <3>4. Typed'
      <4>1. /\ UNCHANGED <<status, owned, lpc, wantWrite, closed, pending,
                          batch, upc, keepers, accepted, sends, closes,
                          closeMark>>
            /\ next' \in Nat \ {0}
        BY <1>2, <2>1, <2>5 DEF SendInLoop, userVars
      <4>2. sendBuf' \in Seq(1..MaxBytes) /\ wire' \in Seq(1..MaxBytes)
        BY <3>2, Zenon DEF Byte
      <4> QED  BY <2>1, <3>2, <3>3, <4>1, <4>2 DEF Typed, TypeOK
    <3>5. Executing
      BY <1>2, <2>2, <2>5 DEF Executing, userVars
    <3> QED  BY <2>3, <3>4, <3>5 DEF Goal, Kinds
  <2>6. CASE f.op = "close" /\ HandleClose /\ UNCHANGED <<sockVars, wantWrite>>
    <3>1. Typed'
      <4>1. /\ interest' = {} /\ owned' = FALSE /\ closed' = TRUE
            /\ lpc' = "close_cb" /\ UNCHANGED <<status, sendBuf, wantWrite>>
        BY <2>6 DEF HandleClose, DisableAll, Register
      <4>2. /\ next' \in Nat \ {0}
            /\ UNCHANGED <<pending, batch, upc, keepers, accepted, sends,
                          closes, closeMark, wire, unread, input, peer>>
        BY <1>2, <2>1, <2>6 DEF sockVars, userVars
      <4> QED  BY <2>1, <4>1, <4>2 DEF Typed, TypeOK, Callbacks
    <3>2. Executing
      BY <1>2, <2>2, <2>6 DEF Executing, userVars, sockVars
    <3> QED  BY <2>3, <3>1, <3>2 DEF Goal, Kinds
  <2> QED  BY <1>2, <2>4, <2>5, <2>6 DEF Execute, f
<1> QED  BY <1>1, <1>2 DEF RunFunctor

LEMMA HandleEventGoal ==
  ASSUME Typed, NextIsOne, HandleEvent
  PROVE  Goal
<1>1. /\ interest # {} /\ UNCHANGED <<loopVars, upc, userVars>>
      /\ wantWrite' \in BOOLEAN
      /\ \/ HandleRead
         \/ lpc' = "write" /\ UNCHANGED <<connVars, sockVars, closed>>
  BY DEF HandleEvent
<1>2. CASE lpc' = "write" /\ UNCHANGED <<connVars, sockVars, closed>>
  <2>1. TypeOK'
    BY <1>1, <1>2 DEF Typed, TypeOK, connVars, sockVars, userVars, loopVars
  <2> QED  BY <1>1, <1>2, <2>1, QuietStep DEF connVars, sockVars, userVars
<1>3. CASE HandleRead
  <2>1. CASE /\ input > 0 /\ \E n \in 1..input : input' = input - n
             /\ lpc' = "read_cb"
             /\ UNCHANGED <<connVars, wire, unread, peer, closed>>
    <3>1. input' \in 0..MaxInput
      BY <2>1, ConnectionAssumption DEF Typed, TypeOK
    <3>2. TypeOK'
      BY <1>1, <2>1, <3>1
         DEF Typed, TypeOK, connVars, userVars, loopVars, Callbacks
    <3> QED  BY <1>1, <2>1, <3>2, QuietStep DEF connVars, userVars
  <2>2. CASE /\ peer' = "gone" /\ lpc' = AfterRead(wantWrite')
             /\ UNCHANGED <<connVars, wire, unread, input, closed>>
    <3>1. TypeOK'
      BY <1>1, <2>2
         DEF Typed, TypeOK, connVars, userVars, loopVars, AfterRead
    <3> QED  BY <1>1, <2>2, <3>1, QuietStep DEF connVars, userVars
  <2>3. CASE HandleClose /\ UNCHANGED sockVars
    <3>1. Typed'
      BY <1>1, <2>3 DEF HandleClose, DisableAll, Register, Typed, TypeOK,
         Callbacks, sockVars, userVars, loopVars
    <3>2. Queue' = Queue /\ NextIsOne'
      BY <1>1, QueueSame
    <3>3. Ending
      BY <1>1, <2>3, <3>2 DEF Ending, sockVars, userVars
    <3> QED  BY <3>1, <3>2, <3>3 DEF Goal, Kinds
  <2> QED  BY <1>3, <2>1, <2>2, <2>3 DEF HandleRead
<1> QED  BY <1>1, <1>2, <1>3

LEMMA WriteEventGoal ==
  ASSUME Typed, NextIsOne, WriteEvent
  PROVE  Goal
<1>1. /\ Write(sendBuf) /\ sendBuf' = Rest(sendBuf)
      /\ UNCHANGED <<status, owned, loopVars, upc, userVars, closed>>
      /\ lpc' = "idle" /\ wantWrite' = FALSE
  BY DEF WriteEvent, HandleWrite
<1>2. sendBuf \in Seq(Byte)
  BY DEF Typed, TypeOK, Byte
<1>3. /\ wire' \in Seq(Byte) /\ unread' \in 0..KernelCap
      /\ input' \in 0..MaxInput
      /\ peer' \in {"open", "fin", "reset", "gone"}
      /\ Rest(sendBuf) \in Seq(Byte)
  BY <1>1, <1>2, WriteStep
<1>4. interest' \subseteq {"R", "W"}
  BY DEF WriteEvent, HandleWrite, DisableWrite, Register, Typed, TypeOK
<1>5. Typed'
  BY <1>1, <1>3, <1>4 DEF Typed, TypeOK, Byte, loopVars, userVars
<1>6. Queue' = Queue /\ NextIsOne'
  BY <1>1, QueueSame
<1>7. Writing
  BY <1>1, <1>6 DEF WriteEvent, Writing, userVars
<1> QED  BY <1>5, <1>6, <1>7 DEF Goal, Kinds

LEMMA CallbackReturnsGoal ==
  ASSUME Typed, NextIsOne, CallbackReturns
  PROVE  Goal
<1>1. CASE TouchFreed
  BY <1>1, TouchFreedStep
<1>2. CASE /\ status' = IF lpc = "close_cb" THEN "Disconnected" ELSE status
           /\ lpc' = AfterRead(wantWrite)
           /\ UNCHANGED <<interest, sendBuf, owned, loopVars, wantWrite, upc,
                          sockVars, userVars, closed>>
  <2>1. TypeOK'
    BY <1>2 DEF Typed, TypeOK, loopVars, sockVars, userVars, AfterRead
  <2> QED  BY <1>2, <2>1, QuietStep DEF sockVars, userVars
<1> QED  BY <1>1, <1>2 DEF CallbackReturns

LEMMA EveryGoal ==
  ASSUME Typed, NextIsOne, [Next]_vars
  PROVE  Goal
<1>1. CASE UserStep \/ CallbackStep
  BY <1>1, UserGoal
<1>2. CASE LoopStep
  BY <1>2, SwapGoal, BatchDoneGoal, RunFunctorGoal, HandleEventGoal,
     WriteEventGoal, CallbackReturnsGoal, Zenon DEF LoopStep
<1>3. CASE PeerStep \/ UNCHANGED vars
  BY <1>3, PeerGoal
<1> QED  BY <1>1, <1>2, <1>3 DEF Next

-----------------------------------------------------------------------------
(* The invariant is inductive.                                             *)
LEMMA QueueType ==
  ASSUME Typed
  PROVE  Queue \in Seq(Posted) /\ Stream \in Seq(Byte)
<1>1. batch \in Seq(Posted) /\ pending \in Seq(Posted) /\ next \in Nat \ {0}
      /\ wire \in Seq(Byte) /\ sendBuf \in Seq(Byte)
  BY DEF Typed, TypeOK, Byte
<1>2. Queue \in Seq(Posted)
  BY <1>1, WaitingType DEF Queue
<1>3. Stream \in Seq(Byte)
  BY <1>1, BytesConcat, Zenon DEF Stream
<1> QED  BY <1>2, <1>3

LEMMA InOrderStep ==
  ASSUME Typed, Typed', InOrder, Kinds
  PROVE  InOrder'
<1>0. /\ Queue \in Seq(Posted) /\ Stream \in Seq(Byte)
      /\ accepted \in 0..MaxBytes /\ accepted' \in 0..MaxBytes
      /\ sendBuf \in Seq(Byte) /\ wire \in Seq(Byte)
      /\ closeMark \in 0..MaxBytes /\ closeMark' \in 0..MaxBytes
  BY QueueType DEF Typed, TypeOK, Byte
<1>1. CASE Still
  BY <1>1 DEF Still, InOrder, Stream
<1>2. CASE Posting
  <2>1. PICK f \in Posted :
          /\ Queue' = Append(Queue, f)
          /\ IF f.op = "send"
             THEN /\ accepted' = accepted + Len(f.data)
                  /\ \A k \in 1..Len(f.data) : f.data[k] = accepted + k
             ELSE accepted' = accepted
          /\ closeMark' = IF f.op = "close" THEN accepted ELSE closeMark
    BY <1>2 DEF Posting
  <2>2. Straight(Stream, Append(Queue, f), accepted', closeMark')
    BY <1>0, <2>1, StraightPost DEF InOrder
  <2>3. Stream' = Stream
    BY <1>2 DEF Posting, Stream
  <2> QED  BY <2>1, <2>2, <2>3 DEF InOrder
<1>3. CASE Executing
  <2> DEFINE h == Head(Queue)
  <2>1. h \in Posted
    BY <1>0, <1>3 DEF Executing
  <2>2. Stream' = IF h.op = "send" THEN Stream \o h.data ELSE Stream
    <3>1. CASE h.op = "start" /\ Start
      BY <3>1 DEF Start, Stream, sockVars
    <3>2. CASE h.op = "send" /\ SendInLoop(h.data)
      <4>1. h.data \in Seq(Byte)
        BY <2>1, <3>2 DEF Posted
      <4> QED  BY <3>2, <4>1, SendInLoopStep
    <3>3. CASE h.op = "close" /\ HandleClose /\ UNCHANGED wire
      BY <3>3 DEF HandleClose, Stream
    <3> QED  BY <1>3, <3>1, <3>2, <3>3 DEF Executing
  <2>3. Stream' \in Seq(Byte)
    <3>1. wire' \in Seq(Byte) /\ sendBuf' \in Seq(Byte)
      BY DEF Typed, TypeOK, Byte
    <3> QED  BY <3>1, BytesConcat, Zenon DEF Stream
  <2>4. Straight(Stream', Tail(Queue), accepted, closeMark)
    BY <1>0, <1>3, <2>2, <2>3, StraightRun DEF Executing, InOrder
  <2> QED  BY <1>3, <2>4 DEF Executing, InOrder
<1>4. CASE Ending
  BY <1>4 DEF Ending, HandleClose, InOrder, Stream
<1>5. CASE Writing
  <2>1. Write(sendBuf) /\ sendBuf' = Rest(sendBuf)
    BY <1>5 DEF Writing, HandleWrite
  <2>2. wire' \o Rest(sendBuf) = wire \o sendBuf
    BY <1>0, <2>1, WriteStep
  <2>3. Stream' = Stream
    BY <2>1, <2>2 DEF Stream
  <2> QED  BY <1>5, <2>3 DEF Writing, InOrder
<1> QED  BY <1>1, <1>2, <1>3, <1>4, <1>5 DEF Kinds

LEMMA StartFirstStep ==
  ASSUME Typed, StartFirst, NoReadLeft, Kinds
  PROVE  StartFirst' /\ NoReadLeft'
<1>0. Queue \in Seq(Posted)
  BY QueueType
<1>1. CASE Still
  BY <1>1 DEF Still, StartFirst, NoReadLeft
<1>2. CASE Posting
  <2>1. PICK f \in Posted : f.op # "start" /\ Queue' = Append(Queue, f)
    BY <1>2 DEF Posting
  <2>2. UNCHANGED <<interest, closed>>
    BY <1>2 DEF Posting
  <2> QED  BY <1>0, <2>1, <2>2, StartAppend DEF StartFirst, NoReadLeft
<1>3. CASE Executing
  <2> DEFINE h == Head(Queue)
  <2>1. /\ FirstOnly(Queue') /\ ~HasStart(Queue')
        /\ h.op # "start" => ~HasStart(Queue)
    BY <1>0, <1>3, StartTail DEF Executing, StartFirst
  <2>2. StartFirst'
    BY <2>1 DEF StartFirst
  <2>3. CASE h.op = "start" /\ Start
    <3>1. Len(Queue) \in Nat \ {0} /\ h = Queue[1]
      BY <1>0, <1>3 DEF Executing
    <3>2. HasStart(Queue)
      BY <2>3, <3>1 DEF HasStart
    <3>3. ~closed /\ closed' = closed
      BY <2>3, <3>2 DEF StartFirst, Start
    <3> QED  BY <2>2, <3>3 DEF NoReadLeft, Typed, TypeOK
  <2>4. CASE h.op = "send" /\ SendInLoop(h.data)
    <3>1. closed' = closed /\ interest' = interest \cup {"W"}
      BY <2>4 DEF SendInLoop, AskForWrite, EnableWrite, Register
    <3> QED  BY <2>2, <3>1 DEF NoReadLeft
  <2>5. CASE h.op = "close" /\ HandleClose
    <3>1. interest' = {}
      BY <2>5 DEF HandleClose, DisableAll, Register
    <3> QED  BY <2>2, <3>1 DEF NoReadLeft
  <2> QED  BY <1>3, <2>3, <2>4, <2>5 DEF Executing
<1>4. CASE Ending
  <2>1. interest' = {} /\ ~HasStart(Queue) /\ Queue' = Queue
    BY <1>4 DEF Ending, HandleClose, DisableAll, Register, StartFirst
  <2> QED  BY <2>1 DEF StartFirst, NoReadLeft
<1>5. CASE Writing
  <2>1. interest' \subseteq interest /\ closed' = closed /\ Queue' = Queue
    BY <1>5 DEF Writing, HandleWrite, DisableWrite, Register
  <2> QED  BY <2>1 DEF StartFirst, NoReadLeft
<1> QED  BY <1>1, <1>2, <1>3, <1>4, <1>5 DEF Kinds

(* Nobody lets go of the object but HandleClose, as a functor that stays   *)
(* in its batch, or on an event, with no batch.                            *)
LEMMA HeldStep ==
  ASSUME Typed, NextIsOne, HeldInBatch, [Next]_vars
  PROVE  HeldInBatch'
<1>0. next \in Nat \ {0} /\ batch \in Seq(Posted) /\ pending \in Seq(Posted)
  BY DEF Typed, TypeOK
<1> USE DEF HeldInBatch, HeldOutside
<1>1. ASSUME UNCHANGED <<owned, keepers, batch, next>>,
             \E f \in Posted : pending' = Append(pending, f)
      PROVE  HeldInBatch'
  <2>1. PICK f \in Posted : pending' = Append(pending, f)
    BY <1>1
  <2>2. \A i \in DOMAIN pending : i \in DOMAIN pending' /\ pending'[i] = pending[i]
    BY <1>0, <2>1
  <2>3. HeldByFunctor => HeldByFunctor'
    BY <1>1, <2>2 DEF HeldByFunctor
  <2> QED  BY <1>1, <2>3
<1>2. ASSUME UNCHANGED <<owned, keepers, loopVars>> PROVE HeldInBatch'
  BY <1>2 DEF loopVars, HeldByFunctor
<1>3. ASSUME next' = 1 PROVE HeldInBatch'
  BY <1>3
<1>4. ASSUME NEW n \in SendLens, PostSend(n), UNCHANGED connVars PROVE HeldInBatch'
  <2>1. /\ UNCHANGED <<batch, next, keepers>>
        /\ \E f \in Posted : pending' = Append(pending, f)
    BY <1>4, PostSendStep
  <2> QED  BY <1>1, <1>4, <2>1 DEF connVars
<1>5. ASSUME PostClose, UNCHANGED connVars PROVE HeldInBatch'
  <2>1. /\ UNCHANGED <<batch, next, keepers>>
        /\ \E f \in Posted : pending' = Append(pending, f)
    BY <1>5, PostCloseStep
  <2> QED  BY <1>1, <1>5, <2>1 DEF connVars
<1>6. CASE TouchFreed
  BY <1>2, <1>6 DEF TouchFreed, connVars, userVars
<1>7. CASE UserStep
  <2>1. ASSUME NEW u \in Users, SendCheck(u) PROVE HeldInBatch'
    BY <1>2, <2>1 DEF SendCheck, connVars, userVars
  <2>2. ASSUME NEW u \in Users, SendPost(u) PROVE HeldInBatch'
    BY <1>4, <1>6, <2>2 DEF SendPost
  <2>3. ASSUME NEW u \in Users, Close(u) PROVE HeldInBatch'
    BY <1>5, <2>3 DEF Close
  <2> QED  BY <1>7, <2>1, <2>2, <2>3 DEF UserStep
<1>8. CASE CallbackStep
  BY <1>4, <1>5, <1>8 DEF CallbackStep, CallbackSends, CallbackCloses
<1>9. CASE Swap \/ BatchDone \/ HandleEvent
  BY <1>3, <1>9 DEF Swap, BatchDone, HandleEvent, LoopIdle, NextIsOne, loopVars
<1>10. CASE RunFunctor
  <2>1. CASE /\ Alive /\ Execute(batch[next])
             /\ UNCHANGED <<pending, batch, userVars>>
    <3>1. HeldOutside
      BY <1>10, <2>1 DEF RunFunctor, Alive, Callbacks
    <3>2. HeldByFunctor' = HeldByFunctor /\ keepers' = keepers
      BY <2>1 DEF HeldByFunctor, userVars
    <3>3. CASE batch[next].op = "close"
      <4>1. next \in DOMAIN batch
        BY <1>0, <1>10 DEF RunFunctor
      <4> QED  BY <3>2, <3>3, <4>1 DEF HeldByFunctor
    <3>4. CASE batch[next].op # "close"
      <4>1. owned' = owned
        BY <2>1, <3>4 DEF Execute, Start, SendInLoop
      <4> QED  BY <3>1, <3>2, <4>1
    <3> QED  BY <3>3, <3>4
  <2> QED  BY <1>6, <1>10, <2>1 DEF RunFunctor
<1>11. CASE WriteEvent
  BY <1>2, <1>11 DEF WriteEvent, HandleWrite, userVars
<1>12. CASE CallbackReturns
  BY <1>2, <1>6, <1>12 DEF CallbackReturns, userVars
<1>13. CASE PeerStep
  BY <1>2, <1>13 DEF PeerStep, PeerReads, PeerSends, PeerLeaves, PeerOnly,
     connVars, userVars
<1>14. CASE UNCHANGED vars
  BY <1>2, <1>14 DEF vars, connVars, userVars
<1> QED  BY <1>7, <1>8, <1>9, <1>10, <1>11, <1>12, <1>13, <1>14
         DEF Next, LoopStep

LEMMA StrandedStep ==
  ASSUME Typed, NeverStranded, Kinds
  PROVE  NeverStranded'
<1>1. CASE UNCHANGED <<interest, sendBuf, closed>>
  BY <1>1 DEF NeverStranded
<1>2. CASE HandleClose
  BY <1>2 DEF HandleClose, NeverStranded
<1>3. CASE Start
  BY <1>3 DEF Start, EnableRead, Register, NeverStranded
<1>4. ASSUME NEW d, SendInLoop(d) PROVE NeverStranded'
  BY <1>4 DEF SendInLoop, AskForWrite, EnableWrite, Register, NeverStranded
<1>5. CASE Writing
  <2>1. CASE WriteEnds
    BY <1>5, <2>1 DEF Writing, HandleWrite, WriteEnds, NeverStranded
  <2>2. CASE ~WriteEnds
    <3>1. interest' = interest /\ closed' = closed /\ sendBuf' = Rest(sendBuf)
      BY <1>5, <2>2 DEF Writing, HandleWrite
    <3>2. sendBuf = <<>> => Rest(sendBuf) = <<>>
      <4>1. sendBuf \in Seq(Byte)
        BY DEF Typed, TypeOK, Byte
      <4>2. Taken(sendBuf) \in 0..Len(sendBuf)
        BY <4>1, TakenType
      <4> QED  BY <4>1, <4>2 DEF Rest
    <3> QED  BY <3>1, <3>2 DEF NeverStranded
  <2> QED  BY <2>1, <2>2
<1> QED  BY <1>1, <1>2, <1>3, <1>4, <1>5
         DEF Kinds, Still, Posting, Executing, Ending

(* A step that finds the object destroyed: its owner let go of it, and no  *)
(* closure of Close is left.                                               *)
LEMMA CrashStep ==
  ASSUME Next, lpc' = "crashed"
  PROVE  lpc # "crashed" /\ ~HeldOutside /\ TouchFreed
<1> USE DEF Running, Callbacks
<1>1. lpc # "crashed"
  BY DEF Next, UserStep, CallbackStep, LoopStep, PeerStep, SendCheck, SendPost,
         Close, CanCall, CallbackSends, CallbackCloses, Swap, LoopIdle,
         RunFunctor, BatchDone, HandleEvent, WriteEvent, CallbackReturns,
         PeerReads, PeerSends, PeerLeaves, PeerOnly
<1>2. ASSUME NEW u \in Users, SendCheck(u) \/ SendPost(u) \/ Close(u)
      PROVE  ~Alive /\ TouchFreed
  BY <1>1, <1>2 DEF SendCheck, SendPost, Close
<1>3. CASE CallbackStep
  BY <1>1, <1>3 DEF CallbackStep, CallbackSends, CallbackCloses
<1>4. CASE Swap \/ BatchDone \/ WriteEvent
  BY <1>1, <1>4 DEF Swap, BatchDone, WriteEvent
<1>5. CASE RunFunctor
  <2>1. ASSUME NEW f, Execute(f) PROVE lpc' # "crashed"
    BY <1>1, <2>1 DEF Execute, Start, SendInLoop, HandleClose
  <2> QED  BY <1>5, <2>1 DEF RunFunctor, Alive
<1>6. CASE HandleEvent
  BY <1>6 DEF HandleEvent, HandleRead, HandleClose, AfterRead
<1>7. CASE CallbackReturns
  BY <1>7 DEF CallbackReturns, AfterRead
<1>8. CASE PeerStep
  BY <1>1, <1>8 DEF PeerStep, PeerReads, PeerSends, PeerLeaves, PeerOnly
<1> QED  BY <1>1, <1>2, <1>3, <1>4, <1>5, <1>6, <1>7, <1>8
         DEF Next, UserStep, LoopStep, Alive

(* Without a Close that waits, all bytes accepted before the last call of  *)
(* Close are written or buffered.                                          *)
LEMMA MarkPassed ==
  ASSUME Typed, InOrder, NoClose(Queue, 1)
  PROVE  Len(wire) + Len(sendBuf) >= closeMark
<1>1. PICK at \in [1..(Len(Queue) + 1) -> 0..MaxBytes] :
         Numbered(at, Stream, Queue, accepted) /\ Marked(at, Queue, closeMark)
  BY DEF InOrder, Straight
<1>2. Len(Queue) \in Nat
  BY QueueType
<1>3. at[1] = Len(Stream) /\ at[1] >= closeMark
  BY <1>1, <1>2 DEF Numbered, Marked
<1>4. Len(Stream) = Len(wire) + Len(sendBuf)
  <2>1. wire \in Seq(Byte) /\ sendBuf \in Seq(Byte)
    BY DEF Typed, TypeOK, Byte
  <2> QED  BY <2>1, ConcatProperties DEF Stream
<1> QED  BY <1>3, <1>4

LEMMA NoCloseWaits ==
  ASSUME Typed, ~HeldByFunctor
  PROVE  NoClose(Queue, 1)
<1>1. batch \in Seq(Posted) /\ pending \in Seq(Posted) /\ next \in Nat \ {0}
  BY DEF Typed, TypeOK
<1> DEFINE r == SubSeq(batch, next, Len(batch))
<1>2. /\ r \in Seq(Posted)
      /\ \A i \in 1..Len(r) : /\ next + i - 1 \in DOMAIN batch
                             /\ r[i] = batch[next + i - 1]
  BY <1>1
<1> HIDE DEF r
<1>3. \A i \in 1..Len(r) : r[i].op # "close"
  BY <1>2 DEF HeldByFunctor
<1>4. \A i \in 1..Len(pending) : pending[i].op # "close"
  BY <1>1 DEF HeldByFunctor
<1>5. /\ Len(r \o pending) = Len(r) + Len(pending)
      /\ \A i \in 1..(Len(r) + Len(pending)) :
            (r \o pending)[i] = IF i <= Len(r) THEN r[i] ELSE pending[i - Len(r)]
  BY <1>1, <1>2, ConcatProperties
<1>6. Len(r) \in Nat /\ Len(pending) \in Nat
  BY <1>1, <1>2
<1>7. Queue = r \o pending
  BY DEF Queue, Waiting, r
<1> QED  BY <1>3, <1>4, <1>5, <1>6, <1>7 DEF NoClose

LEMMA FreedStep ==
  ASSUME Typed, InOrder, HeldInBatch, FreedBehindClose, [Next]_vars
  PROVE  FreedBehindClose'
<1>1. CASE UNCHANGED vars
  BY <1>1 DEF vars, loopVars, connVars, sockVars, userVars, FreedBehindClose
<1>2. CASE Next
  <2> SUFFICES ASSUME lpc' = "crashed"
               PROVE  Len(wire') + Len(sendBuf') >= closeMark' /\ next' = 1
    BY DEF FreedBehindClose
  <2>1. ~HeldOutside /\ TouchFreed
    BY <1>2, CrashStep
  <2>2. UNCHANGED <<wire, sendBuf, closeMark, next>>
    BY <2>1 DEF TouchFreed, connVars, loopVars, sockVars, userVars
  <2>3. next = 1
    BY <2>1 DEF HeldInBatch, Typed, TypeOK
  <2>4. Len(wire) + Len(sendBuf) >= closeMark
    BY <2>1, NoCloseWaits, MarkPassed DEF HeldOutside
  <2> QED  BY <2>2, <2>3, <2>4
<1> QED  BY <1>1, <1>2

LEMMA InitInvariant == Init => IInv
<1> SUFFICES ASSUME Init PROVE IInv
  OBVIOUS
<1> DEFINE f == [op |-> "start"]
<1>1. /\ f \in Posted /\ f.op = "start"
      /\ pending = <<f>> /\ batch = <<>> /\ next = 1
      /\ <<f>> \in Seq(Posted) /\ Len(<<f>>) = 1 /\ <<f>>[1] = f
      /\ <<>> \in Seq(Posted) /\ <<>> \in Seq(Byte)
  BY DEF Init, Posted
<1> HIDE DEF f
<1>2. Typed
  <2>1. pending \in Seq(Posted) /\ pending \in Seq(Functor)
        /\ batch \in Seq(Posted) /\ batch \in Seq(Functor)
    BY <1>1, PostedIsFunctor
  <2>2. sendBuf \in Seq(1..MaxBytes) /\ wire \in Seq(1..MaxBytes)
    BY <1>1, Zenon DEF Init, Byte
  <2>3. /\ unread \in 0..KernelCap /\ input \in 0..MaxInput
        /\ accepted \in 0..MaxBytes /\ sends \in 0..MaxSends
        /\ closes \in 0..MaxCloses /\ next \in Nat \ {0}
        /\ closeMark \in 0..MaxBytes
    BY ConnectionAssumption DEF Init
  <2>4. upc \in [Users -> {"idle", "checked"}]
    BY DEF Init
  <2>5. /\ status \in {"Connected", "Disconnected"} /\ interest \subseteq {"R", "W"}
        /\ keepers \in KeeperSets /\ owned \in BOOLEAN /\ wantWrite \in BOOLEAN
        /\ closed \in BOOLEAN
        /\ lpc \in {"idle", "write", "crashed"} \cup Callbacks
        /\ lpc = "idle" => ~wantWrite
        /\ peer \in {"open", "fin", "reset", "gone"}
    BY DEF Init
  <2> QED  BY <2>1, <2>2, <2>3, <2>4, <2>5, Zenon DEF Typed, TypeOK
<1>3. Queue = <<f>>
  BY <1>1, WaitingSwap DEF Queue
<1>4. Stream = <<>> /\ Len(Stream) = 0 /\ Stream \in Seq(Byte)
  BY <1>1, ConcatEmptySeq DEF Init, Stream
<1>5. InOrder
  <2> DEFINE at == [i \in 1..(Len(Queue) + 1) |-> 0]
  <2>1. at \in [1..(Len(Queue) + 1) -> 0..MaxBytes]
    BY ConnectionAssumption
  <2>2. /\ Len(Queue) = 1 /\ Queue[1] = f /\ accepted = 0
    BY <1>1, <1>3 DEF Init
  <2>3. at[1] = 0 /\ at[2] = 0
    BY <2>2
  <2> HIDE DEF at
  <2>4. Numbered(at, Stream, Queue, accepted)
    BY <1>1, <1>4, <2>2, <2>3 DEF Numbered
  <2>5. Counts(Stream)
    BY <1>4 DEF Counts
  <2>6. Marked(at, Queue, closeMark)
    BY <2>2, <2>3 DEF Marked, Init
  <2> QED  BY <2>1, <2>4, <2>5, <2>6, Zenon DEF InOrder, Straight
<1>6. StartFirst
  BY <1>1, <1>3 DEF StartFirst, FirstOnly, HasStart, Init
<1>7. /\ NextIsOne /\ NoReadLeft /\ HeldInBatch /\ NeverStranded
      /\ FreedBehindClose
  BY DEF Init, NextIsOne, NoReadLeft, HeldInBatch, NeverStranded,
         FreedBehindClose
<1> QED  BY <1>2, <1>5, <1>6, <1>7 DEF IInv

LEMMA StepInvariant == IInv /\ [Next]_vars => IInv'
<1> SUFFICES ASSUME IInv, [Next]_vars PROVE IInv'
  OBVIOUS
<1> USE DEF IInv
<1>1. Typed' /\ NextIsOne' /\ Kinds
  BY EveryGoal DEF Goal
<1>2. StartFirst' /\ NoReadLeft'
  BY <1>1, StartFirstStep
<1>3. HeldInBatch'
  BY HeldStep
<1>4. NeverStranded'
  BY <1>1, StrandedStep
<1>5. FreedBehindClose'
  BY FreedStep
<1>6. InOrder'
  BY <1>1, InOrderStep
<1> QED  BY <1>1, <1>2, <1>3, <1>4, <1>5, <1>6

LEMMA InOrderImplies == IInv => StreamInOrder
<1> SUFFICES ASSUME IInv PROVE StreamInOrder
  OBVIOUS
<1>1. Stream \in Seq(Byte) /\ \A i \in 1..Len(Stream) : Stream[i] = i
  BY QueueType DEF IInv, InOrder, Straight, Counts
<1> QED  BY <1>1 DEF StreamInOrder, Stream

-----------------------------------------------------------------------------
(* The variables keep their types; in particular the socket never holds    *)
(* more than its capacity and only bytes that Send accepted are written.   *)
THEOREM TypeCorrect == Spec => []TypeOK
<1>1. IInv => TypeOK
  BY DEF IInv, Typed
<1> QED  BY <1>1, InitInvariant, StepInvariant, PTL DEF Spec

(* send_buffer_ and the socket together hold the bytes in the order in     *)
(* which Send accepted them, none lost and none twice.                     *)
THEOREM StreamStaysInOrder == Spec => []StreamInOrder
  BY InitInvariant, StepInvariant, InOrderImplies, PTL DEF Spec

(* Until HandleClose, buffered bytes have EV_WRITE registered.             *)
THEOREM BufferedNeverStranded == Spec => []NeverStranded
<1>1. IInv => NeverStranded
  BY DEF IInv
<1> QED  BY <1>1, InitInvariant, StepInvariant, PTL DEF Spec

(* A freed object is touched only when all bytes accepted before the last  *)
(* call of Close went through SendInLoop, and never in the middle of a     *)
(* batch.                                                                  *)
THEOREM CloseProtectsWhatPrecedes == Spec => []FreedBehindClose
<1>1. IInv => FreedBehindClose
  BY DEF IInv
<1> QED  BY <1>1, InitInvariant, StepInvariant, PTL DEF Spec

(* After HandleClose the loop never enters read_cb_ again.                 *)
THEOREM ClosedReadsNoMore == Spec => NoReadAfterClose
<1>1. ASSUME IInv, Next, closed, lpc # "read_cb"
      PROVE  lpc' # "read_cb"
  <2> USE DEF Callbacks
  <2>1. "R" \notin interest
    BY <1>1 DEF IInv, NoReadLeft
  <2>2. CASE UserStep
    BY <1>1, <2>2 DEF UserStep, SendCheck, SendPost, Close, TouchFreed
  <2>3. CASE CallbackStep
    BY <1>1, <2>3 DEF CallbackStep, CallbackSends, CallbackCloses
  <2>4. CASE Swap \/ BatchDone \/ WriteEvent
    BY <1>1, <2>4 DEF Swap, BatchDone, WriteEvent
  <2>5. CASE RunFunctor
    <3>1. ASSUME NEW f, Execute(f) PROVE lpc' # "read_cb"
      BY <1>1, <3>1 DEF Execute, Start, SendInLoop, HandleClose
    <3> QED  BY <2>5, <3>1 DEF RunFunctor, TouchFreed
  <2>6. CASE HandleEvent
    BY <2>1, <2>6 DEF HandleEvent
  <2>7. CASE CallbackReturns
    BY <2>7 DEF CallbackReturns, AfterRead, TouchFreed
  <2>8. CASE PeerStep
    BY <1>1, <2>8 DEF PeerStep, PeerReads, PeerSends, PeerLeaves, PeerOnly
  <2> QED  BY <1>1, <2>2, <2>3, <2>4, <2>5, <2>6, <2>7, <2>8
           DEF Next, LoopStep
<1>2. IInv /\ [Next]_vars => [closed => ~(lpc # "read_cb" /\ lpc' = "read_cb")]_vars
  BY <1>1
<1> QED  BY <1>2, InitInvariant, StepInvariant, PTL DEF Spec, NoReadAfterClose
=============================================================================
