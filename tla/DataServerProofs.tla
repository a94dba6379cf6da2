-------------------------- MODULE DataServerProofs --------------------------
(***************************************************************************)
(* Theorems about DataServer, for any connections, threads and scripts,    *)
(* and any way in which the bytes of a stream arrive in pieces: every      *)
(* answer belongs to its login, and message boundaries are lost only       *)
(* behind an unknown tag.                                                  *)
(***************************************************************************)
EXTENDS DataServer, FramingProofs, FiniteSetTheorems, SequenceTheorems

Messages == UNION {{Script[c][k] : k \in DOMAIN Script[c]} : c \in Conns}
Users == {m.user : m \in Messages} \cup {NoUser}
Answers == {Answer(m, uid) : m \in Messages, uid \in Users}

-----------------------------------------------------------------------------
(* The inductive invariant.                                                *)
Typed ==
    /\ TypeOK
    /\ sent \in [Conns -> Nat] /\ received \in [Conns -> Nat]
    /\ pos \in [Conns -> Nat] /\ replies \in [Conns -> Seq(Answers)]
    /\ job \in [Threads -> {<<>>} \cup (Conns \X Messages)]

(* Nothing is sent and no query runs before the start-up is complete, and  *)
(* then there is a connection to the database.                             *)
Booted ==
    /\ boot \in {"redis", "up"} => contexts > 0
    /\ (\E c \in Conns : sent[c] # 0) => boot = "up"
    /\ (\E t \in Threads : pc[t] # "idle") => boot = "up"

Busy(c) == pc[LoopOf[c]] # "idle" /\ job[LoopOf[c]][1] = c

OwnJob == \A t \in Threads : pc[t] # "idle" =>
             job[t] \in Conns \X Messages /\ LoopOf[job[t][1]] = t

(* The first k messages of c have been consumed: in step with the stream,  *)
(* or with up to four bytes more behind an unknown tag.                    *)
Consumed(c, k) ==
    \/ pos[c] = End(c, k)
    \/ /\ k \in DOMAIN Script[c] /\ Script[c][k].tag = "other"
       /\ pos[c] - End(c, k) \in 1..4

(* Their logins have been answered but for the one that is worked for.     *)
Answered(c, k) ==
    /\ ~Busy(c) => Len(replies[c]) = Cardinality(LoginsUpTo(c, k))
    /\ Busy(c) => /\ Len(replies[c]) + 1 = Cardinality(LoginsUpTo(c, k))
                  /\ k \in DOMAIN Script[c] /\ Script[c][k].tag = "l"
                  /\ job[LoopOf[c]][2] = Script[c][k]

InOrder == \A c \in Conns : \E k \in 0..Len(Script[c]) : Consumed(c, k) /\ Answered(c, k)

IInv == Typed /\ Booted /\ OwnJob /\ InOrder /\ RepliesMatch

-----------------------------------------------------------------------------
(* The scripts and the positions in the streams.                           *)
LEMMA Scripts ==
  ASSUME NEW c \in Conns
  PROVE  /\ Len(Script[c]) \in Nat /\ DOMAIN Script[c] = 1..Len(Script[c])
         /\ \A k \in 1..Len(Script[c]) :
               /\ Script[c][k] \in Messages
               /\ Script[c][k].tag \in {"l", "other"}
               /\ Size(Script[c][k]) \in 5..(2^16 - 1)
         /\ LoopOf[c] \in Threads
<1>1. Script[c] \in Seq({Script[c][i] : i \in DOMAIN Script[c]})
  BY DataServerAssumption
<1>2. Len(Script[c]) \in Nat /\ DOMAIN Script[c] = 1..Len(Script[c])
  BY <1>1
<1>3. \A k \in DOMAIN Script[c] : Message(Script[c][k])
  BY DataServerAssumption
<1>4. ASSUME NEW k \in 1..Len(Script[c])
      PROVE  /\ Script[c][k] \in Messages
             /\ Script[c][k].tag \in {"l", "other"}
             /\ Size(Script[c][k]) \in 5..(2^16 - 1)
  <2>1. Script[c][k] \in Messages
    <3>1. Script[c][k] \in {Script[c][j] : j \in DOMAIN Script[c]}
      BY <1>2
    <3>2. {Script[c][j] : j \in DOMAIN Script[c]} \in {{Script[d][j] : j \in DOMAIN Script[d]} : d \in Conns}
      OBVIOUS
    <3> QED
      BY <3>1, <3>2, Zenon DEF Messages
  <2>2. Message(Script[c][k])
    BY <1>2, <1>3
  <2> DEFINE m == Script[c][k]
             v == m.var
  <2>3. m.tag \in {"l", "other"} /\ v \in Nat /\ v < 2^15
    BY <2>2, Zenon DEF Message
  <2>4. Size(m) = IF m.tag = "l" THEN 21 + v ELSE 5 + v
    BY <2>3 DEF Size
  <2> HIDE DEF m, v
  <2>5. Size(m) \in 5..(2^16 - 1)
    BY <2>3, <2>4
  <2> QED
    BY <2>1, <2>3, <2>5 DEF m
<1>5. LoopOf[c] \in Threads
  BY Zenon DEF Threads
<1> QED
  BY <1>2, <1>4, <1>5

LEMMA Streams ==
  ASSUME NEW c \in Conns
  PROVE  /\ Stream(Sizes(c), Len(Script[c])) /\ DOMAIN Sizes(c) = 1..Len(Script[c])
         /\ \A k \in 1..Len(Script[c]) : Sizes(c)[k] = Size(Script[c][k])
         /\ Ends[c] = EndsOf(Sizes(c))
<1> DEFINE n == Len(Script[c])
<1>1. /\ n \in Nat /\ DOMAIN Script[c] = 1..n
      /\ \A k \in 1..n : Size(Script[c][k]) \in 5..(2^16 - 1)
  BY Scripts
<1>2. Sizes(c) = [k \in 1..n |-> Size(Script[c][k])]
  BY <1>1 DEF Sizes
<1>3. DOMAIN Sizes(c) = 1..n /\ \A k \in 1..n : Sizes(c)[k] = Size(Script[c][k])
  BY <1>2
<1>4. Sizes(c) = [k \in 1..n |-> Sizes(c)[k]]
  BY <1>2
<1>5. Len(Sizes(c)) = n
  BY <1>1, <1>4, LenOf
<1>6. ASSUME NEW k \in 1..n PROVE Sizes(c)[k] \in Nat \ {0}
  <2> DEFINE z == Sizes(c)[k]
  <2>1. z \in 5..(2^16 - 1)
    BY <1>1, <1>3
  <2> HIDE DEF z
  <2>2. z \in Nat \ {0}
    BY <2>1
  <2> QED
    BY <2>2 DEF z
<1>7. Ends[c] = EndsOf(Sizes(c))
  BY DEF Ends
<1> QED
  BY <1>1, <1>3, <1>5, <1>6, <1>7 DEF Stream

LEMMA Positions ==
  ASSUME NEW c \in Conns
  PROVE  /\ End(c, 0) = 0
         /\ \A k \in 0..Len(Script[c]) : End(c, k) \in Nat
         /\ \A k \in 1..Len(Script[c]) : End(c, k) = End(c, k - 1) + Size(Script[c][k])
         /\ \A j, k \in 0..Len(Script[c]) : j <= k => End(c, j) <= End(c, k)
         /\ \A j, k \in 0..Len(Script[c]) : j < k => End(c, j) + 5 <= End(c, k)
         /\ \A j, k \in 0..Len(Script[c]) : End(c, j) = End(c, k) => j = k
<1> DEFINE n == Len(Script[c])
           s == Sizes(c)
<1>1. /\ n \in Nat /\ Stream(s, n) /\ \A k : End(c, k) = EndsOf(s)[k]
      /\ \A k \in 1..n : s[k] = Size(Script[c][k]) /\ Size(Script[c][k]) \in 5..(2^16 - 1)
  BY Scripts, Streams DEF End
<1> HIDE DEF s, n
<1>2. ASSUME NEW k \in 1..n PROVE s[k] >= 5
  <2> DEFINE z == s[k]
  <2>1. z \in 5..(2^16 - 1)
    BY <1>1
  <2> HIDE DEF z
  <2>2. z >= 5
    BY <2>1
  <2> QED
    BY <2>2 DEF z
<1>3. Apart(EndsOf(s), s, n)
  BY <1>1, <1>2, EndsApart
<1>4. \A j, k \in 0..n : End(c, j) = End(c, k) => j = k
  BY <1>1, <1>3 DEF Apart
<1>5. \A j, k \in 0..n : j < k => End(c, j) + 5 <= End(c, k)
  BY <1>1, <1>3 DEF Apart
<1>6. \A j, k \in 0..n : j <= k => End(c, j) <= End(c, k)
  BY <1>1, <1>3 DEF Apart
<1>7. \A k \in 1..n : End(c, k) = End(c, k - 1) + Size(Script[c][k])
  BY <1>1, <1>3 DEF Apart
<1>8. End(c, 0) = 0 /\ \A k \in 0..n : End(c, k) \in Nat
  BY <1>1, <1>3 DEF Apart
<1> QED
  BY <1>4, <1>5, <1>6, <1>7, <1>8 DEF n

LEMMA PieceIsNat ==
  ASSUME NEW c \in Conns, NEW e \in PieceEnds[c]
  PROVE  e \in Nat
<1>1. e \in PiecesOf(Sizes(c), Cuts)
  BY DEF PieceEnds
<1> QED
  BY <1>1, Streams, PiecesFit

LEMMA NoLogins ==
  ASSUME NEW c
  PROVE  Cardinality(LoginsUpTo(c, 0)) = 0
<1>1. LoginsUpTo(c, 0) = {}
  BY DEF LoginsUpTo
<1> QED
  BY <1>1, FS_EmptySet

(* One more message, a login or another.                                   *)
LEMMA OneMoreLogin ==
  ASSUME NEW c \in Conns, NEW k \in 0..(Len(Script[c]) - 1)
  PROVE  /\ Cardinality(LoginsUpTo(c, k)) \in Nat
         /\ Cardinality(LoginsUpTo(c, k + 1)) =
               IF Script[c][k + 1].tag = "l" THEN Cardinality(LoginsUpTo(c, k)) + 1
               ELSE Cardinality(LoginsUpTo(c, k))
<1>1. k \in Nat /\ Len(Script[c]) \in Nat
  BY Scripts
<1>2. IsFiniteSet(1..k)
  BY <1>1, FS_Interval
<1>3. IsFiniteSet(LoginsUpTo(c, k))
  BY <1>2, FS_Subset DEF LoginsUpTo
<1>4. Cardinality(LoginsUpTo(c, k)) \in Nat
  BY <1>3, FS_CardinalityType
<1>5. k + 1 \notin LoginsUpTo(c, k)
  BY <1>1 DEF LoginsUpTo
<1>6. CASE Script[c][k + 1].tag = "l"
  <2>1. LoginsUpTo(c, k + 1) = LoginsUpTo(c, k) \cup {k + 1}
    BY <1>1, <1>6 DEF LoginsUpTo
  <2>2. Cardinality(LoginsUpTo(c, k) \cup {k + 1}) = Cardinality(LoginsUpTo(c, k)) + 1
    BY <1>3, <1>5, FS_AddElement
  <2> QED
    BY <1>4, <1>6, <2>1, <2>2
<1>7. CASE Script[c][k + 1].tag # "l"
  <2>1. LoginsUpTo(c, k + 1) = LoginsUpTo(c, k)
    BY <1>1, <1>7 DEF LoginsUpTo
  <2> QED
    BY <1>4, <1>7, <2>1
<1> QED
  BY <1>6, <1>7

(* A message that the length test lets pass is there as a whole, and it is *)
(* consumed as a whole, an unknown one with up to four bytes more.         *)
LEMMA Handled ==
  ASSUME NEW m, Size(m) \in 5..(2^16 - 1), NEW length \in Nat, NEW at \in Nat, Complete(length, m)
  PROVE  /\ Size(m) <= length
         /\ Consume(at, length, m) <= at + length
         /\ m.tag = "l" => Consume(at, length, m) = at + Size(m)
         /\ m.tag # "l" => Consume(at, length, m) - (at + Size(m)) \in 0..4
         /\ Consume(at, length, m) \in Nat
<1> DEFINE z == Size(m)
           p == PeekTagLen(BigEndian, z - 1)
<1>1. z \in 5..(2^16 - 1)
  OBVIOUS
<1>2. BigEndian \in BOOLEAN
  BY DataServerAssumption
<1>3. z - 1 \in 0..(2^16 - 1)
  BY <1>1
<1>4. p \in Nat /\ p >= z - 1
  <2> HIDE DEF z
  <2> QED
    BY <1>2, <1>3, NeverShorter
<1>5. p <= length - 1
  BY DEF Complete, PeekLen, LenField
<1> DEFINE k == Consume(at, length, m)
<1>6. k = IF m.tag = "l" THEN at + z ELSE IF z - 1 < length - 5 THEN at + 5 + (z - 1) ELSE at + length
  BY DEF Consume, LenField
<1> HIDE DEF z, p, k
<1>7. z <= length
  BY <1>1, <1>4, <1>5
<1>8. CASE m.tag = "l"
  <2>1. k = at + z
    BY <1>6, <1>8
  <2> QED
    BY <1>1, <1>7, <1>8, <2>1 DEF k, z
<1>9. CASE m.tag # "l"
  <2>1. k = IF z - 1 < length - 5 THEN at + 5 + (z - 1) ELSE at + length
    BY <1>6, <1>9
  <2>2. k <= at + length /\ k - (at + z) \in 0..4 /\ k \in Nat
    BY <1>1, <1>7, <2>1
  <2> QED
    BY <1>7, <1>9, <2>2 DEF k, z
<1> QED
  BY <1>8, <1>9

(* A connection that is in step has exactly the consumed messages behind   *)
(* it, and the next one, of which something has arrived, at the front.     *)
LEMMA InStepIs ==
  ASSUME NEW c \in Conns, NEW k \in 0..Len(Script[c]), pos[c] \in Nat,
         Consumed(c, k), InStep(c)
  PROVE  pos[c] = End(c, k)
<1> DEFINE n == Len(Script[c])
<1>1. /\ n \in Nat /\ \A j \in 0..n : End(c, j) \in Nat
      /\ \A i, j \in 0..n : i <= j => End(c, i) <= End(c, j)
      /\ \A i, j \in 0..n : i < j => End(c, i) + 5 <= End(c, j)
  BY Scripts, Positions
<1>2. PICK j \in 0..n : pos[c] = End(c, j)
  BY DEF InStep
<1>3. CASE pos[c] = End(c, k)
  BY <1>3
<1>4. CASE pos[c] - End(c, k) \in 1..4
  <2>1. End(c, k) \in Nat /\ End(c, j) - End(c, k) \in 1..4
    BY <1>1, <1>2, <1>4
  <2>2. j <= k => End(c, j) <= End(c, k)
    BY <1>1
  <2>3. k < j => End(c, k) + 5 <= End(c, j)
    BY <1>1
  <2>4. j \in Int /\ k \in Int /\ End(c, j) \in Nat
    BY <1>1
  <2> QED
    BY <2>1, <2>2, <2>3, <2>4
<1> QED
  BY <1>3, <1>4 DEF Consumed

LEMMA AtFront ==
  ASSUME NEW c \in Conns, NEW k \in 0..Len(Script[c]), pos[c] \in Nat,
         pos[c] = End(c, k),
         received[c] \in Nat, pos[c] <= received[c], sent[c] \in 0..Len(Script[c]),
         NEW e \in Nat, e > received[c], e <= End(c, sent[c])
  PROVE  k + 1 \in 1..Len(Script[c]) /\ Front(c) = k + 1
<1> DEFINE n == Len(Script[c])
<1>1. /\ n \in Nat /\ DOMAIN Script[c] = 1..n /\ \A j \in 0..n : End(c, j) \in Nat
      /\ \A i, j \in 0..n : i <= j => End(c, i) <= End(c, j)
      /\ \A i, j \in 0..n : End(c, i) = End(c, j) => i = j
  BY Scripts, Positions
<1>2. k < sent[c]
  <2>1. sent[c] <= k => End(c, sent[c]) <= End(c, k)
    BY <1>1
  <2>2. End(c, k) \in Nat /\ End(c, sent[c]) \in Nat
    BY <1>1
  <2> QED
    BY <1>1, <2>1, <2>2
<1>3. k + 1 \in 1..n /\ (k + 1) - 1 = k
  BY <1>1, <1>2
<1>4. Front(c) \in 1..n /\ pos[c] = End(c, Front(c) - 1)
  <2>1. k + 1 \in DOMAIN Script[c] /\ pos[c] = End(c, (k + 1) - 1)
    BY <1>1, <1>3
  <2>2. \E j \in DOMAIN Script[c] : pos[c] = End(c, j - 1)
    BY <2>1
  <2> QED
    BY <1>1, <2>2, Zenon DEF Front
<1> DEFINE f == Front(c)
<1> HIDE DEF f
<1>5. f \in 1..n /\ f - 1 \in 0..n /\ End(c, f - 1) = End(c, k)
  BY <1>1, <1>4 DEF f
<1>6. f - 1 = k
  BY <1>1, <1>5
<1>7. f = k + 1
  BY <1>5, <1>6
<1> QED
  BY <1>3, <1>7 DEF f

-----------------------------------------------------------------------------
(* What the invariant says of a connection.                                *)
LEMMA OfConn ==
  ASSUME IInv, NEW c \in Conns
  PROVE  /\ sent[c] \in 0..Len(Script[c]) /\ received[c] \in 0..End(c, sent[c])
         /\ pos[c] \in 0..received[c] /\ End(c, sent[c]) \in Nat
         /\ received[c] \in Nat /\ pos[c] \in Nat /\ pos[c] <= received[c]
         /\ replies[c] \in Seq(Answers)
         /\ \E k \in 0..Len(Script[c]) : Consumed(c, k) /\ Answered(c, k)
<1>1. sent[c] \in 0..Len(Script[c]) /\ received[c] \in 0..End(c, sent[c]) /\ pos[c] \in 0..received[c]
  BY DEF IInv, Typed, TypeOK
<1>2. End(c, sent[c]) \in Nat
  BY <1>1, Positions
<1>3. replies[c] \in Seq(Answers)
  BY DEF IInv, Typed
<1>4. received[c] \in Nat /\ pos[c] \in Nat /\ pos[c] <= received[c]
  BY <1>1, <1>2
<1>5. \E k \in 0..Len(Script[c]) : Consumed(c, k) /\ Answered(c, k)
  BY DEF IInv, InOrder
<1> QED
  BY <1>1, <1>2, <1>3, <1>4, <1>5

(* An incomplete message: the piece is put into the buffer, no more.       *)
LEMMA Incomplete ==
  ASSUME IInv, NEW c \in Conns, NEW e \in Nat, e > received[c], e <= End(c, sent[c]),
         received' = [received EXCEPT ![c] = e],
         UNCHANGED <<sent, pos, replies, boot, contexts, pick, pc, job, ctx>>
  PROVE  IInv'
<1>1. Typed'
  <2>1. received' \in [Conns -> Nat]
    BY DEF IInv, Typed
  <2>2. ASSUME NEW d \in Conns
        PROVE  received'[d] \in 0..End(d, sent[d]) /\ pos[d] \in 0..received'[d]
    <3>1. received[d] \in 0..End(d, sent[d]) /\ pos[d] \in 0..received[d]
          /\ End(d, sent[d]) \in Nat /\ received[d] \in Nat
      BY OfConn
    <3>2. CASE d = c
      <4>1. received'[d] = e
        BY <3>2 DEF IInv, Typed
      <4> QED
        BY <3>1, <3>2, <4>1
    <3>3. CASE d # c
      <4>1. received'[d] = received[d]
        BY <3>3 DEF IInv, Typed
      <4> QED
        BY <3>1, <4>1
    <3> QED
      BY <3>2, <3>3
  <2>3. \A d \in Conns : sent[d] \in 0..Len(Script[d])
                         /\ \A i \in DOMAIN replies[d] : replies[d][i].tag \in {"s", "x"}
    BY DEF IInv, Typed, TypeOK
  <2>4. TypeOK'
    BY <2>2, <2>3 DEF IInv, Typed, TypeOK
  <2> QED
    BY <2>1, <2>4 DEF IInv, Typed
<1>2. Booted' /\ OwnJob' /\ RepliesMatch'
  BY DEF IInv, Booted, OwnJob, RepliesMatch
<1>3. InOrder'
  BY DEF IInv, InOrder, Consumed, Answered, Busy
<1> QED
  BY <1>1, <1>2, <1>3 DEF IInv

(* A complete message is consumed, up to p; of a login, the thread goes on *)
(* to SelectUser.                                                          *)
Consumes(c, e, k, p) ==
    /\ e > received[c] /\ e <= End(c, sent[c]) /\ k + 1 \in 1..Len(Script[c])
    /\ pos[c] = End(c, k) /\ Answered(c, k) /\ pc[LoopOf[c]] = "idle" /\ boot = "up"
    /\ p \in Nat /\ p <= e
    /\ \/ p = End(c, k + 1)
       \/ Script[c][k + 1].tag = "other" /\ p - End(c, k + 1) \in 1..4
    /\ received' = [received EXCEPT ![c] = e]
    /\ pos' = [pos EXCEPT ![c] = p]
    /\ UNCHANGED <<sent, replies, boot, contexts, pick, ctx>>
    /\ \/ /\ Script[c][k + 1].tag = "l"
          /\ pc' = [pc EXCEPT ![LoopOf[c]] = "pick"]
          /\ job' = [job EXCEPT ![LoopOf[c]] = <<c, Script[c][k + 1]>>]
       \/ Script[c][k + 1].tag = "other" /\ UNCHANGED <<pc, job>>

LEMMA ReadConsumes ==
  ASSUME IInv, NEW c \in Conns, NEW e \in Nat, HandleRead(c, e),
         Complete(e - pos[c], Script[c][Front(c)])
  PROVE  \E k \in 0..Len(Script[c]), p \in Nat : Consumes(c, e, k, p)
<1> DEFINE t == LoopOf[c]
           length == e - pos[c]
<1>1. PICK k \in 0..Len(Script[c]) : Consumed(c, k) /\ Answered(c, k)
  BY OfConn
<1>2. /\ sent[c] \in 0..Len(Script[c]) /\ received[c] \in Nat /\ pos[c] \in Nat
      /\ pos[c] <= received[c]
  BY OfConn
<1>3. e > received[c] /\ e <= End(c, sent[c]) /\ pc[t] = "idle" /\ InStep(c)
  BY DEF HandleRead, At
<1>4. pos[c] = End(c, k)
  BY <1>1, <1>2, <1>3, InStepIs
<1>5. k + 1 \in 1..Len(Script[c]) /\ Front(c) = k + 1
  BY <1>2, <1>3, <1>4, AtFront
<1> DEFINE m == Script[c][k + 1]
           p == Consume(pos[c], length, m)
<1>6. Size(m) \in 5..(2^16 - 1) /\ m.tag \in {"l", "other"}
  BY <1>5, Scripts
<1>7. length \in Nat /\ Complete(length, m)
  BY <1>2, <1>3, <1>5
<1>8. /\ p <= pos[c] + length /\ p \in Nat
      /\ m.tag = "l" => p = pos[c] + Size(m)
      /\ m.tag # "l" => p - (pos[c] + Size(m)) \in 0..4
  BY <1>2, <1>6, <1>7, Handled
<1>9. End(c, k + 1) = pos[c] + Size(m) /\ End(c, k + 1) \in Nat
  <2>1. (k + 1) - 1 = k /\ k + 1 \in 0..Len(Script[c])
    BY <1>5
  <2> QED
    BY <1>4, <1>5, <2>1, Positions
<1>10. boot = "up"
  <2>1. CASE sent[c] # 0
    BY <2>1 DEF IInv, Booted
  <2>2. CASE sent[c] = 0
    <3>1. End(c, sent[c]) = 0
      BY <2>2, Positions
    <3> QED
      BY <1>2, <1>3, <3>1
  <2> QED
    BY <2>1, <2>2
<1>11. /\ received' = [received EXCEPT ![c] = e]
       /\ pos' = [pos EXCEPT ![c] = p]
       /\ UNCHANGED <<sent, replies, boot, contexts, pick, ctx>>
       /\ IF m.tag = "l" THEN /\ pc' = [pc EXCEPT ![t] = "pick"]
                              /\ job' = [job EXCEPT ![t] = <<c, m>>]
          ELSE UNCHANGED <<pc, job>>
  BY <1>5, <1>7 DEF HandleRead
<1>12. \/ p = End(c, k + 1)
       \/ m.tag = "other" /\ p - End(c, k + 1) \in 1..4
  <2> HIDE DEF p, m
  <2>1. CASE m.tag = "l"
    BY <1>8, <1>9, <2>1
  <2>2. CASE m.tag = "other"
    <3>1. p - End(c, k + 1) \in 0..4
      BY <1>8, <1>9, <2>2
    <3> QED
      BY <1>8, <1>9, <2>2, <3>1
  <2> QED
    BY <1>6, <2>1, <2>2
<1>13. p <= e
  <2> HIDE DEF p
  <2> QED
    BY <1>2, <1>8
<1>14. \/ m.tag = "l" /\ pc' = [pc EXCEPT ![t] = "pick"] /\ job' = [job EXCEPT ![t] = <<c, m>>]
       \/ m.tag = "other" /\ UNCHANGED <<pc, job>>
  BY <1>6, <1>11
<1>15. Consumes(c, e, k, p)
  <2> HIDE DEF p
  <2> QED
    BY <1>1, <1>3, <1>4, <1>5, <1>8, <1>10, <1>11, <1>12, <1>13, <1>14 DEF Consumes
<1> QED
  <2> HIDE DEF p
  <2> QED
    BY <1>8, <1>15

LEMMA ConsumesInv ==
  ASSUME IInv, NEW c \in Conns, NEW e \in Nat, NEW k \in 0..Len(Script[c]), NEW p \in Nat,
         Consumes(c, e, k, p)
  PROVE  IInv'
<1> DEFINE t == LoopOf[c]
           m == Script[c][k + 1]
<1>1. /\ t \in Threads /\ k + 1 \in 1..Len(Script[c]) /\ k + 1 \in 0..Len(Script[c])
      /\ DOMAIN Script[c] = 1..Len(Script[c]) /\ m \in Messages /\ k \in 0..(Len(Script[c]) - 1)
  <2>1. k + 1 \in 1..Len(Script[c])
    BY DEF Consumes
  <2> QED
    BY <2>1, Scripts
<1>2. /\ received \in [Conns -> Nat] /\ pos \in [Conns -> Nat] /\ sent \in [Conns -> Nat]
      /\ pc \in [Threads -> {"idle", "pick", "picked", "query", "overrun"}]
      /\ job \in [Threads -> {<<>>} \cup (Conns \X Messages)]
  BY DEF IInv, Typed, TypeOK
<1>3. /\ received'[c] = e /\ pos'[c] = p
      /\ \A d \in Conns : d # c => received'[d] = received[d] /\ pos'[d] = pos[d]
      /\ received' \in [Conns -> Nat] /\ pos' \in [Conns -> Nat]
  BY <1>2 DEF Consumes
<1>4. /\ \A s \in Threads : s # t => pc'[s] = pc[s] /\ job'[s] = job[s]
      /\ m.tag = "l" => pc'[t] = "pick" /\ job'[t] = <<c, m>>
      /\ m.tag # "l" => pc'[t] = "idle"
      /\ pc' \in [Threads -> {"idle", "pick", "picked", "query", "overrun"}]
      /\ job' \in [Threads -> {<<>>} \cup (Conns \X Messages)]
  <2>1. CASE m.tag = "l"
    <3>1. pc' = [pc EXCEPT ![t] = "pick"] /\ job' = [job EXCEPT ![t] = <<c, m>>]
      BY <2>1 DEF Consumes
    <3>2. <<c, m>> \in Conns \X Messages
      BY <1>1
    <3> QED
      BY <1>1, <1>2, <2>1, <3>1, <3>2, Zenon
  <2>2. CASE m.tag # "l"
    <3>1. UNCHANGED <<pc, job>> /\ pc[t] = "idle"
      BY <2>2 DEF Consumes
    <3> QED
      BY <1>2, <2>2, <3>1
  <2> QED
    BY <2>1, <2>2
<1>5. UNCHANGED <<sent, replies, boot, contexts, pick, ctx>> /\ pc[t] = "idle" /\ boot = "up"
  BY DEF Consumes
<1>6. Typed'
  <2>1. ASSUME NEW d \in Conns
        PROVE  received'[d] \in 0..End(d, sent[d]) /\ pos'[d] \in 0..received'[d]
    <3>1. received[d] \in 0..End(d, sent[d]) /\ pos[d] \in 0..received[d]
          /\ End(d, sent[d]) \in Nat /\ received[d] \in Nat
      BY OfConn
    <3>2. CASE d = c
      <4>1. e <= End(c, sent[c]) /\ p <= e
        BY DEF Consumes
      <4> QED
        BY <1>3, <3>1, <3>2, <4>1
    <3>3. CASE d # c
      BY <1>3, <3>1, <3>3
    <3> QED
      BY <3>2, <3>3
  <2>2. \A d \in Conns : sent[d] \in 0..Len(Script[d])
                         /\ \A i \in DOMAIN replies[d] : replies[d][i].tag \in {"s", "x"}
    BY DEF IInv, Typed, TypeOK
  <2>3. TypeOK'
    BY <1>4, <1>5, <2>1, <2>2 DEF IInv, Typed, TypeOK
  <2> QED
    BY <1>3, <1>4, <1>5, <2>3 DEF IInv, Typed
<1>7. Booted'
  BY <1>5 DEF IInv, Booted
<1>8. OwnJob'
  <2> SUFFICES ASSUME NEW s \in Threads, pc'[s] # "idle"
               PROVE  job'[s] \in Conns \X Messages /\ LoopOf[job'[s][1]] = s
    BY DEF OwnJob
  <2>1. CASE s = t
    BY <1>1, <1>4, <2>1
  <2>2. CASE s # t
    BY <1>4, <2>2 DEF IInv, OwnJob
  <2> QED
    BY <2>1, <2>2
<1>9. RepliesMatch'
  BY <1>5 DEF IInv, RepliesMatch
<1>10. InOrder'
  <2>1. ASSUME NEW d \in Conns, d # c
        PROVE  \E j \in 0..Len(Script[d]) : Consumed(d, j)' /\ Answered(d, j)'
    <3>1. PICK j \in 0..Len(Script[d]) : Consumed(d, j) /\ Answered(d, j)
      BY OfConn
    <3>2. Consumed(d, j)'
      BY <1>3, <2>1, <3>1 DEF Consumed
    <3>3. LoopOf[d] \in Threads
      BY Scripts
    <3>4. CASE LoopOf[d] = t
      <4>1. ~Busy(d)
        BY <1>5, <3>4 DEF Busy
      <4>2. ~Busy(d)'
        BY <1>4, <2>1, <3>4 DEF Busy
      <4> QED
        BY <1>5, <3>1, <3>2, <4>1, <4>2 DEF Answered
    <3>5. CASE LoopOf[d] # t
      <4>1. pc'[LoopOf[d]] = pc[LoopOf[d]] /\ job'[LoopOf[d]] = job[LoopOf[d]]
        BY <1>4, <3>3, <3>5
      <4>2. Answered(d, j)'
        BY <1>5, <3>1, <4>1 DEF Answered, Busy
      <4> QED
        BY <3>2, <4>2
    <3> QED
      BY <3>4, <3>5
  <2>2. Consumed(c, k + 1)'
    BY <1>1, <1>3 DEF Consumed, Consumes
  <2>3. Len(replies[c]) = Cardinality(LoginsUpTo(c, k))
    BY <1>5 DEF Consumes, Answered, Busy
  <2>4. Answered(c, k + 1)'
    <3>1. CASE m.tag = "l"
      <4>1. Cardinality(LoginsUpTo(c, k + 1)) = Cardinality(LoginsUpTo(c, k)) + 1
        BY <1>1, <3>1, OneMoreLogin
      <4>2. Busy(c)'
        BY <1>4, <3>1 DEF Busy
      <4>3. job'[t][2] = m
        BY <1>4, <3>1
      <4> QED
        BY <1>1, <1>5, <2>3, <3>1, <4>1, <4>2, <4>3 DEF Answered
    <3>2. CASE m.tag # "l"
      <4>1. Cardinality(LoginsUpTo(c, k + 1)) = Cardinality(LoginsUpTo(c, k))
        BY <1>1, <3>2, OneMoreLogin
      <4>2. ~Busy(c)'
        BY <1>4, <3>2 DEF Busy
      <4> QED
        BY <1>5, <2>3, <4>1, <4>2 DEF Answered
    <3> QED
      BY <3>1, <3>2
  <2>5. \A d \in Conns : \E j \in 0..Len(Script[d]) : Consumed(d, j)' /\ Answered(d, j)'
    BY <1>1, <2>1, <2>2, <2>4
  <2> QED
    BY <2>5 DEF InOrder
<1> QED
  BY <1>6, <1>7, <1>8, <1>9, <1>10 DEF IInv

LEMMA ReadStep ==
  ASSUME IInv, NEW c \in Conns, NEW e \in Nat, HandleRead(c, e)
  PROVE  IInv'
<1> DEFINE m == Script[c][Front(c)]
<1>1. CASE ~Complete(e - pos[c], m)
  BY <1>1, Incomplete DEF HandleRead
<1>2. CASE Complete(e - pos[c], m)
  BY <1>2, ReadConsumes, ConsumesInv
<1> QED
  BY <1>1, <1>2

(* A step that leaves the connections alone, and who works for whom.       *)
LEMMA ConnsAlone ==
  ASSUME IInv, UNCHANGED <<received, pos, replies, job>>, TypeOK', sent' \in [Conns -> Nat],
         \A t \in Threads : pc'[t] = "idle" <=> pc[t] = "idle"
  PROVE  Typed' /\ OwnJob' /\ InOrder' /\ RepliesMatch'
<1>1. Typed'
  BY DEF IInv, Typed
<1>2. OwnJob'
  BY DEF IInv, OwnJob
<1>3. RepliesMatch'
  BY DEF IInv, RepliesMatch
<1>4. ASSUME NEW c \in Conns, NEW k, Consumed(c, k) /\ Answered(c, k)
      PROVE  Consumed(c, k)' /\ Answered(c, k)'
  <2>1. LoopOf[c] \in Threads
    BY Scripts
  <2>2. Busy(c)' <=> Busy(c)
    BY <2>1 DEF Busy
  <2> QED
    BY <1>4, <2>2 DEF Consumed, Answered
<1>5. InOrder'
  BY <1>4, OfConn DEF InOrder
<1> QED
  BY <1>1, <1>2, <1>3, <1>5

LEMMA BootStep ==
  ASSUME IInv, PGConnect \/ RedisConnect
  PROVE  IInv'
<1>1. /\ ConnNum \in Nat \ {0}
      /\ UNCHANGED <<sent, received, pos, replies, pick, pc, job, ctx>>
      /\ boot \in {"pg", "redis"} /\ contexts' \in 0..ConnNum
      /\ boot' \in {"redis", "up", "aborted"}
      /\ boot' = "redis" => contexts' > 0
      /\ boot' = "up" => contexts' = contexts /\ boot = "redis"
  BY DataServerAssumption DEF PGConnect, RedisConnect, Checked, connVars, IInv, Typed, TypeOK
<1>2. TypeOK' /\ sent' \in [Conns -> Nat]
  BY <1>1 DEF IInv, Typed, TypeOK
<1>3. Booted'
  <2>1. boot # "up"
    BY <1>1
  <2> QED
    BY <1>1, <2>1 DEF IInv, Booted
<1> QED
  BY <1>1, <1>2, <1>3, ConnsAlone DEF IInv

LEMMA SendStep ==
  ASSUME IInv, NEW c \in Conns, PeerSends(c)
  PROVE  IInv'
<1>1. /\ sent' = [sent EXCEPT ![c] = @ + 1] /\ sent[c] < Len(Script[c]) /\ boot = "up"
      /\ UNCHANGED <<received, pos, replies, boot, contexts, pick, pc, job, ctx>>
  BY DEF PeerSends
<1>2. sent \in [Conns -> Nat]
  BY DEF IInv, Typed
<1>3. /\ sent'[c] = sent[c] + 1 /\ sent' \in [Conns -> Nat]
      /\ \A d \in Conns : d # c => sent'[d] = sent[d]
  BY <1>1, <1>2
<1>4. ASSUME NEW d \in Conns
      PROVE  sent'[d] \in 0..Len(Script[d]) /\ received[d] \in 0..End(d, sent'[d])
  <2>1. /\ sent[d] \in 0..Len(Script[d]) /\ received[d] \in 0..End(d, sent[d])
        /\ Len(Script[d]) \in Nat
    BY OfConn, Scripts
  <2>2. CASE d = c
    <3>1. sent[d] + 1 \in 0..Len(Script[d])
      BY <1>1, <2>1, <2>2
    <3>2. End(d, sent[d]) <= End(d, sent[d] + 1) /\ End(d, sent[d]) \in Nat
          /\ End(d, sent[d] + 1) \in Nat
      BY <2>1, <3>1, Positions
    <3>3. received[d] \in 0..End(d, sent[d] + 1)
      BY <2>1, <3>2
    <3> QED
      BY <1>3, <2>2, <3>1, <3>3
  <2>3. CASE d # c
    BY <1>3, <2>1, <2>3
  <2> QED
    BY <2>2, <2>3
<1>5. TypeOK'
  BY <1>1, <1>4 DEF IInv, Typed, TypeOK
<1>6. Booted'
  BY <1>1 DEF IInv, Booted
<1> QED
  BY <1>1, <1>3, <1>5, <1>6, ConnsAlone DEF IInv

LEMMA PickStep ==
  ASSUME IInv, NEW t \in Threads, ReadPick(t) \/ PickContext(t) \/ Overrun(t)
  PROVE  IInv'
<1>1. /\ UNCHANGED <<sent, received, pos, replies, boot, contexts, job>>
      /\ pc[t] # "idle"
  BY DEF ReadPick, PickContext, Overrun, At, connVars
<1>2. /\ pc \in [Threads -> {"idle", "pick", "picked", "query", "overrun"}] /\ ctx \in [Threads -> Nat]
      /\ pick \in Nat /\ contexts \in Nat
  <2>1. contexts \in 0..ConnNum /\ ConnNum \in Nat
    BY DataServerAssumption DEF IInv, Typed, TypeOK
  <2> QED
    BY <2>1 DEF IInv, Typed, TypeOK
<1>3. contexts > 0
  BY <1>1 DEF IInv, Booted
<1>4. /\ pick' \in Nat /\ ctx' \in [Threads -> Nat]
      /\ pc' \in [Threads -> {"idle", "pick", "picked", "query", "overrun"}]
      /\ pc'[t] # "idle" /\ \A s \in Threads : s # t => pc'[s] = pc[s]
  <2>1. CASE ReadPick(t)
    BY <1>2, <2>1 DEF ReadPick
  <2>2. CASE PickContext(t)
    <3>1. ctx[t] \in Nat /\ ctx[t] % contexts \in Nat /\ contexts # 0
      BY <1>2, <1>3
    <3>2. ctx' = [ctx EXCEPT ![t] = ctx[t] % contexts] /\ pick' = ctx[t] + 1
      BY <2>2, <3>1 DEF PickContext
    <3>3. pc' = [pc EXCEPT ![t] = "query"]
      BY <2>2 DEF PickContext
    <3>4. ctx' \in [Threads -> Nat] /\ pick' \in Nat
      BY <1>2, <3>1, <3>2
    <3> QED
      BY <1>2, <3>3, <3>4
  <2>3. CASE Overrun(t)
    BY <1>2, <2>3 DEF Overrun
  <2> QED
    BY <2>1, <2>2, <2>3
<1>5. TypeOK'
  BY <1>1, <1>4 DEF IInv, Typed, TypeOK
<1>6. Booted'
  BY <1>1 DEF IInv, Booted
<1>7. \A s \in Threads : pc'[s] = "idle" <=> pc[s] = "idle"
  BY <1>1, <1>4
<1>8. sent' \in [Conns -> Nat]
  BY <1>1 DEF IInv, Typed
<1> QED
  BY <1>1, <1>5, <1>6, <1>7, <1>8, ConnsAlone DEF IInv

LEMMA ReplyStep ==
  ASSUME IInv, NEW t \in Threads, Reply(t)
  PROVE  IInv'
<1>1. /\ pc[t] = "query" /\ pc' = [pc EXCEPT ![t] = "idle"] /\ job' = [job EXCEPT ![t] = <<>>]
      /\ ctx' = [ctx EXCEPT ![t] = 0]
      /\ UNCHANGED <<sent, received, pos, boot, contexts, pick>>
  BY DEF Reply, At
<1>2. PICK c \in Conns, m \in Messages : c = job[t][1] /\ m = job[t][2] /\ LoopOf[c] = t
  BY <1>1 DEF IInv, OwnJob
<1>3. PICK uid \in {m.user, NoUser} : replies' = [replies EXCEPT ![c] = Append(@, Answer(m, uid))]
  BY <1>2 DEF Reply, SelectUser
<1> DEFINE a == Answer(m, uid)
<1>4. a \in Answers
  <2>1. m.user \in Users /\ NoUser \in Users
    BY DEF Users
  <2> QED
    BY <2>1 DEF Answers
<1>5. /\ replies \in [Conns -> Seq(Answers)]
      /\ pc \in [Threads -> {"idle", "pick", "picked", "query", "overrun"}]
      /\ job \in [Threads -> {<<>>} \cup (Conns \X Messages)]
      /\ ctx \in [Threads -> Nat]
  BY DEF IInv, Typed, TypeOK
<1>6. /\ replies' \in [Conns -> Seq(Answers)]
      /\ replies'[c] = Append(replies[c], a)
      /\ \A d \in Conns : d # c => replies'[d] = replies[d]
  <2> HIDE DEF a
  <2>1. replies[c] \in Seq(Answers)
    BY <1>2, <1>5
  <2>2. Append(replies[c], a) \in Seq(Answers)
    BY <1>4, <2>1
  <2>3. replies' = [replies EXCEPT ![c] = Append(replies[c], a)]
    BY <1>3 DEF a
  <2> QED
    BY <1>2, <1>5, <2>2, <2>3
<1>7. /\ pc'[t] = "idle" /\ \A s \in Threads : s # t => pc'[s] = pc[s] /\ job'[s] = job[s]
      /\ pc' \in [Threads -> {"idle", "pick", "picked", "query", "overrun"}]
      /\ ctx' \in [Threads -> Nat]
  BY <1>1, <1>5
<1>8. job' \in [Threads -> {<<>>} \cup (Conns \X Messages)]
  BY <1>1, <1>5, Zenon
<1>9. PICK k \in 0..Len(Script[c]) : Consumed(c, k) /\ Answered(c, k)
  BY <1>2, OfConn
<1>10. /\ Len(replies[c]) + 1 = Cardinality(LoginsUpTo(c, k))
       /\ k \in DOMAIN Script[c] /\ Script[c][k].tag = "l" /\ m = Script[c][k]
  <2>1. Busy(c)
    BY <1>1, <1>2 DEF Busy
  <2> QED
    BY <1>2, <1>9, <2>1 DEF Answered
<1>11. /\ replies[c] \in Seq(Answers) /\ Len(replies[c]) \in Nat
       /\ Len(replies'[c]) = Len(replies[c]) + 1
       /\ DOMAIN replies'[c] = 1..(Len(replies[c]) + 1)
       /\ DOMAIN replies[c] = 1..Len(replies[c])
       /\ replies'[c][Len(replies[c]) + 1] = a
       /\ \A i \in DOMAIN replies[c] : replies'[c][i] = replies[c][i]
  <2> HIDE DEF a
  <2> QED
    BY <1>2, <1>4, <1>5, <1>6
<1>12. RepliesMatch'
  <2> SUFFICES ASSUME NEW d \in Conns, NEW i \in DOMAIN replies'[d]
               PROVE  \E j \in DOMAIN Script[d] :
                         /\ Script[d][j].tag = "l" /\ Cardinality(LoginsUpTo(d, j)) = i
                         /\ replies'[d][i].id = Script[d][j].id
                         /\ replies'[d][i].tag = "s" => /\ replies'[d][i].uid = Script[d][j].user
                                                        /\ replies'[d][i].uid # NoUser
    BY DEF RepliesMatch
  <2>1. CASE i \in DOMAIN replies[d] /\ replies'[d][i] = replies[d][i]
    BY <2>1 DEF IInv, RepliesMatch
  <2>2. CASE d = c /\ i = Len(replies[c]) + 1
    <3>1. a.id = m.id /\ (a.tag = "s" => a.uid = m.user /\ a.uid # NoUser)
      BY <1>3 DEF Answer
    <3>2. replies'[d][i] = a
      BY <1>11, <2>2
    <3> HIDE DEF a
    <3> QED
      BY <1>10, <2>2, <3>1, <3>2
  <2> QED
    BY <1>6, <1>11, <2>1, <2>2
<1>13. InOrder'
  <2>1. ASSUME NEW d \in Conns, d # c
        PROVE  \E j \in 0..Len(Script[d]) : Consumed(d, j)' /\ Answered(d, j)'
    <3>1. PICK j \in 0..Len(Script[d]) : Consumed(d, j) /\ Answered(d, j)
      BY OfConn
    <3>2. Consumed(d, j)'
      BY <1>1, <3>1 DEF Consumed
    <3>3. LoopOf[d] \in Threads /\ replies'[d] = replies[d]
      BY <1>6, <2>1, Scripts
    <3>4. Busy(d)' <=> Busy(d)
      BY <1>1, <1>2, <1>7, <2>1, <3>3 DEF Busy
    <3>5. Busy(d) => job'[LoopOf[d]] = job[LoopOf[d]]
      BY <1>2, <1>7, <2>1, <3>3 DEF Busy
    <3> QED
      BY <3>1, <3>2, <3>3, <3>4, <3>5 DEF Answered
  <2>2. Consumed(c, k)'
    BY <1>1, <1>9 DEF Consumed
  <2>3. ~Busy(c)'
    BY <1>2, <1>7 DEF Busy
  <2>4. Answered(c, k)'
    BY <1>10, <1>11, <2>3 DEF Answered
  <2>5. \A d \in Conns : \E j \in 0..Len(Script[d]) : Consumed(d, j)' /\ Answered(d, j)'
    BY <2>1, <2>2, <2>4
  <2> QED
    BY <2>5 DEF InOrder
<1>14. Typed'
  <2>1. \A d \in Conns : \A i \in DOMAIN replies'[d] : replies'[d][i].tag \in {"s", "x"}
    <3>1. \A b \in Answers : b.tag \in {"s", "x"}
      BY DEF Answers, Answer
    <3>2. ASSUME NEW d \in Conns, NEW i \in DOMAIN replies'[d] PROVE replies'[d][i] \in Answers
      BY <1>6
    <3> QED
      BY <3>1, <3>2
  <2>2. TypeOK'
    BY <1>1, <1>7, <2>1 DEF IInv, Typed, TypeOK
  <2> QED
    BY <1>1, <1>6, <1>8, <2>2 DEF IInv, Typed
<1>15. OwnJob'
  BY <1>7 DEF IInv, OwnJob
<1>16. Booted'
  BY <1>1, <1>7 DEF IInv, Booted
<1> QED
  BY <1>12, <1>13, <1>14, <1>15, <1>16 DEF IInv

-----------------------------------------------------------------------------
LEMMA InitInv == Init => IInv
<1> SUFFICES ASSUME Init PROVE IInv
  OBVIOUS
<1>1. /\ sent = [c \in Conns |-> 0] /\ received = [c \in Conns |-> 0] /\ pos = [c \in Conns |-> 0]
      /\ replies = [c \in Conns |-> <<>>] /\ boot = "pg" /\ contexts = 0 /\ pick = 0
      /\ pc = [t \in Threads |-> "idle"] /\ job = [t \in Threads |-> <<>>]
      /\ ctx = [t \in Threads |-> 0]
  BY DEF Init
<1>2. ASSUME NEW c \in Conns
      PROVE  /\ sent[c] = 0 /\ received[c] = 0 /\ pos[c] = 0 /\ replies[c] = <<>>
             /\ End(c, 0) = 0 /\ 0 \in 0..Len(Script[c])
             /\ ~Busy(c) /\ Cardinality(LoginsUpTo(c, 0)) = 0
  BY <1>1, Scripts, Positions, NoLogins DEF Busy
<1>3. Typed
  <2>1. ConnNum \in Nat
    BY DataServerAssumption
  <2>2. TypeOK
    <3>1. \A c \in Conns : /\ sent[c] \in 0..Len(Script[c])
                           /\ received[c] \in 0..End(c, sent[c])
                           /\ pos[c] \in 0..received[c]
      BY <1>2
    <3>2. \A c \in Conns : \A i \in DOMAIN replies[c] : replies[c][i].tag \in {"s", "x"}
      BY <1>2
    <3> QED
      BY <1>1, <2>1, <3>1, <3>2 DEF TypeOK
  <2>3. replies \in [Conns -> Seq(Answers)]
    BY <1>1
  <2>4. job \in [Threads -> {<<>>} \cup (Conns \X Messages)]
    BY <1>1, Zenon
  <2>5. sent \in [Conns -> Nat] /\ received \in [Conns -> Nat] /\ pos \in [Conns -> Nat]
    BY <1>1
  <2> QED
    BY <2>2, <2>3, <2>4, <2>5 DEF Typed
<1>4. Booted /\ OwnJob
  BY <1>1 DEF Booted, OwnJob
<1>5. InOrder
  <2>1. \A c \in Conns : Consumed(c, 0) /\ Answered(c, 0)
    BY <1>2 DEF Consumed, Answered
  <2> QED
    BY <1>2, <2>1 DEF InOrder
<1>6. RepliesMatch
  BY <1>2 DEF RepliesMatch
<1> QED
  BY <1>3, <1>4, <1>5, <1>6 DEF IInv

LEMMA NextStep == IInv /\ [Next]_vars => IInv'
<1> SUFFICES ASSUME IInv, [Next]_vars PROVE IInv'
  OBVIOUS
<1>1. CASE PGConnect \/ RedisConnect
  BY <1>1, BootStep
<1>2. CASE \E c \in Conns : PeerSends(c)
  BY <1>2, SendStep
<1>3. CASE \E c \in Conns : Arrival(c)
  BY <1>3, PieceIsNat, ReadStep DEF Arrival
<1>4. CASE \E t \in Threads : Query(t)
  BY <1>4, PickStep, ReplyStep DEF Query
<1>5. CASE UNCHANGED vars
  <2>1. UNCHANGED <<sent, received, pos, replies, boot, contexts, pick, pc, job, ctx>>
    BY <1>5 DEF vars, connVars
  <2>2. TypeOK' /\ Booted' /\ sent' \in [Conns -> Nat]
    BY <2>1 DEF IInv, Typed, TypeOK, Booted
  <2> QED
    BY <2>1, <2>2, ConnsAlone DEF IInv
<1> QED
  BY <1>1, <1>2, <1>3, <1>4, <1>5 DEF Next

LEMMA Invariance == Spec => []IInv
BY InitInv, NextStep, PTL DEF Spec

(* The state has the types TypeOK gives it: bytes are consumed only once   *)
(* they have arrived and arrive only once they have been sent, and no      *)
(* query uses a connection to the database that PGManager does not have.   *)
THEOREM TypeCorrect == Spec => []TypeOK
<1>1. IInv => TypeOK
  BY DEF IInv, Typed
<1> QED
  BY <1>1, Invariance, PTL

(* However the stream is cut into pieces, whatever unknown messages it     *)
(* holds and however the queries of several threads interleave, the i-th   *)
(* answer on a connection of DataServer belongs to its i-th login.         *)
THEOREM AnswersBelongToLogins == Spec => []RepliesMatch
<1>1. IInv => RepliesMatch
  BY DEF IInv
<1> QED
  BY <1>1, Invariance, PTL

(* DataServer's message_cb loses the message boundaries only behind an     *)
(* unknown tag: fragments and coalesced logins cannot make it.             *)
THEOREM BoundariesKept == Spec => []OutOfStepOnlyAfterUnknown
<1>1. IInv => OutOfStepOnlyAfterUnknown
  <2> SUFFICES ASSUME IInv, NEW c \in Conns, ~InStep(c)
               PROVE  \E k \in DOMAIN Script[c] :
                         Script[c][k].tag = "other" /\ End(c, k) < pos[c]
    BY DEF OutOfStepOnlyAfterUnknown
  <2>1. PICK k \in 0..Len(Script[c]) : Consumed(c, k)
    BY OfConn
  <2>2. k \in DOMAIN Script[c] /\ Script[c][k].tag = "other" /\ pos[c] - End(c, k) \in 1..4
    BY <2>1 DEF Consumed, InStep
  <2>3. End(c, k) \in Nat /\ pos[c] \in Nat
    BY OfConn, Positions
  <2> QED
    BY <2>2, <2>3
<1> QED
  BY <1>1, Invariance, PTL
=============================================================================
