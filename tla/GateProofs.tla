----------------------------- MODULE GateProofs -----------------------------
(***************************************************************************)
(* Theorems about Gate, for any clients, any host and any messages in any  *)
(* pieces: who is authorised, what is forwarded, and where the message     *)
(* boundaries are lost.                                                    *)
(***************************************************************************)
EXTENDS Gate, FramingProofs, SequenceTheorems

Forwards == [id : Clients, msg : Nat, len : Nat, value : Nat]

-----------------------------------------------------------------------------
(* The inductive invariant.                                                *)
Typed == /\ TypeOK
         /\ received \in [Streams -> Nat] /\ pos \in [Streams -> Nat]
         /\ forwards \in Seq(Forwards)

(* Only a connection that has had its Start functor has sent something, so *)
(* that Start takes the authorisation from none that has.                  *)
StartedFirst ==
    \A i \in DOMAIN forwards : stage[forwards[i].id] \in {"started", "closed"}

(* What has been forwarded has been consumed.                              *)
Behind ==
    \A i \in DOMAIN forwards :
       /\ forwards[i].msg \in DOMAIN Script[forwards[i].id]
       /\ End(forwards[i].id, forwards[i].msg) <= pos[forwards[i].id]

(* Position p of s is behind a message, or lost in one of the known ways.  *)
Known(s, p) ==
    \/ \E k \in 0..Len(Script[s]) : p = End(s, k)
    \/ \E k \in DOMAIN Script[s] :
          \/ Script[s][k].tag = "x" /\ p = End(s, k - 1) + 1
          \/ Script[s][k].tag = "l" /\ p - End(s, k) \in 1..4
          \/ Script[s][k].tag = "other" /\ p > End(s, k)

IInv == /\ Typed /\ StartedFirst /\ Behind
        /\ \A s \in Streams : Known(s, pos[s])
        /\ AuthorizedIsRight /\ ForwardsMatch

-----------------------------------------------------------------------------
(* The scripts and the positions in the streams.                           *)
LEMMA Scripts ==
  ASSUME NEW s \in Streams
  PROVE  /\ Len(Script[s]) \in Nat /\ DOMAIN Script[s] = 1..Len(Script[s])
         /\ \A k \in 1..Len(Script[s]) : Message(s, Script[s][k])
<1>1. Script[s] \in Seq({Script[s][i] : i \in DOMAIN Script[s]})
  BY GateAssumption
<1>2. Len(Script[s]) \in Nat /\ DOMAIN Script[s] = 1..Len(Script[s])
  BY <1>1
<1>3. \A k \in DOMAIN Script[s] : Message(s, Script[s][k])
  BY GateAssumption
<1> QED
  BY <1>2, <1>3

LEMMA Messages ==
  ASSUME NEW s, NEW m, Message(s, m)
  PROVE  /\ LenField(m) \in 4..(2^16 - 2)
         /\ s = Db => m.tag \in {"s", "x"}
         /\ s # Db => m.tag \in {"l", "other"}
         /\ m.tag = "s" => LenField(m) = 20 /\ m.user \in Int
         /\ m.tag = "x" => LenField(m) = 12
<1> DEFINE v == m.var
           u == m.user
           g == m.tag
<1>1. /\ v \in 0..(2^15 - 1) /\ g \in IF s = Db THEN {"s", "x"} ELSE {"l", "other"}
      /\ g = "s" => v = 16 /\ u \in Int
      /\ g = "x" => v = 8
  BY DEF Message
<1>2. LenField(m) = 4 + v
  BY DEF LenField
<1> HIDE DEF v, u, g
<1>3. /\ LenField(m) \in 4..(2^16 - 2)
      /\ s = Db => g \in {"s", "x"}
      /\ s # Db => g \in {"l", "other"}
      /\ g = "s" => LenField(m) = 20 /\ u \in Int
      /\ g = "x" => LenField(m) = 12
  BY <1>1, <1>2
<1> QED
  BY <1>3 DEF v, u, g

LEMMA Streaming ==
  ASSUME NEW s \in Streams
  PROVE  /\ Stream(Sizes(s), Len(Script[s])) /\ DOMAIN Sizes(s) = 1..Len(Script[s])
         /\ \A k \in 1..Len(Script[s]) : /\ Sizes(s)[k] = 1 + LenField(Script[s][k])
                                         /\ Sizes(s)[k] >= 5
         /\ \A k : End(s, k) = EndsOf(Sizes(s))[k]
<1> DEFINE n == Len(Script[s])
<1>1. n \in Nat /\ DOMAIN Script[s] = 1..n
  BY Scripts
<1>2. \A k \in 1..n : LenField(Script[s][k]) \in 4..(2^16 - 2)
  BY Scripts, Messages
<1>3. Sizes(s) = [k \in 1..n |-> 1 + LenField(Script[s][k])]
  BY <1>1 DEF Sizes
<1>4. DOMAIN Sizes(s) = 1..n /\ \A k \in 1..n : Sizes(s)[k] = 1 + LenField(Script[s][k])
  BY <1>3
<1>5. ASSUME NEW k \in 1..n PROVE Sizes(s)[k] \in 5..(2^16 - 1)
  <2> DEFINE w == LenField(Script[s][k])
  <2>1. w \in 4..(2^16 - 2) /\ Sizes(s)[k] = 1 + w
    BY <1>2, <1>4
  <2> HIDE DEF w
  <2> QED
    BY <2>1
<1>6. Len(Sizes(s)) = n
  <2>1. Sizes(s) = [k \in 1..n |-> Sizes(s)[k]]
    BY <1>3
  <2> QED
    BY <1>1, <2>1, LenOf
<1>7. ASSUME NEW k \in 1..n PROVE Sizes(s)[k] \in Nat \ {0} /\ Sizes(s)[k] >= 5
  <2> DEFINE z == Sizes(s)[k]
  <2>1. z \in 5..(2^16 - 1)
    BY <1>5
  <2> HIDE DEF z
  <2>2. z \in Nat \ {0} /\ z >= 5
    BY <2>1
  <2> QED
    BY <2>2 DEF z
<1>8. \A k : End(s, k) = EndsOf(Sizes(s))[k]
  BY DEF End, Ends
<1> QED
  BY <1>1, <1>4, <1>6, <1>7, <1>8 DEF Stream

LEMMA Positions ==
  ASSUME NEW s \in Streams
  PROVE  /\ End(s, 0) = 0
         /\ \A k \in 0..Len(Script[s]) : End(s, k) \in Nat
         /\ \A k \in 1..Len(Script[s]) : End(s, k) = End(s, k - 1) + 1 + LenField(Script[s][k])
         /\ \A j, k \in 0..Len(Script[s]) : j <= k => End(s, j) <= End(s, k)
         /\ \A j, k \in 0..Len(Script[s]) : End(s, j) = End(s, k) => j = k
<1> DEFINE n == Len(Script[s])
           z == Sizes(s)
<1>1. /\ n \in Nat /\ Stream(z, n) /\ \A k : End(s, k) = EndsOf(z)[k]
      /\ \A k \in 1..n : /\ z[k] = 1 + LenField(Script[s][k]) /\ z[k] >= 5
                         /\ LenField(Script[s][k]) \in 4..(2^16 - 2)
  BY Scripts, Messages, Streaming
<1> HIDE DEF z, n
<1>2. Apart(EndsOf(z), z, n)
  BY <1>1, EndsApart
<1>3. \A j, k \in 0..n : End(s, j) = End(s, k) => j = k
  BY <1>1, <1>2 DEF Apart
<1>4. \A j, k \in 0..n : j <= k => End(s, j) <= End(s, k)
  BY <1>1, <1>2 DEF Apart
<1>5. End(s, 0) = 0 /\ \A k \in 0..n : End(s, k) \in Nat
  BY <1>1, <1>2 DEF Apart
<1>6. ASSUME NEW k \in 1..n PROVE End(s, k) = End(s, k - 1) + 1 + LenField(Script[s][k])
  <2>1. End(s, k) = End(s, k - 1) + z[k] /\ z[k] = 1 + LenField(Script[s][k])
    BY <1>1, <1>2 DEF Apart
  <2>2. End(s, k - 1) \in Nat /\ LenField(Script[s][k]) \in 4..(2^16 - 2)
    BY <1>1, <1>5
  <2> QED
    BY <2>1, <2>2
<1> QED
  BY <1>3, <1>4, <1>5, <1>6 DEF n

LEMMA PieceFits ==
  ASSUME NEW s \in Streams, NEW e \in PieceEnds[s]
  PROVE  e \in Nat /\ e <= End(s, Len(Script[s]))
<1>1. e \in PiecesOf(Sizes(s), Cuts)
  BY DEF PieceEnds
<1>2. e \in Nat /\ e <= EndsOf(Sizes(s))[Len(Script[s])]
  BY <1>1, Streaming, PiecesFit
<1> QED
  BY <1>2, Streaming

(* Of a stream in step, something of the next message has arrived.         *)
LEMMA AtFront ==
  ASSUME NEW s \in Streams, InStep(s), pos[s] \in Nat, received[s] \in Nat, pos[s] <= received[s],
         NEW e \in PieceEnds[s], e > received[s]
  PROVE  /\ Front(s) \in 1..Len(Script[s]) /\ Front(s) - 1 \in 0..Len(Script[s])
         /\ pos[s] = End(s, Front(s) - 1)
<1> DEFINE n == Len(Script[s])
<1>1. n \in Nat /\ DOMAIN Script[s] = 1..n /\ \A k \in 0..n : End(s, k) \in Nat
  BY Scripts, Positions
<1>2. PICK k \in 0..n : pos[s] = End(s, k)
  BY DEF InStep
<1>3. e \in Nat /\ e <= End(s, n)
  BY PieceFits
<1>4. k # n
  BY <1>2, <1>3
<1>5. k + 1 \in DOMAIN Script[s] /\ pos[s] = End(s, (k + 1) - 1)
  BY <1>1, <1>2, <1>4
<1>6. \E j \in DOMAIN Script[s] : pos[s] = End(s, j - 1)
  BY <1>5
<1>7. Front(s) \in DOMAIN Script[s] /\ pos[s] = End(s, Front(s) - 1)
  BY <1>6, Zenon DEF Front
<1> DEFINE f == Front(s)
<1>8. f \in 1..n /\ pos[s] = End(s, f - 1)
  BY <1>1, <1>7
<1> HIDE DEF f
<1>9. f - 1 \in 0..n
  BY <1>1, <1>8
<1> QED
  BY <1>8, <1>9 DEF f

(* A message that the length test lets pass is there as a whole.           *)
LEMMA CompleteIs ==
  ASSUME host \in Hosts, NEW m, LenField(m) \in 4..(2^16 - 2),
         NEW least \in Nat, NEW length \in Int, Complete(least, length, m)
  PROVE  /\ length \in Nat /\ length >= least /\ LenField(m) + 1 <= length
         /\ ~host.big => SwapBytes(LenField(m)) < length
<1> DEFINE z == LenField(m)
           b == host.big
           p == PeekTagLen(b, z)
<1>1. b \in BOOLEAN
  BY GateAssumption
<1>2. z \in 4..(2^16 - 2) /\ length >= least /\ p <= length - 1
  BY DEF Complete
<1>3. p \in Nat /\ p >= z /\ (~b => p = SwapBytes(z))
  <2> HIDE DEF z, b
  <2>1. z \in 0..(2^16 - 1)
    BY <1>2
  <2>2. p \in Nat /\ p >= z
    BY <1>1, <2>1, NeverShorter
  <2> QED
    BY <2>2 DEF PeekTagLen
<1> HIDE DEF z, b, p
<1>4. /\ length \in Nat /\ length >= least /\ z + 1 <= length
      /\ ~b => SwapBytes(z) < length
  BY <1>2, <1>3
<1> QED
  BY <1>4 DEF z, b

-----------------------------------------------------------------------------
(* What the invariant says of a stream and of a forwarded login.           *)
LEMMA OfStream ==
  ASSUME IInv, NEW s \in Streams
  PROVE  /\ received[s] \in Nat /\ pos[s] \in Nat /\ pos[s] <= received[s]
         /\ received[s] <= End(s, Len(Script[s])) /\ End(s, Len(Script[s])) \in Nat
         /\ Known(s, pos[s])
<1>1. received[s] \in 0..End(s, Len(Script[s])) /\ pos[s] \in 0..received[s]
  BY DEF IInv, Typed, TypeOK
<1>2. End(s, Len(Script[s])) \in Nat
  <2>1. Len(Script[s]) \in 0..Len(Script[s])
    BY Scripts
  <2> QED
    BY <2>1, Positions
<1>3. Known(s, pos[s])
  BY DEF IInv
<1> QED
  BY <1>1, <1>2, <1>3

LEMMA OfForward ==
  ASSUME IInv, NEW i \in DOMAIN forwards
  PROVE  /\ forwards[i].id \in Clients /\ forwards[i].id \in Streams
         /\ forwards[i].msg \in 1..Len(Script[forwards[i].id])
         /\ End(forwards[i].id, forwards[i].msg) \in Nat
         /\ End(forwards[i].id, forwards[i].msg) <= pos[forwards[i].id]
         /\ stage[forwards[i].id] \in {"started", "closed"}
<1>1. forwards[i].id \in Clients
  BY DEF IInv, Typed, TypeOK
<1>2. forwards[i].id \in Streams
  BY <1>1 DEF Clients
<1>3. forwards[i].msg \in 1..Len(Script[forwards[i].id])
  BY <1>2, Scripts DEF IInv, Behind
<1>4. End(forwards[i].id, forwards[i].msg) \in Nat
  <2>1. forwards[i].msg \in 0..Len(Script[forwards[i].id])
    BY <1>3
  <2> QED
    BY <1>2, <2>1, Positions
<1>5. /\ End(forwards[i].id, forwards[i].msg) <= pos[forwards[i].id]
      /\ stage[forwards[i].id] \in {"started", "closed"}
  BY DEF IInv, Behind, StartedFirst
<1> QED
  BY <1>1, <1>2, <1>3, <1>4, <1>5

(* A step that leaves the streams and the forwarded logins alone.          *)
LEMMA QuietStep ==
  ASSUME IInv, TypeOK', UNCHANGED <<host, received, pos, user, forwards>>,
         \A c \in Clients : /\ authorized'[c] => authorized[c]
                            /\ stage[c] \in {"started", "closed"} =>
                                  /\ stage'[c] \in {"started", "closed"}
                                  /\ authorized[c] => authorized'[c]
  PROVE  IInv'
<1>1. Typed'
  BY DEF IInv, Typed
<1>2. StartedFirst' /\ Behind'
  BY OfForward DEF IInv, StartedFirst, Behind
<1>3. \A s \in Streams : Known(s, pos[s])'
  BY OfStream DEF Known
<1>4. AuthorizedIsRight'
  BY DEF IInv, AuthorizedIsRight
<1>5. ForwardsMatch'
  <2>1. \A i \in DOMAIN forwards : authorized[forwards[i].id] => authorized'[forwards[i].id]
    BY OfForward
  <2> QED
    BY <2>1 DEF IInv, ForwardsMatch
<1> QED
  BY <1>1, <1>2, <1>3, <1>4, <1>5 DEF IInv

(* The stream s goes on: a piece up to e arrives, pos moves to p.          *)
Moves(s, e, p) ==
    /\ e \in Nat /\ e > received[s] /\ e <= End(s, Len(Script[s]))
    /\ p \in Nat /\ pos[s] <= p /\ p <= e /\ Known(s, p)
    /\ received' = [received EXCEPT ![s] = e]
    /\ pos' = [pos EXCEPT ![s] = p]
    /\ UNCHANGED <<host, stage>>

LEMMA Moved ==
  ASSUME IInv, NEW s \in Streams, NEW e, NEW p, Moves(s, e, p)
  PROVE  /\ received' \in [Streams -> Nat] /\ pos' \in [Streams -> Nat]
         /\ received'[s] = e /\ pos'[s] = p
         /\ \A r \in Streams : /\ received'[r] \in 0..End(r, Len(Script[r]))
                               /\ pos'[r] \in 0..received'[r]
                               /\ received'[r] >= received[r] /\ pos'[r] >= pos[r]
                               /\ Known(r, pos'[r])
<1>1. received \in [Streams -> Nat] /\ pos \in [Streams -> Nat]
  BY DEF IInv, Typed
<1>2. /\ e \in Nat /\ e > received[s] /\ e <= End(s, Len(Script[s]))
      /\ p \in Nat /\ pos[s] <= p /\ p <= e /\ Known(s, p)
  BY DEF Moves
<1>3. /\ received' \in [Streams -> Nat] /\ pos' \in [Streams -> Nat]
      /\ received'[s] = e /\ pos'[s] = p
      /\ \A r \in Streams : r # s => received'[r] = received[r] /\ pos'[r] = pos[r]
  BY <1>1, <1>2 DEF Moves
<1>4. ASSUME NEW r \in Streams
      PROVE  /\ received'[r] \in 0..End(r, Len(Script[r])) /\ pos'[r] \in 0..received'[r]
             /\ received'[r] >= received[r] /\ pos'[r] >= pos[r]
             /\ Known(r, pos'[r])
  <2>1. /\ received[r] \in Nat /\ pos[r] \in Nat /\ pos[r] <= received[r]
        /\ received[r] <= End(r, Len(Script[r])) /\ End(r, Len(Script[r])) \in Nat
        /\ Known(r, pos[r])
    BY OfStream
  <2>2. CASE r = s
    BY <1>2, <1>3, <2>1, <2>2
  <2>3. CASE r # s
    BY <1>3, <2>1, <2>3
  <2> QED
    BY <2>2, <2>3
<1> QED
  BY <1>3, <1>4

LEMMA OldForwardsMatch ==
  ASSUME IInv, NEW s \in Streams, NEW e, NEW p, Moves(s, e, p), UNCHANGED forwards,
         \A c \in Clients : authorized[c] => authorized'[c]
  PROVE  StartedFirst' /\ Behind' /\ ForwardsMatch'
<1>1. \A r \in Streams : /\ received'[r] >= received[r] /\ pos'[r] >= pos[r]
                         /\ received'[r] \in Nat /\ pos'[r] \in Nat
                         /\ received[r] \in Nat /\ pos[r] \in Nat
  BY Moved, OfStream
<1>2. StartedFirst'
  BY DEF IInv, StartedFirst, Moves
<1>3. Behind'
  <2>1. ASSUME NEW i \in DOMAIN forwards
        PROVE  End(forwards[i].id, forwards[i].msg) <= pos'[forwards[i].id]
    BY <1>1, OfForward
  <2> QED
    BY <2>1 DEF IInv, Behind
<1>4. ForwardsMatch'
  <2> SUFFICES ASSUME NEW i \in DOMAIN forwards
               PROVE  LET f == forwards[i]
                          m == Script[f.id][f.msg]
                          extra == 4 + 8 + f.value - f.len
                      IN  /\ m.tag = "l" /\ authorized'[f.id]
                          /\ extra \in 0..4
                          /\ extra > 0 => End(f.id, f.msg) + extra <= received'[f.id]
                          /\ \A j \in 1..(i - 1) : forwards[j].id = f.id => forwards[j].msg < f.msg
    BY DEF ForwardsMatch
  <2> DEFINE f == forwards[i]
             extra == 4 + 8 + f.value - f.len
  <2>1. /\ Script[f.id][f.msg].tag = "l" /\ authorized[f.id] /\ extra \in 0..4
        /\ extra > 0 => End(f.id, f.msg) + extra <= received[f.id]
        /\ \A j \in 1..(i - 1) : forwards[j].id = f.id => forwards[j].msg < f.msg
    BY DEF IInv, ForwardsMatch
  <2>2. f.id \in Clients /\ f.id \in Streams /\ End(f.id, f.msg) \in Nat
    BY OfForward
  <2>3. authorized'[f.id]
    BY <2>1, <2>2
  <2>4. extra > 0 => End(f.id, f.msg) + extra <= received'[f.id]
    <3> DEFINE x == extra
               z == End(f.id, f.msg)
               g == f.id
    <3>1. x \in 0..4 /\ z \in Nat /\ received[g] \in Nat /\ received'[g] \in Nat
          /\ received'[g] >= received[g] /\ (x > 0 => z + x <= received[g])
      BY <1>1, <2>1, <2>2
    <3> HIDE DEF x, z, g
    <3>2. x > 0 => z + x <= received'[g]
      BY <3>1
    <3> QED
      BY <3>2 DEF x, z, g
  <2> QED
    BY <2>1, <2>3, <2>4
<1> QED
  BY <1>2, <1>3, <1>4

LEMMA StillAuthorized ==
  ASSUME IInv, NEW s \in Streams, NEW e, NEW p, Moves(s, e, p), UNCHANGED <<authorized, user>>
  PROVE  AuthorizedIsRight'
<1>1. Db \in Streams
  BY GateAssumption
<1>2. received'[Db] >= received[Db] /\ received'[Db] \in Nat /\ received[Db] \in Nat
  BY <1>1, Moved, OfStream
<1> DEFINE z == SwapBytes(20)
<1>3. z \in Nat
  BY DEF SwapBytes
<1> SUFFICES ASSUME NEW c \in Clients, authorized[c]
             PROVE  /\ host.big \/ received'[Db] > z
                    /\ host.wide
                    /\ \E k \in DOMAIN Script[Db] :
                          /\ Script[Db][k].tag = "s" /\ Script[Db][k].id = c
                          /\ Script[Db][k].user = user[c]
                          /\ End(Db, k) <= received'[Db]
  BY DEF AuthorizedIsRight, Moves
<1> HIDE DEF z
<1>4. host.big \/ received[Db] > z
  BY DEF IInv, AuthorizedIsRight, z
<1>5. host.wide
  BY DEF IInv, AuthorizedIsRight
<1>6. PICK k \in DOMAIN Script[Db] : /\ Script[Db][k].tag = "s" /\ Script[Db][k].id = c
                                     /\ Script[Db][k].user = user[c]
                                     /\ End(Db, k) <= received[Db]
  BY DEF IInv, AuthorizedIsRight
<1>7. End(Db, k) \in Nat
  <2>1. k \in 0..Len(Script[Db])
    BY <1>1, Scripts
  <2> QED
    BY <1>1, <2>1, Positions
<1>8. End(Db, k) <= received'[Db]
  BY <1>2, <1>6, <1>7
<1>9. host.big \/ received'[Db] > z
  BY <1>2, <1>3, <1>4
<1> QED
  BY <1>5, <1>6, <1>8, <1>9

-----------------------------------------------------------------------------
(* The callbacks.  Message k of s is at the front and is there as a whole. *)
Whole(s, e, k) ==
    /\ k \in 1..Len(Script[s]) /\ k \in DOMAIN Script[s] /\ pos[s] = End(s, k - 1)
    /\ End(s, k - 1) \in Nat /\ End(s, k) \in Nat
    /\ End(s, k) = End(s, k - 1) + 1 + LenField(Script[s][k])
    /\ LenField(Script[s][k]) \in 4..(2^16 - 2) /\ Message(s, Script[s][k])
    /\ e \in Nat /\ e > received[s] /\ e <= End(s, Len(Script[s]))
    /\ End(s, k) <= e

LEMMA Arrived ==
  ASSUME IInv, NEW s \in Streams, NEW e \in PieceEnds[s], e > received[s], InStep(s),
         NEW least \in Nat
  PROVE  /\ Moves(s, e, pos[s]) <=> /\ received' = [received EXCEPT ![s] = e]
                                    /\ UNCHANGED <<pos, host, stage>>
         /\ Complete(least, e - pos[s], Script[s][Front(s)]) =>
               /\ Whole(s, e, Front(s)) /\ e - pos[s] \in Nat /\ e - pos[s] >= least
               /\ ~host.big => SwapBytes(LenField(Script[s][Front(s)])) < e - pos[s]
<1> DEFINE k == Front(s)
           m == Script[s][k]
<1>1. /\ received[s] \in Nat /\ pos[s] \in Nat /\ pos[s] <= received[s] /\ Known(s, pos[s])
      /\ pos \in [Streams -> Nat] /\ host \in Hosts
  BY OfStream DEF IInv, Typed, TypeOK
<1>2. e \in Nat /\ e <= End(s, Len(Script[s]))
  BY PieceFits
<1>3. k \in 1..Len(Script[s]) /\ k - 1 \in 0..Len(Script[s]) /\ pos[s] = End(s, k - 1)
  BY <1>1, AtFront
<1>4. k \in 0..Len(Script[s]) /\ k \in DOMAIN Script[s] /\ Message(s, m)
  BY <1>3, Scripts
<1>5. LenField(m) \in 4..(2^16 - 2)
  BY <1>4, Messages
<1>6. /\ End(s, k - 1) \in Nat /\ End(s, k) \in Nat
      /\ End(s, k) = End(s, k - 1) + 1 + LenField(m)
  BY <1>3, <1>4, Positions
<1>7. Moves(s, e, pos[s]) <=> /\ received' = [received EXCEPT ![s] = e]
                              /\ UNCHANGED <<pos, host, stage>>
  <2>1. [pos EXCEPT ![s] = pos[s]] = pos
    BY <1>1
  <2>2. e > received[s] /\ pos[s] <= e
    BY <1>1, <1>2
  <2> QED
    BY <1>1, <1>2, <2>1, <2>2 DEF Moves
<1>8. ASSUME Complete(least, e - pos[s], m)
      PROVE  /\ Whole(s, e, k) /\ e - pos[s] \in Nat /\ e - pos[s] >= least
             /\ ~host.big => SwapBytes(LenField(m)) < e - pos[s]
  <2>1. e - pos[s] \in Int
    BY <1>1, <1>2
  <2>2. /\ e - pos[s] \in Nat /\ e - pos[s] >= least /\ LenField(m) + 1 <= e - pos[s]
        /\ ~host.big => SwapBytes(LenField(m)) < e - pos[s]
    BY <1>1, <1>5, <1>8, <2>1, CompleteIs
  <2> DEFINE z == LenField(m)
  <2>3. End(s, k) <= e
    <3>1. z \in 4..(2^16 - 2) /\ z + 1 <= e - pos[s] /\ End(s, k) = pos[s] + 1 + z
      BY <1>3, <1>5, <1>6, <2>2
    <3> HIDE DEF z, k
    <3> QED
      BY <1>1, <1>2, <3>1
  <2> QED
    BY <1>2, <1>3, <1>4, <1>5, <1>6, <2>2, <2>3 DEF Whole
<1> QED
  BY <1>7, <1>8

(* An unknown message makes the gate clear the buffer.                     *)
LEMMA ClearStep ==
  ASSUME IInv, NEW c \in Clients, NEW e, NEW k, Whole(c, e, k), Script[c][k].tag # "l",
         received' = [received EXCEPT ![c] = e], pos' = [pos EXCEPT ![c] = e],
         UNCHANGED <<host, stage>>
  PROVE  Moves(c, e, e)
<1>1. c \in Streams /\ c # Db
  BY DEF Clients
<1>2. Script[c][k].tag = "other"
  BY <1>1, Messages DEF Whole
<1>3. Known(c, e)
  <2>1. k \in 0..Len(Script[c]) /\ k \in DOMAIN Script[c]
    BY DEF Whole
  <2>2. e = End(c, k) \/ e > End(c, k)
    BY DEF Whole
  <2> QED
    BY <1>2, <2>1, <2>2 DEF Known
<1>4. pos[c] <= e
  BY <1>1, OfStream DEF Whole
<1> QED
  BY <1>3, <1>4 DEF Moves, Whole

(* A login takes itself and up to four bytes more.                         *)
LoginRead(c, e, k, m) ==
    /\ Whole(c, e, k) /\ m = Script[c][k] /\ m.tag = "l" /\ e - pos[c] \in Nat
    /\ received' = [received EXCEPT ![c] = e]
    /\ pos' = [pos EXCEPT ![c] = @ + Login(m, e - pos[c])]
    /\ UNCHANGED <<host, stage>>

LEMMA LoginTakes ==
  ASSUME IInv, NEW c \in Clients, NEW e, NEW k, NEW m, LoginRead(c, e, k, m)
  PROVE  /\ Value(m, e - pos[c]) \in Nat
         /\ Value(m, e - pos[c]) + 4 - LenField(m) \in 0..4
         /\ pos[c] + Login(m, e - pos[c]) = End(c, k) + (Value(m, e - pos[c]) + 4 - LenField(m))
         /\ Moves(c, e, pos[c] + Login(m, e - pos[c]))
<1>0. /\ Whole(c, e, k) /\ m = Script[c][k] /\ m.tag = "l" /\ e - pos[c] \in Nat
      /\ received' = [received EXCEPT ![c] = e]
      /\ pos' = [pos EXCEPT ![c] = @ + Login(m, e - pos[c])]
      /\ UNCHANGED <<host, stage>>
  BY DEF LoginRead
<1>1. c \in Streams
  BY DEF Clients
<1> DEFINE z == LenField(m)
           v == Value(m, e - pos[c])
           q == End(c, k)
           p == pos[c] + Login(m, e - pos[c])
<1>2. /\ q \in Nat /\ z \in 4..(2^16 - 2) /\ pos[c] \in Nat /\ e \in Nat
      /\ q = pos[c] + 1 + z /\ q <= e
      /\ pos[c] <= received[c] /\ received[c] \in Nat /\ e > received[c]
  BY <1>0, <1>1, OfStream DEF Whole
<1>3. v = IF z > (e - pos[c]) - 5 THEN (e - pos[c]) - 5 ELSE z
  BY DEF Value, ReadString
<1>4. p = pos[c] + (5 + v)
  BY DEF Login
<1>5. pos' = [pos EXCEPT ![c] = p]
  BY <1>0
<1> DEFINE o == pos[c]
<1> HIDE DEF z, v, q, p
<1>6. v \in Nat /\ v + 4 - z \in 0..4 /\ p = q + (v + 4 - z) /\ p <= e /\ p \in Nat /\ pos[c] <= p
  <2>1. /\ q \in Nat /\ z \in 4..(2^16 - 2) /\ o \in Nat /\ e \in Nat /\ q = o + 1 + z /\ q <= e
        /\ v = (IF z > (e - o) - 5 THEN (e - o) - 5 ELSE z) /\ p = o + (5 + v)
    BY <1>2, <1>3, <1>4
  <2> HIDE DEF o
  <2>2. v \in Int /\ v >= z - 4 /\ v <= z /\ v + 5 <= e - o
    BY <2>1
  <2>3. v \in Nat /\ v + 4 - z \in 0..4 /\ p = q + (v + 4 - z) /\ p <= e /\ p \in Nat /\ o <= p
    BY <2>1, <2>2
  <2> QED
    BY <2>3 DEF o
<1>7. Known(c, p)
  <2>1. k \in 0..Len(Script[c]) /\ k \in DOMAIN Script[c]
    BY <1>0 DEF Whole
  <2>2. p = End(c, k) \/ p - End(c, k) \in 1..4
    BY <1>2, <1>6 DEF q
  <2> QED
    BY <1>0, <2>1, <2>2 DEF Known
<1>8. Moves(c, e, p)
  BY <1>0, <1>2, <1>5, <1>6, <1>7 DEF Moves, Whole
<1> QED
  BY <1>6, <1>8 DEF z, v, q, p

LEMMA ForwardStep ==
  ASSUME IInv, NEW c \in Clients, authorized[c], stage[c] = "started", NEW e, NEW k, NEW p,
         Whole(c, e, k), Script[c][k].tag = "l", Moves(c, e, p), NEW v \in Nat,
         v + 4 - LenField(Script[c][k]) \in 0..4,
         p = End(c, k) + (v + 4 - LenField(Script[c][k])),
         forwards' = Append(forwards, [id |-> c, msg |-> k, len |-> LenField(Script[c][k]) + 8,
                                       value |-> v]),
         UNCHANGED <<authorized, user>>
  PROVE  forwards' \in Seq(Forwards) /\ StartedFirst' /\ Behind' /\ ForwardsMatch'
<1> DEFINE z == LenField(Script[c][k])
           w == [id |-> c, msg |-> k, len |-> z + 8, value |-> v]
           n == Len(forwards)
<1>1. c \in Streams
  BY DEF Clients
<1>2. z \in 4..(2^16 - 2) /\ k \in Nat /\ k \in DOMAIN Script[c] /\ End(c, k) \in Nat
      /\ End(c, k - 1) \in Nat /\ pos[c] = End(c, k - 1) /\ k \in 1..Len(Script[c])
      /\ v + 4 - z \in 0..4 /\ p = End(c, k) + (v + 4 - z)
  <2>1. k \in 1..Len(Script[c])
    BY DEF Whole
  <2>2. k \in Nat
    BY <2>1
  <2>3. z \in 4..(2^16 - 2) /\ v + 4 - z \in 0..4 /\ p = End(c, k) + (v + 4 - z)
    BY Zenon DEF Whole
  <2> HIDE DEF z
  <2> QED
    BY <2>1, <2>2, <2>3 DEF Whole
<1>3. /\ w.id = c /\ w.msg = k /\ w.len = z + 8 /\ w.value = v
  OBVIOUS
<1>4. w \in Forwards
  <2> HIDE DEF z
  <2>1. z + 8 \in Nat
    BY <1>2
  <2> QED
    BY <1>2, <2>1 DEF Forwards
<1>5. forwards \in Seq(Forwards)
  BY DEF IInv, Typed
<1> HIDE DEF w, n, z
<1>6. /\ n \in Nat /\ forwards' \in Seq(Forwards) /\ DOMAIN forwards' = 1..(n + 1)
      /\ DOMAIN forwards = 1..n /\ forwards'[n + 1] = w
      /\ \A i \in 1..n : forwards'[i] = forwards[i]
  BY <1>4, <1>5 DEF w, n, z
<1>7. UNCHANGED stage
  BY DEF Moves
<1>8. \A r \in Streams : /\ received'[r] >= received[r] /\ pos'[r] >= pos[r]
                         /\ received'[r] \in Nat /\ pos'[r] \in Nat
                         /\ received[r] \in Nat /\ pos[r] \in Nat
  BY <1>1, Moved, OfStream
<1>9. pos'[c] = p /\ received'[c] = e /\ p <= e
  BY <1>1, Moved DEF Moves
<1>10. \A i \in 1..(n + 1) : i = n + 1 \/ i \in 1..n
  BY <1>6
<1>11. StartedFirst'
  <2>1. \A i \in 1..n : stage[forwards[i].id] \in {"started", "closed"}
    BY <1>6 DEF IInv, StartedFirst
  <2> QED
    BY <1>3, <1>6, <1>7, <1>10, <2>1 DEF StartedFirst
<1>12. Behind'
  <2> SUFFICES ASSUME NEW i \in 1..(n + 1)
               PROVE  /\ forwards'[i].msg \in DOMAIN Script[forwards'[i].id]
                      /\ End(forwards'[i].id, forwards'[i].msg) <= pos'[forwards'[i].id]
    BY <1>6 DEF Behind
  <2>1. CASE i = n + 1
    <3>1. forwards'[i].id = c /\ forwards'[i].msg = k
      BY <1>3, <1>6, <2>1
    <3>2. End(c, k) <= p
      <4> DEFINE x == v + 4 - z
                 y == End(c, k)
      <4>1. x \in 0..4 /\ y \in Nat /\ p = y + x
        BY <1>2
      <4> HIDE DEF x, y
      <4>2. y <= p
        BY <4>1
      <4> QED
        BY <4>2 DEF y
    <3> QED
      BY <1>2, <1>9, <3>1, <3>2
  <2>2. CASE i \in 1..n
    <3>1. i \in DOMAIN forwards /\ forwards'[i] = forwards[i]
      BY <1>6, <2>2
    <3>2. /\ forwards[i].id \in Streams /\ End(forwards[i].id, forwards[i].msg) \in Nat
          /\ End(forwards[i].id, forwards[i].msg) <= pos[forwards[i].id]
      BY <3>1, OfForward
    <3>3. forwards[i].msg \in DOMAIN Script[forwards[i].id]
      BY <3>1 DEF IInv, Behind
    <3>4. End(forwards[i].id, forwards[i].msg) <= pos'[forwards[i].id]
      BY <1>8, <3>2
    <3> QED
      BY <3>1, <3>3, <3>4
  <2> QED
    BY <1>10, <2>1, <2>2
<1>13. ForwardsMatch'
  <2> SUFFICES ASSUME NEW i \in 1..(n + 1)
               PROVE  LET f == forwards'[i]
                          m == Script[f.id][f.msg]
                          extra == 4 + 8 + f.value - f.len
                      IN  /\ m.tag = "l" /\ authorized[f.id]
                          /\ extra \in 0..4
                          /\ extra > 0 => End(f.id, f.msg) + extra <= received'[f.id]
                          /\ \A j \in 1..(i - 1) : forwards'[j].id = f.id => forwards'[j].msg < f.msg
    BY <1>6 DEF ForwardsMatch
  <2>1. CASE i = n + 1
    <3>1. 4 + 8 + v - (z + 8) = v + 4 - z
      BY <1>2
    <3>2. End(c, k) + (v + 4 - z) <= received'[c]
      BY <1>2, <1>9
    <3>3. ASSUME NEW j \in 1..n, forwards'[j].id = c PROVE forwards'[j].msg < k
      <4>1. j \in DOMAIN forwards /\ forwards'[j] = forwards[j]
        BY <1>6
      <4> DEFINE g == forwards[j].msg
      <4>2. g \in 1..Len(Script[c]) /\ End(c, g) \in Nat /\ End(c, g) <= pos[c]
        BY <3>3, <4>1, OfForward
      <4> HIDE DEF g
      <4>3. End(c, g) <= End(c, k - 1)
        BY <1>2, <4>2
      <4>4. k <= g => End(c, k) <= End(c, g)
        <5>1. k \in 0..Len(Script[c]) /\ g \in 0..Len(Script[c])
          <6>1. Len(Script[c]) \in Nat
            BY <1>1, Scripts
          <6> QED
            BY <1>2, <4>2, <6>1
        <5> QED
          BY <1>1, <5>1, Positions
      <4>5. End(c, k - 1) < End(c, k)
        <5> DEFINE a == End(c, k - 1)
                   b == End(c, k)
        <5>1. b = a + 1 + z /\ a \in Nat /\ z \in 4..(2^16 - 2)
          BY <1>2 DEF Whole, z
        <5> HIDE DEF a, b
        <5>2. a < b
          BY <5>1
        <5> QED
          BY <5>2 DEF a, b
      <4>6. g < k
        <5> DEFINE a == End(c, k - 1)
                   b == End(c, k)
                   d == End(c, g)
        <5>1. /\ a \in Nat /\ b \in Nat /\ d \in Nat /\ d <= a /\ a < b /\ (k <= g => b <= d)
              /\ k \in Int /\ g \in Int
          BY <1>2, <4>2, <4>3, <4>4, <4>5
        <5> HIDE DEF a, b, d
        <5> QED
          BY <5>1
      <4> QED
        BY <4>1, <4>6 DEF g
    <3>4. forwards'[i] = w /\ i - 1 = n
      <4>1. i - 1 = n
        BY <1>6, <2>1
      <4> QED
        BY <1>6, <2>1, <4>1
    <3> DEFINE x == 4 + 8 + forwards'[i].value - forwards'[i].len
    <3>5. /\ forwards'[i].id = c /\ forwards'[i].msg = k
          /\ x = v + 4 - z
      <4>1. /\ forwards'[i].id = c /\ forwards'[i].msg = k
            /\ forwards'[i].value = v /\ forwards'[i].len = z + 8
        BY <1>3, <3>4
      <4> QED
        BY <3>1, <4>1
    <3>6. \A j \in 1..(i - 1) : forwards'[j].id = c => forwards'[j].msg < k
      BY <3>3, <3>4
    <3> HIDE DEF x
    <3>7. x \in 0..4 /\ (x > 0 => End(c, k) + x <= received'[c])
      BY <1>2, <3>2, <3>5
    <3> QED
      BY <3>5, <3>6, <3>7 DEF x
  <2>2. CASE i \in 1..n
    <3>1. i \in DOMAIN forwards /\ forwards'[i] = forwards[i]
          /\ \A j \in 1..(i - 1) : forwards'[j] = forwards[j]
      BY <1>6, <2>2
    <3> DEFINE f == forwards[i]
               extra == 4 + 8 + f.value - f.len
    <3>2. /\ Script[f.id][f.msg].tag = "l" /\ authorized[f.id] /\ extra \in 0..4
          /\ extra > 0 => End(f.id, f.msg) + extra <= received[f.id]
          /\ \A j \in 1..(i - 1) : forwards[j].id = f.id => forwards[j].msg < f.msg
      BY <3>1 DEF IInv, ForwardsMatch
    <3>3. f.id \in Streams /\ End(f.id, f.msg) \in Nat
      BY <3>1, OfForward
    <3>4. extra > 0 => End(f.id, f.msg) + extra <= received'[f.id]
      <4> DEFINE x == extra
                 y == End(f.id, f.msg)
                 g == f.id
      <4>1. x \in 0..4 /\ y \in Nat /\ received[g] \in Nat /\ received'[g] \in Nat
            /\ received'[g] >= received[g] /\ (x > 0 => y + x <= received[g])
        BY <1>8, <3>2, <3>3
      <4> HIDE DEF x, y, g
      <4>2. x > 0 => y + x <= received'[g]
        BY <4>1
      <4> QED
        BY <4>2 DEF x, y, g
    <3> QED
      BY <3>1, <3>2, <3>4
  <2> QED
    BY <1>10, <2>1, <2>2
<1> QED
  BY <1>6, <1>11, <1>12, <1>13

LEMMA StreamInv ==
  ASSUME IInv, NEW s \in Streams, NEW e, NEW p, Moves(s, e, p),
         forwards' \in Seq(Forwards), StartedFirst', Behind', ForwardsMatch', AuthorizedIsRight',
         authorized' \in [Clients -> BOOLEAN], user' \in [Clients -> Int],
         dbUp' \in BOOLEAN, crashed' \in BOOLEAN
  PROVE  IInv'
<1>1. /\ received' \in [Streams -> Nat] /\ pos' \in [Streams -> Nat]
      /\ \A r \in Streams : /\ received'[r] \in 0..End(r, Len(Script[r]))
                            /\ pos'[r] \in 0..received'[r]
                            /\ Known(r, pos'[r])
  BY Moved
<1>2. \A i \in DOMAIN forwards' : forwards'[i].id \in Clients
  <2>1. \A i \in DOMAIN forwards' : forwards'[i] \in Forwards
    OBVIOUS
  <2> QED
    BY <2>1 DEF Forwards
<1>3. UNCHANGED <<host, stage>> /\ host \in Hosts
      /\ stage \in [Clients -> {"none", "stored", "started", "closed"}]
  BY DEF Moves, IInv, Typed, TypeOK
<1>4. TypeOK'
  BY <1>1, <1>2, <1>3 DEF TypeOK
<1>5. \A r \in Streams : Known(r, pos[r])'
  BY <1>1 DEF Known
<1> QED
  BY <1>1, <1>4, <1>5 DEF IInv, Typed

LEMMA ClientStep ==
  ASSUME IInv, NEW c \in Clients, NEW e \in PieceEnds[c], ClientMessage(c, e)
  PROVE  IInv'
<1> DEFINE k == Front(c)
           m == Script[c][k]
           length == e - pos[c]
<1>1. /\ stage[c] = "started" /\ e > received[c] /\ InStep(c)
      /\ received' = [received EXCEPT ![c] = e]
      /\ UNCHANGED <<host, stage, authorized, user, dbUp>>
  BY DEF ClientMessage, Arrival, clientVars
<1>2. c \in Streams /\ 5 \in Nat
  BY DEF Clients
<1>3. /\ authorized \in [Clients -> BOOLEAN] /\ user \in [Clients -> Int] /\ dbUp \in BOOLEAN
      /\ crashed \in BOOLEAN /\ forwards \in Seq(Forwards)
  BY DEF IInv, Typed, TypeOK
<1>4. ~crashed
  BY DEF ClientMessage, Arrival
<1>5. ASSUME NEW p, Moves(c, e, p), UNCHANGED forwards, crashed' \in BOOLEAN
      PROVE  IInv'
  <2>1. StartedFirst' /\ Behind' /\ ForwardsMatch'
    BY <1>1, <1>2, <1>5, OldForwardsMatch
  <2>2. AuthorizedIsRight'
    BY <1>1, <1>2, <1>5, StillAuthorized
  <2> QED
    BY <1>1, <1>2, <1>3, <1>5, <2>1, <2>2, StreamInv
<1>6. CASE UNCHANGED <<pos, forwards>> /\ crashed' \in BOOLEAN
  <2>1. Moves(c, e, pos[c])
    BY <1>1, <1>2, <1>6, Arrived
  <2> QED
    BY <1>5, <1>6, <2>1
<1>7. CASE /\ authorized[c] /\ Complete(5, length, m) /\ m.tag # "l"
           /\ pos' = [pos EXCEPT ![c] = e] /\ crashed' \in BOOLEAN /\ UNCHANGED forwards
  <2>1. Whole(c, e, k)
    BY <1>1, <1>2, <1>7, Arrived
  <2>2. Moves(c, e, e)
    BY <1>1, <1>7, <2>1, ClearStep
  <2> QED
    BY <1>5, <1>7, <2>2
<1>8. CASE authorized[c] /\ Complete(5, length, m) /\ m.tag = "l" /\ ForwardLogin(c, k, length)
  <2>1. Whole(c, e, k) /\ length \in Nat
    BY <1>1, <1>2, <1>8, Arrived
  <2> DEFINE v == Value(m, length)
             p == pos[c] + Login(m, length)
  <2>2. pos' = [pos EXCEPT ![c] = @ + Login(m, length)]
    BY <1>8 DEF ForwardLogin
  <2>3. /\ v \in Nat /\ v + 4 - LenField(m) \in 0..4
        /\ p = End(c, k) + (v + 4 - LenField(m)) /\ Moves(c, e, p)
    <3>1. LoginRead(c, e, k, m)
      BY <1>1, <1>8, <2>1, <2>2 DEF LoginRead
    <3> HIDE DEF k, m
    <3> QED
      BY <3>1, LoginTakes
  <2>4. CASE ~dbUp
    <3>1. UNCHANGED forwards /\ crashed' \in BOOLEAN
      BY <1>8, <2>4 DEF ForwardLogin
    <3> HIDE DEF p
    <3> QED
      BY <1>5, <2>3, <3>1
  <2>5. CASE dbUp
    <3>1. /\ forwards' = Append(forwards, [id |-> c, msg |-> k, len |-> LenField(m) + 8,
                                           value |-> v])
          /\ crashed' \in BOOLEAN
      BY <1>8, <2>5 DEF ForwardLogin, Unreturned
    <3> HIDE DEF p, v, k
    <3>2. forwards' \in Seq(Forwards) /\ StartedFirst' /\ Behind' /\ ForwardsMatch'
      BY <1>1, <1>8, <2>1, <2>3, <3>1, ForwardStep
    <3>3. AuthorizedIsRight'
      BY <1>1, <1>2, <2>3, StillAuthorized
    <3> QED
      BY <1>1, <1>2, <1>3, <2>3, <3>1, <3>2, <3>3, StreamInv
  <2> QED
    BY <1>3, <2>4, <2>5
<1> QED
  BY <1>3, <1>4, <1>6, <1>7, <1>8 DEF ClientMessage, Unreturned, Returned

(* What the data server's message does to the clients: an "s" authorises   *)
(* the connections that GetConnection finds.                               *)
LEMMA DbStep ==
  ASSUME IInv, NEW e \in PieceEnds[Db], DbMessage(e)
  PROVE  IInv'
<1> DEFINE k == Front(Db)
           m == Script[Db][k]
           length == e - pos[Db]
           found == GetConnection(m.id)
<1>1. /\ e > received[Db] /\ InStep(Db)
      /\ received' = [received EXCEPT ![Db] = e]
      /\ UNCHANGED <<host, stage, forwards, dbUp, crashed>>
  BY DEF DbMessage, Arrival
<1>2. Db \in Streams /\ 13 \in Nat
  BY GateAssumption
<1>3. /\ authorized \in [Clients -> BOOLEAN] /\ user \in [Clients -> Int] /\ dbUp \in BOOLEAN
      /\ crashed \in BOOLEAN /\ forwards \in Seq(Forwards) /\ host \in Hosts
      /\ pos[Db] \in Nat
  BY <1>2, OfStream DEF IInv, Typed, TypeOK
<1>4. ASSUME NEW p, Moves(Db, e, p), UNCHANGED <<authorized, user>>
      PROVE  IInv'
  <2>1. StartedFirst' /\ Behind' /\ ForwardsMatch'
    BY <1>1, <1>2, <1>4, OldForwardsMatch
  <2>2. AuthorizedIsRight'
    BY <1>1, <1>2, <1>4, StillAuthorized
  <2> QED
    BY <1>1, <1>2, <1>3, <1>4, <2>1, <2>2, StreamInv
<1>5. CASE UNCHANGED <<pos, authorized, user>>
  <2>1. Moves(Db, e, pos[Db])
    BY <1>1, <1>2, <1>5, Arrived
  <2> QED
    BY <1>4, <1>5, <2>1
<1>6. CASE /\ Complete(13, length, m) /\ m.tag # "s"
           /\ pos' = [pos EXCEPT ![Db] = @ + 1] /\ UNCHANGED <<authorized, user>>
  <2>1. Whole(Db, e, k) /\ length \in Nat /\ length >= 13
    BY <1>1, <1>2, <1>6, Arrived
  <2>2. m.tag = "x"
    BY <1>6, <2>1, Messages DEF Whole
  <2>3. pos[Db] + 1 \in Nat /\ pos[Db] <= pos[Db] + 1 /\ pos[Db] + 1 <= e
    <3> DEFINE o == pos[Db]
    <3>1. o \in Nat /\ e \in Nat /\ e - o \in Nat /\ e - o >= 13
      BY <1>3, <2>1 DEF Whole
    <3> HIDE DEF o
    <3>2. o + 1 \in Nat /\ o <= o + 1 /\ o + 1 <= e
      BY <3>1
    <3> QED
      BY <3>2 DEF o
  <2>4. Known(Db, pos[Db] + 1)
    BY <2>1, <2>2 DEF Known, Whole
  <2>5. Moves(Db, e, pos[Db] + 1)
    BY <1>1, <1>6, <2>1, <2>3, <2>4 DEF Moves, Whole
  <2> QED
    BY <1>4, <1>6, <2>5
<1>7. CASE /\ Complete(13, length, m) /\ m.tag = "s"
           /\ pos' = [pos EXCEPT ![Db] = @ + 21]
           /\ authorized' = [c \in Clients |-> authorized[c] \/ c \in found]
           /\ user' = [c \in Clients |-> IF c \in found THEN m.user ELSE user[c]]
  <2>1. /\ Whole(Db, e, k) /\ length \in Nat
        /\ ~host.big => SwapBytes(LenField(m)) < length
    BY <1>1, <1>2, <1>7, Arrived
  <2>2. LenField(m) = 20 /\ m.user \in Int
    BY <1>7, <2>1, Messages DEF Whole
  <2>3. /\ k \in 1..Len(Script[Db]) /\ k \in DOMAIN Script[Db] /\ pos[Db] = End(Db, k - 1)
        /\ End(Db, k) \in Nat /\ End(Db, k) <= e /\ End(Db, k) = pos[Db] + 21
    BY <1>3, <2>1, <2>2 DEF Whole
  <2>4. e \in Nat /\ e <= End(Db, Len(Script[Db])) /\ e > received[Db]
    BY <2>1 DEF Whole
  <2>5. Moves(Db, e, End(Db, k))
    <3>1. Known(Db, End(Db, k))
      BY <2>3 DEF Known
    <3>2. pos' = [pos EXCEPT ![Db] = End(Db, k)]
      BY <1>7, <2>3
    <3>3. pos[Db] <= End(Db, k)
      BY <1>3, <2>3
    <3> QED
      BY <1>1, <2>3, <2>4, <3>1, <3>2, <3>3 DEF Moves
  <2>6. authorized' \in [Clients -> BOOLEAN] /\ user' \in [Clients -> Int]
    BY <1>3, <1>7, <2>2
  <2>7. \A c \in Clients : authorized[c] => authorized'[c]
    BY <1>7
  <2>8. StartedFirst' /\ Behind' /\ ForwardsMatch'
    BY <1>1, <1>2, <2>5, <2>7, OldForwardsMatch
  <2>9. received'[Db] = e /\ received[Db] \in Nat
    BY <1>2, <2>5, Moved, OfStream
  <2>10. AuthorizedIsRight'
    <3> DEFINE z == SwapBytes(20)
    <3>1. z \in Nat
      BY DEF SwapBytes
    <3> SUFFICES ASSUME NEW c \in Clients, authorized'[c]
                 PROVE  /\ host.big \/ e > z
                        /\ host.wide
                        /\ \E j \in DOMAIN Script[Db] :
                              /\ Script[Db][j].tag = "s" /\ Script[Db][j].id = c
                              /\ Script[Db][j].user = user'[c]
                              /\ End(Db, j) <= e
      BY <1>1, <2>9 DEF AuthorizedIsRight
    <3>2. CASE c \in found
      <4>1. host.wide /\ c = m.id
        BY <3>2 DEF GetConnection
      <4>2. user'[c] = m.user
        BY <1>7, <3>2
      <4>3. host.big \/ e > z
        <5>1. ~host.big => z < e - pos[Db]
          BY <2>1, <2>2
        <5> HIDE DEF z
        <5> QED
          BY <1>3, <2>4, <3>1, <5>1
      <4> QED
        BY <1>7, <2>3, <4>1, <4>2, <4>3
    <3>3. CASE c \notin found
      <4>1. authorized[c] /\ user'[c] = user[c]
        BY <1>7, <3>3
      <4>2. host.big \/ received[Db] > z
        BY <4>1 DEF IInv, AuthorizedIsRight
      <4>3. host.wide
        BY <4>1 DEF IInv, AuthorizedIsRight
      <4>4. PICK j \in DOMAIN Script[Db] : /\ Script[Db][j].tag = "s" /\ Script[Db][j].id = c
                                           /\ Script[Db][j].user = user[c]
                                           /\ End(Db, j) <= received[Db]
        BY <4>1 DEF IInv, AuthorizedIsRight
      <4>5. End(Db, j) \in Nat
        <5>1. j \in 0..Len(Script[Db])
          BY <1>2, Scripts
        <5> QED
          BY <1>2, <5>1, Positions
      <4>6. End(Db, j) <= e
        BY <2>4, <2>9, <4>4, <4>5
      <4>7. host.big \/ e > z
        <5> HIDE DEF z
        <5> QED
          BY <2>4, <2>9, <3>1, <4>2
      <4> QED
        BY <4>1, <4>3, <4>4, <4>6, <4>7
    <3> QED
      BY <3>2, <3>3
  <2> QED
    BY <1>1, <1>2, <1>3, <2>5, <2>6, <2>8, <2>10, StreamInv
<1> QED
  BY <1>5, <1>6, <1>7 DEF DbMessage, clientVars

-----------------------------------------------------------------------------
LEMMA InitInv == Init => IInv
<1> SUFFICES ASSUME Init PROVE IInv
  OBVIOUS
<1>1. /\ host \in Hosts /\ stage = [c \in Clients |-> "none"]
      /\ received = [s \in Streams |-> 0] /\ pos = [s \in Streams |-> 0]
      /\ authorized = [c \in Clients |-> FALSE] /\ user = [c \in Clients |-> -1]
      /\ forwards = <<>> /\ dbUp = TRUE /\ crashed = FALSE
  BY DEF Init, NoUser
<1>2. ASSUME NEW s \in Streams
      PROVE  /\ received[s] \in 0..End(s, Len(Script[s])) /\ pos[s] \in 0..received[s]
             /\ Known(s, pos[s])
  <2>1. Len(Script[s]) \in Nat /\ Len(Script[s]) \in 0..Len(Script[s]) /\ 0 \in 0..Len(Script[s])
    BY Scripts
  <2>2. End(s, Len(Script[s])) \in Nat /\ End(s, 0) = 0
    BY <2>1, Positions
  <2>3. received[s] = 0 /\ pos[s] = 0
    BY <1>1
  <2> QED
    BY <2>1, <2>2, <2>3 DEF Known
<1>3. TypeOK
  <2>1. user \in [Clients -> Int] /\ authorized \in [Clients -> BOOLEAN]
    BY <1>1
  <2>2. \A i \in DOMAIN forwards : forwards[i].id \in Clients
    BY <1>1
  <2>3. host \in Hosts /\ dbUp \in BOOLEAN /\ crashed \in BOOLEAN
    BY <1>1
  <2>4. stage \in [Clients -> {"none", "stored", "started", "closed"}]
    BY <1>1
  <2> QED
    BY <1>2, <2>1, <2>2, <2>3, <2>4 DEF TypeOK
<1>4. Typed
  BY <1>1, <1>3 DEF Typed
<1>5. StartedFirst /\ Behind /\ ForwardsMatch /\ AuthorizedIsRight
  BY <1>1 DEF StartedFirst, Behind, ForwardsMatch, AuthorizedIsRight
<1> QED
  BY <1>2, <1>4, <1>5 DEF IInv

(* The life of a client connection, and steps that no stream takes part in.*)
LEMMA LifeStep ==
  ASSUME IInv,
         \/ \E c \in Clients : HandleNewConn(c) \/ Start(c) \/ CloseCallback(c)
         \/ DbLeaves \/ GameMessage \/ UNCHANGED vars
  PROVE  IInv'
<1>1. /\ stage \in [Clients -> {"none", "stored", "started", "closed"}]
      /\ authorized \in [Clients -> BOOLEAN] /\ user \in [Clients -> Int]
      /\ host \in Hosts /\ dbUp \in BOOLEAN /\ crashed \in BOOLEAN
  BY DEF IInv, Typed, TypeOK
<1>2. UNCHANGED <<host, received, pos, user, forwards>>
  BY DEF HandleNewConn, Start, CloseCallback, DbLeaves, GameMessage, vars, streamVars, clientVars
<1>3. dbUp' \in BOOLEAN /\ crashed' \in BOOLEAN
  BY <1>1 DEF HandleNewConn, Start, CloseCallback, DbLeaves, GameMessage, vars, Unreturned
<1>4. /\ stage' \in [Clients -> {"none", "stored", "started", "closed"}]
      /\ authorized' \in [Clients -> BOOLEAN]
      /\ \A c \in Clients : /\ authorized'[c] => authorized[c]
                            /\ stage[c] \in {"started", "closed"} =>
                                  /\ stage'[c] \in {"started", "closed"}
                                  /\ authorized[c] => authorized'[c]
  <2>1. CASE UNCHANGED <<stage, authorized>>
    BY <1>1, <2>1
  <2>2. ASSUME NEW c \in Clients, HandleNewConn(c) \/ CloseCallback(c)
        PROVE  /\ stage' \in [Clients -> {"none", "stored", "started", "closed"}]
               /\ authorized' \in [Clients -> BOOLEAN]
               /\ \A d \in Clients : /\ authorized'[d] => authorized[d]
                                     /\ stage[d] \in {"started", "closed"} =>
                                           /\ stage'[d] \in {"started", "closed"}
                                           /\ authorized[d] => authorized'[d]
    <3>1. /\ UNCHANGED authorized
          /\ \/ stage[c] = "none" /\ stage' = [stage EXCEPT ![c] = "stored"]
             \/ stage[c] = "started" /\ stage' = [stage EXCEPT ![c] = "closed"]
      BY <2>2 DEF HandleNewConn, CloseCallback, clientVars
    <3>2. /\ stage' \in [Clients -> {"none", "stored", "started", "closed"}]
          /\ authorized' \in [Clients -> BOOLEAN]
      BY <1>1, <3>1
    <3>3. \A d \in Clients : stage[d] \in {"started", "closed"} => stage'[d] \in {"started", "closed"}
      BY <1>1, <3>1
    <3> QED
      BY <3>1, <3>2, <3>3
  <2>3. ASSUME NEW c \in Clients, Start(c)
        PROVE  /\ stage' \in [Clients -> {"none", "stored", "started", "closed"}]
               /\ authorized' \in [Clients -> BOOLEAN]
               /\ \A d \in Clients : /\ authorized'[d] => authorized[d]
                                     /\ stage[d] \in {"started", "closed"} =>
                                           /\ stage'[d] \in {"started", "closed"}
                                           /\ authorized[d] => authorized'[d]
    <3>1. /\ stage[c] = "stored" /\ stage' = [stage EXCEPT ![c] = "started"]
          /\ authorized' = [authorized EXCEPT ![c] = FALSE]
      BY <2>3 DEF Start
    <3>2. /\ stage' \in [Clients -> {"none", "stored", "started", "closed"}]
          /\ authorized' \in [Clients -> BOOLEAN]
      BY <1>1, <3>1
    <3>3. ASSUME NEW d \in Clients
          PROVE  /\ authorized'[d] => authorized[d]
                 /\ stage[d] \in {"started", "closed"} =>
                       /\ stage'[d] \in {"started", "closed"}
                       /\ authorized[d] => authorized'[d]
      <4>1. CASE d = c
        BY <1>1, <3>1, <4>1
      <4>2. CASE d # c
        BY <1>1, <3>1, <4>2
      <4> QED
        BY <4>1, <4>2
    <3> QED
      BY <3>2, <3>3
  <2> QED
    BY <2>1, <2>2, <2>3 DEF DbLeaves, GameMessage, vars, clientVars
<1>5. TypeOK'
  BY <1>1, <1>2, <1>3, <1>4 DEF IInv, Typed, TypeOK
<1> QED
  BY <1>2, <1>4, <1>5, QuietStep

LEMMA NextStep == IInv /\ [Next]_vars => IInv'
<1> SUFFICES ASSUME IInv, [Next]_vars PROVE IInv'
  OBVIOUS
<1>1. CASE \E c \in Clients : ClientReads(c)
  BY <1>1, ClientStep DEF ClientReads
<1>2. CASE DbReads
  BY <1>2, DbStep DEF DbReads
<1>3. CASE \/ \E c \in Clients : HandleNewConn(c) \/ Start(c) \/ CloseCallback(c)
           \/ DbLeaves \/ GameMessage \/ UNCHANGED vars
  BY <1>3, LifeStep
<1> QED
  BY <1>1, <1>2, <1>3 DEF Next

LEMMA Invariance == Spec => []IInv
BY InitInv, NextStep, PTL DEF Spec

(* The state has the types TypeOK gives it: no stream is consumed further  *)
(* than it has arrived, also where ReadString is told to take too much,    *)
(* and only client connections have messages forwarded.                    *)
THEOREM TypeCorrect == Spec => []TypeOK
<1>1. IInv => TypeOK
  BY DEF IInv, Typed
<1> QED
  BY <1>1, Invariance, PTL

(* The gate authorises a client only after a complete "s" about it, and as *)
(* the user in it, whatever the pieces, the races with Start and with the  *)
(* end of the connection, and the host.                                    *)
THEOREM OnlyAnswersAuthorize == Spec => []AuthorizedIsRight
<1>1. IInv => AuthorizedIsRight
  BY DEF IInv
<1> QED
  BY <1>1, Invariance, PTL

(* What the gate forwards are logins of authorised clients, in order, none *)
(* twice, with at most four bytes of the next message.                     *)
THEOREM LoginsAreForwardedOnce == Spec => []ForwardsMatch
<1>1. IInv => ForwardsMatch
  BY DEF IInv
<1> QED
  BY <1>1, Invariance, PTL

(* The gate's callbacks lose the message boundaries of a stream only in    *)
(* the three ways OutOfStepKnown lists.                                    *)
THEOREM BoundariesLostInKnownWays == Spec => []OutOfStepKnown
<1>1. IInv => OutOfStepKnown
  <2> SUFFICES ASSUME IInv, NEW s \in Streams, ~InStep(s)
               PROVE  \E k \in DOMAIN Script[s] :
                         CASE Script[s][k].tag = "x" -> pos[s] = End(s, k - 1) + 1
                           [] Script[s][k].tag = "l" -> pos[s] - End(s, k) \in 1..4
                           [] Script[s][k].tag = "other" -> pos[s] > End(s, k)
                           [] OTHER -> FALSE
    BY DEF OutOfStepKnown
  <2>1. PICK k \in DOMAIN Script[s] :
           \/ Script[s][k].tag = "x" /\ pos[s] = End(s, k - 1) + 1
           \/ Script[s][k].tag = "l" /\ pos[s] - End(s, k) \in 1..4
           \/ Script[s][k].tag = "other" /\ pos[s] > End(s, k)
    BY OfStream DEF Known, InStep
  <2> QED
    BY <2>1
<1> QED
  BY <1>1, Invariance, PTL
=============================================================================
