---------------------------- MODULE ServerProofs ----------------------------
(***************************************************************************)
(* Theorems about Server, for any number of worker loops and connections,  *)
(* any clock and any serial range: ids are unique unless a second had more *)
(* connections than serials, connections_ and the functors on their way    *)
(* agree with the life of every connection, and the load is balanced.      *)
(***************************************************************************)
EXTENDS Server, FiniteSetTheorems, SequenceTheorems, TLAPS

Alive == {"stored", "started"}

-----------------------------------------------------------------------------
(* The inductive invariant.                                                *)
Counted ==
    /\ accepted + backlog <= MaxConns
    /\ picks = IF Workers = <<>> THEN 0 ELSE accepted

(* The last id generated is the largest; ids grow, as long as no second    *)
(* was crowded.                                                            *)
LastId == Stamp(curTime) * SerialRange + serial

IdsGrow ==
    /\ curTime = -1 <=> accepted = 0
    /\ curTime <= now
    /\ accepted # 0 => curTime \in Nat
    /\ ~crowded => /\ serial <= SerialRange
                   /\ \A c \in Accepted : id[c] <= LastId
                   /\ \A c, d \in Accepted : c < d => id[c] < id[d]

(* What each thread does, and for which connection.                        *)
MainOnly == \A t \in Threads : pc[t] \in {"insert", "post", "get"} => t = Main

Inserting(c) == pc[Main] \in {"insert", "overwritten"} /\ arg[Main] = c
Posting(c) == pc[Main] = "post" /\ arg[Main] = c
Starting(t, c) == pc[t] = "lookup" /\ arg[t] = c
Closing(t, c) == pc[t] = "erase" /\ arg[t] = c
Has(q, c) == \E i \in 1..Len(q) : q[i] = c
Waits(t, c) == Has(queue[t], c)

Phases ==
    /\ \A c \in Conns :
         state[c] = "none" <=> c \notin Accepted \/ Inserting(c)
    /\ pc[Main] \in {"insert", "post"} => arg[Main] \in Accepted
    /\ \A c \in Conns : Posting(c) => state[c] = "stored"
    /\ \A t \in Threads : pc[t] \in {"lookup", "erase"} => arg[t] \in Conns
    /\ \A t \in Threads, c \in Conns :
         /\ Waits(t, c) => state[c] = "stored" /\ loopOf[c] = t
         /\ Starting(t, c) => state[c] = "stored" /\ loopOf[c] = t
         /\ Closing(t, c) => state[c] = "started" /\ loopOf[c] = t

(* The Start functor of a connection is in one place.                      *)
NoRepeat(q) == \A i, j \in 1..Len(q) : q[i] = q[j] /\ q[i] # 0 => i = j

OneStart ==
    /\ \A t \in Threads : NoRepeat(queue[t])
    /\ \A t \in Threads, c \in Conns :
         /\ ~(Waits(t, c) /\ Starting(t, c))
         /\ Posting(c) => ~Waits(t, c) /\ ~Starting(t, c)

(* connections_ and the life of the connections.                           *)
MapLive ==
    /\ \A c \in Conns : state[c] \in Alive =>
         id[c] \in DOMAIN connections /\ connections[id[c]] = c
    /\ \A k \in DOMAIN connections : connections[k] # 0 =>
         state[connections[k]] \in Alive /\ id[connections[k]] = k

IInv == Types /\ Counted /\ IdsGrow /\ MainOnly /\ Phases /\ OneStart /\ MapLive

(* Of the load: all workers have q connections, the first few one more.    *)
Given(w) == {c \in Accepted : loopOf[c] = w}

Shares ==
    Workers # <<>> =>
       \E q \in Nat : \A i \in 1..Len(Workers) :
          /\ IsFiniteSet(Given(Workers[i]))
          /\ Cardinality(Given(Workers[i]))
               = q + IF i <= picks % Len(Workers) THEN 1 ELSE 0

-----------------------------------------------------------------------------
(* Numbers.  The stamp grows with the clock although a minute skips forty  *)
(* of its values.                                                          *)
LEMMA StampGrows ==
  /\ \A t \in Nat : Stamp(t) \in Nat
  /\ \A t, u \in Nat : t < u => Stamp(t) < Stamp(u)
  BY DEF Stamp

LEMMA NextBlock ==
  ASSUME NEW r \in Nat, NEW a \in Nat, NEW b \in Nat, a < b
  PROVE  a * r + r <= b * r
<1>1. PICK k \in Nat : b = a + 1 + k
  <2>1. b - a - 1 \in Nat /\ b = a + 1 + (b - a - 1)
    OBVIOUS
  <2> QED
    BY <2>1
<1>2. k * r \in Nat
  OBVIOUS
<1>3. b * r = a * r + r + k * r
  BY <1>1
<1> QED
  BY <1>2, <1>3

LEMMA DivMod ==
  ASSUME NEW n \in Nat \ {0}, NEW p \in Nat
  PROVE  \E q \in Nat, r \in 0..(n - 1) : r = p % n /\ p = q * n + r
<1> DEFINE q == p \div n
           r == p % n
<1>1. q \in Nat /\ r \in 0..(n - 1)
  OBVIOUS
<1>2. r = p - n * q
  OBVIOUS
<1> HIDE DEF q, r
<1>3. n * q = q * n /\ q * n \in Nat
  BY <1>1
<1>4. p = q * n + r
  BY <1>1, <1>2, <1>3
<1> QED
  <2>1. r = p % n
    BY DEF r
  <2> QED
    BY <1>1, <1>4, <2>1

LEMMA OneRemainder ==
  ASSUME NEW n \in Nat \ {0}, NEW a \in Nat, NEW b \in Nat,
         NEW x \in 0..(n - 1), NEW y \in 0..(n - 1), a * n + x = b * n + y
  PROVE  x = y
<1>1. a * n \in Nat /\ b * n \in Nat
  OBVIOUS
<1>2. CASE a < b
  BY <1>1, <1>2, NextBlock
<1>3. CASE b < a
  BY <1>1, <1>3, NextBlock
<1>4. CASE a = b
  BY <1>1, <1>4
<1> QED
  BY <1>2, <1>3, <1>4

LEMMA ModNext ==
  ASSUME NEW n \in Nat \ {0}, NEW p \in Nat
  PROVE  /\ p % n \in 0..(n - 1)
         /\ (p + 1) % n = IF (p % n) + 1 = n THEN 0 ELSE (p % n) + 1
<1>1. PICK q \in Nat, r \in 0..(n - 1) : r = p % n /\ p = q * n + r
  BY DivMod
<1>2. PICK Q \in Nat, R \in 0..(n - 1) : R = (p + 1) % n /\ p + 1 = Q * n + R
  BY DivMod
<1>3. CASE r + 1 = n
  <2>1. (q + 1) * n + 0 = Q * n + R
    <3>1. (q + 1) * n = q * n + n
      BY <1>1
    <3>2. q * n \in Nat /\ Q * n \in Nat
      BY <1>1, <1>2
    <3> QED
      BY <1>1, <1>2, <1>3, <3>1, <3>2
  <2>2. q + 1 \in Nat /\ 0 \in 0..(n - 1)
    BY <1>1
  <2>3. R = 0
    BY <2>1, <2>2, OneRemainder
  <2> QED
    BY <1>1, <1>2, <1>3, <2>3
<1>4. CASE r + 1 # n
  <2>1. q * n + (r + 1) = Q * n + R
    <3>1. q * n \in Nat /\ Q * n \in Nat
      BY <1>1, <1>2
    <3> QED
      BY <1>1, <1>2, <3>1
  <2>2. r + 1 \in 0..(n - 1)
    BY <1>4
  <2>3. R = r + 1
    BY <2>1, <2>2, OneRemainder
  <2> QED
    BY <1>1, <1>2, <1>4, <2>3
<1> QED
  BY <1>1, <1>3, <1>4

-----------------------------------------------------------------------------
LEMMA ConstantFacts ==
  /\ MaxConns \in Nat /\ MaxTime \in Nat /\ StartTime \in 0..MaxTime
  /\ SerialRange \in Nat /\ IdWidth \in Nat \ {0}
  /\ Main \in Threads
  /\ Workers \in Seq(Threads) /\ Len(Workers) \in Nat
  /\ \A i \in 1..Len(Workers) : Workers[i] \in Threads \ {Main}
  /\ \A i, j \in 1..Len(Workers) : Workers[i] = Workers[j] => i = j
<1> DEFINE W == {Workers[i] : i \in DOMAIN Workers} \ {Main}
<1>1. Workers \in Seq(W)
  BY ServerAssumption
<1>2. W \subseteq Threads \ {Main} /\ Main \in Threads
  BY DEF Threads
<1> HIDE DEF W
<1>3. /\ Len(Workers) \in Nat /\ DOMAIN Workers = 1..Len(Workers)
      /\ \A i \in 1..Len(Workers) : Workers[i] \in W
  BY <1>1
<1>4. Workers \in Seq(Threads)
  BY <1>1, <1>2
<1>5. \A i, j \in 1..Len(Workers) : Workers[i] = Workers[j] => i = j
  BY <1>3, ServerAssumption
<1>6. /\ MaxConns \in Nat /\ MaxTime \in Nat /\ StartTime \in 0..MaxTime
      /\ SerialRange \in Nat /\ IdWidth \in Nat \ {0}
  BY ServerAssumption
<1> QED
  BY <1>2, <1>3, <1>4, <1>5, <1>6

LEMMA PickedIsThread ==
  ASSUME picks \in Nat
  PROVE  PickEventLoop \in Threads
<1>1. CASE Workers = <<>>
  BY <1>1, ConstantFacts DEF PickEventLoop
<1>2. CASE Workers # <<>>
  <2>1. Len(Workers) \in Nat \ {0}
    BY <1>2, ConstantFacts
  <2>2. PICK r \in 0..(Len(Workers) - 1) : r = picks % Len(Workers)
    BY <2>1, ModNext
  <2>3. r + 1 \in 1..Len(Workers) /\ PickEventLoop = Workers[r + 1]
    BY <1>2, <2>1, <2>2 DEF PickEventLoop
  <2> QED
    BY <2>3, ConstantFacts
<1> QED
  BY <1>1, <1>2

(* Queues of functors.                                                     *)
LEMMA Posted ==
  ASSUME NEW q \in Seq(Conns \cup {0}), NEW f \in Conns \cup {0},
         NoRepeat(q), f \in Conns => ~Has(q, f)
  PROVE  /\ Post(q, f) \in Seq(Conns \cup {0})
         /\ NoRepeat(Post(q, f))
         /\ \A c \in Conns : Has(Post(q, f), c) <=> Has(q, c) \/ c = f
<1>1. /\ Post(q, f) \in Seq(Conns \cup {0})
      /\ Len(q) \in Nat /\ Len(Post(q, f)) = Len(q) + 1
      /\ \A i \in 1..Len(q) : Post(q, f)[i] = q[i] /\ q[i] \in Conns \cup {0}
      /\ Post(q, f)[Len(q) + 1] = f
  BY DEF Post
<1> DEFINE p == Post(q, f)
<1> HIDE DEF p
<1>2. /\ Len(p) = Len(q) + 1
      /\ \A i \in 1..Len(q) : i \in 1..Len(p) /\ p[i] = q[i]
      /\ Len(q) + 1 \in 1..Len(p) /\ p[Len(q) + 1] = f
      /\ \A i \in 1..Len(p) : i \in 1..Len(q) \/ i = Len(q) + 1
  BY <1>1 DEF p
<1>3. NoRepeat(p)
  <2> SUFFICES ASSUME NEW i \in 1..Len(p), NEW j \in 1..Len(p),
                      p[i] = p[j], p[i] # 0
               PROVE  i = j
    BY DEF NoRepeat
  <2>1. CASE i \in 1..Len(q) /\ j \in 1..Len(q)
    BY <1>2, <2>1 DEF NoRepeat
  <2>2. CASE i \in 1..Len(q) /\ j = Len(q) + 1
    BY <1>1, <1>2, <2>2 DEF Has
  <2>3. CASE j \in 1..Len(q) /\ i = Len(q) + 1
    BY <1>1, <1>2, <2>3 DEF Has
  <2> QED
    BY <1>2, <2>1, <2>2, <2>3
<1>4. \A c \in Conns : Has(p, c) <=> Has(q, c) \/ c = f
  BY <1>2 DEF Has
<1> QED
  BY <1>1, <1>3, <1>4 DEF p

LEMMA Taken ==
  ASSUME NEW q \in Seq(Conns \cup {0}), q # <<>>, NoRepeat(q)
  PROVE  /\ Tail(q) \in Seq(Conns \cup {0}) /\ Head(q) \in Conns \cup {0}
         /\ NoRepeat(Tail(q))
         /\ \A c \in Conns : Has(Tail(q), c) => Has(q, c) /\ c # Head(q)
         /\ Has(q, Head(q))
<1>1. /\ Tail(q) \in Seq(Conns \cup {0})
      /\ Len(q) \in Nat \ {0} /\ Len(Tail(q)) = Len(q) - 1
      /\ \A i \in 1..Len(Tail(q)) : i + 1 \in 1..Len(q) /\ Tail(q)[i] = q[i + 1]
      /\ Head(q) = q[1] /\ 1 \in 1..Len(q) /\ q[1] \in Conns \cup {0}
  OBVIOUS
<1> DEFINE p == Tail(q)
<1> HIDE DEF p
<1>2. /\ Len(p) \in Nat
      /\ \A i \in 1..Len(p) : i + 1 \in 1..Len(q) /\ i + 1 # 1 /\ p[i] = q[i + 1]
  BY <1>1 DEF p
<1>3. NoRepeat(p)
  <2> SUFFICES ASSUME NEW i \in 1..Len(p), NEW j \in 1..Len(p),
                      p[i] = p[j], p[i] # 0
               PROVE  i = j
    BY DEF NoRepeat
  <2>1. i + 1 = j + 1
    BY <1>2 DEF NoRepeat
  <2> QED
    BY <2>1
<1>4. \A c \in Conns : Has(p, c) => Has(q, c) /\ c # Head(q)
  <2> SUFFICES ASSUME NEW c \in Conns, NEW i \in 1..Len(p), p[i] = c
               PROVE  Has(q, c) /\ c # Head(q)
    BY DEF Has
  <2>1. c # 0
    BY ConstantFacts DEF Conns
  <2>2. q[i + 1] = c /\ i + 1 \in 1..Len(q) /\ i + 1 # 1
    BY <1>2
  <2> QED
    BY <1>1, <2>1, <2>2 DEF Has, NoRepeat
<1> QED
  BY <1>1, <1>3, <1>4 DEF Has, p

-----------------------------------------------------------------------------
(* What each part of the invariant depends on.                             *)
LEMMA IdsKept ==
  ASSUME IdsGrow, Types, now' \in Int, now <= now',
         UNCHANGED <<curTime, serial, accepted, id, crowded>>
  PROVE  IdsGrow'
<1>1. now \in Int /\ curTime \in Int
  BY ConstantFacts DEF Types
<1>2. curTime' <= now'
  BY <1>1 DEF IdsGrow
<1>3. LastId' = LastId /\ Accepted' = Accepted
  BY DEF LastId, Accepted
<1> QED
  BY <1>2, <1>3, Zenon DEF IdsGrow

LEMMA MapKept ==
  ASSUME MapLive, UNCHANGED <<state, id, connections>>
  PROVE  MapLive'
  BY DEF MapLive

LEMMA PhasesKept ==
  ASSUME Phases, UNCHANGED <<state, loopOf, accepted, queue, pc, arg>>
  PROVE  Phases'
  BY DEF Phases, Inserting, Posting, Starting, Closing, Waits, Accepted

LEMMA OneStartKept ==
  ASSUME OneStart, UNCHANGED <<queue, pc, arg>>
  PROVE  OneStart'
  BY DEF OneStart, Posting, Starting, Waits

(* What connections_ holds is null or a connection that lives.             *)
LEMMA HeldLives ==
  ASSUME Types, MapLive, NEW k \in DOMAIN connections, connections[k] # 0
  PROVE  /\ connections[k] \in Conns /\ state[connections[k]] \in Alive
         /\ id[connections[k]] = k
<1>1. connections[k] \in 0..MaxConns
  BY DEF Types
<1>2. connections[k] \in Conns
  BY <1>1, ConstantFacts DEF Conns
<1> QED
  BY <1>2 DEF MapLive

LEMMA InitStep == Init => IInv
<1> SUFFICES ASSUME Init PROVE IInv
  OBVIOUS
<1>1. Types
  <2>1. /\ now \in StartTime..MaxTime /\ curTime \in -1..MaxTime
        /\ serial \in Nat /\ picks \in 0..MaxConns
        /\ accepted \in 0..MaxConns /\ backlog \in 0..MaxConns
    BY ConstantFacts DEF Init
  <2>2. /\ id \in [Conns -> Nat] /\ loopOf \in [Conns -> Threads]
        /\ state \in [Conns -> {"none", "stored", "started", "closed"}]
        /\ queue \in [Threads -> Seq(Conns \cup {0})]
        /\ pc \in [Threads -> {"idle", "post", "overwritten"} \cup MapOps]
        /\ arg \in [Threads -> Nat]
    BY ConstantFacts DEF Init
  <2> QED
    BY <2>1, <2>2 DEF Init, Types
<1>2. Counted /\ IdsGrow
  <2>1. Accepted = {}
    BY DEF Init, Accepted
  <2> QED
    BY <2>1, ConstantFacts DEF Init, Counted, IdsGrow
<1>3. MainOnly /\ Phases
  BY ConstantFacts DEF Init, MainOnly, Phases, Inserting, Posting, Starting,
     Closing, Waits, Has, Accepted
<1>4. OneStart /\ MapLive
  BY ConstantFacts DEF Init, OneStart, NoRepeat, Posting, Starting, Waits, Has,
     MapLive, Alive
<1> QED
  BY <1>1, <1>2, <1>3, <1>4 DEF IInv

-----------------------------------------------------------------------------
(* The steps, one lemma for each action.                                   *)
LEMMA ClientConnectsStep ==
  ASSUME IInv, ClientConnects
  PROVE  IInv'
<1>1. Types' /\ Counted'
  BY ConstantFacts DEF IInv, Types, Counted, ClientConnects, uidVars, connVars
<1>2. UNCHANGED <<now, curTime, serial, crowded, accepted, id, loopOf, state,
                  connections, queue, pc, arg>>
  BY DEF ClientConnects, uidVars, connVars
<1>3. MainOnly'
  BY <1>2 DEF IInv, MainOnly
<1>4. now' \in Int /\ now <= now'
  BY <1>2, ConstantFacts DEF IInv, Types
<1> QED
  BY <1>1, <1>2, <1>3, <1>4, IdsKept, MapKept, PhasesKept, OneStartKept DEF IInv

LEMMA ListenStep ==
  ASSUME IInv, Listen
  PROVE  IInv'
<1>1. UNCHANGED <<now, curTime, serial, crowded, accepted, id, loopOf, state,
                  connections, queue, pc, arg, picks, backlog>>
  BY DEF Listen, uidVars, connVars
<1>2. Types' /\ Counted' /\ MainOnly'
  BY <1>1 DEF IInv, Types, Counted, MainOnly, Listen
<1>3. now' \in Int /\ now <= now'
  BY <1>1, ConstantFacts DEF IInv, Types
<1> QED
  BY <1>1, <1>2, <1>3, IdsKept, MapKept, PhasesKept, OneStartKept DEF IInv

LEMMA TickStep ==
  ASSUME IInv, Tick
  PROVE  IInv'
<1>1. UNCHANGED <<curTime, serial, crowded, accepted, id, loopOf, state, acceptor,
                  connections, queue, pc, arg, picks, backlog>>
  BY DEF Tick, connVars
<1>2. now \in StartTime..MaxTime /\ now < MaxTime /\ now' = now + 1
  BY DEF IInv, Types, Tick
<1>3. now' \in StartTime..MaxTime /\ now' \in Int /\ now <= now'
  BY <1>2, ConstantFacts
<1>4. Types' /\ Counted' /\ MainOnly'
  BY <1>1, <1>3 DEF IInv, Types, Counted, MainOnly
<1> QED
  BY <1>1, <1>3, <1>4, IdsKept, MapKept, PhasesKept, OneStartKept DEF IInv

LEMMA AcceptStep ==
  ASSUME IInv, Accept
  PROVE  IInv'
<1>1. UNCHANGED <<now, curTime, serial, crowded, accepted, id, loopOf, state,
                  connections, pc, arg, picks, backlog>>
  BY DEF Accept, uidVars, connVars
<1>2. /\ acceptor' = "posted"
      /\ queue' = [queue EXCEPT ![Main] = Post(queue[Main], 0)]
  BY DEF Accept
<1>3. queue \in [Threads -> Seq(Conns \cup {0})] /\ Main \in Threads
  BY ConstantFacts DEF IInv, Types
<1>4. LET p == Post(queue[Main], 0)
      IN  /\ p \in Seq(Conns \cup {0}) /\ NoRepeat(p)
          /\ \A c \in Conns : Has(p, c) <=> Has(queue[Main], c)
  <2>1. queue[Main] \in Seq(Conns \cup {0}) /\ NoRepeat(queue[Main])
    BY <1>3 DEF IInv, OneStart
  <2>2. 0 \notin Conns
    BY ConstantFacts DEF Conns
  <2> QED
    BY <2>1, <2>2, Posted
<1>5. /\ queue' \in [Threads -> Seq(Conns \cup {0})]
      /\ \A t \in Threads : NoRepeat(queue'[t])
      /\ \A t \in Threads, c \in Conns : Has(queue'[t], c) <=> Has(queue[t], c)
  BY <1>2, <1>3, <1>4 DEF IInv, OneStart
<1>6. \A t \in Threads, c \in Conns : Waits(t, c)' <=> Waits(t, c)
  BY <1>5 DEF Waits
<1>7. Types' /\ Counted' /\ MainOnly'
  BY <1>1, <1>2, <1>5 DEF IInv, Types, Counted, MainOnly
<1>8. Phases'
  BY <1>1, <1>6 DEF IInv, Phases, Inserting, Posting, Starting, Closing, Accepted
<1>9. OneStart'
  BY <1>1, <1>5, <1>6 DEF IInv, OneStart, Posting, Starting
<1>10. now' \in Int /\ now <= now'
  BY <1>1, ConstantFacts DEF IInv, Types
<1> QED
  BY <1>1, <1>7, <1>8, <1>9, <1>10, IdsKept, MapKept DEF IInv

LEMMA WatcherStartStep ==
  ASSUME IInv, WatcherStart
  PROVE  IInv'
<1>1. UNCHANGED <<now, curTime, serial, crowded, accepted, id, loopOf, state,
                  connections, pc, arg, picks, backlog>>
  BY DEF WatcherStart, uidVars, connVars
<1>2. /\ acceptor' = "watched" /\ queue[Main] # <<>>
      /\ queue' = [queue EXCEPT ![Main] = Tail(queue[Main])]
  BY DEF WatcherStart
<1>3. queue \in [Threads -> Seq(Conns \cup {0})] /\ Main \in Threads
  BY ConstantFacts DEF IInv, Types
<1>4. LET p == Tail(queue[Main])
      IN  /\ p \in Seq(Conns \cup {0}) /\ NoRepeat(p)
          /\ \A c \in Conns : Has(p, c) => Has(queue[Main], c)
  <2>1. queue[Main] \in Seq(Conns \cup {0}) /\ NoRepeat(queue[Main])
    BY <1>3 DEF IInv, OneStart
  <2> QED
    BY <1>2, <2>1, Taken
<1>5. /\ queue' \in [Threads -> Seq(Conns \cup {0})]
      /\ \A t \in Threads : NoRepeat(queue'[t])
      /\ \A t \in Threads, c \in Conns : Has(queue'[t], c) => Has(queue[t], c)
  BY <1>2, <1>3, <1>4 DEF IInv, OneStart
<1>6. \A t \in Threads, c \in Conns : Waits(t, c)' => Waits(t, c)
  BY <1>5 DEF Waits
<1>7. Types' /\ Counted' /\ MainOnly'
  BY <1>1, <1>2, <1>5 DEF IInv, Types, Counted, MainOnly
<1>8. Phases'
  BY <1>1, <1>6 DEF IInv, Phases, Inserting, Posting, Starting, Closing, Accepted
<1>9. OneStart'
  BY <1>1, <1>5, <1>6 DEF IInv, OneStart, Posting, Starting
<1>10. now' \in Int /\ now <= now'
  BY <1>1, ConstantFacts DEF IInv, Types
<1> QED
  BY <1>1, <1>7, <1>8, <1>9, <1>10, IdsKept, MapKept DEF IInv

(* The next id is larger than the last one: in the same second by the      *)
(* serial, in a later one because all serials of a second fit below the    *)
(* next stamp.                                                             *)
LEMMA NextIdIsLarger ==
  ASSUME IInv, ~crowded, NextSerial <= SerialRange, accepted # 0
  PROVE  LastId < GenerateSerialID(now)
<1>1. /\ curTime \in Nat /\ now \in Nat /\ curTime <= now
      /\ serial \in Nat /\ serial <= SerialRange /\ SerialRange \in Nat
  BY ConstantFacts DEF IInv, Types, IdsGrow
<1>2. Stamp(curTime) \in Nat /\ Stamp(now) \in Nat
  BY <1>1, StampGrows
<1>3. Stamp(curTime) * SerialRange \in Nat /\ Stamp(now) * SerialRange \in Nat
  BY <1>1, <1>2
<1>4. CASE now = curTime
  BY <1>1, <1>3, <1>4 DEF LastId, GenerateSerialID, NextSerial
<1>5. CASE now # curTime
  <2>1. Stamp(curTime) < Stamp(now)
    BY <1>1, <1>5, StampGrows
  <2>2. Stamp(curTime) * SerialRange + SerialRange <= Stamp(now) * SerialRange
    BY <1>1, <1>2, <2>1, NextBlock
  <2> QED
    BY <1>1, <1>3, <1>5, <2>2 DEF LastId, GenerateSerialID, NextSerial
<1> QED
  BY <1>4, <1>5

LEMMA HandleAcceptStep ==
  ASSUME IInv, HandleAccept
  PROVE  IInv'
<1> DEFINE c == accepted + 1
           new == GenerateSerialID(now)
<1>1. /\ pc[Main] = "idle" /\ backlog > 0
      /\ crowded' = (crowded \/ NextSerial > SerialRange)
      /\ id' = [id EXCEPT ![c] = new]
      /\ loopOf' = [loopOf EXCEPT ![c] = PickEventLoop]
      /\ accepted' = c
      /\ arg' = [arg EXCEPT ![Main] = c]
      /\ curTime' = now /\ serial' = NextSerial
      /\ picks' = IF Workers = <<>> THEN picks ELSE picks + 1
      /\ backlog' = backlog - 1
      /\ pc' = [pc EXCEPT ![Main] = "insert"]
      /\ UNCHANGED <<now, acceptor, state, connections, queue>>
  BY DEF HandleAccept, At
<1>2. /\ accepted \in Nat /\ backlog \in Nat /\ picks \in Nat /\ now \in Nat
      /\ accepted + backlog <= MaxConns /\ MaxConns \in Nat
      /\ serial \in Nat /\ SerialRange \in Nat
      /\ now \in StartTime..MaxTime /\ MaxTime \in Nat /\ StartTime \in Nat
      /\ Main \in Threads
  BY ConstantFacts DEF IInv, Types, Counted
<1>3. /\ c \in Conns /\ c \notin Accepted /\ c \in Nat
      /\ Accepted' = Accepted \cup {c}
      /\ Accepted \subseteq Conns
      /\ \A d \in Accepted : d < c
      /\ backlog - 1 \in 0..MaxConns /\ c + (backlog - 1) <= MaxConns
      /\ picks' \in 0..MaxConns
  BY <1>1, <1>2 DEF Conns, Accepted, IInv, Counted
<1>4. NextSerial \in Nat /\ new \in Nat
  <2>1. NextSerial \in Nat
    BY <1>1, <1>2 DEF NextSerial
  <2>2. Stamp(now) \in Nat
    BY <1>2, StampGrows
  <2>3. Stamp(now) * SerialRange \in Nat
    BY <1>2, <2>2
  <2> QED
    BY <2>1, <2>3 DEF GenerateSerialID
<1>5. PickEventLoop \in Threads
  BY <1>2, PickedIsThread
<1>6. /\ id'[c] = new /\ \A d \in Conns \ {c} : id'[d] = id[d]
      /\ \A d \in Conns \ {c} : loopOf'[d] = loopOf[d]
      /\ arg'[Main] = c /\ \A t \in Threads \ {Main} : arg'[t] = arg[t]
      /\ pc'[Main] = "insert" /\ \A t \in Threads \ {Main} : pc'[t] = pc[t]
  BY <1>1, <1>2, <1>3 DEF IInv, Types
<1>7. LastId' = new
  BY <1>1 DEF LastId, GenerateSerialID
<1>8. state[c] = "none" /\ c # 0
  BY <1>1, <1>2, <1>3 DEF IInv, Phases, Inserting
<1> HIDE DEF c, new
<1>9. Types'
  <2>1. /\ now' \in StartTime..MaxTime /\ curTime' \in -1..MaxTime
        /\ serial' \in Nat /\ accepted' \in 0..MaxConns
        /\ backlog' \in 0..MaxConns
    BY <1>1, <1>2, <1>3, <1>4 DEF Conns
  <2>2. /\ id' \in [Conns -> Nat] /\ loopOf' \in [Conns -> Threads]
        /\ arg' \in [Threads -> Nat]
        /\ pc' \in [Threads -> {"idle", "post", "overwritten"} \cup MapOps]
    BY <1>1, <1>3, <1>4, <1>5 DEF IInv, Types, MapOps
  <2> QED
    BY <1>1, <1>3, <2>1, <2>2 DEF IInv, Types
<1>10. Counted'
  <2>1. picks' = IF Workers = <<>> THEN 0 ELSE accepted + 1
    BY <1>1 DEF IInv, Counted
  <2> QED
    BY <1>1, <1>3, <2>1 DEF Counted, c
<1>11. IdsGrow'
  <2>1. /\ curTime' # -1 /\ accepted' # 0 /\ curTime' \in Nat
        /\ curTime' <= now'
    BY <1>1, <1>2, <1>8
  <2>2. ASSUME ~crowded'
        PROVE  /\ serial' <= SerialRange
               /\ \A d \in Accepted' : id'[d] <= LastId'
               /\ \A d, e \in Accepted' : d < e => id'[d] < id'[e]
    <3>1. ~crowded /\ NextSerial <= SerialRange
      <4>1. ~crowded /\ ~(NextSerial > SerialRange)
        BY <1>1, <2>2, Zenon
      <4> QED
        BY <1>2, <1>4, <4>1
    <3>2. \A d \in Accepted : id[d] < new /\ id[d] \in Nat
      <4> SUFFICES ASSUME NEW d \in Accepted PROVE id[d] < new /\ id[d] \in Nat
        OBVIOUS
      <4>1. id[d] <= LastId /\ id[d] \in Nat
        BY <1>3, <3>1 DEF IInv, IdsGrow, Types
      <4>2. accepted # 0
        BY <1>2 DEF Accepted
      <4>3. LastId < new
        BY <1>1, <3>1, <4>2, NextIdIsLarger DEF new
      <4>4. LastId \in Int
        <5>1. curTime \in Nat /\ serial \in Nat /\ SerialRange \in Nat
          BY <1>2, <4>2 DEF IInv, IdsGrow
        <5>2. Stamp(curTime) \in Nat
          BY <5>1, StampGrows
        <5>3. Stamp(curTime) * SerialRange \in Nat
          BY <5>1, <5>2
        <5> QED
          BY <5>1, <5>3 DEF LastId
      <4> QED
        BY <1>4, <4>1, <4>3, <4>4
    <3>3. \A d \in Accepted' : id'[d] <= LastId'
      <4> SUFFICES ASSUME NEW d \in Accepted' PROVE id'[d] <= new
        BY <1>7
      <4>1. CASE d = c
        BY <1>4, <1>6, <4>1
      <4>2. CASE d # c
        <5>1. d \in Accepted /\ d \in Conns \ {c}
          BY <1>3, <4>2
        <5> QED
          BY <1>4, <1>6, <3>2, <5>1
      <4> QED
        BY <4>1, <4>2
    <3>4. \A d, e \in Accepted' : d < e => id'[d] < id'[e]
      <4> SUFFICES ASSUME NEW d \in Accepted', NEW e \in Accepted', d < e
                   PROVE  id'[d] < id'[e]
        OBVIOUS
      <4>1. CASE d \in Accepted /\ e \in Accepted
        BY <1>3, <1>6, <3>1, <4>1 DEF IInv, IdsGrow
      <4>2. CASE d \in Accepted /\ e = c
        BY <1>3, <1>6, <3>2, <4>2
      <4>3. CASE d = c
        <5>1. e <= c /\ e \in Nat
          BY <1>2, <1>3 DEF Accepted
        <5> QED
          BY <1>3, <4>3, <5>1
      <4> QED
        BY <1>3, <4>1, <4>2, <4>3
    <3> QED
      BY <1>1, <3>1, <3>3, <3>4
  <2> QED
    BY <2>1, <2>2 DEF IdsGrow
<1>12. MainOnly'
  BY <1>6 DEF IInv, MainOnly
<1>13. \A t \in Threads, d \in Conns :
          /\ Waits(t, d)' <=> Waits(t, d)
          /\ Starting(t, d)' <=> Starting(t, d)
          /\ Closing(t, d)' <=> Closing(t, d)
          /\ Inserting(d)' <=> d = c
          /\ ~Posting(d)'
          /\ ~Posting(d) /\ ~Inserting(d)
  BY <1>1, <1>6 DEF Waits, Starting, Closing, Inserting, Posting
<1>14. Phases'
  <2>1. \A d \in Conns : state'[d] = "none" <=> d \notin Accepted' \/ Inserting(d)'
    BY <1>1, <1>2, <1>3, <1>8, <1>13 DEF IInv, Phases
  <2>2. \A t \in Threads, d \in Conns :
         /\ Waits(t, d)' => state'[d] = "stored" /\ loopOf'[d] = t
         /\ Starting(t, d)' => state'[d] = "stored" /\ loopOf'[d] = t
         /\ Closing(t, d)' => state'[d] = "started" /\ loopOf'[d] = t
    BY <1>1, <1>6, <1>8, <1>13 DEF IInv, Phases
  <2>3. \A t \in Threads : pc'[t] \in {"lookup", "erase"} => arg'[t] \in Conns
    BY <1>6 DEF IInv, Phases
  <2>4. pc'[Main] \in {"insert", "post"} => arg'[Main] \in Accepted'
    BY <1>3, <1>6
  <2> QED
    BY <1>2, <1>13, <2>1, <2>2, <2>3, <2>4 DEF Phases
<1>15. OneStart'
  BY <1>1, <1>2, <1>13 DEF IInv, OneStart
<1>16. MapLive'
  <2>1. \A d \in Conns : state[d] \in Alive => d \in Conns \ {c}
    BY <1>8 DEF Alive
  <2>2. \A d \in Conns : state'[d] \in Alive =>
           id'[d] \in DOMAIN connections' /\ connections'[id'[d]] = d
    BY <1>1, <1>6, <2>1 DEF IInv, MapLive
  <2>3. \A k \in DOMAIN connections' : connections'[k] # 0 =>
           state'[connections'[k]] \in Alive /\ id'[connections'[k]] = k
    BY <1>1, <1>6, <2>1, HeldLives DEF IInv
  <2> QED
    BY <2>2, <2>3 DEF MapLive
<1> QED
  BY <1>9, <1>10, <1>11, <1>12, <1>14, <1>15, <1>16 DEF IInv

(* Another connection has the id: the behaviour ends.                      *)
LEMMA OverwriteStep ==
  ASSUME IInv, pc[Main] = "insert", pc' = [pc EXCEPT ![Main] = "overwritten"],
         UNCHANGED <<now, curTime, serial, crowded, picks, acceptor, backlog,
                     accepted, id, loopOf, state, connections, queue, arg>>
  PROVE  IInv'
<1>1. /\ Main \in Threads /\ pc'[Main] = "overwritten"
      /\ \A t \in Threads \ {Main} : pc'[t] = pc[t]
      /\ pc' \in [Threads -> {"idle", "post", "overwritten"} \cup MapOps]
  BY ConstantFacts DEF IInv, Types
<1>2. Types' /\ Counted' /\ MainOnly'
  BY <1>1 DEF IInv, Types, Counted, MainOnly
<1>3. \A t \in Threads, d \in Conns :
          /\ Waits(t, d)' <=> Waits(t, d)
          /\ Starting(t, d)' <=> Starting(t, d)
          /\ Closing(t, d)' <=> Closing(t, d)
          /\ Inserting(d)' <=> Inserting(d)
          /\ ~Posting(d)'
  BY <1>1 DEF Waits, Starting, Closing, Inserting, Posting
<1>4. Phases'
  BY <1>1, <1>3 DEF IInv, Phases, Accepted
<1>5. OneStart'
  BY <1>1, <1>3 DEF IInv, OneStart
<1>6. now' \in Int /\ now <= now'
  BY ConstantFacts DEF IInv, Types
<1> QED
  BY <1>2, <1>4, <1>5, <1>6, IdsKept, MapKept DEF IInv

(* The thread that inserts is Main, and with no other connection.          *)
LEMMA InsertStep ==
  ASSUME IInv, Insert
  PROVE  IInv'
<1> DEFINE c == arg[Main]
<1>0. CASE id[c] \in DOMAIN connections /\ connections[id[c]] # 0
  BY <1>0, OverwriteStep DEF Insert, Store, At, uidVars
<1> SUFFICES ASSUME id[c] \in DOMAIN connections => connections[id[c]] = 0
             PROVE  IInv'
  BY <1>0
<1>1. /\ pc[Main] = "insert"
      /\ connections' = Assign(id[c], c)
      /\ state' = [state EXCEPT ![c] = "stored"]
      /\ pc' = [pc EXCEPT ![Main] = "post"]
      /\ UNCHANGED <<now, curTime, serial, crowded, picks, acceptor, backlog, accepted,
                     id, loopOf, queue, arg>>
  BY DEF Insert, Store, At, uidVars
<1>2. /\ Main \in Threads /\ Accepted \subseteq Conns /\ accepted \in Nat
      /\ MaxConns \in Nat /\ accepted <= MaxConns
  BY ConstantFacts DEF IInv, Types, Accepted, Conns
<1>3. c \in Accepted /\ c \in Conns /\ state[c] = "none" /\ c \in 0..MaxConns
      /\ c # 0
  <2>1. c \in Accepted /\ c \in Conns
    BY <1>1, <1>2 DEF IInv, Phases
  <2>2. c \in 0..MaxConns /\ c # 0
    BY <1>2, <2>1 DEF Conns
  <2> QED
    BY <1>1, <2>1, <2>2 DEF IInv, Phases, Inserting
<1>4. /\ state'[c] = "stored" /\ \A d \in Conns \ {c} : state'[d] = state[d]
      /\ pc'[Main] = "post" /\ \A t \in Threads \ {Main} : pc'[t] = pc[t]
  BY <1>1, <1>2, <1>3 DEF IInv, Types
<1>5. /\ DOMAIN connections' = DOMAIN connections \cup {id[c]}
      /\ connections'[id[c]] = c
      /\ \A k \in DOMAIN connections \ {id[c]} : connections'[k] = connections[k]
  BY <1>1 DEF Assign
<1>6. \A d \in Conns : state[d] \in Alive => d # c /\ id[d] # id[c]
  <2> SUFFICES ASSUME NEW d \in Conns, state[d] \in Alive PROVE d # c /\ id[d] # id[c]
    OBVIOUS
  <2>1. d # c
    BY <1>3 DEF Alive
  <2>2. id[d] \in DOMAIN connections /\ connections[id[d]] = d /\ d # 0
    BY <1>2 DEF IInv, MapLive, Conns
  <2> QED
    BY <2>1, <2>2
<1> HIDE DEF c
<1>7. Types'
  <2>1. /\ state' \in [Conns -> {"none", "stored", "started", "closed"}]
        /\ pc' \in [Threads -> {"idle", "post", "overwritten"} \cup MapOps]
        /\ \A k \in DOMAIN connections' : connections'[k] \in 0..MaxConns
    BY <1>1, <1>3, <1>5 DEF IInv, Types
  <2> QED
    BY <1>1, <2>1 DEF IInv, Types
<1>8. Counted' /\ MainOnly'
  BY <1>1, <1>4 DEF IInv, Counted, MainOnly
<1>9. \A t \in Threads, d \in Conns :
          /\ Waits(t, d)' <=> Waits(t, d)
          /\ Starting(t, d)' <=> Starting(t, d)
          /\ Closing(t, d)' <=> Closing(t, d)
          /\ ~Inserting(d)'
          /\ Posting(d)' <=> d = c
          /\ Inserting(d) <=> d = c
  BY <1>1, <1>4 DEF Waits, Starting, Closing, Inserting, Posting, c
<1>10. Phases'
  <2>1. \A d \in Conns : state'[d] = "none" <=> d \notin Accepted' \/ Inserting(d)'
    BY <1>1, <1>2, <1>3, <1>4, <1>9 DEF IInv, Phases, Accepted
  <2>2. \A t \in Threads, d \in Conns :
         /\ Waits(t, d)' => state'[d] = "stored" /\ loopOf'[d] = t
         /\ Starting(t, d)' => state'[d] = "stored" /\ loopOf'[d] = t
         /\ Closing(t, d)' => state'[d] = "started" /\ loopOf'[d] = t
    BY <1>1, <1>3, <1>4, <1>9 DEF IInv, Phases
  <2>3. \A t \in Threads : pc'[t] \in {"lookup", "erase"} => arg'[t] \in Conns
    BY <1>1, <1>4 DEF IInv, Phases
  <2>4. pc'[Main] \in {"insert", "post"} => arg'[Main] \in Accepted'
    BY <1>1, <1>3 DEF c, Accepted
  <2>5. \A d \in Conns : Posting(d)' => state'[d] = "stored"
    BY <1>2, <1>4, <1>9
  <2> QED
    BY <2>1, <2>2, <2>3, <2>4, <2>5 DEF Phases
<1>11. OneStart'
  <2>1. \A t \in Threads : ~Waits(t, c) /\ ~Starting(t, c)
    BY <1>3 DEF IInv, Phases
  <2> QED
    BY <1>1, <1>9, <2>1 DEF IInv, OneStart
<1>12. MapLive'
  <2>1. \A d \in Conns : state'[d] \in Alive =>
           id'[d] \in DOMAIN connections' /\ connections'[id'[d]] = d
    BY <1>1, <1>4, <1>5, <1>6 DEF IInv, MapLive
  <2>2. \A k \in DOMAIN connections' : connections'[k] # 0 =>
           state'[connections'[k]] \in Alive /\ id'[connections'[k]] = k
    <3> SUFFICES ASSUME NEW k \in DOMAIN connections', connections'[k] # 0
                 PROVE  state'[connections'[k]] \in Alive /\ id'[connections'[k]] = k
      OBVIOUS
    <3>1. CASE k = id[c]
      BY <1>1, <1>4, <1>5, <3>1 DEF Alive
    <3>2. CASE k # id[c]
      <4>1. k \in DOMAIN connections /\ connections'[k] = connections[k]
        BY <1>5, <3>2
      <4>2. connections[k] \in Conns /\ state[connections[k]] \in Alive
            /\ id[connections[k]] = k
        BY <3>2, <4>1, HeldLives DEF IInv
      <4> QED
        BY <1>1, <1>3, <1>4, <4>1, <4>2 DEF Alive
    <3> QED
      BY <3>1, <3>2
  <2> QED
    BY <2>1, <2>2 DEF MapLive
<1>13. now' \in Int /\ now <= now'
  BY <1>1, ConstantFacts DEF IInv, Types
<1> QED
  BY <1>1, <1>7, <1>8, <1>10, <1>11, <1>12, <1>13, IdsKept DEF IInv

LEMMA PostStartStep ==
  ASSUME IInv, PostStart
  PROVE  IInv'
<1> DEFINE c == arg[Main]
           w == loopOf[c]
<1>1. /\ pc[Main] = "post"
      /\ queue' = [queue EXCEPT ![w] = Post(queue[w], c)]
      /\ pc' = [pc EXCEPT ![Main] = "idle"]
      /\ UNCHANGED <<now, curTime, serial, crowded, picks, acceptor, backlog, accepted,
                     id, loopOf, state, connections, arg>>
  BY DEF PostStart, At, uidVars, connVars
<1>2. Main \in Threads /\ Accepted \subseteq Conns
  BY ConstantFacts DEF IInv, Types, Accepted, Conns
<1>3. c \in Accepted /\ c \in Conns /\ state[c] = "stored" /\ w \in Threads
  BY <1>1, <1>2 DEF IInv, Phases, Posting, Types
<1>4. \A t \in Threads : ~Waits(t, c) /\ ~Starting(t, c)
  BY <1>1, <1>3 DEF IInv, OneStart, Posting
<1>5. /\ pc'[Main] = "idle" /\ \A t \in Threads \ {Main} : pc'[t] = pc[t]
      /\ pc' \in [Threads -> {"idle", "post", "overwritten"} \cup MapOps]
  BY <1>1, <1>2 DEF IInv, Types
<1> HIDE DEF c, w
<1>6. LET p == Post(queue[w], c)
      IN  /\ p \in Seq(Conns \cup {0}) /\ NoRepeat(p)
          /\ \A d \in Conns : Has(p, d) <=> Has(queue[w], d) \/ d = c
  <2>1. queue[w] \in Seq(Conns \cup {0}) /\ NoRepeat(queue[w]) /\ ~Has(queue[w], c)
    BY <1>3, <1>4 DEF IInv, Types, OneStart, Waits
  <2> QED
    BY <1>3, <2>1, Posted
<1>7. /\ queue' \in [Threads -> Seq(Conns \cup {0})]
      /\ \A t \in Threads : NoRepeat(queue'[t])
      /\ \A t \in Threads, d \in Conns :
            Has(queue'[t], d) <=> Has(queue[t], d) \/ (t = w /\ d = c)
  BY <1>1, <1>3, <1>6 DEF IInv, Types, OneStart
<1>8. Types' /\ Counted' /\ MainOnly'
  BY <1>1, <1>5, <1>7 DEF IInv, Types, Counted, MainOnly
<1>9. \A t \in Threads, d \in Conns :
          /\ Waits(t, d)' <=> Waits(t, d) \/ (t = w /\ d = c)
          /\ Starting(t, d)' <=> Starting(t, d)
          /\ Closing(t, d)' <=> Closing(t, d)
          /\ ~Inserting(d)' /\ ~Inserting(d)
          /\ ~Posting(d)'
  BY <1>1, <1>5, <1>7 DEF Waits, Starting, Closing, Inserting, Posting
<1>10. Phases'
  <2>1. \A d \in Conns : state'[d] = "none" <=> d \notin Accepted' \/ Inserting(d)'
    BY <1>1, <1>2, <1>9 DEF IInv, Phases, Accepted
  <2>2. \A t \in Threads, d \in Conns :
         /\ Waits(t, d)' => state'[d] = "stored" /\ loopOf'[d] = t
         /\ Starting(t, d)' => state'[d] = "stored" /\ loopOf'[d] = t
         /\ Closing(t, d)' => state'[d] = "started" /\ loopOf'[d] = t
    BY <1>1, <1>3, <1>9 DEF IInv, Phases, w
  <2>3. \A t \in Threads : pc'[t] \in {"lookup", "erase"} => arg'[t] \in Conns
    BY <1>1, <1>5 DEF IInv, Phases
  <2> QED
    BY <1>2, <1>5, <1>9, <2>1, <2>2, <2>3 DEF Phases
<1>11. OneStart'
  BY <1>4, <1>7, <1>9 DEF IInv, OneStart
<1>12. now' \in Int /\ now <= now'
  BY <1>1, ConstantFacts DEF IInv, Types
<1> QED
  BY <1>1, <1>8, <1>10, <1>11, <1>12, IdsKept, MapKept DEF IInv

(* GetConnection touches connections_ at one key, and only when the key is *)
(* not there: no connection that lives is affected.                        *)
LEMMA BeginGetStep ==
  ASSUME IInv, NEW k \in Nat, BeginGet(k)
  PROVE  IInv'
<1>1. /\ pc[Main] = "idle"
      /\ pc' = [pc EXCEPT ![Main] = "get"]
      /\ arg' = [arg EXCEPT ![Main] = k]
      /\ UNCHANGED <<now, curTime, serial, crowded, picks, acceptor, backlog, accepted,
                     id, loopOf, state, connections, queue>>
  BY DEF BeginGet, At, uidVars, connVars
<1>2. /\ Main \in Threads
      /\ pc'[Main] = "get" /\ \A t \in Threads \ {Main} : pc'[t] = pc[t]
      /\ arg'[Main] = k /\ \A t \in Threads \ {Main} : arg'[t] = arg[t]
      /\ pc' \in [Threads -> {"idle", "post", "overwritten"} \cup MapOps]
      /\ arg' \in [Threads -> Nat]
  BY <1>1, ConstantFacts DEF IInv, Types, MapOps
<1>3. Types' /\ Counted' /\ MainOnly'
  BY <1>1, <1>2 DEF IInv, Types, Counted, MainOnly
<1>4. \A t \in Threads, d \in Conns :
          /\ Waits(t, d)' <=> Waits(t, d)
          /\ Starting(t, d)' <=> Starting(t, d)
          /\ Closing(t, d)' <=> Closing(t, d)
          /\ ~Inserting(d)' /\ ~Inserting(d)
          /\ ~Posting(d)'
  BY <1>1, <1>2 DEF Waits, Starting, Closing, Inserting, Posting
<1>5. Phases'
  BY <1>1, <1>2, <1>4 DEF IInv, Phases, Accepted
<1>6. OneStart'
  BY <1>1, <1>4 DEF IInv, OneStart
<1>7. now' \in Int /\ now <= now'
  BY <1>1, ConstantFacts DEF IInv, Types
<1> QED
  BY <1>1, <1>3, <1>5, <1>6, <1>7, IdsKept, MapKept DEF IInv

LEMMA EndGetStep ==
  ASSUME IInv, EndGet
  PROVE  IInv'
<1> DEFINE k == Truncate(arg[Main])
<1>1. /\ pc[Main] = "get"
      /\ connections' = IF k \in DOMAIN connections THEN connections
                        ELSE Assign(k, 0)
      /\ pc' = [pc EXCEPT ![Main] = "idle"]
      /\ UNCHANGED <<now, curTime, serial, crowded, picks, acceptor, backlog, accepted,
                     id, loopOf, state, queue, arg>>
  BY DEF EndGet, At, uidVars, connVars
<1>2. /\ Main \in Threads
      /\ pc'[Main] = "idle" /\ \A t \in Threads \ {Main} : pc'[t] = pc[t]
      /\ pc' \in [Threads -> {"idle", "post", "overwritten"} \cup MapOps]
  BY <1>1, ConstantFacts DEF IInv, Types
<1> HIDE DEF k
<1>3. /\ \A j \in DOMAIN connections :
            j \in DOMAIN connections' /\ connections'[j] = connections[j]
      /\ \A j \in DOMAIN connections' :
            j \in DOMAIN connections \/ connections'[j] = 0
  BY <1>1 DEF Assign
<1>4. Types' /\ Counted' /\ MainOnly'
  <2>1. \A j \in DOMAIN connections' : connections'[j] \in 0..MaxConns
    <3> SUFFICES ASSUME NEW j \in DOMAIN connections'
                 PROVE  connections'[j] \in 0..MaxConns
      OBVIOUS
    <3>1. CASE j \in DOMAIN connections
      <4>1. connections[j] \in 0..MaxConns
        BY <3>1 DEF IInv, Types
      <4> QED
        BY <1>3, <3>1, <4>1, Zenon
    <3>2. CASE j \notin DOMAIN connections
      <4>1. connections'[j] = 0
        BY <1>3, <3>2, Zenon
      <4> QED
        BY <4>1, ConstantFacts
    <3> QED
      BY <3>1, <3>2
  <2>2. UNCHANGED <<now, curTime, serial, crowded, picks, acceptor, backlog, accepted,
                    id, loopOf, state, queue, arg>>
    BY <1>1
  <2>3. Types'
    BY <1>2, <2>1, <2>2 DEF IInv, Types
  <2>4. Counted' /\ MainOnly'
    BY <1>2, <2>2 DEF IInv, Counted, MainOnly
  <2> QED
    BY <2>3, <2>4
<1>5. \A t \in Threads, d \in Conns :
          /\ Waits(t, d)' <=> Waits(t, d)
          /\ Starting(t, d)' <=> Starting(t, d)
          /\ Closing(t, d)' <=> Closing(t, d)
          /\ ~Inserting(d)' /\ ~Inserting(d)
          /\ ~Posting(d)'
  BY <1>1, <1>2 DEF Waits, Starting, Closing, Inserting, Posting
<1>6. Phases'
  BY <1>1, <1>2, <1>5 DEF IInv, Phases, Accepted
<1>7. OneStart'
  BY <1>1, <1>5 DEF IInv, OneStart
<1>8. MapLive'
  BY <1>1, <1>3 DEF IInv, MapLive
<1>9. now' \in Int /\ now <= now'
  BY <1>1, ConstantFacts DEF IInv, Types
<1> QED
  BY <1>1, <1>4, <1>6, <1>7, <1>8, <1>9, IdsKept DEF IInv

LEMMA BeginStartStep ==
  ASSUME IInv, NEW t \in Threads, BeginStart(t)
  PROVE  IInv'
<1> DEFINE c == Head(queue[t])
<1>1. /\ pc[t] = "idle" /\ queue[t] # <<>> /\ c # 0
      /\ arg' = [arg EXCEPT ![t] = c]
      /\ queue' = [queue EXCEPT ![t] = Tail(queue[t])]
      /\ pc' = [pc EXCEPT ![t] = "lookup"]
      /\ UNCHANGED <<now, curTime, serial, crowded, picks, acceptor, backlog, accepted,
                     id, loopOf, state, connections>>
  BY DEF BeginStart, At, uidVars, connVars
<1>2. LET p == Tail(queue[t])
      IN  /\ p \in Seq(Conns \cup {0}) /\ NoRepeat(p)
          /\ c \in Conns \cup {0} /\ Has(queue[t], c)
          /\ \A d \in Conns : Has(p, d) => Has(queue[t], d) /\ d # c
  <2>1. queue[t] \in Seq(Conns \cup {0}) /\ NoRepeat(queue[t])
    BY DEF IInv, Types, OneStart
  <2> QED
    BY <1>1, <2>1, Taken
<1>3. c \in Conns /\ c \in Nat /\ Waits(t, c)
  BY <1>1, <1>2 DEF Waits, Conns
<1>4. state[c] = "stored" /\ loopOf[c] = t /\ ~Posting(c)
  BY <1>3 DEF IInv, Phases, OneStart
<1>5. /\ pc'[t] = "lookup" /\ \A s \in Threads \ {t} : pc'[s] = pc[s]
      /\ arg'[t] = c /\ \A s \in Threads \ {t} : arg'[s] = arg[s]
      /\ pc' \in [Threads -> {"idle", "post", "overwritten"} \cup MapOps]
      /\ arg' \in [Threads -> Nat]
  BY <1>1, <1>3 DEF IInv, Types, MapOps
<1> HIDE DEF c
<1>6. /\ queue' \in [Threads -> Seq(Conns \cup {0})]
      /\ \A s \in Threads : NoRepeat(queue'[s])
      /\ \A s \in Threads, d \in Conns :
            Has(queue'[s], d) => Has(queue[s], d) /\ ~(s = t /\ d = c)
  BY <1>1, <1>2 DEF IInv, Types, OneStart
<1>7. Types' /\ Counted' /\ MainOnly'
  BY <1>1, <1>5, <1>6 DEF IInv, Types, Counted, MainOnly
<1>8. \A s \in Threads, d \in Conns :
          /\ Waits(s, d)' => Waits(s, d) /\ ~(s = t /\ d = c)
          /\ Starting(s, d)' <=> IF s = t THEN d = c ELSE Starting(s, d)
          /\ Closing(s, d)' => Closing(s, d)
          /\ Inserting(d)' <=> Inserting(d)
          /\ Posting(d)' <=> Posting(d)
  BY <1>1, <1>5, <1>6, ConstantFacts
     DEF Waits, Starting, Closing, Inserting, Posting
<1>9. Phases'
  <2>1. \A d \in Conns : state'[d] = "none" <=> d \notin Accepted' \/ Inserting(d)'
    BY <1>1, <1>8 DEF IInv, Phases, Accepted
  <2>2. \A s \in Threads, d \in Conns :
         /\ Waits(s, d)' => state'[d] = "stored" /\ loopOf'[d] = s
         /\ Starting(s, d)' => state'[d] = "stored" /\ loopOf'[d] = s
         /\ Closing(s, d)' => state'[d] = "started" /\ loopOf'[d] = s
    BY <1>1, <1>4, <1>8 DEF IInv, Phases
  <2>3. \A s \in Threads : pc'[s] \in {"lookup", "erase"} => arg'[s] \in Conns
    BY <1>3, <1>5 DEF IInv, Phases
  <2>4. pc'[Main] \in {"insert", "post"} => arg'[Main] \in Accepted'
    BY <1>1, <1>5, ConstantFacts DEF IInv, Phases, Accepted
  <2>5. \A d \in Conns : Posting(d)' => state'[d] = "stored"
    BY <1>1, <1>8 DEF IInv, Phases
  <2> QED
    BY <2>1, <2>2, <2>3, <2>4, <2>5 DEF Phases
<1>10. OneStart'
  <2>1. \A s \in Threads, d \in Conns : ~(Waits(s, d)' /\ Starting(s, d)')
    BY <1>8 DEF IInv, OneStart
  <2>2. \A s \in Threads, d \in Conns :
           Posting(d)' => ~Waits(s, d)' /\ ~Starting(s, d)'
    BY <1>4, <1>8 DEF IInv, OneStart
  <2> QED
    BY <1>6, <2>1, <2>2 DEF OneStart
<1>11. now' \in Int /\ now <= now'
  BY <1>1, ConstantFacts DEF IInv, Types
<1> QED
  BY <1>1, <1>7, <1>9, <1>10, <1>11, IdsKept, MapKept DEF IInv

(* connections_[serial_id] is the connection whose Start it is.            *)
LEMMA FoundIsIt ==
  ASSUME IInv, NEW t \in Threads, pc[t] = "lookup"
  PROVE  arg[t] \in Conns /\ state[arg[t]] = "stored" /\ Found(t) = arg[t]
<1>1. arg[t] \in Conns
  BY DEF IInv, Phases
<1>2. state[arg[t]] = "stored"
  BY <1>1 DEF IInv, Phases, Starting
<1>3. connections[id[arg[t]]] = arg[t]
  BY <1>1, <1>2 DEF IInv, MapLive, Alive
<1> QED
  BY <1>1, <1>2, <1>3 DEF Found

LEMMA EndStartStep ==
  ASSUME IInv, NEW t \in Threads, EndStart(t)
  PROVE  IInv'
<1> DEFINE c == arg[t]
<1>1. pc[t] = "lookup"
  BY DEF EndStart, At
<1>2. c \in Conns /\ state[c] = "stored" /\ Found(t) = c
  BY <1>1, FoundIsIt
<1>3. /\ state' = [state EXCEPT ![c] = "started"]
      /\ pc' = [pc EXCEPT ![t] = "idle"]
      /\ UNCHANGED <<now, curTime, serial, crowded, picks, acceptor, backlog, accepted,
                     id, loopOf, connections, queue, arg>>
  BY <1>2 DEF EndStart, uidVars
<1>4. /\ pc'[t] = "idle" /\ \A s \in Threads \ {t} : pc'[s] = pc[s]
      /\ state'[c] = "started" /\ \A d \in Conns \ {c} : state'[d] = state[d]
      /\ pc' \in [Threads -> {"idle", "post", "overwritten"} \cup MapOps]
      /\ state' \in [Conns -> {"none", "stored", "started", "closed"}]
  BY <1>2, <1>3 DEF IInv, Types
<1>5. Types' /\ Counted' /\ MainOnly'
  BY <1>3, <1>4 DEF IInv, Types, Counted, MainOnly
<1>6. /\ Starting(t, c) /\ loopOf[c] = t /\ ~Posting(c)
      /\ \A s \in Threads : ~Waits(s, c)
      /\ \A s \in Threads \ {t} : ~Starting(s, c)
      /\ \A s \in Threads : ~Closing(s, c)
  <2>1. Starting(t, c)
    BY <1>1 DEF Starting
  <2>2. loopOf[c] = t /\ \A s \in Threads : ~Closing(s, c)
    BY <1>2, <2>1 DEF IInv, Phases
  <2>3. \A s \in Threads \ {t} : ~Starting(s, c) /\ ~Waits(s, c)
    BY <1>2, <2>2 DEF IInv, Phases
  <2> QED
    BY <1>2, <2>1, <2>2, <2>3 DEF IInv, OneStart
<1>7. \A s \in Threads, d \in Conns :
          /\ Waits(s, d)' <=> Waits(s, d)
          /\ Starting(s, d)' <=> Starting(s, d) /\ s # t
          /\ Closing(s, d)' <=> Closing(s, d)
          /\ Inserting(d)' <=> Inserting(d)
          /\ Posting(d)' <=> Posting(d)
  BY <1>1, <1>3, <1>4, ConstantFacts
     DEF Waits, Starting, Closing, Inserting, Posting
<1> HIDE DEF c
<1>8. Phases'
  <2>1. \A d \in Conns : state'[d] = "none" <=> d \notin Accepted' \/ Inserting(d)'
    BY <1>2, <1>3, <1>4, <1>7, ConstantFacts DEF IInv, Phases, Accepted
  <2>2. \A s \in Threads, d \in Conns :
         /\ Waits(s, d)' => state'[d] = "stored" /\ loopOf'[d] = s
         /\ Starting(s, d)' => state'[d] = "stored" /\ loopOf'[d] = s
         /\ Closing(s, d)' => state'[d] = "started" /\ loopOf'[d] = s
    BY <1>3, <1>4, <1>6, <1>7 DEF IInv, Phases
  <2>3. \A s \in Threads : pc'[s] \in {"lookup", "erase"} => arg'[s] \in Conns
    BY <1>3, <1>4 DEF IInv, Phases
  <2>4. pc'[Main] \in {"insert", "post"} => arg'[Main] \in Accepted'
    BY <1>3, <1>4, ConstantFacts DEF IInv, Phases, Accepted
  <2>5. \A d \in Conns : Posting(d)' => state'[d] = "stored"
    BY <1>4, <1>6, <1>7, ConstantFacts DEF IInv, Phases
  <2> QED
    BY <2>1, <2>2, <2>3, <2>4, <2>5 DEF Phases
<1>9. OneStart'
  BY <1>3, <1>7 DEF IInv, OneStart
<1>10. MapLive'
  <2>1. \A d \in Conns : state'[d] \in Alive <=> state[d] \in Alive
    BY <1>2, <1>4 DEF Alive
  <2>2. \A k \in DOMAIN connections : connections[k] # 0 => connections[k] \in Conns
    BY ConstantFacts DEF IInv, Types, Conns
  <2> QED
    BY <1>3, <2>1, <2>2 DEF IInv, MapLive
<1>11. now' \in Int /\ now <= now'
  BY <1>3, ConstantFacts DEF IInv, Types
<1> QED
  BY <1>3, <1>5, <1>8, <1>9, <1>10, <1>11, IdsKept DEF IInv

LEMMA BeginCloseStep ==
  ASSUME IInv, NEW t \in Threads, NEW c \in Conns, BeginClose(t, c)
  PROVE  IInv'
<1>1. /\ pc[t] = "idle" /\ loopOf[c] = t /\ state[c] = "started"
      /\ arg' = [arg EXCEPT ![t] = c]
      /\ pc' = [pc EXCEPT ![t] = "erase"]
      /\ UNCHANGED <<now, curTime, serial, crowded, picks, acceptor, backlog, accepted,
                     id, loopOf, state, connections, queue>>
  BY DEF BeginClose, At, Watched, uidVars, connVars
<1>2. c \in Nat
  BY ConstantFacts DEF Conns
<1>3. /\ pc'[t] = "erase" /\ \A s \in Threads \ {t} : pc'[s] = pc[s]
      /\ arg'[t] = c /\ \A s \in Threads \ {t} : arg'[s] = arg[s]
      /\ pc' \in [Threads -> {"idle", "post", "overwritten"} \cup MapOps]
      /\ arg' \in [Threads -> Nat]
  BY <1>1, <1>2 DEF IInv, Types, MapOps
<1>4. Types' /\ Counted' /\ MainOnly'
  BY <1>1, <1>3 DEF IInv, Types, Counted, MainOnly
<1>5. \A s \in Threads, d \in Conns :
          /\ Waits(s, d)' <=> Waits(s, d)
          /\ Starting(s, d)' => Starting(s, d)
          /\ Closing(s, d)' <=> IF s = t THEN d = c ELSE Closing(s, d)
          /\ Inserting(d)' <=> Inserting(d)
          /\ Posting(d)' <=> Posting(d)
  BY <1>1, <1>3, ConstantFacts
     DEF Waits, Starting, Closing, Inserting, Posting
<1>6. Phases'
  <2>1. \A d \in Conns : state'[d] = "none" <=> d \notin Accepted' \/ Inserting(d)'
    BY <1>1, <1>5, ConstantFacts DEF IInv, Phases, Accepted
  <2>2. \A s \in Threads, d \in Conns :
         /\ Waits(s, d)' => state'[d] = "stored" /\ loopOf'[d] = s
         /\ Starting(s, d)' => state'[d] = "stored" /\ loopOf'[d] = s
         /\ Closing(s, d)' => state'[d] = "started" /\ loopOf'[d] = s
    BY <1>1, <1>5 DEF IInv, Phases
  <2>3. \A s \in Threads : pc'[s] \in {"lookup", "erase"} => arg'[s] \in Conns
    BY <1>3 DEF IInv, Phases
  <2>4. pc'[Main] \in {"insert", "post"} => arg'[Main] \in Accepted'
    BY <1>1, <1>3, ConstantFacts DEF IInv, Phases, Accepted
  <2>5. \A d \in Conns : Posting(d)' => state'[d] = "stored"
    BY <1>1, <1>5, ConstantFacts DEF IInv, Phases
  <2> QED
    BY <2>1, <2>2, <2>3, <2>4, <2>5 DEF Phases
<1>7. OneStart'
  BY <1>1, <1>5 DEF IInv, OneStart
<1>8. now' \in Int /\ now <= now'
  BY <1>1, ConstantFacts DEF IInv, Types
<1> QED
  BY <1>1, <1>4, <1>6, <1>7, <1>8, IdsKept, MapKept DEF IInv

LEMMA EndCloseStep ==
  ASSUME IInv, NEW t \in Threads, EndClose(t)
  PROVE  IInv'
<1> DEFINE c == arg[t]
<1>1. /\ pc[t] = "erase"
      /\ connections' = [k \in DOMAIN connections \ {id[c]} |-> connections[k]]
      /\ state' = [state EXCEPT ![c] = "closed"]
      /\ pc' = [pc EXCEPT ![t] = "idle"]
      /\ UNCHANGED <<now, curTime, serial, crowded, picks, acceptor, backlog, accepted,
                     id, loopOf, queue, arg>>
  BY DEF EndClose, At, ErasedId, uidVars
<1>2. c \in Conns /\ state[c] = "started" /\ loopOf[c] = t
  BY <1>1 DEF IInv, Phases, Closing
<1>3. /\ pc'[t] = "idle" /\ \A s \in Threads \ {t} : pc'[s] = pc[s]
      /\ state'[c] = "closed" /\ \A d \in Conns \ {c} : state'[d] = state[d]
      /\ pc' \in [Threads -> {"idle", "post", "overwritten"} \cup MapOps]
      /\ state' \in [Conns -> {"none", "stored", "started", "closed"}]
  BY <1>1, <1>2 DEF IInv, Types
<1>4. /\ DOMAIN connections' = DOMAIN connections \ {id[c]}
      /\ \A k \in DOMAIN connections' : connections'[k] = connections[k]
  BY <1>1
<1>5. \A s \in Threads, d \in Conns :
          /\ Waits(s, d)' <=> Waits(s, d)
          /\ Starting(s, d)' <=> Starting(s, d)
          /\ Closing(s, d)' <=> Closing(s, d) /\ s # t
          /\ Inserting(d)' <=> Inserting(d)
          /\ Posting(d)' <=> Posting(d)
          /\ ~Waits(s, c) /\ ~Starting(s, c) /\ ~Posting(c)
          /\ s # t => ~Closing(s, c)
  <2>1. \A s \in Threads : /\ ~Waits(s, c) /\ ~Starting(s, c) /\ ~Posting(c)
                           /\ s # t => ~Closing(s, c)
    BY <1>2 DEF IInv, Phases
  <2> QED
    BY <1>1, <1>3, <2>1, ConstantFacts
       DEF Waits, Starting, Closing, Inserting, Posting
<1> HIDE DEF c
<1>6. Types' /\ Counted' /\ MainOnly'
  <2>1. \A k \in DOMAIN connections' : connections'[k] \in 0..MaxConns
    BY <1>4 DEF IInv, Types
  <2> QED
    BY <1>1, <1>3, <2>1 DEF IInv, Types, Counted, MainOnly
<1>7. Phases'
  <2>1. \A d \in Conns : state'[d] = "none" <=> d \notin Accepted' \/ Inserting(d)'
    BY <1>1, <1>2, <1>3, <1>5, ConstantFacts DEF IInv, Phases, Accepted
  <2>2. \A s \in Threads, d \in Conns :
         /\ Waits(s, d)' => state'[d] = "stored" /\ loopOf'[d] = s
         /\ Starting(s, d)' => state'[d] = "stored" /\ loopOf'[d] = s
         /\ Closing(s, d)' => state'[d] = "started" /\ loopOf'[d] = s
    BY <1>1, <1>3, <1>5 DEF IInv, Phases
  <2>3. \A s \in Threads : pc'[s] \in {"lookup", "erase"} => arg'[s] \in Conns
    BY <1>1, <1>3 DEF IInv, Phases
  <2>4. pc'[Main] \in {"insert", "post"} => arg'[Main] \in Accepted'
    BY <1>1, <1>3, ConstantFacts DEF IInv, Phases, Accepted
  <2>5. \A d \in Conns : Posting(d)' => state'[d] = "stored"
    BY <1>3, <1>5, ConstantFacts DEF IInv, Phases
  <2> QED
    BY <2>1, <2>2, <2>3, <2>4, <2>5 DEF Phases
<1>8. OneStart'
  BY <1>1, <1>5 DEF IInv, OneStart
<1>9. MapLive'
  <2>1. id[c] \in DOMAIN connections /\ connections[id[c]] = c
    BY <1>2 DEF IInv, MapLive, Alive
  <2>2. \A d \in Conns : state'[d] \in Alive =>
           id'[d] \in DOMAIN connections' /\ connections'[id'[d]] = d
    BY <1>1, <1>3, <1>4, <2>1 DEF IInv, MapLive, Alive
  <2>3. \A k \in DOMAIN connections' : connections'[k] # 0 =>
           state'[connections'[k]] \in Alive /\ id'[connections'[k]] = k
    <3> SUFFICES ASSUME NEW k \in DOMAIN connections', connections'[k] # 0
                 PROVE  state'[connections'[k]] \in Alive /\ id'[connections'[k]] = k
      OBVIOUS
    <3>1. k \in DOMAIN connections /\ k # id[c] /\ connections'[k] = connections[k]
      BY <1>4
    <3>2. connections[k] \in Conns /\ state[connections[k]] \in Alive
          /\ id[connections[k]] = k
      BY <3>1, HeldLives DEF IInv
    <3>3. connections[k] # c
      BY <3>1, <3>2
    <3> QED
      BY <1>1, <1>3, <3>1, <3>2, <3>3
  <2> QED
    BY <2>2, <2>3 DEF MapLive
<1>10. now' \in Int /\ now <= now'
  BY <1>1, ConstantFacts DEF IInv, Types
<1> QED
  BY <1>1, <1>6, <1>7, <1>8, <1>9, <1>10, IdsKept DEF IInv

LEMMA StutterStep ==
  ASSUME IInv, UNCHANGED vars
  PROVE  IInv'
<1>1. UNCHANGED <<now, curTime, serial, crowded, picks, acceptor, backlog, accepted, id,
                  loopOf, state, connections, queue, pc, arg>>
  BY DEF vars, uidVars, connVars
<1>2. Types' /\ Counted' /\ MainOnly'
  BY <1>1 DEF IInv, Types, Counted, MainOnly
<1>3. now' \in Int /\ now <= now'
  BY <1>1, ConstantFacts DEF IInv, Types
<1> QED
  BY <1>1, <1>2, <1>3, IdsKept, MapKept, PhasesKept, OneStartKept DEF IInv

LEMMA NextStep == IInv /\ [Next]_vars => IInv'
<1> SUFFICES ASSUME IInv, [Next]_vars PROVE IInv'
  OBVIOUS
<1>1. CASE ClientConnects \/ Tick
  BY <1>1, ClientConnectsStep, TickStep
<1>2. CASE ServerStart
  BY <1>2, ListenStep, AcceptStep, WatcherStartStep DEF ServerStart
<1>3. CASE MainStep
  BY <1>3, HandleAcceptStep, InsertStep, PostStartStep DEF MainStep
<1>4. CASE GetStep
  <2>1. CASE EndGet
    BY <2>1, EndGetStep
  <2>2. CASE \E c \in Conns : state[c] # "none" /\ BeginGet(id[c])
    <3>1. PICK c \in Conns : BeginGet(id[c])
      BY <2>2
    <3>2. id[c] \in Nat
      BY DEF IInv, Types
    <3> QED
      BY <3>1, <3>2, BeginGetStep
  <2> QED
    BY <1>4, <2>1, <2>2 DEF GetStep
<1>5. CASE \E t \in Threads : StartStep(t) \/ CloseStep(t)
  <2>1. PICK t \in Threads : StartStep(t) \/ CloseStep(t)
    BY <1>5
  <2>2. CASE StartStep(t)
    BY <2>2, BeginStartStep, EndStartStep DEF StartStep
  <2>3. CASE CloseStep(t)
    BY <2>3, BeginCloseStep, EndCloseStep DEF CloseStep
  <2> QED
    BY <2>1, <2>2, <2>3
<1>6. CASE UNCHANGED vars
  BY <1>6, StutterStep
<1> QED
  BY <1>1, <1>2, <1>3, <1>4, <1>5, <1>6 DEF Next

LEMMA Invariance == Spec => []IInv
  BY InitStep, NextStep, PTL DEF Spec

-----------------------------------------------------------------------------
(* Every variable of the server keeps its type: every loop picked is one   *)
(* of the threads, and what connections_ holds, it holds under its own id. *)
THEOREM TypeCorrect == Spec => []TypeOK
<1>1. IInv => TypeOK
  BY HeldLives DEF IInv, TypeOK, UnderOwnId
<1> QED
  BY <1>1, Invariance, PTL

(* GenerateSerialID never gives an id twice, within a second or across the *)
(* turn of a second or a minute, unless some second had more connections   *)
(* than the serial range.                                                  *)
THEOREM IdsAreUnique == Spec => []UniqueIds
<1>1. IInv => UniqueIds
  <2> SUFFICES ASSUME IInv, NEW c \in Accepted, NEW d \in Accepted, c # d,
                      id[c] = id[d]
               PROVE  crowded
    BY DEF UniqueIds
  <2>1. c \in Conns /\ d \in Conns /\ c \in Nat /\ d \in Nat
    BY ConstantFacts DEF IInv, Types, Accepted, Conns
  <2>2. id[c] \in Nat /\ id[d] \in Nat
    BY <2>1 DEF IInv, Types
  <2>3. CASE c < d
    BY <2>2, <2>3 DEF IInv, IdsGrow
  <2>4. CASE d < c
    BY <2>2, <2>4 DEF IInv, IdsGrow
  <2> QED
    BY <2>1, <2>3, <2>4
<1> QED
  BY <1>1, Invariance, PTL

(* A Start functor, run by another thread than the one that posted it,     *)
(* finds under its id the connection it was posted for.                    *)
THEOREM StartFindsItsConnection == Spec => []StartFindsIts
<1>1. IInv => StartFindsIts
  <2> SUFFICES ASSUME IInv, NEW t \in Threads, NEW c,
                      \/ c \in {queue[t][i] : i \in DOMAIN queue[t]} \ {0}
                      \/ pc[t] = "lookup" /\ c = arg[t]
               PROVE  id[c] \in DOMAIN connections /\ connections[id[c]] = c
    BY DEF StartFindsIts
  <2>1. c \in Conns /\ state[c] = "stored"
    <3>1. CASE pc[t] = "lookup" /\ c = arg[t]
      BY <3>1, FoundIsIt
    <3>2. CASE c \in {queue[t][i] : i \in DOMAIN queue[t]} \ {0}
      <4>1. queue[t] \in Seq(Conns \cup {0})
        BY DEF IInv, Types
      <4>2. PICK i \in 1..Len(queue[t]) : queue[t][i] = c
        BY <3>2, <4>1
      <4>3. c \in Conns
        BY <3>2, <4>1, <4>2
      <4>4. Waits(t, c)
        BY <4>2 DEF Waits, Has
      <4> QED
        BY <4>3, <4>4 DEF IInv, Phases
    <3> QED
      BY <3>1, <3>2
  <2> QED
    BY <2>1 DEF IInv, MapLive, Alive
<1> QED
  BY <1>1, Invariance, PTL

(* connections_ holds exactly the connections that live: none is lost      *)
(* between acceptance and close, none stays behind, although GetConnection *)
(* leaves null entries and ids are looked up truncated.                    *)
THEOREM MapIsExact == Spec => []MapExact
<1>1. IInv => MapExact
  <2> SUFFICES ASSUME IInv PROVE MapExact
    OBVIOUS
  <2>1. ASSUME NEW k \in DOMAIN connections, connections[k] # 0
        PROVE  connections[k] \in Conns /\ state[connections[k]] \in Alive
    BY <2>1, HeldLives DEF IInv
  <2>2. ASSUME NEW c \in Conns, state[c] \in Alive
        PROVE  id[c] \in DOMAIN connections /\ connections[id[c]] = c /\ c # 0
    BY <2>2, ConstantFacts DEF IInv, MapLive, Conns
  <2> QED
    BY <2>1, <2>2 DEF MapExact, Alive
<1> QED
  BY <1>1, Invariance, PTL

-----------------------------------------------------------------------------
(* The load.                                                               *)
Share(w, n) == IsFiniteSet(Given(w)) /\ Cardinality(Given(w)) = n
Extra(i, r) == IF i <= r THEN 1 ELSE 0

LEMMA SharesAre ==
  Shares <=> (Workers # <<>> =>
                 \E q \in Nat : \A i \in 1..Len(Workers) :
                    Share(Workers[i], q + Extra(i, picks % Len(Workers))))
  BY DEF Shares, Share, Extra

LEMMA SharesInit == Init => Shares
<1> SUFFICES ASSUME Init, Workers # <<>> PROVE Shares
  BY DEF Shares
<1> DEFINE n == Len(Workers)
<1>1. n \in Nat \ {0} /\ picks = 0
  BY ConstantFacts DEF Init
<1>2. 0 % n = 0
  BY <1>1
<1>3. \A w : Given(w) = {}
  BY DEF Init, Given, Accepted
<1>4. \A w : Share(w, 0)
  BY <1>3, FS_EmptySet DEF Share
<1>5. \A i \in 1..n : 0 + Extra(i, picks % n) = 0
  BY <1>1, <1>2 DEF Extra
<1> QED
  BY <1>4, <1>5, SharesAre

(* The connection accepted goes to the first worker without an extra one.  *)
LEMMA SharesAccept ==
  ASSUME IInv, Shares, HandleAccept, Workers # <<>>
  PROVE  Shares'
<1> DEFINE n == Len(Workers)
           c == accepted + 1
<1>1. /\ n \in Nat \ {0} /\ picks \in Nat /\ accepted \in Nat
      /\ \A i, j \in 1..n : Workers[i] = Workers[j] => i = j
  BY ConstantFacts DEF IInv, Types
<1>2. PICK r \in 0..(n - 1) : r = picks % n
  BY <1>1, ModNext
<1>3. PickEventLoop = Workers[r + 1] /\ r + 1 \in 1..n
  BY <1>1, <1>2 DEF PickEventLoop
<1>4. picks' = picks + 1 /\ accepted' = c
      /\ loopOf' = [loopOf EXCEPT ![c] = Workers[r + 1]]
  BY <1>3 DEF HandleAccept
<1>5. c \in Conns /\ c \notin Accepted /\ Accepted' = Accepted \cup {c}
      /\ Accepted \subseteq Conns
  <2>1. /\ backlog \in Nat /\ backlog > 0 /\ accepted + backlog <= MaxConns
        /\ MaxConns \in Nat
    BY ConstantFacts DEF HandleAccept, IInv, Types, Counted
  <2> QED
    BY <1>1, <1>4, <2>1 DEF Conns, Accepted
<1>6. loopOf'[c] = Workers[r + 1] /\ \A d \in Accepted : loopOf'[d] = loopOf[d]
  BY <1>4, <1>5 DEF IInv, Types
<1>7. \A i \in 1..n : Given(Workers[i])' = IF i = r + 1 THEN Given(Workers[i]) \cup {c}
                                           ELSE Given(Workers[i])
  BY <1>1, <1>3, <1>5, <1>6 DEF Given
<1>8. PICK q \in Nat : \A i \in 1..n : Share(Workers[i], q + Extra(i, r))
  BY <1>2, SharesAre
<1>9. \A i \in 1..n : /\ IsFiniteSet(Given(Workers[i])')
                      /\ Cardinality(Given(Workers[i])') = q + Extra(i, r + 1)
  <2> SUFFICES ASSUME NEW i \in 1..n
               PROVE  /\ IsFiniteSet(Given(Workers[i])')
                      /\ Cardinality(Given(Workers[i])') = q + Extra(i, r + 1)
    OBVIOUS
  <2>1. CASE i # r + 1
    <3>1. Extra(i, r + 1) = Extra(i, r)
      BY <1>1, <1>2, <2>1 DEF Extra
    <3> QED
      BY <1>7, <1>8, <2>1, <3>1 DEF Share
  <2>2. CASE i = r + 1
    <3>1. Extra(i, r) = 0 /\ Extra(i, r + 1) = 1
      BY <1>1, <1>2, <2>2 DEF Extra
    <3>2. IsFiniteSet(Given(Workers[i])) /\ Cardinality(Given(Workers[i])) = q
          /\ c \notin Given(Workers[i])
      <4>1. q + Extra(i, r) = q
        BY <3>1
      <4>2. Share(Workers[i], q)
        BY <1>8, <4>1
      <4>3. c \notin Given(Workers[i])
        BY <1>5 DEF Given
      <4> QED
        BY <4>2, <4>3 DEF Share
    <3>3. IsFiniteSet(Given(Workers[i]) \cup {c})
          /\ Cardinality(Given(Workers[i]) \cup {c}) = q + 1
      BY <3>2, FS_AddElement
    <3> QED
      BY <1>7, <2>2, <3>1, <3>3
  <2> QED
    BY <2>1, <2>2
<1>10. PICK p \in 0..(n - 1) : p = picks' % n /\ p = IF r + 1 = n THEN 0 ELSE r + 1
  <2>1. (picks + 1) % n = IF r + 1 = n THEN 0 ELSE r + 1
    BY <1>1, <1>2, ModNext
  <2>2. (IF r + 1 = n THEN 0 ELSE r + 1) \in 0..(n - 1)
    BY <1>1, <1>2
  <2> QED
    BY <1>4, <2>1, <2>2, Zenon
<1>11. \E k \in Nat : \A i \in 1..n : q + Extra(i, r + 1) = k + Extra(i, p)
  <2>1. CASE r + 1 = n
    <3>1. \A i \in 1..n : q + Extra(i, r + 1) = (q + 1) + Extra(i, p)
      BY <1>1, <1>10, <2>1 DEF Extra
    <3> QED
      BY <3>1
  <2>2. CASE r + 1 # n
    BY <1>10, <2>2
  <2> QED
    BY <2>1, <2>2
<1>12. PICK k \in Nat : \A i \in 1..n : q + Extra(i, r + 1) = k + Extra(i, p)
  BY <1>11
<1>13. \A i \in 1..n : /\ IsFiniteSet(Given(Workers[i])')
                       /\ Cardinality(Given(Workers[i])')
                            = k + IF i <= picks' % n THEN 1 ELSE 0
  BY <1>9, <1>10, <1>12 DEF Extra
<1> QED
  BY <1>13 DEF Shares

LEMMA SharesKept ==
  ASSUME Shares, UNCHANGED <<accepted, loopOf, picks>>
  PROVE  Shares'
<1>1. \A w : Given(w)' = Given(w)
  BY DEF Given, Accepted
<1> QED
  BY <1>1 DEF Shares

LEMMA SharesStep == IInv /\ Shares /\ [Next]_vars => Shares'
<1> SUFFICES ASSUME IInv, Shares, [Next]_vars PROVE Shares'
  OBVIOUS
<1>1. CASE HandleAccept
  BY <1>1, SharesAccept DEF Shares
<1>2. CASE ~HandleAccept
  <2>1. UNCHANGED <<accepted, loopOf, picks>>
    <3>1. CASE ClientConnects \/ Tick \/ UNCHANGED vars
      BY <3>1 DEF ClientConnects, Tick, vars, uidVars, connVars
    <3>2. CASE ServerStart \/ Insert \/ PostStart
      BY <3>2 DEF ServerStart, Listen, Accept, WatcherStart, Insert, PostStart,
                  uidVars, connVars
    <3>3. CASE GetStep
      BY <3>3 DEF GetStep, BeginGet, EndGet, uidVars, connVars
    <3>4. CASE \E t \in Threads : StartStep(t) \/ CloseStep(t)
      BY <3>4 DEF StartStep, BeginStart, EndStart, CloseStep, BeginClose,
                  EndClose, uidVars, connVars
    <3> QED
      BY <1>2, <3>1, <3>2, <3>3, <3>4 DEF Next, MainStep
  <2> QED
    BY <2>1, SharesKept
<1> QED
  BY <1>1, <1>2

(* Load balancing: whatever the number of loops, none is ever given two    *)
(* connections more than another.                                          *)
THEOREM LoadIsBalanced == Spec => []Balanced
<1>1. Shares => Balanced
  <2> DEFINE given(w) == Cardinality({c \in Accepted : loopOf[c] = w})
             n == Len(Workers)
  <2> SUFFICES ASSUME Shares, NEW v \in Threads \ {Main}, NEW w \in Threads \ {Main}
               PROVE  given(v) - given(w) <= 1
    BY DEF Balanced
  <2>1. PICK i \in 1..n, j \in 1..n : v = Workers[i] /\ w = Workers[j]
    BY ConstantFacts DEF Threads
  <2>2. Workers # <<>> /\ n \in Nat
    BY <2>1, ConstantFacts
  <2>3. PICK q \in Nat : /\ Share(Workers[i], q + Extra(i, picks % n))
                         /\ Share(Workers[j], q + Extra(j, picks % n))
    BY <2>2, SharesAre
  <2>4. Extra(i, picks % n) \in 0..1 /\ Extra(j, picks % n) \in 0..1
    BY DEF Extra
  <2>5. given(v) = q + Extra(i, picks % n) /\ given(w) = q + Extra(j, picks % n)
    BY <2>1, <2>3 DEF Share, Given
  <2> QED
    BY <2>3, <2>4, <2>5
<1> QED
  BY <1>1, Invariance, SharesInit, SharesStep, PTL DEF Spec
=============================================================================
