---------------------------- MODULE ClientProofs ----------------------------
(***************************************************************************)
(* Theorems about Client, for any number of threads, connects and          *)
(* disconnects: no socket is lost unless two Connects met, none is given   *)
(* to two connections, and the Start functor finds its connection behind   *)
(* connection_ unless a Connect came early or a Close came late.           *)
(***************************************************************************)
EXTENDS Client, SequenceTheorems, TLAPS

(* What fd_ holds is the socket opened last.  While the loop is not between *)
(* the callback and the reset it has not been handed over; there it has,    *)
(* unless another Connect has met this one.                                 *)
FdIsLast == fd \in {0, sockets}

Made == \A c \in 1..Len(fdOf) : fdOf[c] <= sockets

NotYetHandedOver == lpc = "idle" => fd = 0 \/ \A c \in 1..Len(fdOf) : fdOf[c] # fd

HandedOverBefore ==
    lpc = "reset" => \/ fd = 0 \/ fd \in overlapped
                     \/ \E c \in 1..Len(fdOf) : fdOf[c] = fd

(* A thread inside Disconnect has read a pointer that is not null.         *)
Held == \A u \in Users : op[u] \in {"disconnect", "close"} => at[u] # 0

Sockets == /\ FdIsLast /\ Made /\ NotYetHandedOver /\ HandedOverBefore
           /\ SocketsAccountedFor /\ Held

(* As long as nothing disturbs the client: a Connect is alone, its functor *)
(* is the last one posted, and there is no connection to disconnect.       *)
ConnectAlone ==
    \A u \in Users : op[u] = "connect" =>
       /\ connection = 0
       /\ \A i \in 1..Len(queue) : queue[i].op # "new"
       /\ \A v \in Users : op[v] = "connect" => v = u

NewIsLast ==
    \A i \in 1..Len(queue) : queue[i].op = "new" =>
       i = Len(queue) /\ connection = 0

(* Nothing that could reset connection_ is ahead of a Start, and its       *)
(* connection is not watched before.                                       *)
StartIsNext ==
    \A i \in 1..Len(queue) : queue[i].op = "start" =>
       i = 1 /\ queue[i].conn = connection /\ connection \notin {0} \cup started

(* While there is a connection, the closes that wait are its own; and none *)
(* but it is watched.                                                      *)
ClosesOwn ==
    \A i \in 1..Len(queue) :
       queue[i].op = "close" /\ connection # 0 => queue[i].conn = connection

OneWatched == started \subseteq {connection}

Undisturbed == ConnectAlone /\ NewIsLast /\ StartIsNext /\ ClosesOwn /\ OneWatched

IInv == TypeOK /\ Sockets /\ (disturbed \/ Undisturbed)

-----------------------------------------------------------------------------
(* The queue of the loop.                                                  *)
LEMMA Posting ==
  ASSUME queue \in Seq(Functor), NEW f \in Functor
  PROVE  /\ Append(queue, f) \in Seq(Functor)
         /\ Len(Append(queue, f)) = Len(queue) + 1
         /\ \A i \in 1..Len(queue) : Append(queue, f)[i] = queue[i]
         /\ Append(queue, f)[Len(queue) + 1] = f
         /\ Len(queue) \in Nat
  OBVIOUS

LEMMA Taking ==
  ASSUME queue \in Seq(Functor), queue # <<>>
  PROVE  /\ Head(queue) = queue[1] /\ queue[1] \in Functor /\ Len(queue) \in Nat
         /\ Len(queue) >= 1
         /\ Tail(queue) \in Seq(Functor)
         /\ Len(Tail(queue)) = Len(queue) - 1
         /\ \A i \in 1..Len(Tail(queue)) : Tail(queue)[i] = queue[i + 1]
  OBVIOUS

(* A queue whose last functor is at its head holds no other.               *)
LEMMA TakingLast ==
  ASSUME queue \in Seq(Functor), queue # <<>>, 1 = Len(queue), NEW f \in Functor
  PROVE  Tail(queue) \o <<f>> = <<f>>
<1>1. Tail(queue) \in Seq(Functor) /\ Len(Tail(queue)) = 0
  OBVIOUS
<1>2. Tail(queue) = <<>>
  BY <1>1, EmptySeq
<1>3. <<f>> \in Seq(Functor)
  OBVIOUS
<1> QED
  BY <1>2, <1>3, ConcatEmptySeq, Zenon

LEMMA QueuedAre ==
  ASSUME NEW o, queue \in Seq(Functor), NEW c \in Queued(o)
  PROVE  \E i \in 1..Len(queue) : queue[i].op = o /\ queue[i].conn = c
  BY DEF Queued

LEMMA SomeQueued ==
  ASSUME NEW o, queue \in Seq(Functor)
  PROVE  Queued(o) # {} <=> \E i \in 1..Len(queue) : queue[i].op = o
<1>1. ASSUME NEW i \in 1..Len(queue), queue[i].op = o PROVE Queued(o) # {}
  <2>1. i \in {j \in DOMAIN queue : queue[j].op = o}
    BY <1>1
  <2>2. queue[i].conn \in Queued(o)
    BY <2>1, Zenon DEF Queued
  <2> QED
    BY <2>2
<1>2. ASSUME Queued(o) # {} PROVE \E i \in 1..Len(queue) : queue[i].op = o
  <2>1. PICK c : c \in Queued(o)
    BY <1>2
  <2> QED
    BY <2>1, QueuedAre
<1> QED
  BY <1>1, <1>2

(* A Connect is under way exactly while one of its parts is left to do.    *)
LEMMA UnderWayIs ==
  ASSUME queue \in Seq(Functor)
  PROVE  UnderWay <=> \/ \E u \in Users : op[u] = "connect"
                      \/ \E i \in 1..Len(queue) : queue[i].op = "new"
                      \/ lpc = "reset"
  BY SomeQueued DEF UnderWay

LEMMA UnderWayIsAfter ==
  ASSUME queue' \in Seq(Functor)
  PROVE  UnderWay' <=> \/ \E u \in Users : op'[u] = "connect"
                       \/ \E i \in 1..Len(queue') : queue'[i].op = "new"
                       \/ lpc' = "reset"
<1>1. Queued("new")' # {} <=> \E i \in 1..Len(queue') : queue'[i].op = "new"
  <2>1. ASSUME NEW i \in 1..Len(queue'), queue'[i].op = "new"
        PROVE  Queued("new")' # {}
    <3>1. i \in {j \in DOMAIN queue' : queue'[j].op = "new"}
      BY <2>1
    <3>2. queue'[i].conn \in Queued("new")'
      BY <3>1, Zenon DEF Queued
    <3> QED
      BY <3>2
  <2>2. ASSUME Queued("new")' # {}
        PROVE  \E i \in 1..Len(queue') : queue'[i].op = "new"
    BY <2>2 DEF Queued
  <2> QED
    BY <2>1, <2>2
<1> QED
  BY <1>1 DEF UnderWay

-----------------------------------------------------------------------------
LEMMA InitStep == Init => IInv
<1> SUFFICES ASSUME Init PROVE IInv
  OBVIOUS
<1>1. Len(queue) = 0 /\ Len(fdOf) = 0 /\ queue \in Seq(Functor)
      /\ fdOf \in Seq(0..MaxSockets) /\ DOMAIN fdOf = {}
  BY DEF Init
<1>2. 0 \in 0..MaxSockets /\ 0 \in 0..MaxCloses /\ 0 \in 0..Len(fdOf)
  BY <1>1, ClientAssumption
<1>3. /\ op \in [Users -> {"none", "connect", "send", "disconnect", "close"}]
      /\ at \in [Users -> 0..Len(fdOf)]
      /\ \A u \in Users : op[u] = "none"
  BY <1>2 DEF Init
<1>4. TypeOK
  BY <1>1, <1>2, <1>3, Zenon DEF Init, TypeOK, FdOnTheWay
<1>5. Sockets
  BY <1>1, <1>3 DEF Init, Sockets, FdIsLast, Made, NotYetHandedOver,
                    HandedOverBefore, SocketsAccountedFor, Held
<1>6. Undisturbed
  BY <1>1, <1>3 DEF Init, Undisturbed, ConnectAlone, NewIsLast, StartIsNext,
                    ClosesOwn, OneWatched
<1> QED
  BY <1>4, <1>5, <1>6 DEF IInv

(* A user's call goes on: the other users' stay where they are.            *)
LEMMA Going ==
  ASSUME TypeOK, NEW u \in Users,
         NEW o \in {"none", "connect", "send", "disconnect", "close"},
         NEW c \in 0..Len(fdOf), GoesOn(u, o, c)
  PROVE  /\ op' \in [Users -> {"none", "connect", "send", "disconnect", "close"}]
         /\ at' \in [Users -> 0..Len(fdOf)]
         /\ op'[u] = o /\ at'[u] = c
         /\ \A v \in Users : v # u => op'[v] = op[v] /\ at'[v] = at[v]
  BY DEF TypeOK, GoesOn

LEMMA OpenSocketStep ==
  ASSUME IInv, NEW u \in Users, OpenSocket(u)
  PROVE  IInv'
<1>1. /\ sockets' = sockets + 1 /\ fd' = sockets + 1 /\ sockets < MaxSockets
      /\ op[u] = "none"
      /\ disturbed' = (disturbed \/ UnderWay \/ connection # 0)
      /\ UNCHANGED <<fdOf, connection, started, queue, lpc, closes, crashed>>
  BY DEF OpenSocket
<1>2. TypeOK /\ 0 \in 0..Len(fdOf) /\ queue \in Seq(Functor) /\ Len(fdOf) \in Nat
      /\ DOMAIN fdOf = 1..Len(fdOf)
  BY DEF IInv, TypeOK
<1>3. /\ op' \in [Users -> {"none", "connect", "send", "disconnect", "close"}]
      /\ at' \in [Users -> 0..Len(fdOf)]
      /\ op'[u] = "connect" /\ at'[u] = 0
      /\ \A v \in Users : v # u => op'[v] = op[v] /\ at'[v] = at[v]
  BY <1>2, Going, Zenon DEF OpenSocket
<1>4. FdOnTheWay'
  BY <1>3, Zenon DEF FdOnTheWay, UnderWay
<1>5. /\ overlapped \subseteq overlapped' /\ overlapped' \subseteq 0..MaxSockets
      /\ UnderWay => fd \in overlapped' /\ sockets + 1 \in overlapped'
  BY <1>1, ClientAssumption DEF IInv, TypeOK, OpenSocket
<1>6. TypeOK'
  <2>1. sockets + 1 \in 0..MaxSockets
    BY <1>1, ClientAssumption DEF IInv, TypeOK
  <2>2. disturbed' \in BOOLEAN
    BY <1>1
  <2> QED
    BY <1>1, <1>3, <1>4, <1>5, <2>1, <2>2, Zenon DEF IInv, TypeOK
<1>7. Sockets'
  <2>1. FdIsLast' /\ Made' /\ NotYetHandedOver'
    <3>1. /\ \A c \in 1..Len(fdOf) : fdOf[c] \in 0..MaxSockets
          /\ sockets \in Nat
      BY <1>2, ClientAssumption DEF TypeOK
    <3>2. \A c \in 1..Len(fdOf) : fdOf[c] \in Int /\ fdOf[c] <= sockets
      BY <3>1, ClientAssumption DEF IInv, Sockets, Made
    <3>3. \A c \in 1..Len(fdOf) : fdOf[c] <= sockets + 1 /\ fdOf[c] # sockets + 1
      BY <3>1, <3>2
    <3> QED
      BY <1>1, <3>3 DEF FdIsLast, Made, NotYetHandedOver
  <2>2. HandedOverBefore'
    <3>1. lpc = "reset" => UnderWay
      BY DEF UnderWay
    <3> QED
      BY <1>1, <1>5, <3>1 DEF HandedOverBefore
  <2>3. SocketsAccountedFor'
    <3>1. fd # 0 => UnderWay
      BY DEF IInv, TypeOK, FdOnTheWay
    <3>2. ASSUME NEW s \in 1..(sockets + 1)
          PROVE  \/ s = fd' \/ s \in overlapped'
                 \/ \E c \in DOMAIN fdOf : fdOf[c] = s
      <4>1. CASE s = sockets + 1
        BY <1>1, <4>1
      <4>2. CASE s \in 1..sockets
        <5>1. s = fd \/ s \in overlapped \/ \E c \in DOMAIN fdOf : fdOf[c] = s
          BY <4>2 DEF IInv, Sockets, SocketsAccountedFor
        <5>2. s # 0
          BY <4>2
        <5> QED
          BY <1>5, <3>1, <5>1, <5>2
      <4> QED
        BY <4>1, <4>2 DEF IInv, TypeOK
    <3> QED
      BY <1>1, <3>2, Zenon DEF IInv, Sockets, SocketsAccountedFor
  <2>4. Held'
    BY <1>3 DEF IInv, Sockets, Held
  <2> QED
    BY <2>1, <2>2, <2>3, <2>4 DEF Sockets
<1>8. ASSUME ~disturbed' PROVE Undisturbed'
  <2>1. ~disturbed /\ ~UnderWay /\ connection = 0
    BY <1>1, <1>8
  <2>2. /\ \A v \in Users : op[v] # "connect"
        /\ \A i \in 1..Len(queue) : queue[i].op # "new"
    BY <1>2, <2>1, UnderWayIs
  <2>3. ConnectAlone'
    BY <1>1, <1>3, <2>1, <2>2 DEF ConnectAlone
  <2> QED
    BY <1>1, <2>1, <2>3 DEF IInv, Undisturbed, NewIsLast, StartIsNext,
                            ClosesOwn, OneWatched
<1> QED
  BY <1>6, <1>7, <1>8 DEF IInv

LEMMA PostNewStep ==
  ASSUME IInv, NEW u \in Users, PostNew(u)
  PROVE  IInv'
<1> DEFINE f == [op |-> "new", conn |-> 0]
<1>1. /\ op[u] = "connect" /\ queue' = Append(queue, f)
      /\ UNCHANGED <<fd, sockets, fdOf, connection, started, lpc, closes,
                     crashed, overlapped, disturbed>>
  BY DEF PostNew
<1>2. TypeOK /\ 0 \in 0..Len(fdOf) /\ queue \in Seq(Functor)
  BY DEF IInv, TypeOK
<1>3. /\ op' \in [Users -> {"none", "connect", "send", "disconnect", "close"}]
      /\ at' \in [Users -> 0..Len(fdOf)]
      /\ op'[u] = "none" /\ at'[u] = 0
      /\ \A v \in Users : v # u => op'[v] = op[v] /\ at'[v] = at[v]
  BY <1>2, Going, Zenon DEF PostNew
<1>4. f \in Functor /\ f.op = "new"
  BY DEF Functor
<1>5. /\ queue' \in Seq(Functor) /\ Len(queue') = Len(queue) + 1
      /\ \A i \in 1..Len(queue) : queue'[i] = queue[i]
      /\ queue'[Len(queue) + 1] = f /\ Len(queue) \in Nat
  BY <1>1, <1>2, <1>4, Posting
<1> HIDE DEF f
<1>6. TypeOK'
  <2>1. Len(queue) + 1 \in 1..Len(queue')
    BY <1>5
  <2>2. FdOnTheWay'
    BY <1>4, <1>5, <2>1, UnderWayIsAfter DEF FdOnTheWay
  <2> QED
    BY <1>1, <1>3, <1>5, <2>2, Zenon DEF IInv, TypeOK
<1>7. Sockets'
  BY <1>1, <1>3 DEF IInv, Sockets, FdIsLast, Made, NotYetHandedOver,
                    HandedOverBefore, SocketsAccountedFor, Held
<1>8. ASSUME ~disturbed' PROVE Undisturbed'
  <2>1. Undisturbed /\ connection = 0
        /\ (\A i \in 1..Len(queue) : queue[i].op # "new")
        /\ \A v \in Users : op[v] = "connect" => v = u
    BY <1>1, <1>8 DEF IInv, Undisturbed, ConnectAlone
  <2>2. ConnectAlone'
    BY <1>3, <2>1 DEF ConnectAlone
  <2>3. NewIsLast' /\ StartIsNext' /\ ClosesOwn' /\ OneWatched'
    BY <1>1, <1>4, <1>5, <2>1
       DEF Undisturbed, NewIsLast, StartIsNext, ClosesOwn, OneWatched
  <2> QED
    BY <2>2, <2>3 DEF Undisturbed
<1> QED
  BY <1>6, <1>7, <1>8 DEF IInv

LEMMA PostCloseStep ==
  ASSUME IInv, NEW u \in Users, PostClose(u)
  PROVE  IInv'
<1> DEFINE f == [op |-> "close", conn |-> at[u]]
<1>1. /\ op[u] = "close" /\ queue' = Append(queue, f)
      /\ disturbed' = (disturbed \/ /\ connection # at[u]
                                    /\ connection # 0 \/ UnderWay)
      /\ UNCHANGED <<fd, sockets, fdOf, connection, started, lpc, closes,
                     crashed, overlapped>>
  BY DEF PostClose
<1>2. TypeOK /\ 0 \in 0..Len(fdOf) /\ queue \in Seq(Functor)
      /\ at[u] \in Nat /\ at[u] # 0
  BY <1>1 DEF IInv, TypeOK, Sockets, Held
<1>3. /\ op' \in [Users -> {"none", "connect", "send", "disconnect", "close"}]
      /\ at' \in [Users -> 0..Len(fdOf)]
      /\ op'[u] = "none" /\ at'[u] = 0
      /\ \A v \in Users : v # u => op'[v] = op[v] /\ at'[v] = at[v]
  BY <1>2, Going, Zenon DEF PostClose
<1>4. f \in Functor /\ f.op = "close" /\ f.conn = at[u]
  BY <1>2 DEF Functor
<1>5. /\ queue' \in Seq(Functor) /\ Len(queue') = Len(queue) + 1
      /\ \A i \in 1..Len(queue) : queue'[i] = queue[i]
      /\ queue'[Len(queue) + 1] = f /\ Len(queue) \in Nat
  BY <1>1, <1>2, <1>4, Posting
<1> HIDE DEF f
<1>6. TypeOK'
  <2>1. \A i \in 1..Len(queue) : i \in 1..Len(queue') /\ queue'[i] = queue[i]
    BY <1>5
  <2>2. \A v \in Users : op[v] = "connect" => op'[v] = "connect"
    BY <1>1, <1>3
  <2>3. UnderWay => UnderWay'
    BY <1>1, <1>2, <1>5, <2>1, <2>2, UnderWayIs, UnderWayIsAfter
  <2>4. FdOnTheWay'
    BY <1>1, <2>3 DEF IInv, TypeOK, FdOnTheWay
  <2>5. disturbed' \in BOOLEAN
    BY <1>1 DEF IInv, TypeOK
  <2> QED
    BY <1>1, <1>3, <1>5, <2>4, <2>5, Zenon DEF IInv, TypeOK
<1>7. Sockets'
  BY <1>1, <1>3 DEF IInv, Sockets, FdIsLast, Made, NotYetHandedOver,
                    HandedOverBefore, SocketsAccountedFor, Held
<1>8. ASSUME ~disturbed' PROVE Undisturbed'
  <2>1. Undisturbed /\ (connection = at[u] \/ (connection = 0 /\ ~UnderWay))
    BY <1>1, <1>8 DEF IInv
  <2>2. ConnectAlone'
    <3>1. \A v \in Users : op'[v] = "connect" => op[v] = "connect" /\ connection = 0
      BY <1>3, <2>1 DEF Undisturbed, ConnectAlone
    <3>2. connection = 0 => \A v \in Users : op[v] # "connect"
      BY <1>2, <2>1 DEF UnderWay
    <3> QED
      BY <3>1, <3>2 DEF ConnectAlone
  <2>3. \A i \in 1..Len(queue) : queue[i].op # "new"
    <3>1. connection = 0 => ~UnderWay
      BY <1>2, <2>1
    <3>2. (\E i \in 1..Len(queue) : queue[i].op = "new") => connection = 0
      BY <2>1 DEF Undisturbed, NewIsLast
    <3> QED
      BY <1>2, <3>1, <3>2, UnderWayIs
  <2>4. NewIsLast' /\ StartIsNext' /\ ClosesOwn' /\ OneWatched'
    BY <1>1, <1>2, <1>4, <1>5, <2>1, <2>3
       DEF Undisturbed, NewIsLast, StartIsNext, ClosesOwn, OneWatched
  <2> QED
    BY <2>2, <2>4 DEF Undisturbed
<1> QED
  BY <1>6, <1>7, <1>8 DEF IInv

(* A call that reads connection_, takes the shared pointer or ends changes *)
(* nothing but the caller's state.                                         *)
LEMMA CallStep ==
  ASSUME IInv, NEW u \in Users, op[u] # "connect",
         NEW o \in {"none", "send", "disconnect", "close"},
         NEW c \in 0..Len(fdOf), o \in {"disconnect", "close"} => c # 0,
         GoesOn(u, o, c), closes' \in 0..MaxCloses,
         UNCHANGED <<fd, sockets, fdOf, connection, started, queue, lpc,
                     crashed, overlapped, disturbed>>
  PROVE  IInv'
<1>1. /\ op' \in [Users -> {"none", "connect", "send", "disconnect", "close"}]
      /\ at' \in [Users -> 0..Len(fdOf)]
      /\ op'[u] = o /\ at'[u] = c
      /\ \A v \in Users : v # u => op'[v] = op[v] /\ at'[v] = at[v]
  BY Going DEF IInv
<1>2. \A v \in Users : op'[v] = "connect" <=> op[v] = "connect"
  BY <1>1
<1>3. UnderWay' = UnderWay
  BY <1>2, Zenon DEF UnderWay, Queued
<1>4. TypeOK'
  BY <1>1, <1>3, Zenon DEF IInv, TypeOK, FdOnTheWay
<1>5. Held'
  BY <1>1 DEF IInv, Sockets, Held
<1>6. Sockets'
  BY <1>5 DEF IInv, Sockets, FdIsLast, Made, NotYetHandedOver,
              HandedOverBefore, SocketsAccountedFor
<1>7. Undisturbed => Undisturbed'
  BY <1>2 DEF Undisturbed, ConnectAlone, NewIsLast, StartIsNext, ClosesOwn,
              OneWatched
<1> QED
  BY <1>4, <1>6, <1>7 DEF IInv

LEMMA CrashStep ==
  ASSUME IInv, Crash
  PROVE  IInv'
<1>1. UnderWay' = UnderWay
  BY DEF Crash, UnderWay, Queued
<1>2. TypeOK'
  BY <1>1 DEF IInv, TypeOK, FdOnTheWay, Crash
<1>3. Sockets'
  BY DEF Crash, IInv, Sockets, FdIsLast, Made, NotYetHandedOver,
         HandedOverBefore, SocketsAccountedFor, Held
<1>4. Undisturbed => Undisturbed'
  BY DEF Crash, Undisturbed, ConnectAlone, NewIsLast, StartIsNext, ClosesOwn,
         OneWatched
<1> QED
  BY <1>2, <1>3, <1>4 DEF IInv, Crash

LEMMA UserStep ==
  ASSUME IInv, NEW u \in Users,
         DisconnectRead(u) \/ CloseHold(u) \/ SendRead(u) \/ SendUse(u)
  PROVE  IInv'
<1>1. CASE Crash
  BY <1>1, CrashStep
<1>2. connection \in 0..Len(fdOf) /\ at[u] \in 0..Len(fdOf) /\ 0 \in 0..Len(fdOf)
      /\ closes \in 0..MaxCloses
  BY DEF IInv, TypeOK
<1>3. CASE DisconnectRead(u) /\ ~Crash
  <2>1. /\ op[u] = "none" /\ connection # 0 /\ GoesOn(u, "disconnect", connection)
        /\ closes' = closes + 1 /\ closes < MaxCloses
        /\ UNCHANGED <<fd, sockets, fdOf, connection, started, queue, lpc,
                       crashed, overlapped, disturbed>>
    BY <1>3 DEF DisconnectRead
  <2>2. closes' \in 0..MaxCloses
    BY <1>2, <2>1, ClientAssumption
  <2> QED
    BY <1>2, <2>1, <2>2, CallStep
<1>4. CASE CloseHold(u) /\ ~Crash
  <2>1. /\ op[u] = "disconnect" /\ GoesOn(u, "close", at[u])
        /\ UNCHANGED <<fd, sockets, fdOf, connection, started, queue, lpc,
                       closes, crashed, overlapped, disturbed>>
    BY <1>4 DEF CloseHold
  <2>2. at[u] # 0
    BY <2>1 DEF IInv, Sockets, Held
  <2> QED
    BY <1>2, <2>1, <2>2, CallStep
<1>5. CASE SendRead(u) /\ ~Crash
  <2>1. /\ op[u] = "none" /\ GoesOn(u, "send", connection)
        /\ UNCHANGED <<fd, sockets, fdOf, connection, started, queue, lpc,
                       closes, crashed, overlapped, disturbed>>
    BY <1>5 DEF SendRead
  <2> QED
    BY <1>2, <2>1, CallStep
<1>6. CASE SendUse(u) /\ ~Crash
  <2>1. /\ op[u] = "send" /\ GoesOn(u, "none", 0)
        /\ UNCHANGED <<fd, sockets, fdOf, connection, started, queue, lpc,
                       closes, crashed, overlapped, disturbed>>
    BY <1>6 DEF SendUse
  <2> QED
    BY <1>2, <2>1, CallStep
<1> QED
  BY <1>1, <1>3, <1>4, <1>5, <1>6

-----------------------------------------------------------------------------
LEMMA HandOverStep ==
  ASSUME IInv, HandOver
  PROVE  IInv'
<1> DEFINE c == Len(fdOf) + 1
           f == [op |-> "start", conn |-> c]
<1>1. /\ queue \in Seq(Functor) /\ queue # <<>> /\ Head(queue).op = "new"
      /\ lpc = "idle" /\ fd \in 0..MaxSockets /\ fd \in Nat /\ sockets \in Nat
      /\ Len(fdOf) \in Nat /\ c \in Nat /\ fdOf \in Seq(0..MaxSockets)
      /\ DOMAIN fdOf = 1..Len(fdOf)
  BY ClientAssumption DEF IInv, TypeOK, HandOver, HeadIs
<1>2. /\ queue[1].op = "new" /\ Len(queue) \in Nat /\ 1 \in 1..Len(queue)
      /\ Tail(queue) \in Seq(Functor)
  BY <1>1, Taking
<1>3. f \in Functor /\ f.op = "start" /\ f.conn = c
  BY <1>1 DEF Functor
<1>4. queue' = Tail(queue) \o <<f>> /\ queue' \in Seq(Functor)
  BY <1>2, <1>3 DEF HandOver, StartOf
<1> HIDE DEF f
<1>5. /\ fdOf' = Append(fdOf, fd)
      /\ connection' = c /\ lpc' = "reset"
      /\ UNCHANGED <<fd, sockets, started, op, at, closes, crashed, overlapped,
                     disturbed>>
  BY DEF HandOver, HandedOver
<1>6. /\ fdOf' \in Seq(0..MaxSockets) /\ Len(fdOf') = c
      /\ DOMAIN fdOf' = 1..c
      /\ \A d \in 1..Len(fdOf) : fdOf'[d] = fdOf[d]
      /\ fdOf'[c] = fd
  BY <1>1, <1>5
<1>7. TypeOK'
  <2>1. /\ started \subseteq 1..Len(fdOf) /\ at \in [Users -> 0..Len(fdOf)]
        /\ 1..Len(fdOf) \subseteq 1..c /\ 0..Len(fdOf) \subseteq 0..c
    BY <1>1 DEF IInv, TypeOK
  <2>2. started' \subseteq 1..Len(fdOf') /\ at' \in [Users -> 0..Len(fdOf')]
        /\ connection' \in 0..Len(fdOf')
    BY <1>1, <1>5, <1>6, <2>1
  <2>3. FdOnTheWay' /\ lpc' \in {"idle", "reset"}
    BY <1>5 DEF FdOnTheWay, UnderWay
  <2> QED
    BY <1>4, <1>5, <1>6, <2>2, <2>3, Zenon DEF IInv, TypeOK
<1>8. Sockets'
  <2>1. fd \in {0, sockets} /\ fd <= sockets
    BY <1>1 DEF IInv, Sockets, FdIsLast
  <2>2. FdIsLast' /\ NotYetHandedOver' /\ Held'
    BY <1>5, <2>1 DEF IInv, Sockets, FdIsLast, NotYetHandedOver, Held
  <2>3. Made'
    BY <1>1, <1>5, <1>6, <2>1 DEF IInv, Sockets, Made
  <2>4. HandedOverBefore'
    BY <1>1, <1>5, <1>6 DEF HandedOverBefore
  <2>5. \A s \in 1..sockets : \/ s = fd \/ s \in overlapped
                              \/ \E d \in DOMAIN fdOf' : fdOf'[d] = s
    BY <1>1, <1>6 DEF IInv, Sockets, SocketsAccountedFor
  <2>6. ASSUME NEW d \in DOMAIN fdOf', NEW e \in DOMAIN fdOf', d # e,
               fdOf'[d] # 0
        PROVE  fdOf'[d] # fdOf'[e]
    <3>1. fd = 0 \/ \A b \in 1..Len(fdOf) : fdOf[b] # fd
      BY <1>1 DEF IInv, Sockets, NotYetHandedOver
    <3>2. CASE d # c /\ e # c
      BY <1>1, <1>6, <2>6, <3>2 DEF IInv, Sockets, SocketsAccountedFor
    <3>3. CASE d = c
      BY <1>1, <1>6, <2>6, <3>1, <3>3
    <3>4. CASE e = c
      BY <1>1, <1>6, <2>6, <3>1, <3>4
    <3> QED
      BY <3>2, <3>3, <3>4
  <2>7. SocketsAccountedFor'
    BY <1>5, <2>5, <2>6, Zenon DEF SocketsAccountedFor
  <2> QED
    BY <2>2, <2>3, <2>4, <2>7 DEF Sockets
<1>9. ASSUME ~disturbed' PROVE Undisturbed'
  <2>1. Undisturbed
    BY <1>5, <1>9 DEF IInv
  <2>2. 1 = Len(queue) /\ connection = 0
    BY <1>2, <2>1 DEF Undisturbed, NewIsLast
  <2>3. queue' = <<f>>
    BY <1>1, <1>3, <1>4, <2>2, TakingLast
  <2>4. Len(queue') = 1 /\ queue'[1] = f
    BY <2>3
  <2>5. started = {} /\ started' = {}
    BY <1>5, <2>1, <2>2 DEF IInv, TypeOK, Undisturbed, OneWatched
  <2>6. ConnectAlone'
    <3>1. \A v \in Users : op[v] # "connect"
      BY <1>2, <2>1 DEF Undisturbed, ConnectAlone
    <3> QED
      BY <1>5, <3>1 DEF ConnectAlone
  <2>7. NewIsLast' /\ StartIsNext' /\ ClosesOwn' /\ OneWatched'
    BY <1>1, <1>3, <1>5, <2>4, <2>5
       DEF NewIsLast, StartIsNext, ClosesOwn, OneWatched
  <2> QED
    BY <2>6, <2>7 DEF Undisturbed
<1> QED
  BY <1>7, <1>8, <1>9 DEF IInv

LEMMA ResetFdStep ==
  ASSUME IInv, ResetFd
  PROVE  IInv'
<1>1. /\ lpc = "reset" /\ fd' = 0 /\ lpc' = "idle"
      /\ UNCHANGED <<sockets, fdOf, connection, started, queue, op, at, closes,
                     crashed, overlapped, disturbed>>
  BY DEF ResetFd, FdAfter
<1>2. TypeOK'
  BY <1>1, ClientAssumption DEF IInv, TypeOK, FdOnTheWay
<1>3. Sockets'
  <2>1. FdIsLast' /\ Made' /\ NotYetHandedOver' /\ HandedOverBefore' /\ Held'
    BY <1>1 DEF IInv, Sockets, FdIsLast, Made, NotYetHandedOver,
                HandedOverBefore, Held
  <2>2. \A s \in 1..sockets : s \in overlapped \/ \E c \in DOMAIN fdOf : fdOf[c] = s
    <3>1. fd = 0 \/ fd \in overlapped \/ \E c \in DOMAIN fdOf : fdOf[c] = fd
      BY <1>1 DEF IInv, TypeOK, Sockets, HandedOverBefore
    <3> QED
      BY <3>1 DEF IInv, Sockets, SocketsAccountedFor
  <2>3. SocketsAccountedFor'
    BY <1>1, <2>2 DEF IInv, Sockets, SocketsAccountedFor
  <2> QED
    BY <2>1, <2>3 DEF Sockets
<1>4. Undisturbed => Undisturbed'
  BY <1>1 DEF Undisturbed, ConnectAlone, NewIsLast, StartIsNext, ClosesOwn,
              OneWatched
<1> QED
  BY <1>1, <1>2, <1>3, <1>4 DEF IInv

(* The functor of a connection is taken from the queue.                    *)
LEMMA TakeStep ==
  ASSUME TypeOK, NEW o, o # "new", HeadIs(o), queue' = Tail(queue),
         UNCHANGED <<fd, op, lpc>>
  PROVE  /\ queue \in Seq(Functor) /\ Len(queue) \in Nat /\ 1 \in 1..Len(queue)
         /\ queue[1].op = o /\ Head(queue) = queue[1]
         /\ queue' \in Seq(Functor) /\ Len(queue') = Len(queue) - 1
         /\ \A i \in 1..Len(queue') : queue'[i] = queue[i + 1]
                                      /\ i + 1 \in 1..Len(queue)
         /\ FdOnTheWay'
<1>1. /\ queue \in Seq(Functor) /\ Len(queue) \in Nat /\ 1 \in 1..Len(queue)
      /\ queue[1].op = o /\ Head(queue) = queue[1]
      /\ queue' \in Seq(Functor) /\ Len(queue') = Len(queue) - 1
      /\ \A i \in 1..Len(queue') : queue'[i] = queue[i + 1]
  BY Taking DEF TypeOK, HeadIs
<1>2. \A i \in 1..Len(queue') : i + 1 \in 1..Len(queue)
  BY <1>1
<1>3. ASSUME NEW i \in 1..Len(queue), queue[i].op = "new"
      PROVE  i - 1 \in 1..Len(queue') /\ queue'[i - 1].op = "new"
  BY <1>1, <1>3
<1>4. UnderWay => UnderWay'
  BY <1>1, <1>3, UnderWayIs, UnderWayIsAfter
<1> QED
  BY <1>1, <1>2, <1>4 DEF TypeOK, FdOnTheWay

LEMMA StartStep ==
  ASSUME IInv, Start, ~Crash
  PROVE  IInv'
<1>1. /\ HeadIs("start") /\ connection # 0
      /\ started' = started \cup {connection} /\ queue' = Tail(queue)
      /\ UNCHANGED <<fd, sockets, fdOf, connection, lpc, op, at, closes, crashed,
                     overlapped, disturbed>>
  BY DEF Start
<1>2. /\ queue \in Seq(Functor) /\ Len(queue) \in Nat /\ 1 \in 1..Len(queue)
      /\ queue[1].op = "start"
      /\ queue' \in Seq(Functor) /\ Len(queue') = Len(queue) - 1
      /\ \A i \in 1..Len(queue') : queue'[i] = queue[i + 1]
                                   /\ i + 1 \in 1..Len(queue)
      /\ FdOnTheWay'
  BY <1>1, TakeStep DEF IInv
<1>3. started' \subseteq 1..Len(fdOf)
  BY <1>1 DEF IInv, TypeOK
<1>4. TypeOK'
  BY <1>1, <1>2, <1>3, Zenon DEF IInv, TypeOK
<1>5. Sockets'
  BY <1>1 DEF IInv, Sockets, FdIsLast, Made, NotYetHandedOver,
              HandedOverBefore, SocketsAccountedFor, Held
<1>6. ASSUME ~disturbed' PROVE Undisturbed'
  <2>1. Undisturbed
    BY <1>1, <1>6 DEF IInv
  <2>2. \A v \in Users : op[v] # "connect"
    BY <1>1, <2>1 DEF Undisturbed, ConnectAlone
  <2>3. \A i \in 1..Len(queue) : queue[i].op # "new"
    BY <1>1, <2>1 DEF Undisturbed, NewIsLast
  <2>4. \A i \in 1..Len(queue') : queue'[i].op \notin {"new", "start"}
    BY <1>2, <2>1, <2>3 DEF Undisturbed, StartIsNext
  <2>5. started' = {connection}
    BY <1>1, <2>1 DEF Undisturbed, OneWatched
  <2>6. ClosesOwn'
    BY <1>1, <1>2, <2>1 DEF Undisturbed, ClosesOwn
  <2> QED
    BY <1>1, <2>2, <2>4, <2>5, <2>6
       DEF Undisturbed, ConnectAlone, NewIsLast, StartIsNext, OneWatched
<1> QED
  BY <1>4, <1>5, <1>6 DEF IInv

LEMMA CloseFunctorStep ==
  ASSUME IInv, CloseFunctor
  PROVE  IInv'
<1>1. /\ HeadIs("close") /\ connection' = 0
      /\ started' = started \ {Head(queue).conn} /\ queue' = Tail(queue)
      /\ UNCHANGED <<fd, sockets, fdOf, lpc, op, at, closes, crashed, overlapped,
                     disturbed>>
  BY DEF CloseFunctor
<1>2. /\ queue \in Seq(Functor) /\ Len(queue) \in Nat /\ 1 \in 1..Len(queue)
      /\ queue[1].op = "close" /\ Head(queue) = queue[1]
      /\ queue' \in Seq(Functor) /\ Len(queue') = Len(queue) - 1
      /\ \A i \in 1..Len(queue') : queue'[i] = queue[i + 1]
                                   /\ i + 1 \in 1..Len(queue)
      /\ FdOnTheWay'
  BY <1>1, TakeStep DEF IInv
<1>3. started' \subseteq 1..Len(fdOf) /\ 0 \in 0..Len(fdOf)
  <2>1. started \subseteq 1..Len(fdOf) /\ Len(fdOf) \in Nat
    BY DEF IInv, TypeOK
  <2>2. 0 \in 0..Len(fdOf)
    BY <2>1
  <2>3. started' \subseteq 1..Len(fdOf)
    BY <1>1, <2>1, Zenon
  <2> QED
    BY <2>2, <2>3
<1>4. TypeOK'
  BY <1>1, <1>2, <1>3, Zenon DEF IInv, TypeOK
<1>5. Sockets'
  BY <1>1 DEF IInv, Sockets, FdIsLast, Made, NotYetHandedOver,
              HandedOverBefore, SocketsAccountedFor, Held
<1>6. ASSUME ~disturbed' PROVE Undisturbed'
  <2>1. Undisturbed
    BY <1>1, <1>6 DEF IInv
  <2>2. started' = {}
    <3>1. CASE connection = 0
      <4>1. 0 \notin started /\ started \subseteq {0}
        BY <2>1, <3>1 DEF IInv, TypeOK, Undisturbed, OneWatched
      <4> QED
        BY <1>1, <4>1, Zenon
    <3>2. CASE connection # 0
      <4>1. queue[1].conn = connection /\ started \subseteq {connection}
        BY <1>2, <2>1, <3>2, Zenon DEF Undisturbed, ClosesOwn, OneWatched
      <4> QED
        BY <1>1, <1>2, <4>1, Zenon
    <3> QED
      BY <3>1, <3>2
  <2>3. \A i \in 1..Len(queue') : queue'[i].op # "start"
    BY <1>2, <2>1 DEF Undisturbed, StartIsNext
  <2>4. ConnectAlone'
    BY <1>1, <1>2, <2>1 DEF Undisturbed, ConnectAlone
  <2>5. NewIsLast'
    <3>1. ASSUME NEW i \in 1..Len(queue'), queue'[i].op = "new"
          PROVE  i = Len(queue')
      <4>1. i + 1 \in 1..Len(queue) /\ queue[i + 1].op = "new"
        BY <1>2, <3>1
      <4>2. i + 1 = Len(queue)
        BY <2>1, <4>1 DEF Undisturbed, NewIsLast
      <4> QED
        BY <1>2, <4>2
    <3> QED
      BY <1>1, <3>1 DEF NewIsLast
  <2> QED
    BY <1>1, <2>2, <2>3, <2>4, <2>5
       DEF Undisturbed, StartIsNext, ClosesOwn, OneWatched
<1> QED
  BY <1>4, <1>5, <1>6 DEF IInv

LEMMA PeerClosesStep ==
  ASSUME IInv, NEW c \in 1..Len(fdOf), PeerCloses(c)
  PROVE  IInv'
<1>1. /\ c \in started /\ connection' = 0 /\ started' = started \ {c}
      /\ UNCHANGED <<fd, sockets, fdOf, queue, lpc, op, at, closes, crashed,
                     overlapped, disturbed>>
  BY DEF PeerCloses, Watched
<1>2. UnderWay' = UnderWay
  BY <1>1 DEF UnderWay, Queued
<1>3. TypeOK'
  BY <1>1, <1>2 DEF IInv, TypeOK, FdOnTheWay
<1>4. Sockets'
  BY <1>1 DEF IInv, Sockets, FdIsLast, Made, NotYetHandedOver,
              HandedOverBefore, SocketsAccountedFor, Held
<1>5. Undisturbed => Undisturbed'
  BY <1>1 DEF Undisturbed, ConnectAlone, NewIsLast, StartIsNext, ClosesOwn,
              OneWatched
<1> QED
  BY <1>1, <1>3, <1>4, <1>5 DEF IInv

LEMMA StutterStep ==
  ASSUME IInv, UNCHANGED vars
  PROVE  IInv'
<1>1. UnderWay' = UnderWay
  BY DEF vars, UnderWay, Queued
<1>2. TypeOK'
  BY <1>1 DEF IInv, TypeOK, FdOnTheWay, vars
<1>3. Sockets'
  BY DEF vars, IInv, Sockets, FdIsLast, Made, NotYetHandedOver,
         HandedOverBefore, SocketsAccountedFor, Held
<1>4. Undisturbed => Undisturbed'
  BY DEF vars, Undisturbed, ConnectAlone, NewIsLast, StartIsNext, ClosesOwn,
         OneWatched
<1> QED
  BY <1>2, <1>3, <1>4 DEF IInv, vars

LEMMA NextStep == IInv /\ [Next]_vars => IInv'
<1> SUFFICES ASSUME IInv, [Next]_vars PROVE IInv'
  OBVIOUS
<1>1. CASE \E u \in Users : \/ OpenSocket(u) \/ PostNew(u)
                            \/ DisconnectRead(u) \/ CloseHold(u) \/ PostClose(u)
                            \/ SendRead(u) \/ SendUse(u)
  <2>1. PICK u \in Users : \/ OpenSocket(u) \/ PostNew(u)
                           \/ DisconnectRead(u) \/ CloseHold(u) \/ PostClose(u)
                           \/ SendRead(u) \/ SendUse(u)
    BY <1>1
  <2> QED
    BY <2>1, OpenSocketStep, PostNewStep, UserStep, PostCloseStep
<1>2. CASE LoopStep
  <2>1. CASE Start
    BY <2>1, StartStep, CrashStep
  <2> QED
    BY <1>2, <2>1, HandOverStep, ResetFdStep, CloseFunctorStep DEF LoopStep
<1>3. CASE \E c \in 1..Len(fdOf) : PeerCloses(c)
  BY <1>3, PeerClosesStep
<1>4. CASE UNCHANGED vars
  BY <1>4, StutterStep
<1> QED
  BY <1>1, <1>2, <1>3, <1>4 DEF Next

LEMMA Invariance == Spec => []IInv
  BY InitStep, NextStep, PTL DEF Spec

-----------------------------------------------------------------------------
(* Every variable of the client keeps its type: in particular connection_  *)
(* and whatever a thread holds are connections that were made, and fd_     *)
(* holds a descriptor only while a Connect is under way.                   *)
THEOREM TypeCorrect == Spec => []TypeOK
  BY Invariance, PTL DEF IInv

(* Connect writes fd_ whatever it holds, on any thread, and the functor    *)
(* resets it after its callback: a socket can be lost only if two Connects *)
(* met there, and even then no socket becomes two connections'.            *)
THEOREM NoSocketLost == Spec => []SocketsAccountedFor
<1>1. IInv => SocketsAccountedFor
  BY DEF IInv, Sockets
<1> QED
  BY <1>1, Invariance, PTL

(* The Start functor looks at connection_ and finds the connection that it *)
(* was posted for, although every close resets connection_ without looking *)
(* whose close it is, and Disconnect posts its close some time after it    *)
(* has read connection_; unless a Connect came early or a Close late.      *)
THEOREM StartFindsItsConnection == Spec => []StartFindsIts
<1>1. IInv => StartFindsIts
  <2> SUFFICES ASSUME IInv, ~disturbed, NEW c \in Queued("start")
               PROVE  c = connection /\ c # 0
    BY DEF StartFindsIts
  <2>1. PICK i \in 1..Len(queue) : queue[i].op = "start" /\ queue[i].conn = c
    BY QueuedAre DEF IInv, TypeOK
  <2> QED
    BY <2>1 DEF IInv, Undisturbed, StartIsNext
<1> QED
  BY <1>1, Invariance, PTL
=============================================================================
