------------------------------- MODULE Client -------------------------------
(***************************************************************************)
(* TCPClient with its TCPConnector, called by several threads and run by   *)
(* one event loop.  Connect opens a non-blocking socket into the           *)
(* connector's fd_ and then posts a functor; the functor hands fd_ over    *)
(* and then resets it.  HandleNewConn makes a connection of the            *)
(* descriptor, posts its Start and stores it in connection_.  Whichever    *)
(* connection closes, connection_ is reset.  Send and Disconnect read      *)
(* connection_ and use what they read.                                     *)
(*                                                                         *)
(* Sockets and connections are numbered as they are made; 0 stands for     *)
(* fd_ = -1 and for a null connection_.  A dereferenced null or freed      *)
(* pointer ends the behaviour ("crashed").  fd_ and connection_ are read   *)
(* and written without a lock: a data race, taken as atomic reads and      *)
(* writes.  That every Connect assigns the connector's callback again      *)
(* (the same one) is left out; what a posted send or a closing connection  *)
(* touches afterwards is the business of module Connection.                *)
(***************************************************************************)
EXTENDS Integers, Sequences

CONSTANTS Users,      \* threads that call Connect, Disconnect and Send
          MaxSockets, \* bound on the calls of Connect
          MaxCloses   \* bound on the calls of Disconnect

ASSUME ClientAssumption == MaxSockets \in Nat /\ MaxCloses \in Nat

VARIABLES
    fd,          \* TCPConnector::fd_
    sockets,     \* number of sockets opened
    fdOf,        \* descriptor of each connection made
    connection,  \* TCPClient::connection_
    started,     \* connections whose descriptor is watched
    queue,       \* functors posted to the loop
    lpc,         \* "reset": the loop is between the callback and fd_ = -1
    op,          \* per user: what its call has yet to do
    at,          \* per user: the connection it has read from connection_
    closes,      \* number of calls of Disconnect
    crashed,
    overlapped,  \* history: sockets in or going into fd_ when Connects met
    disturbed    \* history: a Connect came early or a Close came late

vars == <<fd, sockets, fdOf, connection, started, queue, lpc, op, at, closes,
          crashed, overlapped, disturbed>>

(* "new": the connector's functor; "start" and "close": of one connection  *)
(* (for "start" history: the functor itself looks at connection_).         *)
Functor == [op : {"new", "start", "close"}, conn : Nat]

Queued(o) == {queue[i].conn : i \in {j \in DOMAIN queue : queue[j].op = o}}

(* A connection lives while connection_, a closure of Close or a thread    *)
(* inside Close holds it (that the closure outlasts its own execution is   *)
(* in module Connection).                                                  *)
Live(c) == \/ c = connection
           \/ c \in Queued("close")
           \/ \E u \in Users : op[u] = "close" /\ at[u] = c

(* A Connect is under way from its socket to the reset of fd_.             *)
UnderWay == \/ \E u \in Users : op[u] = "connect"
            \/ Queued("new") # {}
            \/ lpc = "reset"

(* A descriptor stays in fd_ only while a Connect is under way.            *)
FdOnTheWay == UnderWay \/ fd = 0

TypeOK ==
    /\ fd \in 0..MaxSockets /\ sockets \in 0..MaxSockets
    /\ fdOf \in Seq(0..MaxSockets)
    /\ connection \in 0..Len(fdOf)
    /\ started \subseteq 1..Len(fdOf)
    /\ queue \in Seq(Functor)
    /\ lpc \in {"idle", "reset"}
    /\ op \in [Users -> {"none", "connect", "send", "disconnect", "close"}]
    /\ at \in [Users -> 0..Len(fdOf)]
    /\ closes \in 0..MaxCloses
    /\ crashed \in BOOLEAN /\ disturbed \in BOOLEAN
    /\ overlapped \subseteq 0..MaxSockets
    /\ FdOnTheWay

Init ==
    /\ fd = 0 /\ sockets = 0
    /\ fdOf = <<>>
    /\ connection = 0
    /\ started = {}
    /\ queue = <<>>
    /\ lpc = "idle"
    /\ op = [u \in Users |-> "none"] /\ at = [u \in Users |-> 0]
    /\ closes = 0
    /\ crashed = FALSE
    /\ overlapped = {} /\ disturbed = FALSE

Crash == /\ crashed' = TRUE
         /\ UNCHANGED <<fd, sockets, fdOf, connection, started, queue, lpc, op,
                        at, closes, overlapped, disturbed>>

(* A user's call goes on with o and the connection c.                      *)
GoesOn(u, o, c) == op' = [op EXCEPT ![u] = o] /\ at' = [at EXCEPT ![u] = c]

-----------------------------------------------------------------------------
(* Connect: the socket goes into fd_, whatever fd_ holds; then the functor *)
(* is posted.                                                              *)
OpenSocket(u) ==
    /\ ~crashed /\ op[u] = "none" /\ sockets < MaxSockets
    /\ sockets' = sockets + 1
    /\ fd' = sockets + 1
    /\ GoesOn(u, "connect", 0)
    /\ overlapped' = IF UnderWay THEN overlapped \cup {fd, sockets + 1}
                                 ELSE overlapped
    /\ disturbed' = (disturbed \/ UnderWay \/ connection # 0)
    /\ UNCHANGED <<fdOf, connection, started, queue, lpc, closes, crashed>>

PostNew(u) ==
    /\ ~crashed /\ op[u] = "connect"
    /\ queue' = Append(queue, [op |-> "new", conn |-> 0])
    /\ GoesOn(u, "none", 0)
    /\ UNCHANGED <<fd, sockets, fdOf, connection, started, lpc, closes, crashed,
                   overlapped, disturbed>>

(* Disconnect: reads connection_, takes a shared pointer to the object     *)
(* behind it (TCPConnection::Close), then posts the closure.               *)
DisconnectRead(u) ==
    /\ ~crashed /\ op[u] = "none" /\ closes < MaxCloses
    /\ \/ /\ connection # 0
          /\ GoesOn(u, "disconnect", connection)
          /\ closes' = closes + 1
          /\ UNCHANGED <<fd, sockets, fdOf, connection, started, queue, lpc,
                         crashed, overlapped, disturbed>>
       \/ connection = 0 /\ Crash

CloseHold(u) ==
    /\ ~crashed /\ op[u] = "disconnect"
    /\ \/ /\ Live(at[u])
          /\ GoesOn(u, "close", at[u])
          /\ UNCHANGED <<fd, sockets, fdOf, connection, started, queue, lpc,
                         closes, crashed, overlapped, disturbed>>
       \/ ~Live(at[u]) /\ Crash

PostClose(u) ==
    /\ ~crashed /\ op[u] = "close"
    /\ queue' = Append(queue, [op |-> "close", conn |-> at[u]])
    /\ GoesOn(u, "none", 0)
    /\ disturbed' = (disturbed \/ /\ connection # at[u]
                                  /\ connection # 0 \/ UnderWay)
    /\ UNCHANGED <<fd, sockets, fdOf, connection, started, lpc, closes, crashed,
                   overlapped>>

(* Send: the pointer is read, then the object behind it is used.           *)
SendRead(u) ==
    /\ ~crashed /\ op[u] = "none"
    /\ \/ /\ connection # 0
          /\ GoesOn(u, "send", connection)
          /\ UNCHANGED <<fd, sockets, fdOf, connection, started, queue, lpc,
                         closes, crashed, overlapped, disturbed>>
       \/ connection = 0 /\ Crash

SendUse(u) ==
    /\ ~crashed /\ op[u] = "send"
    /\ \/ /\ Live(at[u])
          /\ GoesOn(u, "none", 0)
          /\ UNCHANGED <<fd, sockets, fdOf, connection, started, queue, lpc,
                         closes, crashed, overlapped, disturbed>>
       \/ ~Live(at[u]) /\ Crash

-----------------------------------------------------------------------------
(***************************************************************************)
(* The loop.  HeadIs(o): the functor at the head of the queue is an o.     *)
(***************************************************************************)
HeadIs(o) == /\ ~crashed /\ lpc = "idle"
             /\ queue # <<>> /\ Head(queue).op = o

(* Mutants: fd_ is given up before the callback gets it; it is kept; the   *)
(* connection's Start is not posted.                                       *)
HandedOver_ResetFirst == 0
HandedOver == fd

FdAfter_Kept == fd
FdAfter == 0

StartOf_None(c) == <<>>
StartOf(c) == <<[op |-> "start", conn |-> c]>>

(* The connector's functor: HandleNewConn with whatever fd_ holds (the     *)
(* connection that connection_ held dies, unless a Close holds it) ...     *)
HandOver ==
    /\ HeadIs("new")
    /\ fdOf' = Append(fdOf, HandedOver)
    /\ connection' = Len(fdOf) + 1
    /\ queue' = Tail(queue) \o StartOf(Len(fdOf) + 1)
    /\ lpc' = "reset"
    /\ UNCHANGED <<fd, sockets, started, op, at, closes, crashed, overlapped,
                   disturbed>>

(* ... then fd_ = -1.                                                      *)
ResetFd ==
    /\ ~crashed /\ lpc = "reset"
    /\ fd' = FdAfter
    /\ lpc' = "idle"
    /\ UNCHANGED <<sockets, fdOf, connection, started, queue, op, at, closes,
                   crashed, overlapped, disturbed>>

(* connection_->Start(), whatever connection_ holds.                       *)
Start ==
    /\ HeadIs("start")
    /\ \/ /\ connection # 0
          /\ started' = started \cup {connection}
          /\ queue' = Tail(queue)
          /\ UNCHANGED <<fd, sockets, fdOf, connection, lpc, op, at, closes,
                         crashed, overlapped, disturbed>>
       \/ connection = 0 /\ Crash

(* HandleClose of the functor's connection: its callback resets            *)
(* connection_ and does not look which connection closed.                  *)
CloseFunctor ==
    /\ HeadIs("close")
    /\ connection' = 0
    /\ started' = started \ {Head(queue).conn}
    /\ queue' = Tail(queue)
    /\ UNCHANGED <<fd, sockets, fdOf, lpc, op, at, closes, crashed, overlapped,
                   disturbed>>

(* Mutant: the descriptor is watched as soon as the connection exists.     *)
Watched_Early == 1..Len(fdOf)
Watched == started

(* End of file, or a connect that failed, on a watched descriptor; nothing *)
(* ever happens on the descriptor -1.                                      *)
PeerCloses(c) ==
    /\ ~crashed /\ lpc = "idle"
    /\ c \in Watched /\ Live(c) /\ fdOf[c] # 0
    /\ connection' = 0
    /\ started' = started \ {c}
    /\ UNCHANGED <<fd, sockets, fdOf, queue, lpc, op, at, closes, crashed,
                   overlapped, disturbed>>

LoopStep == HandOver \/ ResetFd \/ Start \/ CloseFunctor

Next ==
    \/ \E u \in Users : \/ OpenSocket(u) \/ PostNew(u)
                        \/ DisconnectRead(u) \/ CloseHold(u) \/ PostClose(u)
                        \/ SendRead(u) \/ SendUse(u)
    \/ LoopStep
    \/ \E c \in 1..Len(fdOf) : PeerCloses(c)

Spec == Init /\ [][Next]_vars

(* The loop runs, and a call of Connect that has begun goes on.            *)
FairSpec == Spec /\ WF_vars(LoopStep) /\ \A u \in Users : WF_vars(PostNew(u))

-----------------------------------------------------------------------------
(* On its way from Connect through fd_ to a connection no socket is lost,  *)
(* unless two Connects met there: it is in fd_ or belongs to a connection. *)
(* No socket is ever given to two connections, even if they met.           *)
SocketsAccountedFor ==
    /\ \A s \in 1..sockets : \/ s = fd \/ s \in overlapped
                             \/ \E c \in DOMAIN fdOf : fdOf[c] = s
    /\ \A c, d \in DOMAIN fdOf : c # d /\ fdOf[c] # 0 => fdOf[c] # fdOf[d]

(* A Start functor finds in connection_ the connection it was posted for,  *)
(* although every close resets connection_ whatever it holds, as long as   *)
(* no Connect began while the client had a connection or one under way,    *)
(* and no Close was posted for an earlier connection after the next        *)
(* Connect had begun.  (Either can leave Start a null pointer.)            *)
StartFindsIts ==
    disturbed \/ \A c \in Queued("start") : c = connection /\ c # 0

(* Every Connect that met no other leads to a connection that is watched,  *)
(* unless the process dies or the connection was closed or replaced.       *)
ConnectCompletes ==
    \A s \in 1..MaxSockets :
       (sockets = s) ~> \/ crashed \/ s \in overlapped
                        \/ \E c \in DOMAIN fdOf :
                              fdOf[c] = s /\ (c \in started \/ c # connection)
=============================================================================
