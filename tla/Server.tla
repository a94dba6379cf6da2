------------------------------- MODULE Server -------------------------------
(***************************************************************************)
(* TCPServer with its TCPAcceptor, ThreadManager, the worker loops and the *)
(* generator of serial ids.                                                *)
(*                                                                         *)
(* Start brings the worker threads up and the listening socket to the main *)
(* loop, which watches it from its first functor (0 in its queue) on.      *)
(* The main loop accepts, picks a loop, generates an id, stores the        *)
(* connection in connections_ and posts its Start to the loop picked.  The *)
(* Start functor finds the connection again by its id, on the other        *)
(* thread; that thread later erases it when the connection closes.         *)
(*                                                                         *)
(* connections_ is an unordered_map without a lock.  A thread whose pc is  *)
(* in MapOps is inside one of its operations; two threads there at once    *)
(* are a data race, after which nothing is known and the model stops.  So  *)
(* it does when an id given twice would make a connection replace another. *)
(*                                                                         *)
(* A loop's functors are the queue of TaskQueue, a connection standing for *)
(* the functor with its Start.  Connections are numbered in the order of   *)
(* their acceptance; that number is history, the program knows the id only.*)
(***************************************************************************)
EXTENDS Integers, Sequences, FiniteSets

CONSTANTS Main,        \* the thread of the server's own loop
          Workers,     \* worker threads, as a sequence (may be empty)
          MaxConns,    \* bound on the connections accepted
          StartTime,   \* seconds of the hour when the server starts
          MaxTime,     \* bound on the clock
          SerialRange, \* ids per second that fit below the time stamp (1000)
          IdWidth      \* GetConnection truncates ids to this range (2^32)

ASSUME ServerAssumption ==
    /\ Workers \in Seq({Workers[i] : i \in DOMAIN Workers} \ {Main})
    /\ \A i, j \in DOMAIN Workers : i # j => Workers[i] # Workers[j]
    /\ MaxConns \in Nat
    /\ StartTime \in 0..MaxTime /\ MaxTime \in 0..3599
    /\ SerialRange \in Nat \ {0} /\ IdWidth \in Nat \ {0}
    /\ IdWidth <= StartTime * SerialRange  \* 2^32 < 10^13 * 1000

Threads == {Main} \cup {Workers[i] : i \in DOMAIN Workers}
Conns == 1..MaxConns

VARIABLES
    now,         \* time(nullptr)
    curTime,     \* UID: current_time (-1 before the first call)
    serial,      \* UID: serial
    picks,       \* PickEventLoop: its static i
    acceptor,    \* TCPAcceptor: "created", "listening", "posted", "watched"
    backlog,     \* connections waiting in the listening socket
    accepted,    \* number of connections accepted
    id, loopOf,  \* per connection: its serial id and its thread
    state,       \* per connection: "none", "stored", "started", "closed"
    connections, \* connections_: a partial function from ids; 0 is nullptr
    queue,       \* per thread: functors posted to its loop
    pc, arg,     \* per thread: what it is doing, for which connection / id
    crowded      \* history: a second had more than SerialRange connections

uidVars == <<now, curTime, serial>>
connVars == <<id, loopOf, state>>
vars == <<uidVars, picks, acceptor, backlog, accepted, connVars, connections,
          queue, pc, arg, crowded>>

MapOps == {"insert", "lookup", "erase", "get"}

Types ==
    /\ now \in StartTime..MaxTime
    /\ curTime \in -1..MaxTime
    /\ serial \in Nat
    /\ picks \in 0..MaxConns /\ accepted \in 0..MaxConns
    /\ acceptor \in {"created", "listening", "posted", "watched"}
    /\ backlog \in 0..MaxConns
    /\ id \in [Conns -> Nat] /\ loopOf \in [Conns -> Threads]
    /\ state \in [Conns -> {"none", "stored", "started", "closed"}]
    /\ \A k \in DOMAIN connections : connections[k] \in 0..MaxConns
    /\ queue \in [Threads -> Seq(Conns \cup {0})]
    /\ pc \in [Threads -> {"idle", "post", "overwritten"} \cup MapOps]
    /\ arg \in [Threads -> Nat]
    /\ crowded \in BOOLEAN

(* Whatever connections_ holds, it holds under its own id.                 *)
UnderOwnId == \A k \in DOMAIN connections :
                 connections[k] # 0 => id[connections[k]] = k

TypeOK == Types /\ UnderOwnId

Init ==
    /\ now = StartTime /\ curTime = -1 /\ serial = 0
    /\ picks = 0 /\ acceptor = "created" /\ backlog = 0 /\ accepted = 0
    /\ id = [c \in Conns |-> 0]
    /\ loopOf = [c \in Conns |-> Main]
    /\ state = [c \in Conns |-> "none"]
    /\ connections = [k \in {} |-> 0]
    /\ queue = [t \in Threads |-> <<>>]
    /\ pc = [t \in Threads |-> "idle"]
    /\ arg = [t \in Threads |-> 0]
    /\ crowded = FALSE

InMap == {t \in Threads : pc[t] \in MapOps}

Race == Cardinality(InMap) > 1

Ended == Race \/ pc[Main] = "overwritten"

(* Thread t is at p, and the behaviour has not ended.                      *)
At(t, p) == pc[t] = p /\ ~Ended

(* AsyncCall.  Mutants: nothing is posted while there are functors to run  *)
(* anyway; the acceptor's functor is not posted.                           *)
Post_Coalesced(q, f) == IF q = <<>> THEN Append(q, f) ELSE q
Post_NoWatcher(q, f) == IF f = 0 THEN q ELSE Append(q, f)
Post(q, f) == Append(q, f)

-----------------------------------------------------------------------------
(***************************************************************************)
(* TCPServer::Start, on the main thread, before its loop runs: the worker  *)
(* threads are up (ThreadManager::Start), the socket listens, and Accept   *)
(* posts the Start of its watcher.                                         *)
(***************************************************************************)
Listen ==
    /\ At(Main, "idle") /\ acceptor = "created"
    /\ acceptor' = "listening"
    /\ UNCHANGED <<uidVars, picks, backlog, accepted, connVars, connections,
                   queue, pc, arg, crowded>>

Accept ==
    /\ At(Main, "idle") /\ acceptor = "listening"
    /\ acceptor' = "posted"
    /\ queue' = [queue EXCEPT ![Main] = Post(@, 0)]
    /\ UNCHANGED <<uidVars, picks, backlog, accepted, connVars, connections,
                   pc, arg, crowded>>

WatcherStart ==
    /\ At(Main, "idle")
    /\ queue[Main] # <<>> /\ Head(queue[Main]) = 0
    /\ acceptor' = "watched"
    /\ queue' = [queue EXCEPT ![Main] = Tail(@)]
    /\ UNCHANGED <<uidVars, picks, backlog, accepted, connVars, connections,
                   pc, arg, crowded>>

-----------------------------------------------------------------------------
(***************************************************************************)
(* UID::GenerateSerialID.  strftime and strtoll read the local time as a   *)
(* decimal number: seconds 58, 59, 60 of an hour become 58, 59, 100 (hours *)
(* to years work the same way).  The serial restarts with every second.    *)
(* The clock does not go back.                                             *)
(***************************************************************************)
Stamp(t) == (t \div 60) * 100 + (t % 60)

NextSerial == IF now # curTime THEN 1 ELSE serial + 1

(* Mutant: the remembered second is never brought up to date.              *)
GenerateSerialID_Stale(t) ==
    IF curTime = -1 THEN Stamp(t) * SerialRange + NextSerial
    ELSE Stamp(curTime) * SerialRange + NextSerial

GenerateSerialID(t) == Stamp(t) * SerialRange + NextSerial

(* Mutant: the counter advances with every second connection only.         *)
PickEventLoop_Sticky ==
    IF Workers = <<>> THEN Main
    ELSE Workers[((picks \div 2) % Len(Workers)) + 1]

PickEventLoop ==
    IF Workers = <<>> THEN Main ELSE Workers[(picks % Len(Workers)) + 1]

(***************************************************************************)
(* The main loop.  HandleAccept takes one connection per event; a failing  *)
(* accept changes nothing.  HandleNewConn is cut where it enters and       *)
(* leaves connections_ and where it posts.                                 *)
(***************************************************************************)
ClientConnects ==
    /\ ~Ended /\ acceptor # "created"
    /\ accepted + backlog < MaxConns
    /\ backlog' = backlog + 1
    /\ UNCHANGED <<uidVars, picks, acceptor, accepted, connVars, connections,
                   queue, pc, arg, crowded>>

HandleAccept ==
    /\ At(Main, "idle") /\ acceptor = "watched"
    /\ backlog > 0
    /\ LET c == accepted + 1
       IN  /\ id' = [id EXCEPT ![c] = GenerateSerialID(now)]
           /\ loopOf' = [loopOf EXCEPT ![c] = PickEventLoop]
           /\ accepted' = c
           /\ arg' = [arg EXCEPT ![Main] = c]
    /\ curTime' = now
    /\ serial' = NextSerial
    /\ crowded' = (crowded \/ NextSerial > SerialRange)
    /\ picks' = IF Workers = <<>> THEN picks ELSE picks + 1
    /\ backlog' = backlog - 1
    /\ pc' = [pc EXCEPT ![Main] = "insert"]
    /\ UNCHANGED <<now, acceptor, state, connections, queue>>

(* connections_[k] = v                                                     *)
Assign(k, v) ==
    [x \in DOMAIN connections \cup {k} |-> IF x = k THEN v ELSE connections[x]]

Truncate(k) == k % IdWidth

(* Connection c goes into the map under the key k.  If there is another    *)
(* one, it would be destroyed here while its own thread uses it.           *)
Store(k, c) ==
    IF k \in DOMAIN connections /\ connections[k] # 0
    THEN /\ pc' = [pc EXCEPT ![Main] = "overwritten"]
         /\ UNCHANGED <<connections, state>>
    ELSE /\ pc' = [pc EXCEPT ![Main] = "post"]
         /\ connections' = Assign(k, c)
         /\ state' = [state EXCEPT ![c] = "stored"]

(* Mutant: the key has the type of GetConnection's parameter.              *)
Insert_Truncated ==
    /\ At(Main, "insert")
    /\ Store(Truncate(id[arg[Main]]), arg[Main])
    /\ UNCHANGED <<uidVars, picks, acceptor, backlog, accepted, id, loopOf,
                   queue, arg, crowded>>

Insert ==
    /\ At(Main, "insert")
    /\ Store(id[arg[Main]], arg[Main])
    /\ UNCHANGED <<uidVars, picks, acceptor, backlog, accepted, id, loopOf,
                   queue, arg, crowded>>

PostStart ==
    /\ At(Main, "post")
    /\ LET c == arg[Main]
       IN  queue' = [queue EXCEPT ![loopOf[c]] = Post(@, c)]
    /\ pc' = [pc EXCEPT ![Main] = "idle"]
    /\ UNCHANGED <<uidVars, picks, acceptor, backlog, accepted, connVars,
                   connections, arg, crowded>>

(* GetConnection(uint): the id is truncated, and operator[] leaves a null  *)
(* pointer behind when it finds nothing.                                   *)
BeginGet(k) ==
    /\ At(Main, "idle")
    /\ pc' = [pc EXCEPT ![Main] = "get"]
    /\ arg' = [arg EXCEPT ![Main] = k]
    /\ UNCHANGED <<uidVars, picks, acceptor, backlog, accepted, connVars,
                   connections, queue, crowded>>

EndGet ==
    /\ At(Main, "get")
    /\ LET k == Truncate(arg[Main])
       IN  connections' = IF k \in DOMAIN connections THEN connections
                          ELSE Assign(k, 0)
    /\ pc' = [pc EXCEPT ![Main] = "idle"]
    /\ UNCHANGED <<uidVars, picks, acceptor, backlog, accepted, connVars,
                   queue, arg, crowded>>

(***************************************************************************)
(* A loop thread: a Start functor, or the end of one of its connections.   *)
(***************************************************************************)
BeginStart(t) ==
    /\ At(t, "idle")
    /\ queue[t] # <<>> /\ Head(queue[t]) # 0
    /\ arg' = [arg EXCEPT ![t] = Head(queue[t])]
    /\ queue' = [queue EXCEPT ![t] = Tail(@)]
    /\ pc' = [pc EXCEPT ![t] = "lookup"]
    /\ UNCHANGED <<uidVars, picks, acceptor, backlog, accepted, connVars,
                   connections, crowded>>

(* connections_[serial_id]->Start().                                       *)
Found(t) == connections[id[arg[t]]]

EndStart(t) ==
    /\ At(t, "lookup")
    /\ state' = [state EXCEPT ![Found(t)] = "started"]
    /\ pc' = [pc EXCEPT ![t] = "idle"]
    /\ UNCHANGED <<uidVars, picks, acceptor, backlog, accepted, id, loopOf,
                   connections, queue, arg, crowded>>

(* A connection whose descriptor is watched may end.  Mutant: it is        *)
(* watched before its Start functor has run.                               *)
Watched_Early(c) == state[c] \in {"stored", "started"}
Watched(c) == state[c] = "started"

(* HandleClose: the close callback that TCPServer installed.               *)
BeginClose(t, c) ==
    /\ At(t, "idle")
    /\ loopOf[c] = t /\ Watched(c)
    /\ arg' = [arg EXCEPT ![t] = c]
    /\ pc' = [pc EXCEPT ![t] = "erase"]
    /\ UNCHANGED <<uidVars, picks, acceptor, backlog, accepted, connVars,
                   connections, queue, crowded>>

(* What is erased.  Mutant: the truncated id of GetConnection.             *)
ErasedId_Truncated(c) == Truncate(id[c])
ErasedId(c) == id[c]

EndClose(t) ==
    /\ At(t, "erase")
    /\ connections' = [k \in DOMAIN connections \ {ErasedId(arg[t])}
                         |-> connections[k]]
    /\ state' = [state EXCEPT ![arg[t]] = "closed"]
    /\ pc' = [pc EXCEPT ![t] = "idle"]
    /\ UNCHANGED <<uidVars, picks, acceptor, backlog, accepted, id, loopOf,
                   queue, arg, crowded>>

Tick ==
    /\ ~Ended
    /\ now < MaxTime
    /\ now' = now + 1
    /\ UNCHANGED <<curTime, serial, picks, acceptor, backlog, accepted,
                   connVars, connections, queue, pc, arg, crowded>>

-----------------------------------------------------------------------------
ServerStart == Listen \/ Accept \/ WatcherStart

MainStep == HandleAccept \/ Insert \/ PostStart

GetStep == EndGet \/ \E c \in Conns : state[c] # "none" /\ BeginGet(id[c])

StartStep(t) == BeginStart(t) \/ EndStart(t)

CloseStep(t) == EndClose(t) \/ \E c \in Conns : BeginClose(t, c)

Next ==
    \/ ClientConnects \/ Tick
    \/ ServerStart \/ MainStep \/ GetStep
    \/ \E t \in Threads : StartStep(t) \/ CloseStep(t)

Spec == Init /\ [][Next]_vars

(* The main thread finishes Start and HandleNewConn; a loop looks at the   *)
(* functors posted to it and at the listening socket in every round,       *)
(* whatever else keeps it busy.                                            *)
FairSpec ==
    /\ Spec
    /\ WF_vars(Listen \/ Accept \/ Insert \/ PostStart \/ EndGet)
    /\ SF_vars(WatcherStart) /\ SF_vars(HandleAccept)
    /\ \A t \in Threads : /\ SF_vars(BeginStart(t))
                          /\ WF_vars(EndStart(t) \/ EndClose(t))

-----------------------------------------------------------------------------
(***************************************************************************)
(* Properties.  With several threads they hold up to the first race, and   *)
(* up to the first connection that would replace another.                  *)
(***************************************************************************)
Accepted == 1..accepted

(* Serial ids are unique, across the turn of a second or a minute, as long *)
(* as no second had more than SerialRange connections.                     *)
UniqueIds == \A c, d \in Accepted : c # d /\ id[c] = id[d] => crowded

(* A Start functor, posted by one thread and run by another, finds under   *)
(* its id the connection it was posted for: never a null pointer and never *)
(* another one, even when ids repeat.                                      *)
StartFindsIts ==
    \A t \in Threads :
       \A c \in ({queue[t][i] : i \in DOMAIN queue[t]} \ {0})
                 \cup (IF pc[t] = "lookup" THEN {arg[t]} ELSE {}) :
          id[c] \in DOMAIN connections /\ connections[id[c]] = c

(* connections_ holds the connections that live and, besides null entries  *)
(* left by GetConnection, no others: none is lost, none is kept after its  *)
(* close callback.                                                         *)
MapExact ==
    {connections[k] : k \in DOMAIN connections} \ {0}
      = {c \in Conns : state[c] \in {"stored", "started"}}

(* README.md:12, load balancing: the numbers of connections given to two   *)
(* worker loops never differ by more than one.                             *)
Balanced ==
    LET given(w) == Cardinality({c \in Accepted : loopOf[c] = w})
    IN  \A v, w \in Threads \ {Main} : given(v) - given(w) <= 1

(* A connection stored is started by its loop.                             *)
EventuallyStarted ==
    \A c \in Conns : (state[c] = "stored") ~> (state[c] = "started" \/ Ended)

(* A client that reached the listening socket is accepted, however early   *)
(* it came (before the loop watches the socket, in one event with others). *)
EventuallyAccepted ==
    \A k \in Conns :
       (accepted + backlog >= k) ~> (accepted >= k \/ Ended)

(* README.md:11 calls the code safe: connections_ is never used by two     *)
(* threads at the same time.                                               *)
MapRaceFree == ~Race
=============================================================================
