----------------------------- MODULE Connection -----------------------------
(***************************************************************************)
(* One TCPConnection with its FdWatcher, from the moment its owner         *)
(* (TCPServer::connections_ or TCPClient::connection_) has stored it and   *)
(* posted its Start, on the event loop it was assigned to.                 *)
(*                                                                         *)
(* The loop thread alternates between batches of functors (EventLoop, here *)
(* as the queue TaskQueue describes, with the batch kept apart because it  *)
(* keeps its closures alive until its last functor has run) and events of  *)
(* the connection's descriptor.  Other threads call Send and Close.        *)
(*                                                                         *)
(* The C++ object lives as long as somebody owns a shared_ptr to it: the   *)
(* owner, a thread in keepers, the argument of a callback in progress, the *)
(* closure of Close.  The closure of Send and the callbacks of the         *)
(* FdWatcher hold the raw `this'.                                          *)
(*                                                                         *)
(* Bytes are numbered in the order in which Send accepts them, so what is  *)
(* on the wire can be compared with what was accepted.  Buffer is the      *)
(* byte queue of module ByteQueue.  FdWatcher::ev_type_ and the set        *)
(* registered with libevent change together: one variable, interest.       *)
(***************************************************************************)
EXTENDS Integers, Sequences

CONSTANTS Users,      \* threads other than the loop that use the connection
          KeeperSets, \* which of them may own a ConnSPtr all the time
          SendLens,   \* lengths of the buffers given to Send
          KernelCap,  \* bytes the socket takes before write fails
          MaxBytes,   \* bound on the bytes accepted
          MaxSends,   \* bound on the calls of Send that go through
          MaxCloses,  \* bound on the calls of Close
          MaxInput    \* bound on the bytes from the peer waiting to be read

ASSUME ConnectionAssumption ==
    /\ KeeperSets \subseteq SUBSET Users
    /\ SendLens \subseteq Nat
    /\ KernelCap \in Nat \ {0}
    /\ MaxBytes \in Nat /\ MaxSends \in Nat /\ MaxCloses \in Nat
    /\ MaxInput \in Nat

VARIABLES
    status,     \* status_
    interest,   \* ev_type_: the events registered, "R" and "W"
    sendBuf,    \* send_buffer_
    keepers,    \* the users that own a ConnSPtr, from the start and for good
    owned,      \* the owner still holds its ConnSPtr
    pending,    \* functors of this connection posted to its loop
    batch,      \* the functors the loop took out together ...
    next,       \* ... and the first of them not yet executed
    lpc,        \* where the loop thread is; "crashed": a freed object was
                \* touched, by any thread, and nothing is known any more
    wantWrite,  \* FdWatcher::Handle has its EV_WRITE half still to do
    upc,        \* where each user thread is in Send
    wire,       \* bytes the kernel has accepted, in order
    unread,     \* how many of them still fill the socket
    input,      \* bytes from the peer not yet read
    peer,       \* "open", "fin", "reset", "gone" (reset already reported)
    accepted,   \* number of bytes accepted by Send
    sends,      \* number of Sends that went through
    closes,     \* number of calls of Close
    closed,     \* history: HandleClose has run
    closeMark   \* history: bytes accepted before the last call of Close

loopVars == <<pending, batch, next>>
connVars == <<status, interest, sendBuf, owned>>
sockVars == <<wire, unread, input, peer>>
userVars == <<keepers, accepted, sends, closes, closeMark>>
vars == <<connVars, loopVars, lpc, wantWrite, upc, sockVars, userVars, closed>>

Callbacks == {"conn_cb", "read_cb", "close_cb"}

Functor == [op : {"start", "close"}] \cup [op : {"send"}, data : Seq(Nat)]

TypeOK ==
    /\ status \in {"Connected", "Disconnected"}
    /\ interest \subseteq {"R", "W"}
    /\ sendBuf \in Seq(1..MaxBytes) /\ wire \in Seq(1..MaxBytes)
    /\ keepers \in KeeperSets
    /\ owned \in BOOLEAN /\ wantWrite \in BOOLEAN
    /\ closed \in BOOLEAN
    /\ pending \in Seq(Functor) /\ batch \in Seq(Functor)
    /\ next \in Nat \ {0}
    /\ lpc \in {"idle", "write", "crashed"} \cup Callbacks
    /\ lpc = "idle" => ~wantWrite
    /\ upc \in [Users -> {"idle", "checked"}]
    /\ unread \in 0..KernelCap
    /\ input \in 0..MaxInput
    /\ peer \in {"open", "fin", "reset", "gone"}
    /\ accepted \in 0..MaxBytes
    /\ sends \in 0..MaxSends
    /\ closes \in 0..MaxCloses
    /\ closeMark \in 0..MaxBytes

(* The constructor, and the owner's HandleNewConn.                         *)
Init ==
    /\ status = "Connected"
    /\ interest = {}
    /\ sendBuf = <<>>
    /\ keepers \in KeeperSets
    /\ owned = TRUE
    /\ pending = <<[op |-> "start"]>>
    /\ batch = <<>>
    /\ next = 1
    /\ lpc = "idle"
    /\ wantWrite = FALSE
    /\ upc = [u \in Users |-> "idle"]
    /\ wire = <<>> /\ unread = 0
    /\ input = 0
    /\ peer = "open"
    /\ accepted = 0 /\ sends = 0 /\ closes = 0
    /\ closed = FALSE
    /\ closeMark = 0

-----------------------------------------------------------------------------
(* A closure of Close is destroyed with its batch, not when it has run.    *)
(* Mutant: a functor is moved out of the batch to be run.                  *)
HeldByFunctor_Moved ==
    \E f \in {pending[i] : i \in DOMAIN pending}
             \cup {batch[i] : i \in next..Len(batch)} : f.op = "close"

HeldByFunctor ==
    \E f \in {pending[i] : i \in DOMAIN pending}
             \cup {batch[i] : i \in DOMAIN batch} : f.op = "close"

HeldOutside == owned \/ keepers # {} \/ HeldByFunctor

Alive == HeldOutside \/ lpc \in Callbacks

(* Undefined behaviour: the step goes no further.                          *)
TouchFreed ==
    /\ lpc' = "crashed"
    /\ UNCHANGED <<connVars, loopVars, wantWrite, upc, sockVars, userVars,
                   closed>>

-----------------------------------------------------------------------------
(***************************************************************************)
(* Send and Close, by a thread that owns a ConnSPtr or goes through the    *)
(* owner's.  Send reads status_ and posts in two steps; a Send that finds  *)
(* the connection closed returns.                                          *)
(***************************************************************************)
Running == lpc # "crashed"

CanCall(u) == Running /\ upc[u] = "idle" /\ (u \in keepers \/ owned)

Room(n) == sends < MaxSends /\ accepted + n <= MaxBytes

PostSend(n) ==
    /\ Room(n)
    /\ pending' = Append(pending, [op |-> "send",
                                   data |-> [i \in 1..n |-> accepted + i]])
    /\ accepted' = accepted + n
    /\ sends' = sends + 1
    /\ UNCHANGED <<batch, next, keepers, closes, closeMark>>

PostClose ==
    /\ closes < MaxCloses
    /\ pending' = Append(pending, [op |-> "close"])
    /\ closes' = closes + 1
    /\ closeMark' = accepted
    /\ UNCHANGED <<batch, next, keepers, accepted, sends>>

SendCheck(u) ==
    /\ CanCall(u)
    /\ status = "Connected"
    /\ upc' = [upc EXCEPT ![u] = "checked"]
    /\ UNCHANGED <<connVars, loopVars, lpc, wantWrite, sockVars, userVars,
                   closed>>

SendPost(u) ==
    /\ Running /\ upc[u] = "checked"
    /\ \/ /\ Alive
          /\ \E n \in SendLens : PostSend(n)
          /\ upc' = [upc EXCEPT ![u] = "idle"]
          /\ UNCHANGED <<connVars, lpc, wantWrite, sockVars, closed>>
       \/ ~Alive /\ TouchFreed

Close(u) ==
    /\ CanCall(u)
    /\ PostClose
    /\ UNCHANGED <<connVars, lpc, wantWrite, upc, sockVars, closed>>

(* The application's callbacks run on the loop thread and may do the same. *)
CallbackSends ==
    /\ lpc \in Callbacks
    /\ status = "Connected"
    /\ \E n \in SendLens : PostSend(n)
    /\ UNCHANGED <<connVars, lpc, wantWrite, upc, sockVars, closed>>

CallbackCloses ==
    /\ lpc \in Callbacks
    /\ PostClose
    /\ UNCHANGED <<connVars, lpc, wantWrite, upc, sockVars, closed>>

-----------------------------------------------------------------------------
(***************************************************************************)
(* write(2) on the non-blocking socket.  The code treats 0 and -1 alike    *)
(* (full socket, broken connection): nothing taken.  The first failure     *)
(* after a reset clears the socket's error.                                *)
(***************************************************************************)
Min2(a, b) == IF a < b THEN a ELSE b

Taken(data) ==
    IF peer \in {"reset", "gone"} THEN 0
    ELSE Min2(Len(data), KernelCap - unread)

Write(data) ==
    /\ wire' = wire \o SubSeq(data, 1, Taken(data))
    /\ unread' = unread + Taken(data)
    /\ peer' = IF peer = "reset" THEN "gone" ELSE peer
    /\ UNCHANGED input

Rest(data) == SubSeq(data, Taken(data) + 1, Len(data))

(* FdWatcher: every change of ev_type_ registers the event anew (Start).   *)
Register(events) == interest' = events
EnableRead == Register(interest \cup {"R"})
EnableWrite == Register(interest \cup {"W"})
DisableWrite_All == Register({})    \* mutant: all events
DisableWrite == Register(interest \ {"W"})
DisableAll_Nothing == UNCHANGED interest    \* mutant
DisableAll == Register({})

(* Whether SendInLoop may write at once, and what it does with EV_WRITE.   *)
(* Mutants: the test of send_buffer_ dropped; EV_WRITE asked for only when *)
(* the first write took something.                                         *)
Direct_NoLengthTest == "W" \notin interest
Direct == "W" \notin interest /\ sendBuf = <<>>

AskForWrite_IfTaken(data) ==
    IF Taken(data) > 0 THEN EnableWrite ELSE UNCHANGED interest
AskForWrite(data) == EnableWrite

SendInLoop(data) ==
    /\ IF Direct
       THEN Write(data) /\ sendBuf' = sendBuf \o Rest(data)
       ELSE sendBuf' = sendBuf \o data /\ UNCHANGED sockVars
    /\ AskForWrite(data)
    /\ UNCHANGED <<status, owned, lpc, wantWrite, closed>>

(* HandleClose up to and into close_cb_, whose first act is the owner's:   *)
(* it drops its pointer.                                                   *)
HandleClose ==
    /\ DisableAll
    /\ owned' = FALSE
    /\ closed' = TRUE
    /\ lpc' = "close_cb"
    /\ UNCHANGED <<status, sendBuf>>

Start ==
    /\ EnableRead
    /\ lpc' = "conn_cb"
    /\ UNCHANGED <<status, sendBuf, owned, sockVars, wantWrite, closed>>

(***************************************************************************)
(* Functors.  Swap and BatchDone bracket ProcessPendingFunctors; between   *)
(* them the loop handles no event of the descriptor.                       *)
(***************************************************************************)
LoopIdle == lpc = "idle" /\ batch = <<>>

Swap ==
    /\ LoopIdle
    /\ pending # <<>>
    /\ batch' = pending
    /\ pending' = <<>>
    /\ UNCHANGED <<next, connVars, lpc, wantWrite, upc, sockVars, userVars,
                   closed>>

BatchDone ==
    /\ lpc = "idle" /\ batch # <<>>
    /\ next > Len(batch)
    /\ batch' = <<>>
    /\ next' = 1
    /\ UNCHANGED <<pending, connVars, lpc, wantWrite, upc, sockVars, userVars,
                   closed>>

Execute(f) ==
    \/ f.op = "start" /\ Start
    \/ f.op = "send" /\ SendInLoop(f.data)
    \/ f.op = "close" /\ HandleClose /\ UNCHANGED <<sockVars, wantWrite>>

RunFunctor ==
    /\ lpc = "idle" /\ next <= Len(batch)
    /\ \/ /\ Alive
          /\ Execute(batch[next])
          /\ next' = next + 1
          /\ UNCHANGED <<pending, batch, upc, userVars>>
       \/ ~Alive /\ TouchFreed

(***************************************************************************)
(* FdWatcher::Handle: first the read callback, then the write callback,    *)
(* for the events libevent reported together.                              *)
(***************************************************************************)
Ready ==
    (IF input > 0 \/ peer # "open" THEN {"R"} ELSE {})
    \cup (IF unread < KernelCap \/ peer \in {"reset", "gone"}
          THEN {"W"} ELSE {})

(* Mutant: "else if" before the test of EV_WRITE.                          *)
AfterRead_Only(w) == "idle"
AfterRead(w) == IF w THEN "write" ELSE "idle"

(* HandleRead: data, the reset reported as an error and ignored, or EOF.   *)
HandleRead ==
    \/ /\ input > 0
       /\ \E n \in 1..input : input' = input - n
       /\ lpc' = "read_cb"
       /\ UNCHANGED <<connVars, wire, unread, peer, closed>>
    \/ /\ input = 0 /\ peer = "reset"
       /\ peer' = "gone"
       /\ lpc' = AfterRead(wantWrite')
       /\ UNCHANGED <<connVars, wire, unread, input, closed>>
    \/ /\ input = 0 /\ peer \in {"fin", "gone"}
       /\ HandleClose
       /\ UNCHANGED sockVars

HandleEvent ==
    /\ LoopIdle
    /\ Alive
    /\ LET which == interest \cap Ready
       IN  /\ which # {}
           /\ wantWrite' = ("W" \in which)
           /\ IF "R" \in which
              THEN HandleRead
              ELSE /\ lpc' = "write"
                   /\ UNCHANGED <<connVars, sockVars, closed>>
    /\ UNCHANGED <<loopVars, upc, userVars>>

(* HandleWrite: interest in EV_WRITE ends with the write that empties the  *)
(* buffer; a write of nothing, with the buffer empty before, ends nothing. *)
(* Mutants: a partial write ends it; nothing does.                         *)
WriteEnds_Early == Taken(sendBuf) > 0
WriteEnds_Never == FALSE
WriteEnds == Taken(sendBuf) > 0 /\ Rest(sendBuf) = <<>>

HandleWrite ==
    /\ Write(sendBuf)
    /\ sendBuf' = Rest(sendBuf)
    /\ IF WriteEnds THEN DisableWrite ELSE UNCHANGED interest
    /\ UNCHANGED <<status, owned>>

(* (An object that died in the read half was touched there already.)       *)
WriteEvent ==
    /\ lpc = "write"
    /\ HandleWrite
    /\ lpc' = "idle"
    /\ wantWrite' = FALSE
    /\ UNCHANGED <<loopVars, upc, userVars, closed>>

(***************************************************************************)
(* A callback returns and its argument, a ConnSPtr, is destroyed.  After   *)
(* close_cb_ HandleClose goes on to store into status_.                    *)
(***************************************************************************)
CallbackReturns ==
    /\ lpc \in Callbacks
    /\ \/ /\ lpc = "close_cb" => HeldOutside
          /\ status' = IF lpc = "close_cb" THEN "Disconnected" ELSE status
          /\ lpc' = AfterRead(wantWrite)
          /\ UNCHANGED <<interest, sendBuf, owned, loopVars, wantWrite, upc,
                         sockVars, userVars, closed>>
       \/ lpc = "close_cb" /\ ~HeldOutside /\ TouchFreed

-----------------------------------------------------------------------------
(* The peer and the network.                                               *)
PeerOnly == /\ Running
            /\ UNCHANGED <<connVars, loopVars, lpc, wantWrite, upc, userVars,
                           closed>>

PeerReads == /\ PeerOnly
             /\ unread > 0 /\ peer \in {"open", "fin"}
             /\ unread' = unread - 1
             /\ UNCHANGED <<wire, input, peer>>

PeerSends == /\ PeerOnly
             /\ input < MaxInput /\ peer = "open"
             /\ input' = input + 1
             /\ UNCHANGED <<wire, unread, peer>>

PeerLeaves == /\ PeerOnly
              /\ \/ peer = "open" /\ peer' = "fin"
                 \/ peer \in {"open", "fin"} /\ peer' = "reset"
              /\ UNCHANGED <<wire, unread, input>>

-----------------------------------------------------------------------------
UserStep == \E u \in Users : SendCheck(u) \/ SendPost(u) \/ Close(u)

CallbackStep == CallbackSends \/ CallbackCloses

LoopStep == \/ Swap \/ RunFunctor \/ BatchDone
            \/ HandleEvent \/ WriteEvent \/ CallbackReturns

PeerStep == PeerReads \/ PeerSends \/ PeerLeaves

Next == UserStep \/ CallbackStep \/ LoopStep \/ PeerStep

Spec == Init /\ [][Next]_vars

(***************************************************************************)
(* The loop thread keeps running and callbacks return.  epoll reports every*)
(* ready descriptor in every round and libevent runs all that is reported  *)
(* before it polls again, so neither the wake-up pipe nor the connection's *)
(* descriptor can starve the other: strong fairness for Swap and for       *)
(* HandleEvent.  The peer reads what reached it.                           *)
(***************************************************************************)
Fairness == /\ WF_vars(LoopStep)
            /\ SF_vars(Swap)
            /\ SF_vars(HandleEvent)
            /\ WF_vars(PeerReads)

FairSpec == Spec /\ Fairness

-----------------------------------------------------------------------------
(***************************************************************************)
(* Properties.                                                             *)
(***************************************************************************)

(* What the socket took, followed by what send_buffer_ keeps, is what Send *)
(* accepted: no byte lost, repeated or overtaken, whether SendInLoop wrote *)
(* at once, partly, or buffered, HandleWrite failed, or the peer left.     *)
StreamInOrder ==
    LET s == wire \o sendBuf IN \A i \in DOMAIN s : s[i] = i

(* Until the connection is closed, buffered bytes have EV_WRITE registered *)
(* (or the write half of Handle already running): they cannot be stranded. *)
NeverStranded ==
    sendBuf # <<>> /\ ~closed => "W" \in interest

(* HandleClose ends the inbound side for good: no functor still queued and *)
(* no event re-armed later makes the loop call read_cb_ again.             *)
NoReadAfterClose ==
    [][closed => ~(lpc # "read_cb" /\ lpc' = "read_cb")]_vars

(* How far a Close protects what was posted before it, although a Send     *)
(* holds the raw `this' and the owner lets go of the object in close_cb_:  *)
(* all bytes accepted before the last call of Close went through           *)
(* SendInLoop (its closure is behind theirs in the queue), and a freed     *)
(* object is never touched in the middle of a batch (the closure lives as  *)
(* long as the batch it ran in).                                           *)
FreedBehindClose ==
    lpc = "crashed" => /\ Len(wire) + Len(sendBuf) >= closeMark
                       /\ next = 1

(* Every byte accepted reaches the socket, unless the connection (or the   *)
(* program) ends.                                                          *)
Delivered ==
    \A k \in 1..MaxBytes :
       (accepted >= k) ~> (Len(wire) >= k \/ closed
                           \/ peer \in {"reset", "gone"} \/ ~Running)

(* A peer that shut down or reset the connection is noticed, although      *)
(* HandleRead ignores the error of the reset.                              *)
PeerGoneNoticed == (peer # "open") ~> (closed \/ ~Running)

(* README.md:11: no raw pointers, the code is safe.  The loop never        *)
(* touches a TCPConnection that has been destroyed.                        *)
NoUseAfterFree == Running

(* A connection that has bytes to write gives up EV_WRITE once they are    *)
(* written, whatever Sends come in between: the level-triggered loop comes *)
(* to rest.  (With nothing to write it does not: HandleWrite.)             *)
WriteInterestEnds ==
    ("W" \in interest /\ sendBuf # <<>>)
       ~> ("W" \notin interest \/ closed \/ peer \in {"reset", "gone"}
           \/ ~Running)
=============================================================================
