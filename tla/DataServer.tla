----------------------------- MODULE DataServer -----------------------------
(***************************************************************************)
(* DataServer: the message callback of its connections, on the worker      *)
(* loops of its TCPServer, and PGManager behind it.                        *)
(*                                                                         *)
(* A peer (a gate) sends the messages of its script, in order; the bytes   *)
(* arrive in pieces of any size, several messages in one or one in many.   *)
(* Every piece makes HandleRead append it to the receive buffer and call   *)
(* message_cb once, which deals with one message at most.                  *)
(*                                                                         *)
(* The receive buffer (a byte queue, module ByteQueue) is the part of the  *)
(* stream between two positions: pos, up to which it has been consumed,    *)
(* and received.  The callback compares the length of the buffer with 13,  *)
(* with the message and with the message and 4 more, so that pieces that   *)
(* end on either side of these (Cuts) stand for all others.                *)
(*                                                                         *)
(* A connection whose pos is inside a message is out of step: its next tag *)
(* and length are arbitrary bytes and the model follows it no further.     *)
(* Two threads in one PGconn at a time are undefined behaviour of libpq,   *)
(* and the text of a query that is longer than SelectUser's array is       *)
(* written beyond it; the model stops at either.                           *)
(***************************************************************************)
EXTENDS Framing, FiniteSets

CONSTANTS Script,     \* per connection: the messages its peer sends
          LoopOf,     \* per connection: its worker thread
          Patient,    \* connections whose peer waits for each answer
          Cuts,       \* offsets in a message at which a piece may end
          BigEndian,  \* byte order of the host
          ConnNum,    \* PGManager, RedisManager: conn_num_
          SqlRoom,    \* bytes of name and password that fit in sql[128] (64)
          NoUser      \* credentials that are not in GameUser

Conns == DOMAIN Script
Threads == {LoopOf[c] : c \in Conns}

(* A message: its tag, the id and the user it is about, and the length of  *)
(* what is variable in it (name and password, or an unknown body), below   *)
(* 32 KiB: from 64 KiB on a length in the wrong byte order can be less     *)
(* than the length.                                                        *)
Message(m) == /\ m.tag \in {"l", "other"}
              /\ m.var \in Nat /\ m.var < 2^15

ASSUME DataServerAssumption ==
    /\ \A c \in Conns :
          /\ Script[c] \in Seq({Script[c][i] : i \in DOMAIN Script[c]})
          /\ \A i \in DOMAIN Script[c] : Message(Script[c][i])
    /\ DOMAIN LoopOf = Conns
    /\ Patient \subseteq Conns
    /\ \A c \in Patient : \A i \in DOMAIN Script[c] : Script[c][i].tag = "l"
    /\ Cuts \subseteq Nat
    /\ BigEndian \in BOOLEAN
    /\ ConnNum \in Nat \ {0} /\ SqlRoom \in Nat

(* | l | len | id | len | name | len | password |, len without the tag     *)
Size(m) == IF m.tag = "l" THEN 1 + 4 + 8 + 4 + 4 + m.var ELSE 1 + 4 + m.var
LenField(m) == Size(m) - 1

(* Positions in the streams: behind the k-th message of c, and where a     *)
(* piece may end.                                                          *)
Sizes(c) == [k \in DOMAIN Script[c] |-> Size(Script[c][k])]

Ends == [c \in Conns |-> EndsOf(Sizes(c))]

End(c, k) == Ends[c][k]

PieceEnds == [c \in Conns |-> PiecesOf(Sizes(c), Cuts)]

VARIABLES
    sent,      \* per connection: messages the peer has sent
    received,  \* per connection: bytes put into the receive buffer so far
    pos,       \* per connection: bytes consumed
    replies,   \* per connection: what was sent back
    boot,      \* main: before PGManager's Connect, before Redis', "up"
    contexts,  \* PGManager: size of conns_
    pick,      \* PickContext: its static i
    pc,        \* per thread: where it is in SelectUser
    job,       \* per thread: <<connection, message>> it works for
    ctx        \* per thread: the i it has read, then its PGconn

connVars == <<sent, received, pos, replies>>
vars == <<connVars, boot, contexts, pick, pc, job, ctx>>

TypeOK ==
    /\ \A c \in Conns : /\ sent[c] \in 0..Len(Script[c])
                        /\ received[c] \in 0..End(c, sent[c])
                        /\ pos[c] \in 0..received[c]
                        /\ \A i \in DOMAIN replies[c] :
                              replies[c][i].tag \in {"s", "x"}
    /\ boot \in {"pg", "redis", "up", "aborted"}
    /\ contexts \in 0..ConnNum
    /\ pick \in Nat
    /\ pc \in [Threads -> {"idle", "pick", "picked", "query", "overrun"}]
    /\ ctx \in [Threads -> Nat]

Init ==
    /\ sent = [c \in Conns |-> 0]
    /\ received = [c \in Conns |-> 0]
    /\ pos = [c \in Conns |-> 0]
    /\ replies = [c \in Conns |-> <<>>]
    /\ boot = "pg"
    /\ contexts = 0
    /\ pick = 0
    /\ pc = [t \in Threads |-> "idle"]
    /\ job = [t \in Threads |-> <<>>]
    /\ ctx = [t \in Threads |-> 0]

Misused == \E s, t \in Threads : /\ s # t
                                 /\ pc[s] = "query" /\ pc[t] = "query"
                                 /\ ctx[s] = ctx[t]

Ended == Misused \/ \E t \in Threads : pc[t] = "overrun"

At(t, p) == pc[t] = p /\ ~Ended

InStep(c) == \E k \in 0..Len(Script[c]) : pos[c] = End(c, k)

(* The message at the front of the buffer of c.                            *)
Front(c) == CHOOSE k \in DOMAIN Script[c] : pos[c] = End(c, k - 1)

-----------------------------------------------------------------------------
(***************************************************************************)
(* main, before the server listens.  Each Connect makes ConnNum attempts,  *)
(* keeps what succeeds and asserts that something did; NDEBUG is never     *)
(* defined.  Nobody uses the connections to Redis afterwards.              *)
(***************************************************************************)
Checked(n, next) == IF n > 0 THEN next ELSE "aborted"

PGConnect ==
    /\ boot = "pg"
    /\ contexts' \in 0..ConnNum
    /\ boot' = Checked(contexts', "redis")
    /\ UNCHANGED <<connVars, pick, pc, job, ctx>>

RedisConnect ==
    /\ boot = "redis"
    /\ \E n \in 0..ConnNum : boot' = Checked(n, "up")
    /\ UNCHANGED <<connVars, contexts, pick, pc, job, ctx>>

PeerSends(c) ==
    /\ boot = "up" /\ ~Ended
    /\ sent[c] < Len(Script[c])
    /\ c \in Patient => Len(replies[c]) = sent[c]
    /\ sent' = [sent EXCEPT ![c] = @ + 1]
    /\ UNCHANGED <<received, pos, replies, boot, contexts, pick, pc, job, ctx>>

(***************************************************************************)
(* message_cb.                                                             *)
(***************************************************************************)
PeekLen(m) == PeekTagLen(BigEndian, LenField(m))

(* Mutants: the length test forgotten; an off-by-one in it.                *)
Complete_NoLength(length, m) == length >= 13

Complete_Strict(length, m) == length >= 13 /\ PeekLen(m) < length - 1

Complete(length, m) == length >= 13 /\ PeekLen(m) <= length - 1

(* Where a handled message of c, at the front of length bytes, leaves pos. *)
(* Mutants: a login is looked at and not taken out; len taken for the      *)
(* length of the whole message.                                            *)
Consume_Peek(at, length, m) == IF m.tag = "l" THEN at ELSE at + length

Consume_Len(at, length, m) == at + LenField(m)

(* A login is read to its end; an unknown message loses its header and is  *)
(* Forwarded by the whole len, which empties a buffer that has no more.    *)
Consume(at, length, m) ==
    IF m.tag = "l" THEN at + Size(m)
    ELSE IF LenField(m) < length - 5 THEN at + 5 + LenField(m)
    ELSE at + length

(* A piece arrives, up to position e of the stream: HandleRead and         *)
(* message_cb, up to SelectUser.                                           *)
HandleRead(c, e) ==
    LET t == LoopOf[c]
        length == e - pos[c]
        m == Script[c][Front(c)]
    IN  /\ e > received[c] /\ e <= End(c, sent[c])
        /\ At(t, "idle") /\ InStep(c)
        /\ received' = [received EXCEPT ![c] = e]
        /\ IF Complete(length, m)
           THEN /\ pos' = [pos EXCEPT ![c] = Consume(@, length, m)]
                /\ IF m.tag = "l"
                   THEN /\ pc' = [pc EXCEPT ![t] = "pick"]
                        /\ job' = [job EXCEPT ![t] = <<c, m>>]
                   ELSE UNCHANGED <<pc, job>>
           ELSE UNCHANGED <<pos, pc, job>>
        /\ UNCHANGED <<sent, replies, boot, contexts, pick, ctx>>

(***************************************************************************)
(* SelectUser.  PickContext reads and stores its static counter in two     *)
(* steps; nobody holds the mutex of PGManager.                             *)
(***************************************************************************)
ReadPick(t) ==
    /\ At(t, "pick")
    /\ ctx' = [ctx EXCEPT ![t] = pick]
    /\ pc' = [pc EXCEPT ![t] = "picked"]
    /\ UNCHANGED <<connVars, boot, contexts, pick, job>>

Null == -1

PickContext(t) ==
    /\ At(t, "picked")
    /\ pick' = ctx[t] + 1
    /\ ctx' = [ctx EXCEPT ![t] = IF contexts = 0 THEN Null ELSE @ % contexts]
    /\ pc' = [pc EXCEPT ![t] = "query"]
    /\ UNCHANGED <<connVars, boot, contexts, job>>

(* The text of the query, written with sprintf.                            *)
Fits(m) == m.var <= SqlRoom

Overrun(t) ==
    /\ At(t, "query") /\ ~Fits(job[t][2])
    /\ pc' = [pc EXCEPT ![t] = "overrun"]
    /\ UNCHANGED <<connVars, boot, contexts, pick, job, ctx>>

(* The uid of the row, or -1: no row, or the query failed.                 *)
SelectUser(m) == {m.user, NoUser}

Answer(m, uid) == [tag |-> IF uid = NoUser THEN "x" ELSE "s",
                   id |-> m.id, uid |-> uid]

Reply(t) ==
    /\ At(t, "query") /\ Fits(job[t][2])
    /\ LET c == job[t][1]
           m == job[t][2]
       IN  \E uid \in SelectUser(m) :
              replies' = [replies EXCEPT ![c] = Append(@, Answer(m, uid))]
    /\ pc' = [pc EXCEPT ![t] = "idle"]
    /\ job' = [job EXCEPT ![t] = <<>>]
    /\ ctx' = [ctx EXCEPT ![t] = 0]
    /\ UNCHANGED <<sent, received, pos, boot, contexts, pick>>

Query(t) == ReadPick(t) \/ PickContext(t) \/ Overrun(t) \/ Reply(t)

Arrival(c) == \E e \in PieceEnds[c] : HandleRead(c, e)

Next == \/ PGConnect \/ RedisConnect
        \/ \E c \in Conns : PeerSends(c) \/ Arrival(c)
        \/ \E t \in Threads : Query(t)

Spec == Init /\ [][Next]_vars

(* Bytes sent arrive, level-triggered epoll reports them whatever else the *)
(* thread does, and queries end.                                           *)
FairSpec == /\ Spec
            /\ \A c \in Conns : SF_vars(Arrival(c))
            /\ \A t \in Threads : WF_vars(Query(t))

-----------------------------------------------------------------------------
(* The logins among the first k messages of c.                             *)
LoginsUpTo(c, k) == {j \in 1..k : Script[c][j].tag = "l"}

(* However the stream is cut into pieces, the i-th answer on a connection  *)
(* belongs to its i-th login: none is answered twice, left out or answered *)
(* with another's id, and an "s" carries the user who logged in.           *)
RepliesMatch ==
    \A c \in Conns : \A i \in DOMAIN replies[c] : \E k \in DOMAIN Script[c] :
       LET r == replies[c][i]
           m == Script[c][k]
       IN  /\ m.tag = "l" /\ Cardinality(LoginsUpTo(c, k)) = i
           /\ r.id = m.id
           /\ r.tag = "s" => r.uid = m.user /\ r.uid # NoUser

(* The handler loses the message boundaries only behind an unknown tag     *)
(* (whose Forward takes four bytes too many), never through fragments or   *)
(* coalesced messages.                                                     *)
OutOfStepOnlyAfterUnknown ==
    \A c \in Conns :
       ~InStep(c) => \E k \in DOMAIN Script[c] :
                        Script[c][k].tag = "other" /\ End(c, k) < pos[c]

(* DataServer.cpp:48, "for login | l | len | id | len | name | len |       *)
(* password |": a peer that sends such messages, one at a time, gets each  *)
(* of them answered once it has arrived as a whole, unless a login too     *)
(* long or a shared PGconn has ended it all.                               *)
LoginAnswered ==
    \A c \in Patient : \A k \in DOMAIN Script[c] :
       (received[c] >= End(c, k)) ~> (Len(replies[c]) >= k \/ Ended)
=============================================================================
