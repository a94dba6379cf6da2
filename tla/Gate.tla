-------------------------------- MODULE Gate --------------------------------
(***************************************************************************)
(* GateServer: the callbacks of its server, on the loops of its client     *)
(* connections, and those of its two TCPClients, on the main loop.         *)
(*                                                                         *)
(* Clients and the data server (Db) send the messages of Script in order;  *)
(* the bytes arrive in pieces, as in DataServer, and each piece makes      *)
(* HandleRead call the message callback once.  Db is any program that      *)
(* sends "s" and "x" messages: what DataServer answers depends on logins   *)
(* that this program would have to forward first.                          *)
(*                                                                         *)
(* Several callbacks end without a return statement.  That is undefined;   *)
(* a build either traps there or returns a value that nobody looks at      *)
(* (Unreturned).  A stream in which the callback is out of step (pos not   *)
(* at the start of a message) is followed no further.                      *)
(*                                                                         *)
(* TCPServer and TCPClient are taken as in Server and Client, without the  *)
(* race on connections_: HandleNewConn, the Start functor and the end of a *)
(* connection are one step each.  SetAuthorized and setUserId are one step *)
(* because nothing reads user_id_.                                         *)
(***************************************************************************)
EXTENDS Framing, FiniteSets

CONSTANTS Db,      \* the stream from the data server
          Script,  \* per client connection, and for Db: the messages sent
          Cuts,    \* offsets in a message at which a piece may end
          Hosts    \* [big: network byte order, wide: an id fits an unsigned]

Streams == DOMAIN Script
Clients == Streams \ {Db}

(* A message: its tag and the length of what follows tag and len, below    *)
(* 32 KiB as in DataServer; from Db also the id and, with "s", the user.   *)
Message(s, m) == /\ m.tag \in IF s = Db THEN {"s", "x"} ELSE {"l", "other"}
                 /\ m.var \in 0..(2^15 - 1)
                 /\ m.tag = "s" => m.var = 16 /\ m.user \in Int
                 /\ m.tag = "x" => m.var = 8

ASSUME GateAssumption ==
    /\ Db \in Streams
    /\ \A s \in Streams :
          /\ Script[s] \in Seq({Script[s][i] : i \in DOMAIN Script[s]})
          /\ \A i \in DOMAIN Script[s] : Message(s, Script[s][i])
    /\ Cuts \subseteq Nat
    /\ Hosts \subseteq [big : BOOLEAN, wide : BOOLEAN]

LenField(m) == 4 + m.var
Sizes(s) == [k \in DOMAIN Script[s] |-> 1 + LenField(Script[s][k])]

Ends == [s \in Streams |-> EndsOf(Sizes(s))]

End(s, k) == Ends[s][k]

PieceEnds == [s \in Streams |-> PiecesOf(Sizes(s), Cuts)]

VARIABLES
    host,        \* the machine the program was built for
    stage,       \* per client: "none", "stored", "started", "closed"
    received,    \* per stream: bytes put into the receive buffer so far
    pos,         \* per stream: bytes consumed
    authorized,  \* per client: authorized_
    user,        \* per client: user_id_
    forwards,    \* what was sent to Db
    dbUp,        \* db has a connection
    crashed

streamVars == <<received, pos>>
clientVars == <<authorized, user>>
vars == <<host, stage, streamVars, clientVars, forwards, dbUp, crashed>>

NoUser == -1

TypeOK ==
    /\ host \in Hosts
    /\ stage \in [Clients -> {"none", "stored", "started", "closed"}]
    /\ \A s \in Streams : /\ received[s] \in 0..End(s, Len(Script[s]))
                          /\ pos[s] \in 0..received[s]
    /\ authorized \in [Clients -> BOOLEAN]
    /\ user \in [Clients -> Int]
    /\ \A i \in DOMAIN forwards : forwards[i].id \in Clients
    /\ dbUp \in BOOLEAN /\ crashed \in BOOLEAN

Init ==
    /\ host \in Hosts
    /\ stage = [c \in Clients |-> "none"]
    /\ received = [s \in Streams |-> 0]
    /\ pos = [s \in Streams |-> 0]
    /\ authorized = [c \in Clients |-> FALSE]
    /\ user = [c \in Clients |-> NoUser]
    /\ forwards = <<>>
    /\ dbUp = TRUE
    /\ crashed = FALSE

(* The end of a callback that returns nothing.                             *)
Unreturned == crashed' \in BOOLEAN

Returned == crashed' = crashed

-----------------------------------------------------------------------------
(***************************************************************************)
(* The life of a client connection.                                        *)
(***************************************************************************)
HandleNewConn(c) ==
    /\ ~crashed /\ stage[c] = "none"
    /\ stage' = [stage EXCEPT ![c] = "stored"]
    /\ UNCHANGED <<host, streamVars, clientVars, forwards, dbUp, crashed>>

(* The connection callback; the "A" that it sends changes nothing here.    *)
Start(c) ==
    /\ ~crashed /\ stage[c] = "stored"
    /\ stage' = [stage EXCEPT ![c] = "started"]
    /\ authorized' = [authorized EXCEPT ![c] = FALSE]
    /\ UNCHANGED <<host, streamVars, user, forwards, dbUp, crashed>>

(* Erased from connections_, then the close callback, which is empty.      *)
CloseCallback(c) ==
    /\ ~crashed /\ stage[c] = "started"
    /\ stage' = [stage EXCEPT ![c] = "closed"]
    /\ Unreturned
    /\ UNCHANGED <<host, streamVars, clientVars, forwards, dbUp>>

-----------------------------------------------------------------------------
InStep(s) == \E k \in 0..Len(Script[s]) : pos[s] = End(s, k)

(* The message at the front of the buffer of s is number Front(s).         *)
Front(s) == CHOOSE k \in DOMAIN Script[s] : pos[s] = End(s, k - 1)

Arrival(s, e) ==
    /\ ~crashed /\ InStep(s)
    /\ e > received[s]
    /\ received' = [received EXCEPT ![s] = e]

(* Mutant: the length test forgotten.                                      *)
Complete_NoLength(least, length, m) == length >= least

Complete(least, length, m) ==
    /\ length >= least
    /\ PeekTagLen(host.big, LenField(m)) <= length - 1

(* ReadString takes what there is.  Mutant: as many bytes as it is told.   *)
ReadString_All(len, length) == len
ReadString(len, length) == IF len > length THEN length ELSE len

(* The value read from a login with length bytes in the buffer: len counts *)
(* its own four bytes, so that it takes up to four of the next message.    *)
Value(m, length) == ReadString(LenField(m), length - 5)

(* What a login takes out of the buffer.  Mutants: it is looked at and     *)
(* stays; len is taken for the length of the whole message.                *)
Login_Peek(m, length) == 0
Login_Len(m, length) == LenField(m)
Login(m, length) == 5 + Value(m, length)

(* A login of an authorised client, the k-th message of c, goes to Db with *)
(* the client's id.  Without a connection db.Send uses a null pointer.     *)
ForwardLogin(c, k, length) ==
    LET m == Script[c][k]
    IN  /\ pos' = [pos EXCEPT ![c] = @ + Login(m, length)]
        /\ IF dbUp
           THEN /\ forwards' = Append(forwards,
                                  [id |-> c, msg |-> k, len |-> LenField(m) + 8,
                                   value |-> Value(m, length)])
                /\ Unreturned
           ELSE crashed' = TRUE /\ UNCHANGED forwards

(* The message callback: bytes of c arrive, up to position e.              *)
ClientMessage(c, e) ==
    /\ stage[c] = "started"
    /\ Arrival(c, e)
    /\ LET length == e - pos[c]
           m == Script[c][Front(c)]
           complete == Complete(5, length, m)
       IN  \/ /\ authorized[c] /\ complete /\ m.tag = "l"
              /\ ForwardLogin(c, Front(c), length)
           \/ /\ authorized[c] /\ complete /\ m.tag # "l"
              /\ pos' = [pos EXCEPT ![c] = e]
              /\ Returned
              /\ UNCHANGED forwards
           \/ /\ authorized[c] /\ ~complete
              /\ Returned
              /\ UNCHANGED <<pos, forwards>>
           \/ /\ ~authorized[c]
              /\ IF length >= 5 THEN Unreturned ELSE Returned
              /\ UNCHANGED <<pos, forwards>>
    /\ UNCHANGED <<host, stage, clientVars, dbUp>>

(***************************************************************************)
(* GetConnection truncates the id: on a host with a 32-bit unsigned it     *)
(* finds none.  (The null entry it leaves then is in Server.)              *)
(***************************************************************************)
GetConnection(id) ==
    IF host.wide THEN {id} \cap {c \in Clients : stage[c] \in {"stored", "started"}}
    ELSE {}

(* Db's message callback.  All but the tag of an "x" stays in the buffer.  *)
DbMessage(e) ==
    /\ dbUp
    /\ Arrival(Db, e)
    /\ LET m == Script[Db][Front(Db)]
           found == GetConnection(m.id)
       IN  \/ /\ Complete(13, e - pos[Db], m) /\ m.tag = "s"
              /\ pos' = [pos EXCEPT ![Db] = @ + 21]
              /\ authorized' = [c \in Clients |-> authorized[c] \/ c \in found]
              /\ user' = [c \in Clients |-> IF c \in found THEN m.user ELSE user[c]]
           \/ /\ Complete(13, e - pos[Db], m) /\ m.tag # "s"
              /\ pos' = [pos EXCEPT ![Db] = @ + 1]
              /\ UNCHANGED clientVars
           \/ /\ ~Complete(13, e - pos[Db], m)
              /\ UNCHANGED <<pos, clientVars>>
    /\ UNCHANGED <<host, stage, forwards, dbUp, crashed>>

DbLeaves ==
    /\ ~crashed /\ dbUp
    /\ dbUp' = FALSE
    /\ UNCHANGED <<host, stage, streamVars, clientVars, forwards, crashed>>

(* The message callback of game is empty.                                  *)
GameMessage ==
    /\ ~crashed
    /\ Unreturned
    /\ UNCHANGED <<host, stage, streamVars, clientVars, forwards, dbUp>>

-----------------------------------------------------------------------------
ClientReads(c) == \E e \in PieceEnds[c] : ClientMessage(c, e)
DbReads == \E e \in PieceEnds[Db] : DbMessage(e)

Next == \/ \E c \in Clients : \/ HandleNewConn(c) \/ Start(c)
                              \/ ClientReads(c) \/ CloseCallback(c)
        \/ DbReads \/ DbLeaves \/ GameMessage

Spec == Init /\ [][Next]_vars

(* Start functors run and bytes sent arrive.                               *)
FairSpec == /\ Spec
            /\ WF_vars(DbReads)
            /\ \A c \in Clients : WF_vars(Start(c)) /\ WF_vars(ClientReads(c))

-----------------------------------------------------------------------------
(* Whatever the pieces, the races with Start and the connections that have *)
(* gone: a client is authorised only by an "s" with its id that arrived as *)
(* a whole, as the user in it, and on a host whose byte order and unsigned *)
(* let the callback see that at all (20, the length in every "s", is 320   *)
(* MiB in the wrong order).                                                *)
AuthorizedIsRight ==
    \A c \in Clients : authorized[c] =>
       /\ host.big \/ received[Db] > SwapBytes(20)
       /\ host.wide
       /\ \E k \in DOMAIN Script[Db] :
             /\ Script[Db][k].tag = "s" /\ Script[Db][k].id = c
             /\ Script[Db][k].user = user[c]
             /\ End(Db, k) <= received[Db]

(* Db gets the logins of authorised clients in their order, each at most   *)
(* once and under the sender's id; as many bytes as its length says follow *)
(* unless the next message had begun to arrive, of which four bytes at     *)
(* most go with it.                                                        *)
ForwardsMatch ==
    \A i \in DOMAIN forwards :
       LET f == forwards[i]
           m == Script[f.id][f.msg]
           extra == 4 + 8 + f.value - f.len
       IN  /\ m.tag = "l" /\ authorized[f.id]
           /\ extra \in 0..4
           /\ extra > 0 => End(f.id, f.msg) + extra <= received[f.id]
           /\ \A j \in 1..(i - 1) : forwards[j].id = f.id => forwards[j].msg < f.msg

(* A callback loses the message boundaries of a client only behind a whole *)
(* message, when it cleared the buffer or took the four bytes, and those   *)
(* of Db only behind the tag of an "x".                                    *)
OutOfStepKnown ==
    \A s \in Streams : ~InStep(s) =>
       \E k \in DOMAIN Script[s] :
          CASE Script[s][k].tag = "x" -> pos[s] = End(s, k - 1) + 1
            [] Script[s][k].tag = "l" -> pos[s] - End(s, k) \in 1..4
            [] Script[s][k].tag = "other" -> pos[s] > End(s, k)
            [] OTHER -> FALSE

(* GateServer.cpp:78, "check username and password", and :82, "need Auth": *)
(* a client that has connected and sends its login has it forwarded.       *)
LoginForwarded ==
    \A c \in Clients : Script[c][1].tag = "l" =>
       (stage[c] = "started" /\ received[c] >= End(c, 1))
          ~> \/ \E i \in DOMAIN forwards : forwards[i].id = c
             \/ stage[c] = "closed" \/ ~dbUp \/ crashed
=============================================================================
