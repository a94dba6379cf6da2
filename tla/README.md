# TinyGameServer: a TLA+ model

TinyGameServer is a C++ network framework on libevent (`src/src`) with two small servers
built on it (`src/server`). This directory holds TLA+ modules that model the framework's
core, the TLC configurations that check them, and proofs for TLAPS. `PROJECT.json` maps every
modelling definition to its source lines and lists runs, mutants, findings, hazards and
theorems.

Run a configuration with `tlc -config X.cfg MCModule`, the proofs with
`tlapm M.tla` for each `M` among EventLoopProofs, BufferProofs, ConnectionProofs, ClientProofs,
ServerProofs, FramingProofs, DataServerProofs and GateProofs.

## The system

| Component | State | Operations | Talks to |
|---|---|---|---|
| EventLoop + EventChannel | `status_`, `pending_functors_` under a mutex, a socket pair | `AsyncCall`, `Notify`, `Run`, `Update`, `ProcessPendingFunctors`, `Stop` | every other component posts functors to it |
| FdWatcher | `ev_type_`, the libevent event, two callbacks | `Start`, `Enable*/Disable*`, `Handle` | registered with a loop; calls the connection or acceptor |
| TCPConnection | `status_`, `send_buffer_`, `recv_buffer_`, the watcher | `Start`, `Send`, `Close`, `HandleRead/Write/Close`, `SendInLoop` | owned by a server or client through `shared_ptr`; callbacks of the application |
| Buffer | array, capacity, read and write index | `Append*`, `ReadFd`, `Read*`, `Forward`, `Clear` | used by connections and message handlers |
| TCPServer, TCPAcceptor | `connections_`, the listening socket | `HandleAccept`, `HandleNewConn`, `GetConnection`, the close callback | main loop and worker loops share `connections_` |
| ThreadManager, WorkThread | the worker loops, a round-robin counter | `Start`, `Stop`, `PickEventLoop` | |
| UID | current second, serial | `GenerateSerialID` | called for every connection |
| TCPClient, TCPConnector | `connection_`, `fd_` | `Connect`, `Send`, `Disconnect`, `HandleNewConn` | Gate uses one per back-end server |
| GateServer, DataServer | per-connection `authorized_`, the framing of messages | message callbacks | login protocol |
| PGManager, RedisManager | pool of database contexts | `Connect`, `PickContext`, queries | DataServer |
| Log, Inner/OuterProtocol, `test.cpp` | none | stubs, not built | |

What makes it hard: functors cross threads through a vector and a wake-up byte; a second
thread empties the same vector in `Stop`; `Send` checks a status in one thread and acts in
another; objects are kept alive by some closures and not by others; one map is used from
several threads; a byte stream is written partly directly and partly from a buffer; indices
and ids sit close to their limits. Each such place is a hazard in `PROJECT.json`, with the
properties aimed at it.

What makes each part correct: the loop executes every functor once and in order and never
sleeps on one; a connection delivers what `Send` accepted, in order, notices the end of the
peer, and is not used after its destruction; a buffer is a byte queue; the server finds by id
the connection it stored and spreads connections evenly; nobody who has not logged in is
served, and everybody can log in.

## Modules

**TaskQueue** is what `AsyncCall` promises: functors are executed once and in order until the queue
is closed by a Stop; what was submitted before that is executed all the same.

**EventLoop** models `EventLoop` and `EventChannel`. `AsyncCall` (push under the mutex) and
`Notify` (one byte after the unlock, lost when the pipe is full) are separate steps of the
calling thread, which may be the loop itself inside a callback or functor. The loop thread goes
through `Sleep`, `Dispatch`, `Recv`, `Swap`, `Exec`, `ExecDone`; `Stop*` are the steps of the
stopping thread. libevent is external: `evthread_use_pthreads` is never called, so
`event_base_loopexit` from another thread does not interrupt `epoll_wait`. `Stop` tests
`pending_functors_.empty()` without the mutex (EventLoop.cpp:36 and 43), a data race of which the
model keeps the outcomes of an atomic read. `posted`, `ran` and `stopMark` are history. `Queue` maps the loop to
TaskQueue: the abstract queue closes when a Stop finds the loop running (`Stopping`).

**Connection** models one `TCPConnection` with its `FdWatcher` after its owner stored it and
posted `Start`. The loop alternates between batches of functors and `FdWatcher::Handle`,
which calls the read and then the write callback for events reported together. User threads run
`Send` in two steps (`SendCheck`, `SendPost`) and `Close`; application callbacks on the loop
thread may do both. Every outcome of `write` and `readv` that the code tells apart is there:
partial, none or failed, data, reset, end of file. The lifetime of the object is `Alive`: it
lives while the owner, a user in `keepers`, a callback argument or a closure of `Close` holds a
`shared_ptr`; a closure lives until its batch ends. The closure of `Send` and the watcher's
callbacks hold `this`. An access to a dead object sends the
loop to "crashed" and ends the behaviour. Bytes
carry their number, so order and loss are visible. `ev_type_` and what is registered with
libevent change together and are one variable. `send_buffer_` is a byte queue as in
ByteQueue, which Buffer keeps up to its first overrun. `recv_buffer_` is left out: its content
is the application's affair.

**ByteQueue** and **Buffer**: `Buffer` models the array and its indices under every operation,
with `append` as `ensureCapacity`, `grow`, `adjust` and the `memcpy`. A store behind the array
sets `overrun` and ends the behaviour. Bytes are numbered here too, and `ByteQueue` admits one
way only to put bytes in: the next ones, in their order, behind those still there (`Produce`), so that
an append or a `ReadFd` (with its split over the array and `extrabuf`) that lost, repeated or
exchanged any would not implement it. Callers are assumed not to
read more than `GetLength()`; that the data server compares lengths first is part of DataServer.
Index arithmetic stays far below 2^32 as long as `rd <= wr <= cap` (part of `TypeOK`), so no
width is modelled.

**Server** models `TCPServer`, `TCPAcceptor`, `ThreadManager::PickEventLoop`, the worker loops (as
functor queues) and `UID`. `Listen`, `Accept` and `WatcherStart` bring the listening socket up;
clients may reach it before the loop watches it. `HandleNewConn` is cut where it enters and leaves
`connections_` and where it posts; so are the lookup of the Start functor, the erase of the
close callback and `GetConnection`. Two threads inside the map are a race, which ends the
behaviour; so does the first connection that would replace another in the map (`Store`), which
ids given twice can bring about. Any number of connections may arrive in a second; `crowded` records that
more than `SerialRange` did. Time is in seconds of an hour and becomes a decimal stamp as `strftime` makes it
(59 is followed by 100). `SerialRange` stands for 1000, `IdWidth` for 2^32; the assumption
`IdWidth <= StartTime * SerialRange` says that real ids exceed 32 bits. A connection may close
only after its `Start`, since its descriptor is not watched earlier.

**Client** models `TCPClient` and `TCPConnector`, called by any threads in any order. `Connect` puts a
socket into `fd_`, whatever is there (`OpenSocket`), and then posts a functor (`PostNew`); the functor
hands over what `fd_` holds by then (`HandOver`) and resets it (`ResetFd`); another starts whatever
`connection_` holds (`Start`), and the close of any connection resets `connection_`. `Disconnect`
reads the pointer, takes a `shared_ptr` to the object behind it and posts the closure
(`DisconnectRead`, `CloseHold`, `PostClose`); `Send` reads and uses it (`SendRead`, `SendUse`). A null
or freed pointer ends the behaviour. `fd_` and `connection_` are used by several threads without a
lock: a data race, taken as atomic reads and writes; that each `Connect` assigns the connector's
callback anew is left out. `overlapped` and `disturbed` are history: which sockets met another
`Connect` on their way through `fd_`, and whether a `Connect` began while there was a connection or one
under way, or a `Close` was posted for another connection than the present or coming one.

**Framing** holds what the callbacks of the two servers share: the length as `PeekTagLen` sees it
(with the bytes swapped on a little-endian host), and the positions in a stream at which messages
and pieces end.

**DataServer** models the start-up of the data server (both managers connect and assert that they
got a connection), its message callback and `PGManager::SelectUser`. Peers
send the messages of a script; their bytes arrive in pieces that end at message boundaries or at
`Cuts`, the offsets on either side of every length the callback compares with. Each piece runs the
callback once, which handles one message at most. `Consume` is where `Read*` and `Forward` leave the
read index; behind an unknown tag that may be inside the next message, where the model stops
following the connection. `PickContext` reads and stores its static counter in two steps; two
threads in one `PGconn` (`Misused`) end the behaviour, and so does a name and password that do not fit
`sql[128]` (`Overrun`; `SqlRoom` stands for the 64 bytes left for both).

**Gate** models the callbacks of GateServer: connection, message and close callback of its server,
the message callbacks of its two clients. Client connections are stored, started and closed as in
Server; the data server is any program that sends "s" and "x" messages, since what DataServer would
answer depends on logins that the gate never forwards (finding 5). `GetConnection` truncates the id;
all ids exceed 32 bits, so that a client is found only on a host whose `unsigned int` is wider.
`host` is chosen in `Init` among four kinds: byte order and width. Only on one of them, which is not
what the code is built for, is anybody authorised; the code behind the authorisation is modelled on
that host, and the properties say what becomes of the others (on a little-endian one with a wide
`unsigned int`, an "s" counts as complete once 320 MiB have piled up, which no run reaches and
`AuthorizedIsRight` therefore names). Callbacks that end without a `return`
are undefined behaviour: they trap or not (`Unreturned`). `HandleNewConn`, the Start functor and a
close are single steps, because their interleavings on `connections_` are in Server.

**MC\*** modules add constant values. Operators named `Definition_Variant`
are mutants: plausible bugs that the property they are paired with in `PROJECT.json` must catch.

## Runs

| Run | Shows |
|---|---|
| event_loop | 2 callers, functors and callbacks that post, a Stop at any moment or never: no lost wake-up, every functor in one place only, in order until the Stop, what was handed over before it is executed, the loop exits once woken; the loop implements TaskQueue with its liveness |
| connection | a user thread that owns the connection or does not, 4 bytes, kernel room for 1, two Closes, a peer that sends, shuts down or resets: stream order, no stranded bytes, no read after close, what a Close protects before freed memory is touched, delivery, the end of the peer is noticed, and EV_WRITE ends with the bytes |
| connection_freed | (violation) the object is used after its destruction |
| buffer_queue | array of 3, 12 bytes in all: a byte queue that keeps every byte in its place; an overrun needs more bytes than fit |
| buffer_overrun | (violation) an append that does not fit is stored behind the array |
| server | 2 workers, 3 connections, 1 id per second, from second 58 to second 60, crowded seconds included: ids unique unless a second was crowded, Start finds its connection, the map is exact, balanced loops, every stored connection is started, every client is accepted |
| client | 2 threads, 3 connects, 2 Disconnects, any sends: a socket is lost only where two Connects meet and never shared, Start finds its connection unless a Connect came early or a Close late, every connect that met no other completes |
| data_server | 2 connections (one patient, one pipelining, with an unknown tag and a login too long for `SelectUser` behind) on 2 threads, 0 to 2 database connections, network byte order: answers match logins, boundaries kept, patient peers are answered |
| data_server_little_endian | (violation) on a little-endian host a complete login is never answered, against DataServer.cpp:48 |
| gate | 2 clients and a data server that authorises both and refuses, every kind of host: only a complete answer authorises, and only its client; forwarded are the logins of authorised clients, in order and once; boundaries are lost only in two known ways |
| gate_login | (violation) a client's complete login is never forwarded, against GateServer.cpp:78 and :82 |
| server_race | (violation) the main loop and a worker loop are inside the map together |

### Bounds

Two callers and the loop itself already give every order of two hand-overs around a drain and a
swap; a pipe of 2 with one byte per `recv` reaches the full pipe, a partly drained pipe and an
empty one. Three functors allow two in a batch while another arrives. For the connection, two sends
of length 0 or 2 against a kernel room of 1 give partial and failing writes, a send behind a
buffered one and zero-length sends; the last byte of a buffer makes a complete write; two Closes
give the second close callback. The
buffer's array of 3 is smaller than `extrabuf`, as in the code, and 12 bytes
reach one reallocation and further appends. Three connections with one id per second fit the
seconds 58 and 59 and the turn of the minute with an id each, crowd one of them with two or three, so
that an id is the first one of the next second, and give one worker loop a second round. Three connects
of a client by two threads let two of them meet in `fd_` while a close of the first connection is on its
way, and the third follow undisturbed or not. The callback of the data server
compares the buffer with 13, with the message and with four more bytes: cuts at 4, 5, 12, 13 and
22 of messages of 23 and 13 bytes are on both sides of each. The gate compares with 5, 13 and the
message, and takes four bytes more: its cuts are 4, 5 and 13, and the messages that follow are
longer than four bytes. Deadlock is not checked:
a system whose bounded inputs are used up is idle.

### Fairness

The threads keep running: a thread that pushed a functor goes on to `Notify`, the loop takes the
steps it can, the stopping thread finishes `Stop` once begun. Nothing forces a call, a Stop,
traffic, or the peer to leave. Strong fairness is assumed for taking the functors and for
handling the descriptor in Connection, for starting a functor and for accepting in Server, and for
the arrival of bytes in DataServer: epoll reports all
ready descriptors in every round and libevent runs what was reported before it polls again, so
neither can starve the other. In Connection the peer reads what reached it; without that no
server could deliver anything; in DataServer bytes sent arrive and queries end. Where undefined
behaviour ends the behaviour (a crash in Connection and Client, a race or a replaced connection in Server, `Misused` and `Overrun`
in DataServer) liveness properties say "or that happened". In Client nobody is forced to call
`Connect`, but a call that has put its socket into `fd_` goes on to post its functor.

## Findings

1. A TCPConnection closed by its peer is destroyed inside `HandleClose` when only the server
   holds it, and `status_` is stored afterwards (TCPConnection.cpp:121). A `SendInLoop` that
   reaches the loop one batch after the close also finds a dead object (line 72).
   `FreedBehindClose` says what a Close protects all the same: what was accepted before it, and the
   batch it runs in.
2. `Buffer::grow` (Buffer.cpp:71) reallocates only for appends longer than array and content
   together; others overrun the array. In the run three bytes are appended to an array of three that
   holds one.
3. `connections_` is used by several threads without a lock (TCPServer.cpp:53, 61, 65).
4. `PeekTagLen` (Buffer.h:92) does not convert the length: on little-endian hosts no login is
   ever answered.
5. The message callback of the gate forwards the login of a client only if the client is already
   authorised (GateServer.cpp:93), which only the answer to a login can bring about.

Modelled, without a run of their own: `TCPClient::Send` and `Disconnect` on a null or freed
connection (`Crash` in Client), a socket lost where two Connects meet and a `Start` that finds a null pointer behind
a late Close (the exceptions of `SocketsAccountedFor` and `StartFindsIts`), two threads in one `PGconn`
and a query too long for its array (`Misused`, `Overrun` in DataServer), the 1001st connection of a second
(the exception of `UniqueIds`), the loss of
message boundaries behind an unknown tag (the premise of `OutOfStepOnlyAfterUnknown`) and in the gate
(`OutOfStepKnown`). `SendInLoop` registers EV_WRITE even when nothing is left to write (line 150),
and `HandleWrite` gives it up only with a write of bytes: the loop polls without rest until the next
`Send` that leaves something. `WriteInterestEnds` says that it ends there.

## Proofs

Every safety invariant and every action property that the passing runs check is also a theorem, for
all values of the constants that satisfy the module's `ASSUME`. Each proof module extends the module
it is about, defines an inductive invariant `IInv`, and proves `Init => IInv`, that every action keeps
it (one lemma per action or group of actions), and that it implies the property. TLC has checked every
`IInv` on the constants of the corresponding run first.

**EventLoopProofs**, for any sets of callers and functors and any pipe, from `ThreadsAssumption` (the
loop thread, the stopping thread and the callers are different) and `PipeAssumption` (sizes are
positive):

* `TypeCorrect`: `Spec => []TypeOK`, one step per action.
* `WakeupNeverLost`: `Spec => []NoLostWakeup`, with Stop. `NoLostWakeup` is inductive relative to
  the types: a push adds the caller to `notifying`, a `Notify` leaves a byte (the full pipe has
  one already), the drain ends in "swap", and only a swap leaves "swap", emptying `pending`.
* `OnceAndOnlyOnce`: `Spec => []ExactlyOnce`, although two threads empty the vector. The
  strengthening `Phases` says which batches are empty when: a swap overwrites the batch, so
  nothing is lost only because a thread swaps when it has finished. `OnePlaceEach` is
  `ExactlyOnce` place by place; each step moves a functor from one place to another.
* `ExecutionInOrder`: `Spec => []InOrder`, with `OrderInv` (types, `Phases`, `ExactlyOnce`).
* `ImplementsTaskQueue`: `Spec => Queue!SafeSpec`, the safety part of the refinement, Stop
  included: `AsyncCall` is `Submit`, an execution by either thread is `Execute`, a Stop that finds
  the loop running is `Close`, and everything else stutters.

**BufferProofs**, for an array of any initial size (`BufferAssumption`): the types, `SafeWhileItFits`
(an overrun needs more bytes than the array holds), and `ImplementsByteQueue`: until the first overrun
the array with its two indices is a byte queue: each step takes bytes from the front, adds exactly the
bytes put in, in order, at the end, or leaves the content alone. The lemmas say of
`EnsureCapacity`, `Adjust` and `Forward` what they keep: the content between the indices.

**ConnectionProofs**, for any set of users, any lengths and any kernel buffer
(`ConnectionAssumption`): the types, `StreamInOrder`, `NeverStranded`, `FreedBehindClose` and
the action property `NoReadAfterClose`. `StreamInOrder` needs to know where every accepted byte is:
`InOrder` gives each waiting functor the number of bytes accepted before it was posted, which lays what
the socket took, `send_buffer_` and the bytes in the functors end to end; it is kept only because
`SendInLoop` writes to the socket directly when `send_buffer_` is empty and never otherwise.
`FreedBehindClose` (`CloseProtectsWhatPrecedes`) needs the same account of bytes and functors up to
`closeMark`, the number of bytes accepted before the last Close: the object can be dead only when no
closure of a Close waits, and `InOrder` then puts all those bytes into the stream. Its second part needs
`HeldInBatch`: once a functor of a batch has run, something holds the object until the batch ends.
`NoReadAfterClose` needs `StartFirst` (Start, which registers EV_READ, cannot come after a close) and
`NoReadLeft`.

**ClientProofs**, for any threads and any number of sockets and disconnects (`ClientAssumption`): the
types, `SocketsAccountedFor` and `StartFindsIts`. `IInv` has two parts. `Sockets` always holds: `fd_` holds
the socket opened last or nothing, it has not been handed over except between the callback and the reset,
and every older socket has been or met another Connect. `Undisturbed` holds until a Connect comes early
or a Close late: a Connect is alone and its functor the last one posted (`ConnectAlone`, `NewIsLast`), a
`Start` is the head of the queue (`StartIsNext`), and the closes that wait, like the watched descriptor,
are those of the connection itself (`ClosesOwn`, `OneWatched`).

**ServerProofs**, for any worker threads, connections, clock range and width of an id
(`ServerAssumption`: ids do not fit a 32-bit `unsigned`, as in this century): the types, `UniqueIds`, `StartFindsIts`, `MapExact` and `Balanced`.
`UniqueIds` needs that ids grow with the clock (`IdsGrow`) until a second is crowded, also from one minute
to the next, where the decimal stamp jumps. `StartFindsIts` and `MapExact` do not need unique ids: they
hold up to the step that would replace a connection, and need `MapLive` and `MainOnly` (who may touch the map, up to the
first race); `Balanced` needs `Shares`: all workers have `q` connections and the first
`pick % n` of them one more.

**FramingProofs** holds the lemmas that DataServerProofs and GateProofs share: what the recursive
`EndsOf` computes for streams of any number of messages of any size, that the positions grow and
belong to one message each, and `NeverShorter`: the swapped length of a message below 64 KiB is
never less than the length, so that a wrong byte order makes a message wait and never cuts it short.
The library's induction theorems take a predicate as a parameter; `LeastNat` and `SetInduction` get
induction from `WFMin`, which is about sets.

**DataServerProofs**, for any connections, threads, scripts, either byte order and any pieces
(`DataServerAssumption`: messages below 32 KiB) and any `SqlRoom`: the types (with them that no query runs without a
connection to the database), `AnswersBelongToLogins` for `RepliesMatch` and `BoundariesKept` for
`OutOfStepOnlyAfterUnknown`. `InOrder` ties the two ends together: some k messages of each stream
have been consumed, to their end or with up to four bytes more behind an unknown tag, and the
number of answers is that of the logins among them, one less while its thread works for the last.

**GateProofs**, for any clients, hosts and messages (`GateAssumption`, the same bound): the types,
`OnlyAnswersAuthorize`, `LoginsAreForwardedOnce` and `BoundariesLostInKnownWays`. `ForwardsMatch`
says that whoever had a login forwarded is still authorised, which `Start` would break, as it resets
`authorized_`: `StartedFirst` says that it runs before the first message. That logins are forwarded in
order and once follows from `Behind`: what has been forwarded has been consumed.

Only model-checked is liveness, which TLAPS cannot prove: `StopFlushes`, `ExitOnWakeup` and the
fairness of `QueueSpec` for the event loop; `Delivered`, `PeerGoneNoticed` and `WriteInterestEnds` for
the connection; `EventuallyStarted` and `EventuallyAccepted`; `LoginAnswered`; `ConnectCompletes`. The
violations that the findings quote are TLC's counterexamples.

## Not modelled

Socket set-up (addresses, options), logging, the empty protocol classes, `test.cpp` (not built),
FdWatcher's copy and move operations (never used), `RedisManager::Set` and `Get`,
`TCPAcceptor::Stop` and `WorkThread::Start` (never called), destruction of loops (the loop and its
channel own each other) and of the servers (`main` waits in `Run`, which nothing ends). The
clock of `UID` does not go back. Malformed messages, and what follows in a stream whose
boundaries are lost, depend on bytes the model does not have.

## Plan

Left: the composition of Server with a detailed Connection (two connections of one server share
loops and the map), lengths of 64 KiB and more on little-endian hosts, a clock that goes back, and
`PGManager::PickContext` together with a property about two threads in one database connection.
For proofs: the step from `NoLostWakeup` to the safety half of `StopFlushes` (what was posted before a
Stop is in one of the two batches), and the merging of Server's map with Gate's authorisation.
