----------------------------- MODULE EventLoop -----------------------------
(***************************************************************************)
(* EventLoop and its EventChannel: a libevent loop run by one thread, a    *)
(* vector of pending functors guarded by a mutex, and a socket pair whose  *)
(* only purpose is to make the loop's epoll_wait return.                   *)
(*                                                                         *)
(* Any thread may call AsyncCall: it appends the functor under the mutex   *)
(* and, after the unlock, writes one byte into the pipe.  The loop's       *)
(* callback EventChannel::Update empties the pipe, then swaps the vector   *)
(* out under the mutex and runs what it got.  Stop is called by another    *)
(* thread (TCPServer's destructor, through ThreadManager and WorkThread);  *)
(* it takes functors out of the same vector and runs them itself.          *)
(*                                                                         *)
(* libevent is external.  evthread_use_pthreads is never called, so        *)
(* event_base_loopexit from another thread only puts a callback on the     *)
(* base's active list: it does not interrupt an epoll_wait in progress.    *)
(***************************************************************************)
EXTENDS Integers, Sequences, Functions

CONSTANTS Callers,     \* other threads that use AsyncCall
          LoopThread,  \* the thread that executes Run
          Stopper,     \* the thread that executes Stop
          Functors,    \* the functors handed over; each of them at most once
          PipeCap,     \* bytes the socket pair holds before send fails
          RecvSize     \* bytes one recv takes (64 in the code)

Threads == Callers \cup {LoopThread, Stopper}

ASSUME ThreadsAssumption ==
    /\ LoopThread # Stopper
    /\ {LoopThread, Stopper} \cap Callers = {}

ASSUME PipeAssumption == PipeCap \in Nat \ {0} /\ RecvSize \in Nat \ {0}

VARIABLES
    status,     \* status_
    pending,    \* pending_functors_
    pipe,       \* bytes waiting in fds_[0]
    notifying,  \* threads between AsyncCall's unlock and its Notify
    batch,      \* the local vector of ProcessPendingFunctors, per thread
    lpc,        \* where the loop thread is
    exit,       \* event_base_loopexit: "no", callback "queued", "term" seen
    spc,        \* where the stopping thread is
    stopMark,   \* history: functors handed over before Stop took effect
    posted,     \* history: functors in the order of their hand-over
    ran         \* history: functors in the order of their execution

vars == <<status, pending, pipe, notifying, batch, lpc, exit, spc,
          stopMark, posted, ran>>

TypeOK ==
    /\ status \in {"Initial", "Running", "Stopped"}
    /\ pending \in Seq(Functors)
    /\ pipe \in 0..PipeCap
    /\ notifying \subseteq Threads
    /\ batch \in [{LoopThread, Stopper} -> Seq(Functors)]
    /\ lpc \in {"off", "poll", "asleep", "drain", "swap", "exec", "exited"}
    /\ status = "Initial" <=> lpc = "off"
    /\ exit \in {"no", "queued", "term"}
    /\ spc \in {"idle", "flush", "flushAgain", "done"}
    /\ stopMark \in Nat
    /\ posted \in Seq(Functors)
    /\ ran \in Seq(Functors)

(***************************************************************************)
(* The constructor and EventLoop::Init: the channel exists and its read    *)
(* event is registered before any other thread can know the loop.          *)
(***************************************************************************)
Init ==
    /\ status = "Initial"
    /\ pending = <<>>
    /\ pipe = 0
    /\ notifying = {}
    /\ batch = [t \in {LoopThread, Stopper} |-> <<>>]
    /\ lpc = "off"
    /\ exit = "no"
    /\ spc = "idle"
    /\ stopMark = 0
    /\ posted = <<>>
    /\ ran = <<>>

(***************************************************************************)
(* AsyncCall.  The loop thread calls it from the callback of another event *)
(* ("poll") or from a functor ("exec"), the stopping thread from a functor *)
(* that Stop runs; the other threads at any time.                          *)
(***************************************************************************)
MayCall(t) ==
    /\ t \notin notifying
    /\ \/ t \in Callers
       \/ t = LoopThread /\ lpc \in {"poll", "exec"}
       \/ t = Stopper /\ spc \in {"flush", "flushAgain"}

AsyncCall(t, f) ==
    /\ MayCall(t)
    /\ f \notin Range(posted)
    /\ pending' = Append(pending, f)
    /\ posted' = Append(posted, f)
    /\ notifying' = notifying \cup {t}
    /\ UNCHANGED <<status, pipe, batch, lpc, exit, spc, stopMark, ran>>

(* One byte; a send into the full, non-blocking socket is lost silently.   *)
(* Mutant: sent only to a loop that sleeps.                                *)
Sent_OnlyAsleep == IF lpc = "asleep" /\ pipe < PipeCap THEN pipe + 1 ELSE pipe
Sent == IF pipe < PipeCap THEN pipe + 1 ELSE pipe

Notify(t) ==
    /\ t \in notifying
    /\ pipe' = Sent
    /\ notifying' = notifying \ {t}
    /\ UNCHANGED <<status, pending, batch, lpc, exit, spc, stopMark,
                   posted, ran>>

(***************************************************************************)
(* The loop thread.                                                        *)
(***************************************************************************)
LoopFree == LoopThread \notin notifying

Run ==
    /\ lpc = "off"
    /\ status' = "Running"
    /\ lpc' = "poll"
    /\ UNCHANGED <<pending, pipe, notifying, batch, exit, spc, stopMark,
                   posted, ran>>

(* libevent found nothing active: epoll_wait without a timeout.            *)
Sleep ==
    /\ lpc = "poll" /\ LoopFree
    /\ exit = "no"
    /\ lpc' = "asleep"
    /\ UNCHANGED <<status, pending, pipe, notifying, batch, exit, spc,
                   stopMark, posted, ran>>

(***************************************************************************)
(* epoll_wait returns (at once when the exit callback is on the active     *)
(* list) and libevent runs what is active: the exit callback, and Update   *)
(* if the pipe is readable.                                                *)
(***************************************************************************)
Dispatch ==
    /\ \/ lpc = "asleep" /\ pipe > 0
       \/ lpc = "poll" /\ exit = "queued" /\ LoopFree
    /\ exit' = IF exit = "queued" THEN "term" ELSE exit
    /\ lpc' = IF pipe > 0 THEN "drain" ELSE "poll"
    /\ UNCHANGED <<status, pending, pipe, notifying, batch, spc, stopMark,
                   posted, ran>>

(* Another descriptor of this loop, a connection say, ended the wait.      *)
OtherEvent ==
    /\ lpc = "asleep" /\ pipe = 0
    /\ exit' = IF exit = "queued" THEN "term" ELSE exit
    /\ lpc' = "poll"
    /\ UNCHANGED <<status, pending, pipe, notifying, batch, spc, stopMark,
                   posted, ran>>

(* Update: one round of while (recv(...) > 0).                             *)
Recv ==
    /\ lpc = "drain"
    /\ IF pipe > 0
       THEN /\ pipe' = IF pipe > RecvSize THEN pipe - RecvSize ELSE 0
            /\ UNCHANGED lpc
       ELSE /\ lpc' = "swap"
            /\ UNCHANGED pipe
    /\ UNCHANGED <<status, pending, notifying, batch, exit, spc, stopMark,
                   posted, ran>>

(* Mutant: the vector is copied under the mutex and cleared later.         *)
SwapPending_Copy(t) ==
    /\ batch' = [batch EXCEPT ![t] = pending]
    /\ UNCHANGED <<status, pending, pipe, notifying, exit, stopMark, posted,
                   ran>>

(* ProcessPendingFunctors: the swap under the mutex, by thread t ...       *)
SwapPending(t) ==
    /\ batch' = [batch EXCEPT ![t] = pending]
    /\ pending' = <<>>
    /\ UNCHANGED <<status, pipe, notifying, exit, stopMark, posted, ran>>

(* Mutant: functors are taken from the back of the vector.                 *)
ExecuteNext_Back(t) ==
    /\ batch[t] # <<>>
    /\ ran' = Append(ran, batch[t][Len(batch[t])])
    /\ batch' = [batch EXCEPT ![t] = SubSeq(@, 1, Len(@) - 1)]
    /\ UNCHANGED <<status, pending, pipe, notifying, lpc, exit, spc,
                   stopMark, posted>>

(* ... and one turn of its for loop.                                       *)
ExecuteNext(t) ==
    /\ batch[t] # <<>>
    /\ ran' = Append(ran, Head(batch[t]))
    /\ batch' = [batch EXCEPT ![t] = Tail(@)]
    /\ UNCHANGED <<status, pending, pipe, notifying, lpc, exit, spc,
                   stopMark, posted>>

Swap == /\ lpc = "swap"
        /\ SwapPending(LoopThread)
        /\ lpc' = "exec"
        /\ UNCHANGED spc

Exec == lpc = "exec" /\ LoopFree /\ ExecuteNext(LoopThread)

ExecDone ==
    /\ lpc = "exec" /\ LoopFree
    /\ batch[LoopThread] = <<>>
    /\ lpc' = "poll"
    /\ UNCHANGED <<status, pending, pipe, notifying, batch, exit, spc,
                   stopMark, posted, ran>>

(* event_base_loop sees the termination flag and Run returns.              *)
(* Mutant: the loop goes on while functors are pending.                    *)
ExitSeen_WhenDrained == exit = "term" /\ pending = <<>>
ExitSeen == exit = "term"

RunReturns ==
    /\ lpc = "poll" /\ LoopFree
    /\ ExitSeen
    /\ lpc' = "exited"
    /\ status' = "Stopped"
    /\ UNCHANGED <<pending, pipe, notifying, batch, exit, spc, stopMark,
                   posted, ran>>

(***************************************************************************)
(* Stop, on another thread.                                                *)
(***************************************************************************)
StopperFree == Stopper \notin notifying

(* Mutant: Stop acts unless the loop has stopped.                          *)
StopBegin_Always ==
    /\ spc = "idle"
    /\ IF status # "Stopped"
       THEN /\ status' = "Stopped"
            /\ spc' = "flush"
            /\ stopMark' = Len(posted)
       ELSE /\ spc' = "done"
            /\ UNCHANGED <<status, stopMark>>
    /\ UNCHANGED <<pending, pipe, notifying, batch, lpc, exit, posted, ran>>

StopBegin ==
    /\ spc = "idle"
    /\ IF status = "Running"
       THEN /\ status' = "Stopped"
            /\ spc' = "flush"
            /\ stopMark' = Len(posted)
       ELSE /\ spc' = "done"
            /\ UNCHANGED <<status, stopMark>>
    /\ UNCHANGED <<pending, pipe, notifying, batch, lpc, exit, posted, ran>>

StopSwap ==
    /\ spc \in {"flush", "flushAgain"} /\ StopperFree
    /\ batch[Stopper] = <<>>
    /\ pending # <<>>
    /\ SwapPending(Stopper)
    /\ UNCHANGED <<lpc, spc>>

StopExec == StopperFree /\ ExecuteNext(Stopper)

(* A while (!pending_functors_.empty()) ends; after the first one comes    *)
(* event_base_loopexit, after the second Stop returns.  empty() is called  *)
(* without the mutex while other threads append and swap: a data race, of  *)
(* which the model keeps the outcomes of an atomic read of the vector.     *)
(* Mutant: Stop only asks the loop to exit.                                *)
Flushed_Always == TRUE
Flushed == pending = <<>>

StopAdvance ==
    /\ spc \in {"flush", "flushAgain"} /\ StopperFree
    /\ batch[Stopper] = <<>>
    /\ Flushed
    /\ IF spc = "flush"
       THEN spc' = "flushAgain" /\ exit' = "queued"
       ELSE spc' = "done" /\ UNCHANGED exit
    /\ UNCHANGED <<status, pending, pipe, notifying, batch, lpc, stopMark,
                   posted, ran>>

-----------------------------------------------------------------------------
CallStep == \E t \in Threads : Notify(t) \/ \E f \in Functors : AsyncCall(t, f)

LoopStep == \/ Run \/ Sleep \/ Dispatch
            \/ Recv \/ Swap \/ Exec \/ ExecDone \/ RunReturns

StopStep == StopBegin \/ StopSwap \/ StopExec \/ StopAdvance

Next == CallStep \/ LoopStep \/ OtherEvent \/ StopStep

Spec == Init /\ [][Next]_vars

(***************************************************************************)
(* The threads keep running: a thread that has pushed a functor goes on to *)
(* Notify, and the loop and the stopping thread take the steps they can.   *)
(* Nothing forces AsyncCall, Stop or traffic on other descriptors.         *)
(***************************************************************************)
LoopFairness == /\ \A t \in Threads : WF_vars(Notify(t))
                /\ WF_vars(LoopStep)

FairSpec == Spec /\ LoopFairness /\ WF_vars(StopStep /\ spc # "idle")

-----------------------------------------------------------------------------
(***************************************************************************)
(* Properties.                                                             *)
(***************************************************************************)

(* No lost wake-up: while a functor is pending, a byte is in the pipe, or  *)
(* a thread is about to send one, or the loop is already on its way to the *)
(* swap (AsyncCall unlocks before it notifies; Update drains before it     *)
(* swaps).                                                                 *)
NoLostWakeup ==
    pending # <<>> => \/ pipe > 0
                      \/ notifying # {}
                      \/ lpc \in {"drain", "swap"}

(* Whatever the loop and a concurrent Stop take out of pending_functors_,  *)
(* every functor handed over is in exactly one place, and there once:      *)
(* still pending, in the batch of one thread, or executed.                 *)
Places == <<pending, batch[LoopThread], batch[Stopper], ran>>

ExactlyOnce ==
    /\ \A i \in DOMAIN Places : IsInjective(Places[i])
    /\ \A i, j \in DOMAIN Places :
          i # j => Range(Places[i]) \cap Range(Places[j]) = {}
    /\ Range(posted) = UNION {Range(Places[i]) : i \in DOMAIN Places}

(* A Stop that found the loop running has begun, or is over.               *)
Stopping == spc \in {"flush", "flushAgain"} \/ exit # "no"

(* Until then functors execute in the order of their hand-over.            *)
InOrder == ~Stopping => posted = ran \o (batch[LoopThread] \o pending)

(* The loop implements the queue its callers rely on; Stop closes it.      *)
Queue == INSTANCE TaskQueue
            WITH done <- ran, open <- ~Stopping,
                 due <- IF Stopping THEN stopMark ELSE Len(posted)
QueueSpec == Queue!Spec

(* What was handed over before a Stop that found the loop running is       *)
(* executed although the loop ends, by one thread or the other.            *)
StopFlushes ==
    (spc = "done") ~> (\A i \in 1..stopMark : posted[i] \in Range(ran))

(* A requested exit ends Run as soon as anything wakes the loop up; the    *)
(* request itself does not.                                                *)
ExitOnWakeup == (exit = "queued" /\ pipe > 0) ~> (lpc = "exited")
=============================================================================
