-------------------------- MODULE EventLoopProofs --------------------------
(***************************************************************************)
(* Theorems about EventLoop, for any number of threads and functors and    *)
(* any capacity of the pipe.                                               *)
(***************************************************************************)
EXTENDS EventLoop, SequenceTheorems, TLAPS

USE DEF Threads

(* Facts about the sequence operators the actions are built from.          *)
LEMMA EmptyIsSeq == \A S : <<>> \in Seq(S)
  OBVIOUS

LEMMA AppendType ==
  ASSUME NEW S, NEW s \in Seq(S), NEW e \in S
  PROVE  Append(s, e) \in Seq(S)
  OBVIOUS

LEMMA HeadTailType ==
  ASSUME NEW S, NEW s \in Seq(S), s # <<>>
  PROVE  Head(s) \in S /\ Tail(s) \in Seq(S)
  OBVIOUS

LEMMA AppendOver ==
  ASSUME NEW S, NEW s \in Seq(S), NEW u \in Seq(S), NEW e \in S
  PROVE  s \o Append(u, e) = Append(s \o u, e)
  OBVIOUS

LEMMA HeadTailOver ==
  ASSUME NEW S, NEW u \in Seq(S), NEW v \in Seq(S), u # <<>>
  PROVE  /\ u \o v # <<>>
         /\ Head(u \o v) = Head(u)
         /\ Tail(u \o v) = Tail(u) \o v
  OBVIOUS

(* Moving the head of u to the end of s does not change s \o u.            *)
LEMMA MoveHead ==
  ASSUME NEW S, NEW s \in Seq(S), NEW u \in Seq(S), u # <<>>
  PROVE  Append(s, Head(u)) \o Tail(u) = s \o u
  OBVIOUS

LEMMA MoveHeadOver ==
  ASSUME NEW S, NEW s \in Seq(S), NEW u \in Seq(S), NEW v \in Seq(S), u # <<>>
  PROVE  Append(s, Head(u)) \o (Tail(u) \o v) = s \o (u \o v)
<1>1. u \o v \in Seq(S)
  OBVIOUS
<1>2. u \o v # <<>> /\ Head(u \o v) = Head(u) /\ Tail(u \o v) = Tail(u) \o v
  BY HeadTailOver
<1>3. Append(s, Head(u \o v)) \o Tail(u \o v) = s \o (u \o v)
  BY <1>1, <1>2, MoveHead
<1> QED  BY <1>2, <1>3

(* The same facts for sequences of functors, in the form the steps use.    *)
LEMMA FunctorAppendOver ==
  \A s, u \in Seq(Functors), e \in Functors :
     s \o Append(u, e) = Append(s \o u, e)
  BY AppendOver

LEMMA FunctorAppend ==
  \A s, u, v \in Seq(Functors), e \in Functors :
     s \o (u \o Append(v, e)) = Append(s \o (u \o v), e)
<1> SUFFICES ASSUME NEW s \in Seq(Functors), NEW u \in Seq(Functors),
                    NEW v \in Seq(Functors), NEW e \in Functors
             PROVE  s \o (u \o Append(v, e)) = Append(s \o (u \o v), e)
  OBVIOUS
<1>1. u \o v \in Seq(Functors)
  OBVIOUS
<1>2. u \o Append(v, e) = Append(u \o v, e)
  BY FunctorAppendOver, Zenon
<1>3. s \o Append(u \o v, e) = Append(s \o (u \o v), e)
  BY <1>1, FunctorAppendOver, Zenon
<1> QED  BY <1>2, <1>3, Zenon

LEMMA FunctorMove ==
  \A s, u, v \in Seq(Functors) :
     u # <<>> => Append(s, Head(u)) \o (Tail(u) \o v) = s \o (u \o v)
  BY MoveHeadOver

(***************************************************************************)
(* Type correctness, with Stop and under every interleaving.               *)
(***************************************************************************)
LEMMA TypeInit == Init => TypeOK
  BY PipeAssumption, EmptyIsSeq DEF Init, TypeOK

LEMMA TypeStep == TypeOK /\ [Next]_vars => TypeOK'
<1> SUFFICES ASSUME TypeOK, [Next]_vars PROVE TypeOK'
  OBVIOUS
<1> USE ThreadsAssumption, PipeAssumption DEF TypeOK
<1>1. ASSUME NEW t \in Threads, NEW f \in Functors, AsyncCall(t, f)
      PROVE  TypeOK'
  BY <1>1, AppendType DEF AsyncCall
<1>2. ASSUME NEW t \in Threads, Notify(t) PROVE TypeOK'
  BY <1>2 DEF Notify, Sent
<1>3. CASE Run BY <1>3 DEF Run
<1>4. CASE Sleep BY <1>4 DEF Sleep
<1>5. CASE Dispatch BY <1>5 DEF Dispatch
<1>6. CASE OtherEvent BY <1>6 DEF OtherEvent
<1>7. CASE Recv BY <1>7 DEF Recv
<1>8. CASE Swap BY <1>8, EmptyIsSeq DEF Swap, SwapPending
<1>9. CASE Exec BY <1>9, HeadTailType, AppendType DEF Exec, ExecuteNext
<1>10. CASE ExecDone BY <1>10 DEF ExecDone
<1>11. CASE RunReturns BY <1>11 DEF RunReturns
<1>12. CASE StopBegin BY <1>12 DEF StopBegin
<1>13. CASE StopSwap BY <1>13, EmptyIsSeq DEF StopSwap, SwapPending
<1>14. CASE StopExec
  BY <1>14, HeadTailType, AppendType DEF StopExec, ExecuteNext
<1>15. CASE StopAdvance BY <1>15 DEF StopAdvance
<1>16. CASE UNCHANGED vars BY <1>16 DEF vars
<1> QED
  BY <1>1, <1>2, <1>3, <1>4, <1>5, <1>6, <1>7, <1>8, <1>9, <1>10, <1>11,
   <1>12, <1>13, <1>14, <1>15, <1>16
  DEF Next, CallStep, LoopStep, StopStep

(* Every variable keeps its type, with a Stop and in every interleaving.   *)
THEOREM TypeCorrect == Spec => []TypeOK
  BY TypeInit, TypeStep, PTL DEF Spec

(***************************************************************************)
(* No wake-up is lost, whatever the callers, the loop and a concurrent     *)
(* Stop do: a pending functor always has a byte in the pipe, a byte about  *)
(* to be sent, or a loop that has yet to swap.                             *)
(***************************************************************************)
THEOREM WakeupNeverLost == Spec => []NoLostWakeup
<1>1. Init => NoLostWakeup
  BY DEF Init, NoLostWakeup
<1>2. TypeOK /\ NoLostWakeup /\ [Next]_vars => NoLostWakeup'
  <2> SUFFICES ASSUME TypeOK, NoLostWakeup, [Next]_vars
               PROVE  NoLostWakeup'
    OBVIOUS
  <2> USE PipeAssumption DEF TypeOK, NoLostWakeup
  <2>1. ASSUME NEW t \in Threads, NEW f \in Functors, AsyncCall(t, f)
        PROVE  NoLostWakeup'
    BY <2>1 DEF AsyncCall
  <2>2. ASSUME NEW t \in Threads, Notify(t) PROVE NoLostWakeup'
    BY <2>2 DEF Notify, Sent
  <2>3. CASE Run \/ Sleep \/ Dispatch \/ OtherEvent
    BY <2>3 DEF Run, Sleep, Dispatch, OtherEvent
  <2>4. CASE Recv BY <2>4 DEF Recv
  <2>5. CASE Swap \/ StopSwap
    BY <2>5 DEF Swap, StopSwap, SwapPending
  <2>6. CASE Exec \/ StopExec
    BY <2>6 DEF Exec, StopExec, ExecuteNext
  <2>7. CASE ExecDone \/ RunReturns
    BY <2>7 DEF ExecDone, RunReturns
  <2>8. CASE StopBegin \/ StopAdvance
    BY <2>8 DEF StopBegin, StopAdvance
  <2>9. CASE UNCHANGED vars BY <2>9 DEF vars
  <2> QED
    BY <2>1, <2>2, <2>3, <2>4, <2>5, <2>6, <2>7, <2>8, <2>9
    DEF Next, CallStep, LoopStep, StopStep
<1>. QED  BY <1>1, <1>2, TypeCorrect, PTL DEF Spec

(***************************************************************************)
(* How Stop proceeds, and which batches are empty when.                    *)
(***************************************************************************)
Phases ==
    /\ lpc # "exec" => batch[LoopThread] = <<>>
    /\ ~Stopping => batch[Stopper] = <<>>
    /\ spc = "idle" => exit = "no"
    /\ spc = "flushAgain" => exit # "no"

LEMMA PhasesInit == Init => Phases
  BY ThreadsAssumption DEF Init, Phases, Stopping

LEMMA PhasesStep == TypeOK /\ Phases /\ [Next]_vars => Phases'
<1> SUFFICES ASSUME TypeOK, Phases, [Next]_vars PROVE Phases'
  OBVIOUS
<1> USE ThreadsAssumption DEF TypeOK, Phases, Stopping
<1>1. ASSUME NEW t \in Threads, NEW f \in Functors, AsyncCall(t, f)
      PROVE  Phases'
  BY <1>1 DEF AsyncCall
<1>2. ASSUME NEW t \in Threads, Notify(t) PROVE Phases'
  BY <1>2 DEF Notify
<1>3. CASE Run \/ Sleep \/ Dispatch \/ OtherEvent \/ Recv \/ ExecDone
           \/ RunReturns
  BY <1>3 DEF Run, Sleep, Dispatch, OtherEvent, Recv, ExecDone, RunReturns
<1>4. CASE Swap BY <1>4 DEF Swap, SwapPending
<1>5. CASE Exec BY <1>5 DEF Exec, ExecuteNext
<1>6. CASE StopBegin BY <1>6 DEF StopBegin
<1>7. CASE StopSwap BY <1>7 DEF StopSwap, SwapPending
<1>8. CASE StopExec BY <1>8 DEF StopExec, ExecuteNext
<1>9. CASE StopAdvance BY <1>9 DEF StopAdvance
<1>10. CASE UNCHANGED vars BY <1>10 DEF vars
<1> QED
  BY <1>1, <1>2, <1>3, <1>4, <1>5, <1>6, <1>7, <1>8, <1>9, <1>10
  DEF Next, CallStep, LoopStep, StopStep

(***************************************************************************)
(* Every functor handed over is in one place, and there once.  AsyncCall   *)
(* adds one to pending, a swap moves pending into an empty batch, and an   *)
(* execution moves the head of a batch to the end of ran.                  *)
(***************************************************************************)
LEMMA EmptyRange == \A s : DOMAIN s = {} => Range(s) = {}
  BY DEF Range

LEMMA EmptyInjective == \A s : DOMAIN s = {} => IsInjective(s)
  BY DEF IsInjective

LEMMA EmptyDomain == DOMAIN <<>> = {}
  OBVIOUS

LEMMA EmptySeqRange == Range(<<>>) = {}
  BY EmptyRange, EmptyDomain

LEMMA EmptySeqInjective == IsInjective(<<>>)
  BY EmptyInjective, EmptyDomain

LEMMA RangeAppend ==
  \A s \in Seq(Functors), e \in Functors :
     /\ Range(Append(s, e)) = Range(s) \cup {e}
     /\ IsInjective(s) /\ e \notin Range(s) => IsInjective(Append(s, e))
<1> SUFFICES ASSUME NEW s \in Seq(Functors), NEW e \in Functors
             PROVE  /\ Range(Append(s, e)) = Range(s) \cup {e}
                    /\ IsInjective(s) /\ e \notin Range(s)
                         => IsInjective(Append(s, e))
  OBVIOUS
<1> DEFINE a == Append(s, e)
<1>1. /\ DOMAIN a = 1..(Len(s) + 1) /\ DOMAIN s = 1..Len(s)
      /\ \A i \in 1..Len(s) : a[i] = s[i]
      /\ a[Len(s) + 1] = e /\ Len(s) \in Nat
  OBVIOUS
<1> HIDE DEF a
<1>2. Range(a) = Range(s) \cup {e}
  BY <1>1 DEF Range
<1>3. IsInjective(s) /\ e \notin Range(s) => IsInjective(a)
  BY <1>1 DEF Range, IsInjective
<1> QED  BY <1>2, <1>3 DEF a

LEMMA RangeHeadTail ==
  \A s \in Seq(Functors) :
     s # <<>> /\ IsInjective(s) =>
        /\ Head(s) \in Range(s)
        /\ Range(Tail(s)) = Range(s) \ {Head(s)}
        /\ IsInjective(Tail(s))
<1> SUFFICES ASSUME NEW s \in Seq(Functors), s # <<>>, IsInjective(s)
             PROVE  /\ Head(s) \in Range(s)
                    /\ Range(Tail(s)) = Range(s) \ {Head(s)}
                    /\ IsInjective(Tail(s))
  OBVIOUS
<1> DEFINE u == Tail(s)
<1>1. /\ DOMAIN u = 1..(Len(s) - 1) /\ DOMAIN s = 1..Len(s)
      /\ \A i \in 1..(Len(s) - 1) : u[i] = s[i + 1]
      /\ Head(s) = s[1] /\ Len(s) \in Nat /\ Len(s) > 0
  OBVIOUS
<1> HIDE DEF u
<1>2. Head(s) \in Range(s)
  BY <1>1 DEF Range
<1>3. IsInjective(u)
  BY <1>1 DEF IsInjective
<1>4. Range(u) = Range(s) \ {Head(s)}
  <2>1. \A x \in Range(u) : x \in Range(s) /\ x # Head(s)
    BY <1>1 DEF Range, IsInjective
  <2>2. ASSUME NEW x \in Range(s), x # Head(s) PROVE x \in Range(u)
    <3>1. PICK i \in 1..Len(s) : x = s[i]
      BY <1>1 DEF Range
    <3>2. i - 1 \in 1..(Len(s) - 1) /\ u[i - 1] = s[i]
      BY <1>1, <2>2, <3>1
    <3> QED  BY <1>1, <3>1, <3>2 DEF Range
  <2> QED  BY <2>1, <2>2
<1> QED  BY <1>2, <1>3, <1>4 DEF u

(* ExactlyOnce place by place, for this state and for the next.            *)
OnePlaceEach(p, b, c, r, all) ==
    /\ IsInjective(p) /\ IsInjective(b) /\ IsInjective(c) /\ IsInjective(r)
    /\ Range(p) \cap Range(b) = {} /\ Range(p) \cap Range(c) = {}
    /\ Range(p) \cap Range(r) = {} /\ Range(b) \cap Range(c) = {}
    /\ Range(b) \cap Range(r) = {} /\ Range(c) \cap Range(r) = {}
    /\ Range(all) = Range(p) \cup Range(b) \cup Range(c) \cup Range(r)

LEMMA FourPlaces ==
  ASSUME NEW p, NEW b, NEW c, NEW r, NEW all, NEW P, P = <<p, b, c, r>>
  PROVE  OnePlaceEach(p, b, c, r, all) <=>
            /\ \A i \in DOMAIN P : IsInjective(P[i])
            /\ \A i, j \in DOMAIN P :
                  i # j => Range(P[i]) \cap Range(P[j]) = {}
            /\ Range(all) = UNION {Range(P[i]) : i \in DOMAIN P}
<1>1. /\ DOMAIN P = {1, 2, 3, 4}
      /\ P[1] = p /\ P[2] = b /\ P[3] = c /\ P[4] = r
  OBVIOUS
<1>2. UNION {Range(P[i]) : i \in {1, 2, 3, 4}}
        = Range(P[1]) \cup Range(P[2]) \cup Range(P[3]) \cup Range(P[4])
  OBVIOUS
<1>3. (\A i \in DOMAIN P : IsInjective(P[i])) <=>
         /\ IsInjective(p) /\ IsInjective(b) /\ IsInjective(c) /\ IsInjective(r)
  BY <1>1, Zenon
<1>4. (\A i, j \in DOMAIN P : i # j => Range(P[i]) \cap Range(P[j]) = {}) <=>
         /\ Range(p) \cap Range(b) = {} /\ Range(p) \cap Range(c) = {}
         /\ Range(p) \cap Range(r) = {} /\ Range(b) \cap Range(c) = {}
         /\ Range(b) \cap Range(r) = {} /\ Range(c) \cap Range(r) = {}
  <2> DEFINE R == [i \in {1, 2, 3, 4} |-> Range(P[i])]
  <2>1. /\ R[1] = Range(p) /\ R[2] = Range(b)
        /\ R[3] = Range(c) /\ R[4] = Range(r)
    BY <1>1
  <2>2. \A i \in DOMAIN P : R[i] = Range(P[i])
    BY <1>1
  <2> HIDE DEF R
  <2>3. (\A i, j \in {1, 2, 3, 4} : i # j => R[i] \cap R[j] = {}) <=>
           /\ R[1] \cap R[2] = {} /\ R[1] \cap R[3] = {}
           /\ R[1] \cap R[4] = {} /\ R[2] \cap R[3] = {}
           /\ R[2] \cap R[4] = {} /\ R[3] \cap R[4] = {}
    OBVIOUS
  <2> QED  BY <1>1, <2>1, <2>2, <2>3
<1> QED  BY <1>1, <1>2, <1>3, <1>4, Zenon DEF OnePlaceEach

(* A functor leaves b for r; b and c may change places.                    *)
LEMMA OneMoves ==
  ASSUME NEW p, NEW b, NEW c, NEW r, NEW all, NEW h, NEW b2, NEW r2,
         OnePlaceEach(p, b, c, r, all), h \in Range(b),
         Range(b2) = Range(b) \ {h}, IsInjective(b2),
         Range(r2) = Range(r) \cup {h}, IsInjective(r2)
  PROVE  OnePlaceEach(p, b2, c, r2, all)
<1> DEFINE P == Range(p)  B == Range(b)  C == Range(c)  R == Range(r)
           B2 == Range(b2)  R2 == Range(r2)  A == Range(all)
<1>1. /\ P \cap B = {} /\ P \cap C = {} /\ P \cap R = {} /\ B \cap C = {}
      /\ B \cap R = {} /\ C \cap R = {} /\ A = P \cup B \cup C \cup R
      /\ h \in B /\ B2 = B \ {h} /\ R2 = R \cup {h}
  BY DEF OnePlaceEach
<1>2. IsInjective(p) /\ IsInjective(c)
  BY DEF OnePlaceEach
<1> HIDE DEF P, B, C, R, B2, R2, A
<1>3. /\ P \cap B2 = {} /\ P \cap R2 = {} /\ B2 \cap C = {}
      /\ B2 \cap R2 = {} /\ C \cap R2 = {} /\ A = P \cup B2 \cup C \cup R2
  BY <1>1
<1> QED
  BY <1>1, <1>2, <1>3, Zenon DEF OnePlaceEach, P, B, C, R, B2, R2, A

LEMMA TakeTurns ==
  ASSUME NEW p, NEW b, NEW c, NEW r, NEW all
  PROVE  OnePlaceEach(p, b, c, r, all) => OnePlaceEach(p, c, b, r, all)
  BY DEF OnePlaceEach

LEMMA PlaceByPlace ==
  ExactlyOnce <=>
     OnePlaceEach(pending, batch[LoopThread], batch[Stopper], ran, posted)
  BY FourPlaces DEF ExactlyOnce, Places

LEMMA PlaceByPlaceNext ==
  ExactlyOnce' <=>
     OnePlaceEach(pending', batch'[LoopThread], batch'[Stopper], ran', posted')
  BY FourPlaces DEF ExactlyOnce, Places

LEMMA ExactlyOnceInit == Init => ExactlyOnce
<1> SUFFICES ASSUME Init PROVE ExactlyOnce
  OBVIOUS
<1>1. /\ pending = <<>> /\ batch[LoopThread] = <<>> /\ batch[Stopper] = <<>>
      /\ ran = <<>> /\ posted = <<>>
  BY ThreadsAssumption DEF Init
<1>2. OnePlaceEach(<<>>, <<>>, <<>>, <<>>, <<>>)
  <2>1. {} \cap {} = {} /\ {} = {} \cup {} \cup {} \cup {}
    OBVIOUS
  <2> QED  BY <2>1, EmptySeqRange, EmptySeqInjective, Zenon DEF OnePlaceEach
<1> QED  BY <1>1, <1>2, PlaceByPlace, Zenon

(* What the swap and an execution by thread t do to the places.            *)
LEMMA SwapPlaces ==
  ASSUME TypeOK, ExactlyOnce, NEW t \in {LoopThread, Stopper},
         batch[t] = <<>>, SwapPending(t)
  PROVE  ExactlyOnce'
<1> USE ThreadsAssumption DEF TypeOK
<1>1. batch'[t] = pending /\ pending' = <<>> /\ ran' = ran /\ posted' = posted
  BY DEF SwapPending
<1>2. \A u \in {LoopThread, Stopper} : u # t => batch'[u] = batch[u]
  BY DEF SwapPending
<1>3. CASE t = LoopThread
  <2>1. batch'[Stopper] = batch[Stopper]
    BY <1>2, <1>3
  <2> QED  BY <1>1, <1>3, <2>1, EmptySeqRange, EmptySeqInjective, PlaceByPlace,
           PlaceByPlaceNext DEF OnePlaceEach
<1>4. CASE t = Stopper
  <2>1. batch'[LoopThread] = batch[LoopThread]
    BY <1>2, <1>4
  <2> QED  BY <1>1, <1>4, <2>1, EmptySeqRange, EmptySeqInjective, PlaceByPlace,
           PlaceByPlaceNext DEF OnePlaceEach
<1> QED  BY <1>3, <1>4

LEMMA ExecutePlaces ==
  ASSUME TypeOK, ExactlyOnce, NEW t \in {LoopThread, Stopper}, ExecuteNext(t)
  PROVE  ExactlyOnce'
<1> USE ThreadsAssumption DEF TypeOK
<1> DEFINE h == Head(batch[t])
<1>1. /\ batch[t] # <<>> /\ batch[t] \in Seq(Functors) /\ h \in Functors
      /\ batch'[t] = Tail(batch[t]) /\ ran' = Append(ran, h)
      /\ pending' = pending /\ posted' = posted
  BY DEF ExecuteNext
<1>2. \A u \in {LoopThread, Stopper} : u # t => batch'[u] = batch[u]
  BY DEF ExecuteNext
<1>3. IsInjective(batch[t]) /\ Range(batch[t]) \cap Range(ran) = {}
  BY PlaceByPlace DEF OnePlaceEach
<1>4. /\ h \in Range(batch[t]) /\ h \notin Range(ran)
      /\ Range(batch'[t]) = Range(batch[t]) \ {h} /\ IsInjective(batch'[t])
  BY <1>1, <1>3, RangeHeadTail
<1>5. Range(ran') = Range(ran) \cup {h} /\ IsInjective(ran')
  BY <1>1, <1>4, PlaceByPlace, RangeAppend DEF OnePlaceEach
<1> HIDE DEF h
<1>6. CASE t = LoopThread
  <2>1. batch'[Stopper] = batch[Stopper]
    BY <1>2, <1>6
  <2> QED  BY <1>1, <1>4, <1>5, <1>6, <2>1, OneMoves, PlaceByPlace,
           PlaceByPlaceNext
<1>7. CASE t = Stopper
  <2>1. batch'[LoopThread] = batch[LoopThread]
    BY <1>2, <1>7
  <2>2. OnePlaceEach(pending, batch[Stopper], batch[LoopThread], ran, posted)
    BY PlaceByPlace, TakeTurns
  <2>3. OnePlaceEach(pending', batch'[Stopper], batch'[LoopThread], ran',
                     posted')
    BY <1>1, <1>4, <1>5, <1>7, <2>1, <2>2, OneMoves
  <2> QED  BY <2>3, TakeTurns, PlaceByPlaceNext
<1> QED  BY <1>6, <1>7

LEMMA ExactlyOnceStep ==
  TypeOK /\ Phases /\ ExactlyOnce /\ [Next]_vars => ExactlyOnce'
<1> SUFFICES ASSUME TypeOK, Phases, ExactlyOnce, [Next]_vars
             PROVE  ExactlyOnce'
  OBVIOUS
<1>1. ASSUME NEW t \in Threads, NEW f \in Functors, AsyncCall(t, f)
      PROVE  ExactlyOnce'
  <2>1. /\ pending' = Append(pending, f) /\ posted' = Append(posted, f)
        /\ f \notin Range(posted) /\ batch' = batch /\ ran' = ran
    BY <1>1 DEF AsyncCall
  <2>2. pending \in Seq(Functors) /\ posted \in Seq(Functors)
    BY DEF TypeOK
  <2>3. f \notin Range(pending) /\ IsInjective(pending)
    BY <2>1, PlaceByPlace DEF OnePlaceEach
  <2>4. /\ Range(pending') = Range(pending) \cup {f} /\ IsInjective(pending')
        /\ Range(posted') = Range(posted) \cup {f}
    BY <2>1, <2>2, <2>3, RangeAppend
  <2> QED  BY <2>1, <2>4, PlaceByPlace,
           PlaceByPlaceNext DEF OnePlaceEach
<1>2. CASE Swap
  BY <1>2, SwapPlaces DEF Swap, Phases
<1>3. CASE Exec
  BY <1>3, ExecutePlaces DEF Exec
<1>4. CASE StopSwap
  BY <1>4, SwapPlaces DEF StopSwap
<1>5. CASE StopExec
  BY <1>5, ExecutePlaces DEF StopExec
<1>6. CASE UNCHANGED <<pending, batch, ran, posted>>
  BY <1>6 DEF ExactlyOnce, Places
<1>7. ASSUME NEW t \in Threads, Notify(t)
      PROVE  UNCHANGED <<pending, batch, ran, posted>>
  BY <1>7 DEF Notify
<1>8. CASE Run \/ Sleep \/ Dispatch \/ OtherEvent \/ Recv \/ ExecDone
           \/ RunReturns \/ StopBegin \/ StopAdvance \/ UNCHANGED vars
  BY <1>6, <1>8 DEF Run, Sleep, Dispatch, OtherEvent, Recv, ExecDone,
                    RunReturns, StopBegin, StopAdvance, vars
<1> QED
  BY <1>1, <1>2, <1>3, <1>4, <1>5, <1>6, <1>7, <1>8
  DEF Next, CallStep, LoopStep, StopStep

(* No functor is lost or executed twice, with a Stop at any point.         *)
THEOREM OnceAndOnlyOnce == Spec => []ExactlyOnce
<1>1. Init => TypeOK /\ Phases /\ ExactlyOnce
  BY TypeInit, PhasesInit, ExactlyOnceInit
<1>2. TypeOK /\ Phases /\ ExactlyOnce /\ [Next]_vars
        => (TypeOK /\ Phases /\ ExactlyOnce)'
  BY TypeStep, PhasesStep, ExactlyOnceStep
<1>. QED  BY <1>1, <1>2, PTL DEF Spec

(***************************************************************************)
(* Until a Stop takes effect functors execute in the order of their        *)
(* hand-over: a step appends at the end of pending and of posted, moves    *)
(* pending into the empty batch, or moves the head of the batch.           *)
(***************************************************************************)
OrderInv == TypeOK /\ Phases /\ ExactlyOnce /\ InOrder

LEMMA OrderInit == Init => OrderInv
<1> SUFFICES ASSUME Init PROVE InOrder
  BY TypeInit, PhasesInit, ExactlyOnceInit DEF OrderInv
<1> QED
  BY EmptyIsSeq, ConcatEmptySeq, ThreadsAssumption DEF Init, InOrder

LEMMA OrderStep == OrderInv /\ [Next]_vars => OrderInv'
<1> SUFFICES ASSUME OrderInv, [Next]_vars PROVE InOrder'
  BY TypeStep, PhasesStep, ExactlyOnceStep DEF OrderInv
<1> USE ThreadsAssumption DEF OrderInv
<1> DEFINE b == batch[LoopThread]
<1>t. pending \in Seq(Functors) /\ ran \in Seq(Functors) /\ b \in Seq(Functors)
  BY DEF TypeOK
<1>0. b' = batch'[LoopThread]
  OBVIOUS
<1>1. ASSUME NEW t \in Threads, NEW f \in Functors, AsyncCall(t, f)
      PROVE  InOrder'
  <2>1. b' = b /\ ran' = ran /\ pending' = Append(pending, f)
             /\ posted' = Append(posted, f) /\ Stopping' = Stopping
    BY <1>1 DEF AsyncCall, Stopping
  <2>2. ran \o (b \o Append(pending, f)) = Append(ran \o (b \o pending), f)
    BY <1>t, FunctorAppend, Zenon
  <2> QED  BY <2>1, <2>2 DEF InOrder
<1>2. ASSUME NEW t \in Threads, Notify(t) PROVE InOrder'
  BY <1>2 DEF Notify, InOrder, Stopping
<1>3. CASE Swap
  <2>1. b = <<>> /\ b' = pending /\ pending' = <<>> /\ ran' = ran
             /\ posted' = posted /\ Stopping' = Stopping
    BY <1>3 DEF Swap, SwapPending, Phases, TypeOK, Stopping
  <2>2. <<>> \o pending = pending /\ pending \o <<>> = pending
    BY <1>t, ConcatEmptySeq
  <2> QED  BY <2>1, <2>2 DEF InOrder
<1>4. CASE Exec
  <2>1. b # <<>> /\ b' = Tail(b) /\ pending' = pending
             /\ ran' = Append(ran, Head(b)) /\ posted' = posted
             /\ Stopping' = Stopping
    BY <1>4 DEF Exec, ExecuteNext, TypeOK, Stopping
  <2>2. Append(ran, Head(b)) \o (Tail(b) \o pending) = ran \o (b \o pending)
    BY <1>t, <2>1, FunctorMove, Zenon
  <2> QED  BY <2>1, <2>2 DEF InOrder
<1>5. CASE Run \/ Sleep \/ Dispatch \/ OtherEvent \/ Recv \/ ExecDone
           \/ RunReturns \/ UNCHANGED vars
  BY <1>5 DEF Run, Sleep, Dispatch, OtherEvent, Recv, ExecDone, RunReturns,
              vars, InOrder, Stopping
<1>6. CASE StopBegin
  BY <1>6 DEF StopBegin, InOrder, Stopping
<1>7. CASE StopSwap \/ StopExec \/ StopAdvance
  <2>1. Stopping'
    BY <1>7 DEF StopSwap, SwapPending, StopExec, ExecuteNext, StopAdvance,
                Phases, Stopping, TypeOK
  <2> QED  BY <2>1 DEF InOrder
<1> QED
  BY <1>1, <1>2, <1>3, <1>4, <1>5, <1>6, <1>7
  DEF Next, CallStep, LoopStep, StopStep

(* Functors execute in order, none skipped, until a Stop takes effect.     *)
THEOREM ExecutionInOrder == Spec => []InOrder
<1>1. OrderInv => InOrder
  BY DEF OrderInv
<1>. QED  BY <1>1, OrderInit, OrderStep, PTL DEF Spec

(***************************************************************************)
(* The loop implements TaskQueue (safety): AsyncCall is Submit, one turn   *)
(* of ProcessPendingFunctors, on either thread, is Execute, a Stop that    *)
(* finds the loop running is Close, and every other step, the swap among   *)
(* them, leaves the abstract queue as it is.                               *)
(***************************************************************************)
LEMMA Oldest ==
  \A s, u, v \in Seq(Functors) :
     u # <<>> => (s \o (u \o v))[Len(s) + 1] = Head(u)
<1> SUFFICES ASSUME NEW s \in Seq(Functors), NEW u \in Seq(Functors),
                    NEW v \in Seq(Functors), u # <<>>
             PROVE  (s \o (u \o v))[Len(s) + 1] = Head(u)
  OBVIOUS
<1> DEFINE w == u \o v
<1>1. w \in Seq(Functors) /\ w # <<>> /\ Head(w) = Head(u)
  BY HeadTailOver
<1> HIDE DEF w
<1>2. (s \o w)[Len(s) + 1] = Head(w)
  BY <1>1
<1> QED  BY <1>1, <1>2 DEF w

LEMMA ExecuteRefines ==
  ASSUME OrderInv, NEW t \in {LoopThread, Stopper}, ExecuteNext(t),
         t = Stopper => Stopping
  PROVE  Queue!Next
<1> USE ThreadsAssumption DEF OrderInv
<1> DEFINE h == Head(batch[t])
<1>1. /\ batch[t] # <<>> /\ batch[t] \in Seq(Functors) /\ h \in Functors
      /\ ran' = Append(ran, h)
      /\ UNCHANGED <<posted, stopMark, exit, spc>>
  BY DEF ExecuteNext, TypeOK
<1>2. h \in Range(batch[t])
  BY <1>1, PlaceByPlace, RangeHeadTail DEF OnePlaceEach
<1>3. h \in Range(posted) \ Range(ran)
  BY <1>2, PlaceByPlace DEF OnePlaceEach
<1>4. ~Stopping => h = posted[Len(ran) + 1]
  <2> SUFFICES ASSUME ~Stopping PROVE h = posted[Len(ran) + 1]
    OBVIOUS
  <2>1. t = LoopThread /\ posted = ran \o (batch[t] \o pending)
    BY DEF InOrder
  <2>2. ran \in Seq(Functors) /\ pending \in Seq(Functors)
    BY DEF TypeOK
  <2> QED  BY <1>1, <2>1, <2>2, Oldest
<1>5. Queue!Execute(h)
  BY <1>1, <1>3, <1>4 DEF Queue!Execute, Queue!Range, Range, Stopping
<1> QED  BY <1>1, <1>5 DEF Queue!Next

THEOREM ImplementsTaskQueue == Spec => Queue!SafeSpec
<1>1. Init => Queue!Init
  BY DEF Init, Queue!Init, Stopping
<1>2. OrderInv /\ [Next]_vars => [Queue!Next]_(Queue!vars)
  <2> SUFFICES ASSUME OrderInv, [Next]_vars
               PROVE  Queue!Next \/ UNCHANGED Queue!vars
    BY DEF Queue!vars
  <2> USE ThreadsAssumption DEF OrderInv
  <2>1. ASSUME NEW t \in Threads, NEW f \in Functors, AsyncCall(t, f)
        PROVE  Queue!Next
    <3>1. /\ f \notin Range(posted) /\ posted' = Append(posted, f)
          /\ UNCHANGED <<ran, stopMark, exit, spc>>
      BY <2>1 DEF AsyncCall
    <3>2. Len(posted') = Len(posted) + 1
      BY <3>1 DEF TypeOK
    <3>3. Queue!Submit(f)
      BY <3>1, <3>2 DEF Queue!Submit, Queue!Range, Range, Stopping
    <3> QED  BY <3>3 DEF Queue!Next
  <2>2. CASE Exec
    BY <2>2, ExecuteRefines DEF Exec
  <2>3. CASE StopExec
    <3>1. Stopping
      BY <2>3 DEF StopExec, ExecuteNext, Phases
    <3> QED  BY <2>3, <3>1, ExecuteRefines DEF StopExec
  <2>4. CASE StopBegin
    <3>1. CASE status = "Running"
      BY <2>4, <3>1 DEF StopBegin, Phases, Stopping, Queue!Next, Queue!Close
    <3>2. CASE status # "Running"
      BY <2>4, <3>2 DEF StopBegin, Stopping, Queue!vars
    <3> QED  BY <3>1, <3>2
  <2>5. ASSUME UNCHANGED <<posted, ran, stopMark>>, Stopping' = Stopping
        PROVE  UNCHANGED Queue!vars
    BY <2>5 DEF Queue!vars
  <2>6. ASSUME NEW t \in Threads, Notify(t) PROVE UNCHANGED Queue!vars
    BY <2>5, <2>6 DEF Notify, Stopping
  <2>7. CASE Swap \/ StopSwap \/ StopAdvance
    BY <2>5, <2>7 DEF Swap, StopSwap, SwapPending, StopAdvance, Phases, Stopping
  <2>8. CASE Run \/ Sleep \/ Dispatch \/ OtherEvent \/ Recv \/ ExecDone
             \/ RunReturns \/ UNCHANGED vars
    BY <2>5, <2>8 DEF Run, Sleep, Dispatch, OtherEvent, Recv, ExecDone,
                      RunReturns, vars, Stopping
  <2> QED
    BY <2>1, <2>2, <2>3, <2>4, <2>6, <2>7, <2>8
    DEF Next, CallStep, LoopStep, StopStep
<1>. QED
  BY <1>1, <1>2, OrderInit, OrderStep, PTL DEF Spec, Queue!SafeSpec
=============================================================================
