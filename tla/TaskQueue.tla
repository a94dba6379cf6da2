----------------------------- MODULE TaskQueue -----------------------------
(***************************************************************************)
(* What EventLoop::AsyncCall promises its callers (include/EventLoop.h):   *)
(* a functor handed to the loop is executed later and exactly once.  While *)
(* the queue is open, the oldest functor is executed first; Close ends the *)
(* order, and the promise for functors submitted after it, but those due   *)
(* by then are still executed.  Nothing is said about threads, locks or    *)
(* the wake-up pipe.                                                       *)
(***************************************************************************)
EXTENDS Integers, Sequences, Functions

CONSTANT Functors

VARIABLES posted,  \* functors in the order of their submission
          done,    \* functors in the order of their execution
          due,     \* how many of posted are promised to be executed
          open     \* whether Close is yet to come

vars == <<posted, done, due, open>>

Init == posted = <<>> /\ done = <<>> /\ due = 0 /\ open = TRUE

Submit(f) == /\ f \notin Range(posted)
             /\ posted' = Append(posted, f)
             /\ due' = IF open THEN Len(posted) + 1 ELSE due
             /\ UNCHANGED <<done, open>>

Execute(f) == /\ f \in Range(posted) \ Range(done)
              /\ open => f = posted[Len(done) + 1]
              /\ done' = Append(done, f)
              /\ UNCHANGED <<posted, due, open>>

Close == /\ open /\ open' = FALSE
         /\ UNCHANGED <<posted, done, due>>

Next == Close \/ \E f \in Functors : Submit(f) \/ Execute(f)

SafeSpec == Init /\ [][Next]_vars

ExecuteDue == \E i \in 1..due : Execute(posted[i])

Spec == SafeSpec /\ WF_vars(ExecuteDue)
=============================================================================
