\* Any interleaving of two callers, the loop and one Stop from another
\* thread, under the fairness of the threads.
SPECIFICATION FairSpec
CONSTANTS
    Callers = {c1, c2}
    LoopThread = loop
    Stopper = stopper
    Functors = {f1, f2, f3}
    PipeCap = 2
    RecvSize = 1
INVARIANTS
    TypeOK
    NoLostWakeup
    ExactlyOnce
    InOrder
PROPERTIES
    QueueSpec
    StopFlushes
    ExitOnWakeup
CHECK_DEADLOCK FALSE
