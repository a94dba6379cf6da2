\* Two connections on two threads, two database connections at most; the byte
\* order of the host is that of the network.
SPECIFICATION FairSpec
CONSTANTS
    c1 = c1
    c2 = c2
    t1 = t1
    t2 = t2
    NoUser = nouser
    Script <- TwoScripts
    LoopOf <- TwoLoops
    Patient = {c1}
    Cuts = {4, 5, 12, 13, 22}
    BigEndian = TRUE
    ConnNum = 2
    SqlRoom = 64
INVARIANTS
    TypeOK
    RepliesMatch
    OutOfStepOnlyAfterUnknown
PROPERTY
    LoginAnswered
CHECK_DEADLOCK FALSE
