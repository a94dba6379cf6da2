\* One login on a little-endian host.
SPECIFICATION FairSpec
CONSTANTS
    c1 = c1
    c2 = c2
    t1 = t1
    t2 = t2
    NoUser = nouser
    Script <- OneScript
    LoopOf <- OneLoop
    Patient = {c1}
    Cuts = {4, 5, 12, 13, 22}
    BigEndian = FALSE
    ConnNum = 2
    SqlRoom = 64
PROPERTY
    LoginAnswered
CHECK_DEADLOCK FALSE
