\* One thread besides the loop uses the connection; it may or may not own it.
SPECIFICATION FairSpec
CONSTANTS
    Users = {u1}
    KeeperSets = {{}, {u1}}
    SendLens = {0, 2}
    KernelCap = 1
    MaxBytes = 4
    MaxSends = 2
    MaxCloses = 2
    MaxInput = 1
INVARIANTS
    TypeOK
    StreamInOrder
    NeverStranded
    FreedBehindClose
PROPERTIES
    NoReadAfterClose
    Delivered
    PeerGoneNoticed
    WriteInterestEnds
CHECK_DEADLOCK FALSE
