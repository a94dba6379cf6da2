\* Two threads: three connects, two disconnects, any sends; up to the first crash.
SPECIFICATION FairSpec
CONSTANTS
    Users = {u1, u2}
    MaxSockets = 3
    MaxCloses = 2
INVARIANTS
    TypeOK
    SocketsAccountedFor
    StartFindsIts
PROPERTY
    ConnectCompletes
CHECK_DEADLOCK FALSE
