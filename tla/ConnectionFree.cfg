\* Nobody but the owner keeps a pointer, as in both servers.
SPECIFICATION Spec
CONSTANTS
    Users = {u1}
    KeeperSets = {{}}
    SendLens = {1}
    KernelCap = 1
    MaxBytes = 2
    MaxSends = 2
    MaxCloses = 1
    MaxInput = 1
INVARIANT
    NoUseAfterFree
CHECK_DEADLOCK FALSE
