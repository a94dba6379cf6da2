\* Every sequence of calls that puts at most MaxBytes into the buffer.
SPECIFICATION Spec
CONSTANTS
    InitialSize = 3
    ExtraSize = 5
    MaxBytes = 12
INVARIANTS
    TypeOK
    SafeWhileItFits
PROPERTY
    QueueOfBytes
CHECK_DEADLOCK FALSE
