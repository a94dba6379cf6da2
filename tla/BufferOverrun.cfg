\* An append that should make the buffer grow.
SPECIFICATION Spec
CONSTANTS
    InitialSize = 3
    ExtraSize = 5
    MaxBytes = 12
INVARIANT
    NoOverrun
CHECK_DEADLOCK FALSE
