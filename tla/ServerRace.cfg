\* connections_ is shared by the main loop and the worker loops.
SPECIFICATION Spec
CONSTANTS
    w1 = w1
    w2 = w2
    Main = main
    Workers <- TwoWorkers
    MaxConns = 2
    StartTime = 59
    MaxTime = 60
    SerialRange = 2
    IdWidth = 100
INVARIANT
    MapRaceFree
CHECK_DEADLOCK FALSE
