\* Two worker loops, across the turn of a minute, at the highest rate the ids
\* allow and above it; up to the first race on connections_.
SPECIFICATION FairSpec
CONSTANTS
    w1 = w1
    w2 = w2
    Main = main
    Workers <- TwoWorkers
    MaxConns = 3
    StartTime = 58
    MaxTime = 60
    SerialRange = 1
    IdWidth = 50
INVARIANTS
    TypeOK
    UniqueIds
    StartFindsIts
    MapExact
    Balanced
PROPERTIES
    EventuallyStarted
    EventuallyAccepted
CHECK_DEADLOCK FALSE
