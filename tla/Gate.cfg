\* Two clients and the data server, on hosts of either byte order, whose
\* unsigned int does or does not hold an id.
SPECIFICATION Spec
CONSTANTS
    c1 = c1
    c2 = c2
    Db = Db
    Script <- TwoClients
    Cuts = {4, 5, 13}
    Hosts <- AllHosts
INVARIANTS
    TypeOK
    AuthorizedIsRight
    ForwardsMatch
    OutOfStepKnown
CHECK_DEADLOCK FALSE
