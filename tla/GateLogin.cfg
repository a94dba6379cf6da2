\* One login, on a little-endian host with a 32-bit unsigned int.
SPECIFICATION FairSpec
CONSTANTS
    c1 = c1
    c2 = c2
    Db = Db
    Script <- OneClient
    Cuts = {4, 5, 13}
    Hosts <- UsualHost
PROPERTY
    LoginForwarded
CHECK_DEADLOCK FALSE
