SPECIFICATION FairSpec
CONSTANTS
    IntSize = 2
    SockSize = 2
    IpSize = 2
    MaxSkew = 0
    Commands <- AllCommands
    Faults <- NoFaults
    Handles <- TwoHandles
PROPERTIES
    ProtoCloseFreesSession
CHECK_DEADLOCK FALSE
