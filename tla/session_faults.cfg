SPECIFICATION FairSpec
CONSTANTS
    IntSize = 4
    SockSize = 8
    IpSize = 9
    MaxSkew = 0
    Commands <- AllCommands
    Faults <- AnsweredFaults
    Handles <- ThreeHandles
INVARIANTS
    TypeOK
    NoCrossTalk
    PassiveReplyIsTrue
    DataSocketIsOurs
    StuckExplained
PROPERTIES
    SocketsLost
    BothStayArmed
    CommandFinishes
    ImplementsDataConn
CHECK_DEADLOCK FALSE
