SPECIFICATION Spec
CONSTANTS
    IntSize = 4
    SockSize = 8
    IpSize = 2
    MaxSkew = 5
    Commands <- SkewCommands
    Faults <- AcceptFaults
    Handles <- TwoHandles
INVARIANTS
    RequestsInStep
CHECK_DEADLOCK FALSE
