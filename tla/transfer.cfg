SPECIFICATION Spec
CONSTANTS
    Chunk = 2
    Block = 4
    Half = 16
    MaxSize = 6
    Offsets <- MCOffsets
    Faults = {"reset", "partial", "read", "resize", "stat"}
    MaxRead = 1
    MaxFds = 2
INVARIANTS
    TypeOK
    CompleteIsDelivered
    TransferIsAnswered
PROPERTIES
    DescriptorsHeld
    DownloadEnds
CHECK_DEADLOCK FALSE
