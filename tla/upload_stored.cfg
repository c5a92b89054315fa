SPECIFICATION Spec
CONSTANTS
    Chunk = 2
    Block = 4
    Half = 16
    MaxSize = 6
    Offsets <- MCOffsets
    Faults = {}
    MaxRead = 1
    MaxFds = 2
INVARIANTS
    SoundUploadIsStored
CHECK_DEADLOCK FALSE
