SPECIFICATION FairSpec
CONSTANTS
    s1 = s1
    h1 = h1
    h2 = h2
    h3 = h3
    Sessions = {s1}
    Handles = {h1, h2, h3}
    Faults <- AllFaults
PROPERTIES
    ShutdownEnds
CHECK_DEADLOCK FALSE
