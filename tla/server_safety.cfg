SPECIFICATION Spec
CONSTANTS
    s1 = s1
    s2 = s2
    h1 = h1
    h2 = h2
    h3 = h3
    Sessions = {s1, s2}
    Handles = {h1, h2, h3}
    Faults <- AllFaults
SYMMETRY Symmetry
INVARIANTS
    TypeOK
    SessionOutlivesThreads
    HandleStoreExplained
    RegistryUseExplained
    ListenerClosed
PROPERTIES
    ForeignCloseIsTheRace
CHECK_DEADLOCK FALSE
