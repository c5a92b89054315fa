SPECIFICATION Spec
CONSTANTS
    a1 = a1
    a2 = a2
    Ips = {a1, a2}
    Pids = {1, 2, 3}
    Buckets = 2
    MaxClients = 2
    MaxPerIp = 1
    MaxCount = 4
SYMMETRY Symmetry
INVARIANTS
    CountsHold
    NeverTooMany
    AssertExplained
CHECK_DEADLOCK FALSE
