SPECIFICATION Spec
CONSTANTS
    a = a
    b = b
    s1 = s1
    s2 = s2
    Sessions = {s1, s2}
    logtxt = logtxt
    Names = {a, b, logtxt}
    LogName = logtxt
    Args <- MCArgs
    Faults = {"send", "malloc", "find"}
    MaxDepth = 2
    MaxNodes = 2
    MaxListings = 1
SYMMETRY Symmetry
INVARIANTS
    TypeOK
PROPERTIES
    OpensWhatWasMeant
    RenamesWhatWasNamed
    ListingIsTrue
CHECK_DEADLOCK FALSE
