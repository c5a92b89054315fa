SPECIFICATION Spec
CONSTANTS
    a = a
    b = b
    Junk = Junk
    Elems = {a, b}
    MinLen = 1
    MaxTot = 8
SYMMETRY Symmetry
INVARIANTS
    TypeOK
PROPERTIES
    NoThrash
    EdgeOnly
    ImplementsVector
CHECK_DEADLOCK FALSE
