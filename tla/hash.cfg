SPECIFICATION Spec
CONSTANTS
    n1 = n1
    n2 = n2
    n3 = n3
    n4 = n4
    n5 = n5
    NULL = NULL
    Keys = {0, 1, 2}
    Values = {1, 2}
    Buckets = 2
    Nodes = {n1, n2, n3, n4, n5}
SYMMETRY Symmetry
INVARIANTS
    TypeOK
PROPERTIES
    ImplementsShadowMap
CHECK_DEADLOCK FALSE
