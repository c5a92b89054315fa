SPECIFICATION Spec
CONSTANTS
    LF = LF
    CR = CR
    NUL = NUL
    x = x
    Others = {x}
    MaxCommand = 4
    MaxSent = 5
    Faults = {"reset", "abort", "stuck"}
INVARIANTS
    TypeOK
    OutsideExplained
PROPERTIES
    ImplementsLines
    LineIsObeyed
    EndIsNoticed
CHECK_DEADLOCK FALSE
