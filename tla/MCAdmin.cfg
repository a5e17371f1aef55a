SPECIFICATION Spec
CONSTANTS
    b1 = b1
    b2 = b2
    t1 = t1
    t2 = t2
    none = none
    Browser <- MCBrowser
    Target <- MCTarget
    Targets <- MCTargets
    Size <- MCSize
    ReadSize = 2
    Pieces <- MCPieces
    MaxConn = 2
    MaxRequest = 2
    MaxDial = 2
INVARIANTS
    TypeOK
    OwnAnswer
    LastSubmitKept
CHECK_DEADLOCK FALSE
SYMMETRY MCSymmetry
