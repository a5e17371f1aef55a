SPECIFICATION Spec
CONSTANTS
    e1 = e1
    nil = nil
    Entity <- MCEntity
    SaveNum = 2
    MaxVer = 1
    MaxAdd = 2
    MaxUuid = 2
    MaxLoss = 1
    MaxWire = 3
INVARIANTS
    TypeOK
    SaveListAgrees
    DestroyedIsSaved
PROPERTIES
    LateFinalHasCause
CHECK_DEADLOCK FALSE
