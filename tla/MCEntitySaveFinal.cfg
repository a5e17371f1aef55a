SPECIFICATION Spec
CONSTANTS
    e1 = e1
    nil = nil
    Entity <- MCEntity
    SaveNum = 1
    MaxVer = 1
    MaxAdd = 2
    MaxUuid = 2
    MaxLoss = 1
    MaxWire = 3
PROPERTY
    FinalOnlyWhileDestroying
CHECK_DEADLOCK FALSE
