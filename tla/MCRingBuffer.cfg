SPECIFICATION Spec
CONSTANTS
    Byte <- MCByte
    NewSizes <- MCNewSizes
    InitSize = 4
    MaxLength = 6
    MaxWrite = 5
INVARIANTS
    TypeOK
    ContentKept
PROPERTIES
    ReadReturnsFront
