SPECIFICATION FairSpec
CONSTANTS
    e1 = e1
    e2 = e2
    none = none
    Entity <- MCEntity
    MaxClient = 2
    MaxLogin = 2
    MaxLink = 2
ACTION_CONSTRAINT FirstIsE1
INVARIANTS
    TypeOK
    ForgottenOnlyIfEarly
    BindingsAreKnown
    CrashOnlyAfterBreak

    
CHECK_DEADLOCK FALSE
