SPECIFICATION Spec
SYMMETRY MCSymmetry
CONSTANTS
    e1 = e1
    e2 = e2
    t1 = t1
    t2 = t2
    t3 = t3
    t4 = t4
    nil = nil
    Entity <- MCEntity
    Task <- MCTask
    Owner <- MCOwner
    Poison <- MCPoison
    PoolSize = 4
INVARIANTS
    TypeOK
    EveryTaskHasAChain
    StartedFromFront
    SerialUseIsExact
    QuietAfterStop
CHECK_DEADLOCK FALSE
