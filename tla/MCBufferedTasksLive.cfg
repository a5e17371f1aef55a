SPECIFICATION FairSpec
CONSTANTS
    e1 = e1
    e2 = e2
    t1 = t1
    t2 = t2
    t3 = t3
    t4 = t4
    nil = nil
    Entity <- MCEntity
    Task <- MCTaskLive
    Owner <- MCOwnerLive
    Poison = {}
    PoolSize = 3
PROPERTIES
    EveryTaskLeaves
    StopEnds
CHECK_DEADLOCK FALSE
