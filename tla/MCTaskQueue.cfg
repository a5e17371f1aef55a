SPECIFICATION FairSpec
CONSTANTS
    n1 = n1
    n2 = n2
    n3 = n3
    d = d
    p1 = p1
    p2 = p2
    c1 = c1
    c2 = c2
    nil = nil
    Dummy = d
    Node <- MCNode
    Producer <- MCProducer
    Consumer <- MCConsumer
ACTION_CONSTRAINT FirstIsP1
INVARIANTS
    TypeOK
    TakenInLinkOrder
    TailNearEnd
    NextIsNotNil
PROPERTIES
    NilMeansEmpty
    ImplementsFifo
    EventuallyTaken
