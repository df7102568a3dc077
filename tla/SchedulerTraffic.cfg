CONSTANTS
    a = a
    b = b
    Nodes <- MCNodes
    Budget <- MCBudget
    Wakers = {w}
    RunThread = run
    NoNode = none
    Cap = 1
    MaxTime = 0
    EnforceContract = TRUE
SPECIFICATION FairSpec
CHECK_DEADLOCK FALSE
PROPERTIES
    RefinesNodeLifecycle
    InputReachesNode
    SelfTermination
INVARIANTS
    TypeOK
    ReadyQueueConsistent
    NoNodeLost
    PopFindsNode
    NoLostReadiness
    WaitIsSound
    ActivationBounded
