CONSTANTS
    a = a
    b = b
    Nodes <- MCNodes
    Budget <- MCBudget
    Wakers = {}
    RunThread = run
    NoNode = none
    Cap = 0
    MaxTime = 1
    EnforceContract = TRUE
SPECIFICATION FairSpec
CHECK_DEADLOCK FALSE
PROPERTIES
    ArmedTimerFires
    TimerConsumedOnlyWhenDue
INVARIANTS
    ArmedTimerBacked
    WaitIsSound
