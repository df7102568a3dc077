CONSTANTS
    a = a
    b = b
    Nodes <- MCNodes
    Budget <- MCBudgetOne
    Wakers = {}
    RunThread = run
    NoNode = none
    Cap = 1
    MaxTime = 0
    EnforceContract = FALSE
SPECIFICATION FairSpec
CHECK_DEADLOCK FALSE
PROPERTIES
    StopTerminates
