CONSTANTS
    g1 = g1
    g2 = g2
    c1 = c1
    c2 = c2
    Graphs = {g2}
    WithOutports = {g2}
    Clients = {c1, c2}
    MaxStarts = 2
    MaxAsync = 1
    NoGraph = none
    JoinsTimeOut = TRUE
SPECIFICATION Spec
CHECK_DEADLOCK FALSE
SYMMETRY ClientSymmetry
INVARIANTS
    TypeOK
    OneLiveNetwork
    RunningMeansStoppable
    BoundaryThreadsTracked
    WatchdogStopsOwnNetwork
PROPERTIES
    WatchdogStopIsFinal
