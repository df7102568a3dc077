CONSTANTS
    g1 = g1
    g2 = g2
    c1 = c1
    c2 = c2
    Graphs = {g1, g2}
    WithOutports = {g2}
    Clients = {c1}
    MaxStarts = 1
    MaxAsync = 1
    NoGraph = none
    JoinsTimeOut = TRUE
SPECIFICATION FairSpec
CHECK_DEADLOCK FALSE
PROPERTIES
    StopReturns
    
