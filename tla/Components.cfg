CONSTANTS
    Kinds <- MCKinds
    InCap = 3
    OutCap = 1
    Budget = 2
    BudgetWrap = 16
    MaxMsgs = 4
    MaxFed <- MCMaxFed
    MaxTaken = 5
    MaxRetries = 1
    MaxFailures = 2
    CmdCap = 1
    ResCap = 1
    MaxClients = 2
    MaxChunks = 2
    MaxRequests = 2
SPECIFICATION Spec
INVARIANTS
    TypeOK
    NoDuplicates
    AcceptedIsKept
    OrderKept
    BudgetNotOverdrawn
    RequestsAccounted
    ResultsWakeNode
    KeepsGoing
    NoMutualBlock
    AnsweredOnce
    ReceivedIsKept
PROPERTIES
    ShutdownConfirmed
CHECK_DEADLOCK FALSE
