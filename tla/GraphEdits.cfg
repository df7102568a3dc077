CONSTANTS
    n1 = n1
    n2 = n2
    pipe = pipe
    sink = sink
    other = other
    Names = {main, other}
    MainGraph = main
    Nodes = {n1, n2}
    Component = {pipe, sink}
    Library <- MCLibrary
    Public = {p, q}
    Group = {gr}
    Data = {d}
    NoNode = NoNode
    NoData = NoData
    Clients = {c1, c2}
    Main = Main
    Chain <- MCChain
    Repeat = pipe
    GraphIn = p
    GraphOut = p
    EdgeCap = 1
    MaxEdits = 3
SPECIFICATION Spec
CHECK_DEADLOCK FALSE
INVARIANTS
    TypeOK
    FallbackReachable
    SavedActiveExists
PROPERTIES
    AckedSaveIsCurrent
    NodesEnterAddressedGraph
    DanglingOnlyByAdd
