----------------------------- MODULE GraphStore -----------------------------
(***************************************************************************)
(* The graphs the server edits, runs and saves: graph.rs, multi_graph.rs,  *)
(* the graph, network and trace handlers of server.rs, and persist(),      *)
(* load_or_create_graph_set() and the checks of start() in runtime.rs.     *)
(*                                                                         *)
(* A handler first resolves the graph name under the runtime lock and then *)
(* edits the graph it got under that graph's own lock: between the two     *)
(* another client may clear, rename or replace the graph. A graph object   *)
(* (one Arc<RwLock<Graph>>) is named by the key it was loaded under.       *)
(* A node has one inport and one outport; names are values, not strings.   *)
(***************************************************************************)
EXTENDS Naturals, Sequences, FiniteSets

CONSTANTS
    Names,        \* graph names, the keys of the registry and of the file
    MainGraph,    \* "main_graph", the graph Runtime::new registers
    Nodes,        \* node names
    Component,    \* component names a client may ask for
    Library,      \* available components: [component -> [ins, outs, array]]
    Public,       \* names of exported ports
    Group,        \* group names
    Data,         \* contents of a non-empty IIP
    NoNode,       \* the empty process name of an IIP's source
    NoData,       \* an edge without data
    Clients,      \* client connections; the main thread saves as one more
    Main,
    Chain, Repeat, GraphIn, GraphOut,   \* names in the default graph
    EdgeCap,      \* PROCESSEDGE_BUFSIZE
    MaxEdits      \* bound: edits, clears and saves in one behaviour

ASSUME GraphStoreAssumption ==
    /\ MainGraph \in Names /\ DOMAIN Library \subseteq Component
    /\ NoNode \notin Nodes /\ NoData \notin Data /\ Main \notin Clients
    /\ Chain \in Nodes \X Nodes /\ Chain[1] # Chain[2] /\ Repeat \in Component
    /\ GraphIn \in Public /\ GraphOut \in Public
    /\ EdgeCap \in Nat /\ MaxEdits \in Nat

VARIABLES
    store,        \* the graph objects: object -> Graph
    graphs,       \* Runtime.graphs.graphs: key -> object
    fallback,     \* FlowdServer.graph, the object every handler was given
    graph,        \* Runtime.graph, the name of the active graph
    running,      \* Runtime.status.running
    tracing,      \* Runtime.tracing
    wedged,       \* the runtime lock: "no", "poisoned" or "held" for ever
    file,         \* the persistence file
    pc,           \* where each handler is
    edit_waits,   \* a handler waits in write() for the fallback graph
    up,           \* the process is running
    edits

vars == <<store, graphs, fallback, graph, running, tracing, wedged, file, pc, edit_waits,
          up, edits>>

-----------------------------------------------------------------------------
(* Graph values (graph.rs). An operator that edits a graph returns the set *)
(* of graphs a request may turn g into; it is empty where the code answers *)
(* with an error. "to" is the graph name of the request.                   *)
(* Operators whose name ends in Mutant are plausible slips in the operator *)
(* that follows them; nothing else uses them.                              *)

NoFun == [x \in {} |-> x]
Idle == [at |-> "idle"]

Graph_new(name) ==
    [name |-> name, nodes |-> NoFun, edges |-> <<>>, inports |-> NoFun,
     outports |-> NoFun, groups |-> <<>>]

Put(f, k, v) == [x \in DOMAIN f \cup {k} |-> IF x = k THEN v ELSE f[x]]
Drop(f, k) == [x \in DOMAIN f \ {k} |-> f[x]]
Rename(f, old, new) == Put(Drop(f, old), new, f[old])
Without(s, i) == [j \in 1..(Len(s) - 1) |-> IF j < i THEN s[j] ELSE s[j + 1]]
\* Vec::retain: what is left of s at the positions K, in its order.
Upto(K, i) == {h \in K : h <= i}
Retain(s, K) ==
    [j \in 1..Cardinality(K) |-> s[CHOOSE i \in K : Cardinality(Upto(K, i)) = j]]
First(S) == {i \in S : \A j \in S : i <= j}

Plain(g) == {i \in DOMAIN g.edges : g.edges[i].data = NoData}
IipsTo(g, n) == {i \in DOMAIN g.edges \ Plain(g) : g.edges[i].tgt = n}
EdgesBetween(g, s, t) == {i \in DOMAIN g.edges : g.edges[i].src = s /\ g.edges[i].tgt = t}
EdgesAt(g, n) == {i \in DOMAIN g.edges : n \in {g.edges[i].src, g.edges[i].tgt}}
GroupsNamed(g, n) == {i \in DOMAIN g.groups : g.groups[i].name = n}

Edge(src, tgt) == [src |-> src, tgt |-> tgt, data |-> NoData, meta |-> FALSE]
Iip(data, tgt) == [src |-> NoNode, tgt |-> tgt, data |-> data, meta |-> FALSE]

clear(g, name) == Graph_new(name)

add_port(ports) ==
    {Put(ports, p, n) : p \in Public \ DOMAIN ports, n \in Nodes}
remove_port(ports) ==
    {Drop(ports, p) : p \in DOMAIN ports}
rename_port(ports) ==
    {Rename(ports, old, new) : old \in DOMAIN ports, new \in Public \ DOMAIN ports}

add_nodeMutant(g, to) ==
    {[g EXCEPT !.nodes = Put(@, n, [component |-> k, x |-> x, px |-> x])] :
        n \in Nodes \ DOMAIN g.nodes, k \in Component, x \in BOOLEAN}

\* metadata.x is kept as x, the x of protocol_metadata as px.
add_node(g, to) ==
    IF to # g.name THEN {} ELSE
    {[g EXCEPT !.nodes = Put(@, n, [component |-> k, x |-> x, px |-> x])] :
        n \in Nodes \ DOMAIN g.nodes, k \in Component, x \in BOOLEAN}

remove_node(g, to) ==
    IF to # g.name THEN {} ELSE
    {[g EXCEPT !.nodes = Drop(@, n),
               !.edges = Retain(@, DOMAIN @ \ EdgesAt(g, n))] : n \in DOMAIN g.nodes}

Moved(m, old, new) == IF m = old THEN new ELSE m
MoveEnds(s, old, new) ==
    [i \in DOMAIN s |->
        [s[i] EXCEPT !.src = Moved(@, old, new), !.tgt = Moved(@, old, new)]]

Renamed(g, old, new) ==
    [g EXCEPT !.nodes = Rename(@, old, new), !.edges = MoveEnds(@, old, new)]

rename_nodeMutant(g, to) ==
    IF to # g.name THEN {} ELSE
    {[g EXCEPT !.nodes = Rename(@, old, new)] :
        old \in DOMAIN g.nodes, new \in Nodes \ DOMAIN g.nodes}

rename_node(g, to) ==
    IF to # g.name THEN {} ELSE
    {Renamed(g, old, new) : old \in DOMAIN g.nodes, new \in Nodes \ DOMAIN g.nodes}

\* A null value removes the key from protocol_metadata but not from metadata.
Positioned(spec, x) == [spec EXCEPT !.px = x, !.x = @ \/ x]

change_node(g, to) ==
    IF to # g.name THEN {} ELSE
    {[g EXCEPT !.nodes = Put(@, n, Positioned(@[n], x))] : n \in DOMAIN g.nodes, x \in BOOLEAN}

add_edge(g, to) ==
    IF to # g.name THEN {} ELSE
    {[g EXCEPT !.edges = Append(@, Edge(s, t))] : s \in Nodes, t \in Nodes}

remove_edge(g, to) ==
    IF to # g.name THEN {} ELSE
    UNION {{[g EXCEPT !.edges = Without(@, i)] :
        i \in First(EdgesBetween(g, s, t))} : s \in Nodes, t \in Nodes}

change_edge(g, to) ==
    IF to # g.name THEN {} ELSE
    UNION {{[g EXCEPT !.edges[i].meta = TRUE] :
        i \in First(EdgesBetween(g, s, t))} : s \in Nodes, t \in Nodes}

add_initialipMutant(g) ==
    {[g EXCEPT !.edges = Append(@, [Iip(d, NoNode) EXCEPT !.src = t])] :
        d \in Data \cup {NoData}, t \in Nodes}

\* Empty data makes an edge from no process that is not an IIP.
add_initialip(g) ==
    {[g EXCEPT !.edges = Append(@, Iip(d, t))] : d \in Data \cup {NoData}, t \in Nodes}

\* The request names the data or leaves it open: the first match goes.
AskedData == {{d} : d \in Data} \cup {Data}

remove_initialip(g) ==
    UNION {{[g EXCEPT !.edges = Without(@, i)] :
        i \in First({j \in IipsTo(g, t) : g.edges[j].data \in ds})} :
            ds \in AskedData, t \in Nodes}

add_group(g, to) ==
    IF to # g.name THEN {} ELSE
    {[g EXCEPT !.groups = Append(@, new)] :
        new \in [name : Group, nodes : SUBSET Nodes, meta : {FALSE}]}

remove_group(g, to) ==
    IF to # g.name THEN {} ELSE
    UNION {{[g EXCEPT !.groups = Without(@, i)] :
        i \in First(GroupsNamed(g, n))} : n \in Group}

rename_group(g, to) ==
    IF to # g.name THEN {} ELSE
    UNION {{[g EXCEPT !.groups[i].name = new] :
        i \in First(GroupsNamed(g, old))} : old \in Group, new \in Group}

change_group(g, to) ==
    IF to # g.name THEN {} ELSE
    UNION {{[g EXCEPT !.groups[i].meta = TRUE] :
        i \in First(GroupsNamed(g, n))} : n \in Group}

-----------------------------------------------------------------------------
(* What Runtime::start makes of a graph.                                   *)

Least(S) == CHOOSE i \in S : \A j \in S : i <= j

\* The second plain edge at one port: the node must exist, and unless the
\* port is an array port the start is refused.
Shared(g, end) ==
    {i \in Plain(g) :
        /\ \E j \in Plain(g) : j < i /\ g.edges[j][end] = g.edges[i][end]
        /\ \/ g.edges[i][end] \notin DOMAIN g.nodes
           \/ LET k == g.nodes[g.edges[i][end]].component
              IN  k \in DOMAIN Library /\ ~Library[k].array}
SharedVerdict(g, end) ==
    IF g.edges[Least(Shared(g, end))][end] \in DOMAIN g.nodes THEN "error" ELSE "panic"

\* Wiring one edge: both processes are looked up with expect(), and the IIPs
\* of its target are pushed into its buffer with expect().
WiringPanics(g, i) ==
    \/ g.edges[i].tgt \notin DOMAIN g.nodes
    \/ g.edges[i].src \notin DOMAIN g.nodes
    \/ Cardinality(IipsTo(g, g.edges[i].tgt)) > EdgeCap

ExportPanics(g) ==
    \/ \E i \in DOMAIN g.edges \ Plain(g) : g.edges[i].tgt \notin DOMAIN g.nodes
    \/ \E p \in DOMAIN g.inports : g.inports[p] \notin DOMAIN g.nodes
    \/ \E p \in DOMAIN g.outports : g.outports[p] \notin DOMAIN g.nodes

\* Every port of a known component must be connected.
Connected(g, n) ==
    LET k == g.nodes[n].component IN
    /\ k \in DOMAIN Library
    /\ Library[k].ins =>
          \/ \E i \in DOMAIN g.edges : g.edges[i].tgt = n
          \/ \E p \in DOMAIN g.inports : g.inports[p] = n
    /\ Library[k].outs =>
          \/ \E i \in Plain(g) : g.edges[i].src = n
          \/ \E p \in DOMAIN g.outports : g.outports[p] = n

\* With tracing on, the first wired edge is announced under the graph_inout
\* mutex that start() itself holds: it never returns.
StartVerdict(g) ==
    IF Shared(g, "src") # {} THEN SharedVerdict(g, "src")
    ELSE IF Shared(g, "tgt") # {} THEN SharedVerdict(g, "tgt")
    ELSE IF Plain(g) # {} /\ tracing /\ ~WiringPanics(g, Least(Plain(g))) THEN "hang"
    ELSE IF (\E i \in Plain(g) : WiringPanics(g, i)) \/ ExportPanics(g) THEN "panic"
    ELSE IF \E n \in DOMAIN g.nodes : ~Connected(g, n) THEN "error"
    ELSE "started"

-----------------------------------------------------------------------------
(* The file. What is saved of a graph leaves out protocol_metadata.        *)

Torn == [kind |-> "torn"]
Absent == [kind |-> "absent"]

Serialized(g) == [g EXCEPT !.nodes = [n \in DOMAIN @ |-> [@[n] EXCEPT !.px = FALSE]]]

SavedGraphs ==
    IF DOMAIN graphs = {} THEN Put(NoFun, graph, Serialized(store[fallback]))
    ELSE [k \in DOMAIN graphs |-> Serialized(store[graphs[k]])]

\* The active graph, or any other key of the map when there is no such graph.
ActiveKeys(saved, name) == IF name \in DOMAIN saved THEN {name} ELSE DOMAIN saved

GraphSetsMutant == [kind : {"whole"}, graphs : {SavedGraphs}, active : {graph}]

\* The graph sets that persist() may encode.
GraphSets ==
    [kind : {"whole"}, graphs : {SavedGraphs}, active : ActiveKeys(SavedGraphs, graph)]

\* Runtime::new registers an empty graph under the default name; then the
\* loaded ones are added, and the active one is given to the server.
Booted(saved, active) ==
    LET all == IF MainGraph \in DOMAIN saved THEN saved
               ELSE Put(saved, MainGraph, Graph_new(MainGraph)) IN
    /\ store' = [k \in Names |-> IF k \in DOMAIN all THEN all[k] ELSE Graph_new(k)]
    /\ graphs' = [k \in DOMAIN all |-> k]
    /\ fallback' = active /\ graph' = active
    /\ running' = FALSE /\ tracing' = FALSE /\ wedged' = "no"
    /\ pc' = [c \in Clients \cup {Main} |-> Idle] /\ edit_waits' = FALSE
    /\ up' = TRUE

\* The chain of the default graph that runs from its inport to its outport;
\* the second chain, fed by an IIP and ending in a Drop, is left out.
create_default_graph ==
    [Graph_new(MainGraph) EXCEPT
        !.nodes = [n \in {Chain[1], Chain[2]} |->
                      [component |-> Repeat, x |-> TRUE, px |-> TRUE]],
        !.edges = <<Edge(Chain[1], Chain[2])>>,
        !.inports = Put(NoFun, GraphIn, Chain[1]),
        !.outports = Put(NoFun, GraphOut, Chain[2])]

-----------------------------------------------------------------------------
(* The locks the handlers take. A save holds the runtime lock and the lock *)
(* of the fallback graph for reading until the file is written; a start()  *)
(* that hangs keeps its graph. A graph that a handler has found is edited  *)
(* without the runtime lock, poisoned or not.                              *)

Saving == {c \in Clients \cup {Main} : pc[c].at \in {"locked", "saving"}}
Hung(o) == \E c \in Clients : pc[c].at = "hung" /\ pc[c].obj = o
Alive == up /\ wedged = "no"
CanWriteRuntime == Alive /\ Saving = {}
CanWriteGraphMutant(o) == up
CanWriteGraph(o) == up /\ ~Hung(o) /\ (o = fallback => Saving = {})
Room == edits < MaxEdits

\* validate_secret and get_graph_by_name: registry first, then the fallback.
get_graph_by_name(name) ==
    IF name \in DOMAIN graphs THEN {graphs[name]}
    ELSE IF store[fallback].name = name THEN {fallback} ELSE {}

Resolve(c, name) ==
    /\ Alive /\ pc[c] = Idle
    /\ \E o \in get_graph_by_name(name) :
          pc' = [pc EXCEPT ![c] = [at |-> "found", to |-> name, obj |-> o]]
    /\ UNCHANGED <<store, graphs, fallback, graph, running, tracing, wedged, file,
                   edit_waits, up, edits>>

Target(c) == store[pc[c].obj]

\* The graph is edited under its own lock; the runtime lock is not held.
Edit(c, results) ==
    /\ pc[c].at = "found" /\ CanWriteGraph(pc[c].obj) /\ Room
    /\ \E g \in results : store' = [store EXCEPT ![pc[c].obj] = g]
    /\ pc' = [pc EXCEPT ![c] = Idle]
    /\ edits' = edits + 1
    /\ UNCHANGED <<graphs, fallback, graph, running, tracing, wedged, file, edit_waits, up>>

AddNode(c) == Edit(c, add_node(Target(c), pc[c].to))
RemoveNode(c) == Edit(c, remove_node(Target(c), pc[c].to))
RenameNode(c) == Edit(c, rename_node(Target(c), pc[c].to))
ChangeNode(c) == Edit(c, change_node(Target(c), pc[c].to))
AddEdge(c) == Edit(c, add_edge(Target(c), pc[c].to))
RemoveEdge(c) == Edit(c, remove_edge(Target(c), pc[c].to))
ChangeEdge(c) == Edit(c, change_edge(Target(c), pc[c].to))
AddInitial(c) == Edit(c, add_initialip(Target(c)))
RemoveInitial(c) == Edit(c, remove_initialip(Target(c)))
AddInport(c) == Edit(c, {[Target(c) EXCEPT !.inports = f] : f \in add_port(Target(c).inports)})
RemoveInport(c) == Edit(c, {[Target(c) EXCEPT !.inports = f] : f \in remove_port(Target(c).inports)})
RenameInport(c) == Edit(c, {[Target(c) EXCEPT !.inports = f] : f \in rename_port(Target(c).inports)})
AddOutport(c) == Edit(c, {[Target(c) EXCEPT !.outports = f] : f \in add_port(Target(c).outports)})
RemoveOutport(c) == Edit(c, {[Target(c) EXCEPT !.outports = f] : f \in remove_port(Target(c).outports)})
RenameOutport(c) == Edit(c, {[Target(c) EXCEPT !.outports = f] : f \in rename_port(Target(c).outports)})
AddGroup(c) == Edit(c, add_group(Target(c), pc[c].to))
RemoveGroup(c) == Edit(c, remove_group(Target(c), pc[c].to))
RenameGroup(c) == Edit(c, rename_group(Target(c), pc[c].to))
ChangeGroup(c) == Edit(c, change_group(Target(c), pc[c].to))

EditGraph(c) ==
    \/ AddNode(c) \/ RemoveNode(c) \/ RenameNode(c) \/ ChangeNode(c)
    \/ AddEdge(c) \/ RemoveEdge(c) \/ ChangeEdge(c)
    \/ AddInitial(c) \/ RemoveInitial(c)
    \/ AddInport(c) \/ RemoveInport(c) \/ RenameInport(c)
    \/ AddOutport(c) \/ RemoveOutport(c) \/ RenameOutport(c)
    \/ AddGroup(c) \/ RemoveGroup(c) \/ RenameGroup(c) \/ ChangeGroup(c)

\* Any of these requests may be refused: no such node, wrong graph, ...
Refuse(c) ==
    /\ pc[c].at = "found" /\ CanWriteGraph(pc[c].obj)
    /\ pc' = [pc EXCEPT ![c] = Idle]
    /\ UNCHANGED <<store, graphs, fallback, graph, running, tracing, wedged, file,
                   edit_waits, up, edits>>

-----------------------------------------------------------------------------
(* Handlers that take the runtime lock for writing.                        *)

ClearMutant(c, name) ==
    /\ CanWriteRuntime /\ pc[c] = Idle /\ ~running /\ Room
    /\ store' = [store EXCEPT ![fallback] = clear(@, name)]
    /\ graphs' = Drop(Put(graphs, name, fallback), graph)
    /\ graph' = name
    /\ edits' = edits + 1
    /\ UNCHANGED <<fallback, running, tracing, wedged, file, pc, edit_waits, up>>

\* graph:clear empties the fallback graph, whichever graph is active, files
\* it under the new name and drops the entry of the active one.
Clear(c, name) ==
    /\ CanWriteRuntime /\ pc[c] = Idle /\ ~running /\ Room
    /\ store' = [store EXCEPT ![fallback] = clear(@, name)]
    /\ graphs' = Put(IF graph # name THEN Drop(graphs, graph) ELSE graphs, name, fallback)
    /\ graph' = name
    /\ edits' = edits + 1
    /\ UNCHANGED <<fallback, running, tracing, wedged, file, pc, edit_waits, up>>

\* network:start: the name is made active before start() is tried. A panic
\* poisons the runtime lock; start() holding on to it blocks everyone.
Start(c) ==
    /\ pc[c].at = "found" /\ CanWriteRuntime
    /\ graph' = pc[c].to
    /\ LET verdict == IF running THEN "error" ELSE StartVerdict(Target(c)) IN
          /\ running' = (running \/ verdict = "started")
          /\ wedged' = CASE verdict = "panic" -> "poisoned"
                         [] verdict = "hang" -> "held"
                         [] OTHER -> wedged
          /\ pc' = [pc EXCEPT ![c] = IF verdict = "hang"
                                     THEN [at |-> "hung", obj |-> pc[c].obj] ELSE Idle]
    /\ UNCHANGED <<store, graphs, fallback, tracing, file, edit_waits, up, edits>>

\* network:stop, or the watchdog after the network ended by itself.
Stop ==
    /\ CanWriteRuntime /\ running
    /\ running' = FALSE
    /\ UNCHANGED <<store, graphs, fallback, graph, tracing, wedged, file, pc, edit_waits,
                   up, edits>>

\* network:debug and network:edges make a registered graph the active one.
SelectGraph(c) ==
    /\ pc[c].at = "found" /\ CanWriteRuntime
    /\ graph' = IF pc[c].to \in DOMAIN graphs THEN pc[c].to ELSE graph
    /\ pc' = [pc EXCEPT ![c] = Idle]
    /\ UNCHANGED <<store, graphs, fallback, running, tracing, wedged, file, edit_waits, up,
                   edits>>

\* trace:start and trace:stop are for the active graph only.
StartTrace(c) ==
    /\ CanWriteRuntime /\ pc[c] = Idle /\ ~tracing
    /\ tracing' = TRUE
    /\ UNCHANGED <<store, graphs, fallback, graph, running, wedged, file, pc, edit_waits,
                   up, edits>>

StopTrace(c) ==
    /\ CanWriteRuntime /\ pc[c] = Idle /\ tracing
    /\ tracing' = FALSE
    /\ UNCHANGED <<store, graphs, fallback, graph, running, wedged, file, pc, edit_waits,
                   up, edits>>

-----------------------------------------------------------------------------
(* Saving and loading.                                                     *)

\* network:persist and the signal handler of main take both locks. They are
\* shared with other readers, so two saves may overlap.
LockForSave(c) ==
    /\ Alive /\ pc[c] = Idle /\ ~edit_waits /\ Room
    /\ pc' = [pc EXCEPT ![c] = [at |-> "locked"]]
    /\ edits' = edits + 1
    /\ UNCHANGED <<store, graphs, fallback, graph, running, tracing, wedged, file,
                   edit_waits, up>>

\* An edit, or a component:getsource, of the fallback graph waits for a save.
EditWaits ==
    /\ up /\ Saving # {} /\ ~edit_waits
    /\ \E c \in Clients : pc[c] = Idle \/ (pc[c].at = "found" /\ pc[c].obj = fallback)
    /\ edit_waits' = TRUE
    /\ UNCHANGED <<store, graphs, fallback, graph, running, tracing, wedged, file, pc, up,
                   edits>>

\* persist() up to File::create, which truncates the file. It reads every
\* graph of the registry, the one its caller holds included: behind a waiting
\* edit of that graph it never gets on, nor does the edit.
OpenFile(c) ==
    /\ up /\ pc[c].at = "locked" /\ ~edit_waits
    /\ \E set \in GraphSets : pc' = [pc EXCEPT ![c] = [at |-> "saving", set |-> set]]
    /\ file' = Torn
    /\ UNCHANGED <<store, graphs, fallback, graph, running, tracing, wedged, edit_waits, up,
                   edits>>

\* One write() from the start of the file. It may be short; over the longer
\* text of an overlapping save it leaves that text's tail.
Written(set) ==
    IF file.kind = "whole" /\ file # set THEN {set, Torn} ELSE {set}

WriteFile(c) ==
    /\ up /\ pc[c].at = "saving"
    /\ file' \in Written(pc[c].set) \cup {Torn}
    /\ pc' = [pc EXCEPT ![c] = Idle]
    /\ edit_waits' = (edit_waits /\ Saving # {c})
    /\ UNCHANGED <<store, graphs, fallback, graph, running, tracing, wedged, up, edits>>

Crash ==
    /\ up
    /\ up' = FALSE
    /\ UNCHANGED <<store, graphs, fallback, graph, running, tracing, wedged, file, pc,
                   edit_waits, edits>>

\* Start of the process. A file that does not parse, or has no graph, ends it
\* with a panic.
Boot ==
    /\ ~up /\ file.kind # "torn"
    /\ IF file.kind = "whole"
       THEN \E active \in ActiveKeys(file.graphs, file.active) : Booted(file.graphs, active)
       ELSE Booted(Put(NoFun, MainGraph, create_default_graph), MainGraph)
    /\ UNCHANGED <<file, edits>>

-----------------------------------------------------------------------------

Init ==
    /\ store = [k \in Names |-> Graph_new(k)] /\ graphs = NoFun
    /\ fallback = MainGraph /\ graph = MainGraph
    /\ running = FALSE /\ tracing = FALSE /\ wedged = "no"
    /\ file = Absent /\ up = FALSE /\ edits = 0
    /\ pc = [c \in Clients \cup {Main} |-> Idle] /\ edit_waits = FALSE

Next ==
    \/ \E c \in Clients :
          \/ \E name \in Names : Resolve(c, name) \/ Clear(c, name)
          \/ EditGraph(c) \/ Refuse(c) \/ Start(c) \/ SelectGraph(c)
          \/ StartTrace(c) \/ StopTrace(c)
    \/ \E c \in Clients \cup {Main} : LockForSave(c) \/ OpenFile(c) \/ WriteFile(c)
    \/ EditWaits \/ Stop \/ Crash \/ Boot

Spec == Init /\ [][Next]_vars

-----------------------------------------------------------------------------
(* Properties.                                                             *)

Ids == Nodes \cup {NoNode}

IsMap(f, S, T) == DOMAIN f \subseteq S /\ f \in [DOMAIN f -> T]

NodeSpec == [component : Component, x : BOOLEAN, px : BOOLEAN]
EdgeSpec == [src : Ids, tgt : Nodes, data : Data \cup {NoData}, meta : BOOLEAN]
GroupSpec == [name : Group, nodes : SUBSET Nodes, meta : BOOLEAN]

IsGraph(g) ==
    /\ g = [name |-> g.name, nodes |-> g.nodes, edges |-> g.edges, inports |-> g.inports,
            outports |-> g.outports, groups |-> g.groups]
    /\ g.name \in Names
    /\ IsMap(g.nodes, Nodes, NodeSpec) /\ g.edges \in Seq(EdgeSpec)
    /\ IsMap(g.inports, Public, Nodes) /\ IsMap(g.outports, Public, Nodes)
    /\ g.groups \in Seq(GroupSpec)

IsGraphSet(f) ==
    /\ f.kind = "whole"
    /\ f = [kind |-> "whole", graphs |-> f.graphs, active |-> f.active]
    /\ f.active \in Names /\ DOMAIN f.graphs \subseteq Names
    /\ f.graphs = [k \in DOMAIN f.graphs |-> f.graphs[k]]
    /\ \A k \in DOMAIN f.graphs : IsGraph(f.graphs[k])

IsState(s) ==
    \/ s = Idle
    \/ s.at = "found" /\ s = [at |-> "found", to |-> s.to, obj |-> s.obj]
          /\ s.to \in Names /\ s.obj \in Names
    \/ s.at = "hung" /\ s = [at |-> "hung", obj |-> s.obj] /\ s.obj \in Names
    \/ s = [at |-> "locked"]
    \/ s.at = "saving" /\ s = [at |-> "saving", set |-> s.set] /\ IsGraphSet(s.set)

\* The types of the variables; an exported port, an edge and a group always
\* keep the shape the protocol gave them, also through the file.
TypeOK ==
    /\ store = [o \in Names |-> store[o]] /\ \A o \in Names : IsGraph(store[o])
    /\ IsMap(graphs, Names, Names) /\ fallback \in Names /\ graph \in Names
    /\ running \in BOOLEAN /\ tracing \in BOOLEAN /\ up \in BOOLEAN
    /\ wedged \in {"no", "poisoned", "held"} /\ edits \in 0..MaxEdits
    /\ edit_waits \in BOOLEAN
    /\ file \in {Torn, Absent} \/ IsGraphSet(file)
    /\ pc = [c \in Clients \cup {Main} |-> pc[c]]
    /\ \A c \in Clients \cup {Main} : IsState(pc[c])

\* The graph the server was started with stays in the registry, so that it
\* can be addressed and is saved, whatever clears and selections did since
\* (graph:clear adds it under its new name before it drops another entry).
FallbackReachable == up => \E k \in DOMAIN graphs : graphs[k] = fallback

\* A file that was written as a whole names one of its own graphs as the
\* active one, although Runtime.graph may name a graph that a graph:clear has
\* just removed (the contains_key check of persist): the next boot gives the
\* server the graph the file says, and not some other one of its map.
SavedActiveExists == file.kind = "whole" => file.active \in DOMAIN file.graphs

\* When network:persist is answered, what was written of the server's own
\* graph is what that graph still is: no edit came between the snapshot and
\* the write (the read locks persist holds).
AckedSaveIsCurrent ==
    [][\A c \in Clients \cup {Main} :
        (pc[c].at = "saving" /\ pc'[c] = Idle /\ up /\ up') =>
            \A k \in DOMAIN pc[c].set.graphs \cap DOMAIN graphs :
                graphs[k] = fallback => pc[c].set.graphs[k] = Serialized(store[fallback])]_vars

\* A node enters a graph only on behalf of a client that addressed it by the
\* name it has at that moment, however the graph was renamed since the
\* handler looked it up ("wrong graph addressed").
NodesEnterAddressedGraph ==
    [][up => \A o \in Names :
        ~(DOMAIN store'[o].nodes \subseteq DOMAIN store[o].nodes) =>
            \E c \in Clients : pc[c].at = "found" /\ pc[c].obj = o /\ pc[c].to = store[o].name]_vars

Anchored(g) ==
    {i \in DOMAIN g.edges : {g.edges[i].src, g.edges[i].tgt} \ {NoNode} \subseteq DOMAIN g.nodes}

\* No edit leaves an edge without its node except the one that adds the
\* edge: removing a node takes its edges along, renaming it keeps them.
DanglingOnlyByAdd ==
    [][up => \A o \in Names :
        Len(store'[o].edges) <= Len(store[o].edges) =>
            Len(store'[o].edges) - Cardinality(Anchored(store'[o]))
                <= Len(store[o].edges) - Cardinality(Anchored(store[o]))]_vars

=============================================================================
