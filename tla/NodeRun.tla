------------------------------- MODULE NodeRun -------------------------------
(****************************************************************************)
(* One node of a running graph as its component sees it: the edges into and *)
(* out of it, the readiness the scheduler keeps for it, and the process()   *)
(* calls one activation makes within the budget (execute_component of       *)
(* src/src/scheduler.rs, NodeContext and ProcessEdgeSink of the component   *)
(* API).  Dataflow and IoWorker give process() its steps.                   *)
(*                                                                          *)
(* What Scheduler shows about the ready queue is used here as one flag:     *)
(* ready means queued or flagged, and a ready node is activated later.      *)
(* The neighbours are other nodes and the graph's boundary threads: they    *)
(* push, pop and let go of their ends of the edges at any moment.  No       *)
(* signal ever reaches a node (runtime.rs:1324 drops the sending end), so   *)
(* the "stop" and "ping" branches of the components are never taken.        *)
(****************************************************************************)
EXTENDS Integers, Sequences, FiniteSets

CONSTANTS
    Kinds,      \* the components a node may be an instance of
    InCap,      \* bound for PROCESSEDGE_BUFSIZE on the edges into the node
    OutCap,     \* bound for PROCESSEDGE_BUFSIZE on the edges out of it
    Budget,     \* bound for the work units of a BudgetClass
    BudgetWrap, \* bound: how many values the u32 remaining_budget can hold
    MaxMsgs,    \* bound: the largest number a message may have
    MaxFed(_),  \* bound: messages each in-edge of a component ever carries
    MaxTaken    \* bound: messages ever taken from one out-edge

ASSUME NodeBounds ==
    /\ {InCap, OutCap, Budget, BudgetWrap, MaxMsgs, MaxTaken} \subseteq Nat \ {0}
    /\ BudgetWrap > Budget
    /\ \A k \in Kinds : MaxFed(k) \in 1..MaxMsgs

VARIABLES
    kind,               \* the component, a member of Kinds
    phase,              \* "idle", a phase of process(), or "retired"
    inq, sent, open,    \* per in-edge: what it holds, how much it was given,
                        \* and the in-edges whose upstream end is alive
    conf,               \* the configuration packet: "none", "queued", "got"
    outq, delivered,    \* per out-edge: what it holds, what was taken from it
    ready, wake,        \* the node is due to run; it has a timer armed
    fired,              \* NodeContext.timer_fired_at is set
    remaining_budget, budget_before, work_units, did_work,
    ended               \* why it retired: "no", "finished" or "panicked"

edges == <<inq, sent, open, conf, outq, delivered>>
timing == <<ready, wake, fired>>
call == <<phase, remaining_budget, budget_before, work_units, did_work, ended>>
nodeVars == <<kind, edges, timing, call>>

InPorts == 1..2
OutPorts == 1..3
Item == InPorts \X (0..MaxMsgs) \X (1..2)   \* in-edge, message, part of it

Min2(a, b) == IF a <= b THEN a ELSE b
Max2(a, b) == IF a >= b THEN a ELSE b

NodeTypeOK ==
    /\ kind \in Kinds
    /\ phase \in {"idle", "retired"} \cup kind.phases
    /\ \A p \in InPorts :
        /\ sent[p] \in 0..MaxMsgs
        /\ Len(inq[p]) <= InCap
        /\ \A j \in 1..Len(inq[p]) : inq[p][j] = sent[p] - Len(inq[p]) + j
    /\ open \subseteq kind.inports
    /\ conf \in {"none", "queued", "got"}
    /\ \A q \in OutPorts :
        /\ outq[q] \in Seq(Item) /\ Len(outq[q]) <= OutCap
        /\ delivered[q] \in Seq(Item)
    /\ {ready, wake, fired, did_work} \subseteq BOOLEAN
    /\ remaining_budget \in 0..(BudgetWrap - 1)
    /\ budget_before \in 0..Budget
    /\ work_units \in Nat
    /\ ended \in {"no", "finished", "panicked"}
    /\ (phase = "retired") = (ended # "no")

(* Runtime::start has wired the edges and signalled every node once.        *)
NodeInit ==
    /\ kind \in Kinds
    /\ phase = "idle" /\ ended = "no"
    /\ inq = [p \in InPorts |-> <<>>] /\ sent = [p \in InPorts |-> 0]
    /\ open = kind.inports
    /\ conf \in (IF kind.config = "none" THEN {"none"} ELSE {"none", "queued"})
    /\ outq = [q \in OutPorts |-> <<>>] /\ delivered = [q \in OutPorts |-> <<>>]
    /\ ready = TRUE /\ wake = FALSE /\ fired = FALSE
    /\ remaining_budget = 0 /\ budget_before = 0
    /\ work_units = 0 /\ did_work = FALSE

(* ------------------------------------------------------ the neighbours -- *)
(* How much an in-edge carries.  The graph behind an HTTPServer answers each *)
(* request once and in order, as its RESP port requires.                    *)
FeedLimit == IF kind.name = "HTTPServer" THEN Len(delivered[1]) ELSE MaxFed(kind)

(* ProcessEdgeSink::push of the upstream node: a full edge refuses, an      *)
(* accepted message signals the node.                                       *)
Feed ==
    \E p \in open :
        /\ sent[p] < FeedLimit
        /\ Len(inq[p]) < InCap
        /\ sent' = [sent EXCEPT ![p] = @ + 1]
        /\ inq' = [inq EXCEPT ![p] = Append(@, sent[p] + 1)]
        /\ ready' = (ended = "no")
        /\ UNCHANGED <<kind, open, conf, outq, delivered, wake, fired, call>>

(* The upstream end of an edge is dropped.  Nobody is signalled.            *)
Close ==
    \E p \in open :
        /\ open' = open \ {p}
        /\ UNCHANGED <<kind, inq, sent, conf, outq, delivered, timing, call>>

(* A configuration packet arrives on its own edge.                          *)
Configure ==
    /\ kind.config # "none" /\ conf = "none"
    /\ conf' = "queued" /\ ready' = (ended = "no")
    /\ UNCHANGED <<kind, inq, sent, open, outq, delivered, wake, fired, call>>

(* The downstream node, or the graph's OUT thread, takes a message.  Popping *)
(* an edge signals nobody.                                                  *)
Drain ==
    \E q \in OutPorts :
        /\ outq[q] # <<>> /\ Len(delivered[q]) < MaxTaken
        /\ outq' = [outq EXCEPT ![q] = Tail(@)]
        /\ delivered' = [delivered EXCEPT ![q] = Append(@, Head(outq[q]))]
        /\ UNCHANGED <<kind, inq, sent, open, conf, timing, call>>

(* The run thread finds the node's timer due between two activations.       *)
TimerFires ==
    /\ wake /\ phase = "idle"
    /\ wake' = FALSE /\ fired' = TRUE /\ ready' = TRUE
    /\ UNCHANGED <<kind, edges, call>>

Neighbours == Feed \/ Close \/ Configure \/ Drain \/ TimerFires

(* ------------------------------------------------- one activation of it -- *)
(* execute_component: the budget is refilled and the ready flag cleared     *)
(* before the first call of process().                                      *)
Activate ==
    /\ phase = "idle" /\ ready
    /\ phase' = kind.first /\ ready' = FALSE
    /\ remaining_budget' = Budget /\ budget_before' = Budget
    /\ UNCHANGED <<kind, edges, wake, fired, work_units, did_work, ended>>

(* The node leaves the run thread; it is queued again if it did work or was *)
(* signalled meanwhile.                                                     *)
Settle(worked, signalled) ==
    /\ phase' = "idle"
    /\ ready' = (worked \/ signalled)
    /\ remaining_budget' = 0 /\ budget_before' = 0 /\ work_units' = 0
    /\ did_work' = FALSE
    /\ UNCHANGED ended

(* What a call that returns DidWork(units) leaves of the budget.            *)
LeftAfter(units, left) ==
    LET consumed == Max2(budget_before - Min2(left, budget_before), Max2(units, 1))
    IN Max2(budget_before - consumed, 0)

(* process() returns DidWork: it is called again while budget is left.      *)
DidWork(units, left, signalled) ==
    LET rest == LeftAfter(units, left)
    IN IF rest = 0
       THEN Settle(TRUE, signalled)
       ELSE /\ phase' = kind.first
            /\ remaining_budget' = rest /\ budget_before' = rest
            /\ work_units' = 0 /\ did_work' = TRUE
            /\ ready' = signalled
            /\ UNCHANGED ended

NoWork(signalled) == Settle(did_work, signalled)

(* Finished, or a panic caught around process(): the scheduler drops the    *)
(* component and never runs it again.                                       *)
Retire(why) ==
    /\ phase' = "retired" /\ ended' = why
    /\ remaining_budget' = 0 /\ budget_before' = 0 /\ work_units' = 0
    /\ did_work' = FALSE /\ ready' = FALSE

(* The common end of a process(): DidWork if it counted any work.           *)
Result(units, left, signalled) ==
    IF units > 0 THEN DidWork(units, left, signalled) ELSE NoWork(signalled)

(* A step inside process(): on to the given phase.                          *)
Goto(next, left, units) ==
    /\ phase' = next /\ remaining_budget' = left /\ work_units' = units
    /\ UNCHANGED <<budget_before, did_work, ended, ready>>

(* u32 subtraction of one work unit: a checked build panics below zero, an  *)
(* unchecked one wraps.                                                     *)
Dec(left) == (left - 1) % BudgetWrap
Underflows(left) == left = 0

(* Operators whose name ends in Mutant are plausible slips in the operator   *)
(* that follows; no action uses them.                                       *)
RoomMutant(q) == Len(outq[q]) <= OutCap
Room(q) == Len(outq[q]) < OutCap
Push(q, item) == outq' = [outq EXCEPT ![q] = Append(@, item)]
Pop(p) == inq' = [inq EXCEPT ![p] = Tail(@)]

=============================================================================
