------------------------------ MODULE Scheduler ------------------------------
(****************************************************************************)
(* The scheduler of one running graph (src/src/scheduler.rs): a FIFO ready  *)
(* queue of nodes, level-triggered ready flags, a timer heap, one run       *)
(* thread that activates one node at a time within its budget, and the      *)
(* threads that signal nodes, arm timers and stop the scheduler.            *)
(*                                                                          *)
(* The state mutex is held by the run thread across several steps exactly   *)
(* when pc is in LockedPCs; the critical sections of the other threads and  *)
(* of the run thread's settle phase are single steps, guarded by LockFree.  *)
(* Scheduler::stop takes no lock, and neither does an edge push, so both    *)
(* interleave with everything.  Instants are numbers of a clock that Tick   *)
(* advances, at most to MaxTime.                                            *)
(****************************************************************************)
EXTENDS Integers, Sequences

CONSTANTS
    Nodes,              \* the graph's processes
    Budget,             \* budget_class of each node, as its work units
    Wakers,             \* threads outside the run thread that feed nodes
    RunThread,          \* the thread executing Scheduler::run
    NoNode,             \* no node
    Cap,                \* bound: what the edges into one node hold together
    MaxTime,            \* bound: the last instant of the clock
    EnforceContract     \* cargo feature enforce-process-non-blocking-contract

ASSUME BudgetAssumption == Budget \in [Nodes -> Nat \ {0}]
ASSUME SentinelAssumption == NoNode \notin Nodes /\ RunThread \notin Wakers
ASSUME BoundAssumption ==
    Cap \in Nat /\ MaxTime \in Nat /\ EnforceContract \in BOOLEAN

NoTime == -1
Instants == 0..MaxTime
Threads == Wakers \cup {RunThread}

VARIABLES
    pc,                     \* where the run thread is
    running,                \* Scheduler.running
    nodes, components,      \* keys of SchedulerState.nodes and .components
    ready_flags,            \* keys of SchedulerState.ready_flags
    ready_signal,           \* the AtomicBool a node's flag and context share
    ready_queue, ready_set, queue_depth,
    timers,                 \* entries of the timer heap
    timer_latest_by_node,   \* per node, NoTime when it has no entry
    timer_fired,            \* NodeContext.timer_fired_at
    now,                    \* the monotonic clock
    wait_until,             \* deadline of the current condvar wait
    cur,                    \* node the run thread took out of the maps
    remaining, wake_req,    \* cur's remaining_budget and wake_at
    did_work, finished, panicked,   \* ExecutionOutcome of the current activation
    calls,                  \* process() calls of the current activation
    inbox,                  \* messages waiting on the edges into a node
    pushed,                 \* node whose edge a thread pushed to, not yet signalled
    stopper                 \* progress of a call of Scheduler::stop

registry == <<nodes, components, ready_flags>>
queue == <<ready_queue, ready_set, queue_depth>>
heap == <<timers, timer_latest_by_node>>
activation == <<cur, remaining, wake_req, did_work, finished, panicked, calls>>
traffic == <<inbox, pushed>>
vars == <<pc, running, registry, ready_signal, queue, heap, timer_fired, now,
          wait_until, activation, traffic, stopper>>

LockedPCs == {"drain", "check", "prewait", "pop"}
EndedPCs == {"exited", "dead"}
PCs == LockedPCs \cup EndedPCs
           \cup {"setup", "acquire", "waiting", "begin", "process", "settle"}

LockFree == pc \notin LockedPCs

TimerWake == [when : Instants, node : Nodes]

Min2(a, b) == IF a <= b THEN a ELSE b
Max2(a, b) == IF a >= b THEN a ELSE b
SaturatingSub(a, b) == Max2(a - b, 0)

(* VecDeque::retain(|queued| queued != n) on a queue without duplicates.    *)
Without(q, n) ==
    IF \E i \in 1..Len(q) : q[i] = n
    THEN LET at == CHOOSE i \in 1..Len(q) : q[i] = n
         IN  [j \in 1..(Len(q) - 1) |-> IF j < at THEN q[j] ELSE q[j + 1]]
    ELSE q

-----------------------------------------------------------------------------
Init ==
    /\ pc = "setup" /\ running = TRUE
    /\ nodes = {} /\ components = {} /\ ready_flags = {}
    /\ ready_signal = [n \in Nodes |-> FALSE]
    /\ ready_queue = <<>> /\ ready_set = {} /\ queue_depth = 0
    /\ timers = {} /\ timer_latest_by_node = [n \in Nodes |-> NoTime]
    /\ timer_fired = [n \in Nodes |-> NoTime]
    /\ now = 0 /\ wait_until = NoTime
    /\ cur = NoNode /\ remaining = 0 /\ wake_req = NoTime
    /\ did_work = FALSE /\ finished = FALSE /\ panicked = FALSE /\ calls = 0
    /\ inbox = [n \in Nodes |-> 0]
    /\ pushed = [t \in Threads |-> NoNode]
    /\ stopper = "idle"

-----------------------------------------------------------------------------
(* The pieces of critical sections.                                         *)

(* Operators whose name ends in Mutant are plausible slips in the operator   *)
(* they precede; substituting one makes TLC refute a property.              *)

NotifyMutant == pc' = pc

(* condvar.notify_one / notify_all: a waiting run thread must reacquire.    *)
Notify == pc' = IF pc = "waiting" THEN "acquire" ELSE pc

EnqueueMutant(n) ==
    /\ ready_set' = ready_set \cup {n}
    /\ ready_queue' = Append(ready_queue, n)
    /\ queue_depth' = Len(ready_queue) + 1

(* if ready_set.insert(n) { ready_queue.push_back(n); queue_depth = len }   *)
Enqueue(n) ==
    IF n \in ready_set THEN UNCHANGED queue
    ELSE /\ ready_set' = ready_set \cup {n}
         /\ ready_queue' = Append(ready_queue, n)
         /\ queue_depth' = Len(ready_queue) + 1

SignalExecutingMutant(n) ==
    IF n \in nodes
    THEN ready_signal' = [ready_signal EXCEPT ![n] = TRUE] /\ Enqueue(n) /\ Notify
    ELSE UNCHANGED <<ready_signal, queue, pc>>

(* Scheduler::signal_ready: false, and no effect, for an unknown node.      *)
SignalReady(n) ==
    IF n \in ready_flags
    THEN /\ ready_signal' = [ready_signal EXCEPT ![n] = TRUE]
         /\ Enqueue(n)
         /\ Notify
    ELSE UNCHANGED <<ready_signal, queue, pc>>

ArmTimerMutant(n, t) ==
    /\ timer_latest_by_node' = [timer_latest_by_node EXCEPT ![n] = t]
    /\ timers' = IF \E e \in timers : e.node = n THEN timers
                 ELSE timers \cup {[when |-> t, node |-> n]}

(* Both places that arm a timer overwrite the latest deadline and push.     *)
ArmTimer(n, t) ==
    /\ timer_latest_by_node' = [timer_latest_by_node EXCEPT ![n] = t]
    /\ timers' = timers \cup {[when |-> t, node |-> n]}

-----------------------------------------------------------------------------
(* Runtime::start prepares the scheduler before spawning its thread. *)

AddNode(n) ==
    /\ pc = "setup" /\ n \notin ready_flags /\ nodes = components
    /\ nodes' = nodes \cup {n}
    /\ ready_flags' = ready_flags \cup {n}
    /\ UNCHANGED <<pc, running, components, ready_signal, queue, heap, timer_fired,
                   now, wait_until, activation, traffic, stopper>>

AddComponent(n) ==
    /\ pc = "setup" /\ n \in nodes \ components
    /\ components' = components \cup {n}
    /\ UNCHANGED <<pc, running, nodes, ready_flags, ready_signal, queue, heap,
                   timer_fired, now, wait_until, activation, traffic, stopper>>

InitialSignal(n) ==
    /\ pc = "setup" /\ components = Nodes /\ n \notin ready_set
    /\ SignalReady(n)
    /\ UNCHANGED <<running, registry, heap, timer_fired, now, wait_until,
                   activation, traffic, stopper>>

Spawn ==
    /\ pc = "setup" /\ ready_set = Nodes
    /\ components = Nodes
    /\ pc' = "acquire"
    /\ UNCHANGED <<running, registry, ready_signal, queue, heap, timer_fired, now,
                   wait_until, activation, traffic, stopper>>

-----------------------------------------------------------------------------
(* Scheduler::run up to the point where a node has been taken.              *)

Acquire ==
    /\ pc = "acquire"
    /\ pc' = "drain" /\ wait_until' = NoTime
    /\ UNCHANGED <<running, registry, ready_signal, queue, heap, timer_fired, now,
                   activation, traffic, stopper>>

(* BinaryHeap::peek under the reversed order of TimerWake.                  *)
HeapTop(e) == e \in timers /\ \A f \in timers : e.when <= f.when
Valid(e) == timer_latest_by_node[e.node] = e.when

DueMutant(e) == Valid(e) /\ e.when <= now + 1

Due(e) == Valid(e) /\ e.when <= now

(* next_valid_timer_deadline drops superseded and retired entries.          *)
DrainDiscard(e) ==
    /\ pc = "drain" /\ HeapTop(e) /\ ~Valid(e)
    /\ timers' = timers \ {e}
    /\ UNCHANGED <<pc, running, registry, ready_signal, queue, timer_latest_by_node,
                   timer_fired, now, wait_until, activation, traffic, stopper>>

DrainFire(e) ==
    /\ pc = "drain" /\ HeapTop(e) /\ Due(e)
    /\ timers' = timers \ {e}
    /\ timer_latest_by_node' = [timer_latest_by_node EXCEPT ![e.node] = NoTime]
    /\ timer_fired' = IF e.node \in nodes
                      THEN [timer_fired EXCEPT ![e.node] = e.when] ELSE timer_fired
    /\ ready_signal' = IF e.node \in ready_flags
                       THEN [ready_signal EXCEPT ![e.node] = TRUE] ELSE ready_signal
    /\ IF e.node \in ready_set THEN UNCHANGED <<ready_set, ready_queue>>
       ELSE /\ ready_set' = ready_set \cup {e.node}
            /\ ready_queue' = Append(ready_queue, e.node)
    /\ UNCHANGED <<pc, running, registry, queue_depth, now, wait_until, activation,
                   traffic, stopper>>

DrainDone ==
    /\ pc = "drain"
    /\ \/ timers = {}
       \/ \E e \in timers : HeapTop(e) /\ Valid(e) /\ e.when > now
    /\ queue_depth' = Len(ready_queue)
    /\ pc' = "check"
    /\ UNCHANGED <<running, registry, ready_signal, ready_queue, ready_set, heap,
                   timer_fired, now, wait_until, activation, traffic, stopper>>

CheckReadyMutant ==
    /\ pc = "check"
    /\ pc' = "pop"
    /\ UNCHANGED <<running, registry, ready_signal, queue, heap, timer_fired, now,
                   wait_until, activation, traffic, stopper>>

(* Leave the wait loop, drain again, or prepare to wait.                    *)
CheckReady ==
    /\ pc = "check"
    /\ ~running \/ ready_queue # <<>>
    /\ pc' = "pop"
    /\ UNCHANGED <<running, registry, ready_signal, queue, heap, timer_fired, now,
                   wait_until, activation, traffic, stopper>>

CheckTimerMutant(e) ==
    /\ pc = "check" /\ running /\ ready_queue = <<>>
    /\ HeapTop(e) /\ Valid(e)
    /\ pc' = "prewait" /\ wait_until' = NoTime
    /\ UNCHANGED <<running, registry, ready_signal, queue, heap, timer_fired, now,
                   activation, traffic, stopper>>

CheckTimer(e) ==
    /\ pc = "check" /\ running /\ ready_queue = <<>>
    /\ HeapTop(e) /\ Valid(e)
    /\ IF e.when <= now
       THEN pc' = "drain" /\ UNCHANGED wait_until
       ELSE pc' = "prewait" /\ wait_until' = e.when
    /\ UNCHANGED <<running, registry, ready_signal, queue, heap, timer_fired, now,
                   activation, traffic, stopper>>

CheckIdle ==
    /\ pc = "check" /\ running /\ ready_queue = <<>> /\ timers = {}
    /\ pc' = "prewait" /\ wait_until' = NoTime
    /\ UNCHANGED <<running, registry, ready_signal, queue, heap, timer_fired, now,
                   activation, traffic, stopper>>

(* Condvar::wait releases the mutex and starts waiting in one step.         *)
WaitEnter ==
    /\ pc = "prewait"
    /\ pc' = "waiting"
    /\ UNCHANGED <<running, registry, ready_signal, queue, heap, timer_fired, now,
                   wait_until, activation, traffic, stopper>>

WaitTimeout ==
    /\ pc = "waiting" /\ wait_until # NoTime /\ wait_until <= now
    /\ pc' = "acquire"
    /\ UNCHANGED <<running, registry, ready_signal, queue, heap, timer_fired, now,
                   wait_until, activation, traffic, stopper>>

SpuriousWake ==
    /\ pc = "waiting"
    /\ pc' = "acquire"
    /\ UNCHANGED <<running, registry, ready_signal, queue, heap, timer_fired, now,
                   wait_until, activation, traffic, stopper>>

PopExit ==
    /\ pc = "pop" /\ ~running
    /\ pc' = "exited"
    /\ UNCHANGED <<running, registry, ready_signal, queue, heap, timer_fired, now,
                   wait_until, activation, traffic, stopper>>

(* The arms for an empty queue, a missing component and a missing context   *)
(* are unreachable: PopFindsNode states it.                                 *)
PopNode ==
    /\ pc = "pop" /\ running
    /\ ready_queue # <<>> /\ Head(ready_queue) \in nodes \cap components
    /\ LET n == Head(ready_queue) IN
       /\ ready_queue' = Tail(ready_queue)
       /\ ready_set' = ready_set \ {n}
       /\ queue_depth' = Len(ready_queue) - 1
       /\ components' = components \ {n}
       /\ nodes' = nodes \ {n}
       /\ cur' = n
    /\ pc' = "begin"
    /\ UNCHANGED <<running, ready_flags, ready_signal, heap, timer_fired, now,
                   wait_until, remaining, wake_req, did_work, finished, panicked, calls,
                   traffic, stopper>>

-----------------------------------------------------------------------------
(* Scheduler::execute_component, without the mutex.                         *)

BeginActivationMutant ==
    /\ pc = "begin"
    /\ remaining' = Budget[cur]
    /\ ready_signal' = [ready_signal EXCEPT ![cur] = FALSE]
    /\ ready_set' = ready_set \ {cur} /\ ready_queue' = Without(ready_queue, cur)
    /\ wake_req' = NoTime
    /\ did_work' = FALSE /\ finished' = FALSE /\ panicked' = FALSE /\ calls' = 0
    /\ pc' = "process"
    /\ UNCHANGED <<running, registry, queue_depth, heap, timer_fired, now, wait_until,
                   cur, traffic, stopper>>

BeginActivation ==
    /\ pc = "begin"
    /\ remaining' = Budget[cur]
    /\ ready_signal' = [ready_signal EXCEPT ![cur] = FALSE]
    /\ wake_req' = NoTime
    /\ did_work' = FALSE /\ finished' = FALSE /\ panicked' = FALSE /\ calls' = 0
    /\ pc' = "process"
    /\ UNCHANGED <<running, registry, queue, heap, timer_fired, now, wait_until, cur,
                   traffic, stopper>>

(* process() may still be called and is not in the middle of an edge push.  *)
Processing == pc = "process" /\ pushed[RunThread] = NoNode

BudgetUnsaturatedMutant(units, left) == remaining - Max2(units, 1)

BudgetTrustedMutant(units, left) == Min2(left, remaining)

(* Budget left after DidWork(units) when the component itself left `left`.  *)
BudgetAfter(units, left) ==
    LET accounted == Max2(units, 1)
        byComponent == SaturatingSub(remaining, Min2(left, remaining))
    IN  SaturatingSub(remaining, Max2(byComponent, accounted))

ProcessDidWork(units, left, taken) ==
    /\ Processing
    /\ taken <= inbox[cur]
    /\ inbox' = [inbox EXCEPT ![cur] = @ - taken]
    /\ remaining' = BudgetAfter(units, left)
    /\ did_work' = TRUE
    /\ calls' = calls + 1
    /\ pc' = IF remaining' = 0 THEN "settle" ELSE "process"
    /\ UNCHANGED <<running, registry, ready_signal, queue, heap, timer_fired, now,
                   wait_until, cur, wake_req, finished, panicked, pushed, stopper>>

(* A component reports NoWork once it has found its inports empty.          *)
ProcessNoWork ==
    /\ Processing
    /\ inbox[cur] = 0
    /\ calls' = calls + 1
    /\ pc' = "settle"
    /\ UNCHANGED <<running, registry, ready_signal, queue, heap, timer_fired, now,
                   wait_until, cur, remaining, wake_req, did_work, finished, panicked,
                   traffic, stopper>>

(* Finished, or a panic, which catch_unwind turns into the same outcome.    *)
ProcessFinished(panic) ==
    /\ Processing
    /\ ready_signal' = [ready_signal EXCEPT ![cur] = FALSE]
    /\ finished' = TRUE /\ panicked' = panic
    /\ calls' = calls + 1
    /\ pc' = "settle"
    /\ UNCHANGED <<running, registry, queue, heap, timer_fired, now, wait_until, cur,
                   remaining, wake_req, did_work, traffic, stopper>>

(* The assertion of enforce_non_blocking_process_contract is outside the    *)
(* catch_unwind: it unwinds the run thread, dropping component and context. *)
ProcessOverrun ==
    /\ Processing /\ EnforceContract
    /\ calls' = calls + 1
    /\ pc' = "dead"
    /\ UNCHANGED <<running, registry, ready_signal, queue, heap, timer_fired, now,
                   wait_until, cur, remaining, wake_req, did_work, finished, panicked,
                   traffic, stopper>>

(* What process() may do through its NodeContext while it runs.             *)
ContextWakeAt(t) ==
    /\ Processing
    /\ wake_req' = t
    /\ UNCHANGED <<pc, running, registry, ready_signal, queue, heap, timer_fired, now,
                   wait_until, cur, remaining, did_work, finished, panicked, calls,
                   traffic, stopper>>

ContextSignalReady ==
    /\ Processing
    /\ ready_signal' = [ready_signal EXCEPT ![cur] = TRUE]
    /\ UNCHANGED <<pc, running, registry, queue, heap, timer_fired, now, wait_until,
                   activation, traffic, stopper>>

ContextTakeTimerFired ==
    /\ Processing /\ timer_fired[cur] # NoTime
    /\ timer_fired' = [timer_fired EXCEPT ![cur] = NoTime]
    /\ UNCHANGED <<pc, running, registry, ready_signal, queue, heap, now, wait_until,
                   activation, traffic, stopper>>

-----------------------------------------------------------------------------
(* Scheduler::run after the activation, in one critical section.            *)

NothingLeftMutant == nodes = {} /\ ready_set = {}

(* All nodes of this scheduler finished: let the run thread exit.           *)
NothingLeft == nodes = {} /\ components = {}

(* The outcome and the taken component and context leave the stack frame.   *)
EndActivation ==
    /\ cur' = NoNode /\ remaining' = 0 /\ wake_req' = NoTime
    /\ did_work' = FALSE /\ finished' = FALSE /\ panicked' = FALSE /\ calls' = 0
    /\ pc' = "acquire"

Retire ==
    /\ pc = "settle" /\ finished
    /\ ready_flags' = ready_flags \ {cur}
    /\ timer_latest_by_node' = [timer_latest_by_node EXCEPT ![cur] = NoTime]
    /\ ready_set' = ready_set \ {cur}
    /\ ready_queue' = Without(ready_queue, cur)
    /\ queue_depth' = Len(ready_queue')
    /\ running' = (running /\ ~NothingLeft)
    /\ timer_fired' = [timer_fired EXCEPT ![cur] = NoTime]
    /\ EndActivation
    /\ UNCHANGED <<nodes, components, ready_signal, timers, now, wait_until, traffic,
                   stopper>>

ShouldRequeueMutant == ready_signal[cur]

ShouldRequeue == did_work \/ ready_signal[cur]

ReinsertMutant == nodes' = nodes \cup {cur} /\ UNCHANGED components

Reinsert == components' = components \cup {cur} /\ nodes' = nodes \cup {cur}

PutBack ==
    /\ pc = "settle" /\ ~finished
    /\ IF wake_req # NoTime THEN ArmTimer(cur, wake_req) ELSE UNCHANGED heap
    /\ Reinsert
    /\ IF ShouldRequeue THEN Enqueue(cur) ELSE UNCHANGED queue
    /\ EndActivation
    /\ UNCHANGED <<running, ready_flags, ready_signal, timer_fired, now, wait_until,
                   traffic, stopper>>

-----------------------------------------------------------------------------
(* ProcessEdgeSink::push: the ring buffer first, the signal afterwards.  The *)
(* run thread pushes from inside process(), other threads at any time.      *)

MayPush(t) == t = RunThread => pc = "process"

EdgePush(t, n) ==
    /\ MayPush(t) /\ pushed[t] = NoNode
    /\ inbox[n] < Cap
    /\ inbox' = [inbox EXCEPT ![n] = @ + 1]
    /\ pushed' = [pushed EXCEPT ![t] = n]
    /\ UNCHANGED <<pc, running, registry, ready_signal, queue, heap, timer_fired, now,
                   wait_until, activation, stopper>>

EdgeSignal(t) ==
    /\ pushed[t] # NoNode /\ LockFree
    /\ SignalReady(pushed[t])
    /\ pushed' = [pushed EXCEPT ![t] = NoNode]
    /\ UNCHANGED <<running, registry, heap, timer_fired, now, wait_until, activation,
                   inbox, stopper>>

(* Scheduler::wake_at: refused while the node is executing or retired.      *)
WakeAt(n, t) ==
    /\ LockFree /\ n \in nodes
    /\ ArmTimer(n, t)
    /\ Notify
    /\ UNCHANGED <<running, registry, ready_signal, queue, timer_fired, now,
                   wait_until, activation, traffic, stopper>>

(* Scheduler::stop: an atomic store and a notify, both without the mutex.   *)
StopStore ==
    /\ stopper = "idle"
    /\ running' = FALSE
    /\ stopper' = "stored"
    /\ UNCHANGED <<pc, registry, ready_signal, queue, heap, timer_fired, now,
                   wait_until, activation, traffic>>

StopNotify ==
    /\ stopper = "stored"
    /\ Notify
    /\ stopper' = "done"
    /\ UNCHANGED <<running, registry, ready_signal, queue, heap, timer_fired, now,
                   wait_until, activation, traffic>>

(* drain_expired_timers reads the clock once: no tick inside a drain.       *)
Tick ==
    /\ now < MaxTime /\ pc # "drain"
    /\ now' = now + 1
    /\ UNCHANGED <<pc, running, registry, ready_signal, queue, heap, timer_fired,
                   wait_until, activation, traffic, stopper>>

-----------------------------------------------------------------------------
Setup == (\E n \in Nodes : AddNode(n) \/ AddComponent(n) \/ InitialSignal(n)) \/ Spawn

Select ==
    \/ Acquire \/ DrainDone \/ CheckReady \/ CheckIdle \/ WaitEnter \/ WaitTimeout
    \/ PopExit \/ PopNode
    \/ \E e \in timers : DrainDiscard(e) \/ DrainFire(e) \/ CheckTimer(e)

ProcessReturns ==
    \/ ProcessNoWork \/ \E panic \in BOOLEAN : ProcessFinished(panic)
    \/ /\ Processing
       /\ \E units \in 0..Budget[cur], left \in 0..Budget[cur], taken \in 0..Cap :
              ProcessDidWork(units, left, taken)

InsideProcess ==
    \/ ContextSignalReady \/ ContextTakeTimerFired
    \/ \E t \in Instants : ContextWakeAt(t)

Settle == Retire \/ PutBack

Environment ==
    \/ \E t \in Threads : EdgeSignal(t) \/ \E n \in Nodes : EdgePush(t, n)
    \/ \E n \in Nodes, t \in Instants : WakeAt(n, t)
    \/ StopStore \/ StopNotify \/ SpuriousWake \/ Tick

Next ==
    \/ Setup \/ Select \/ BeginActivation \/ ProcessReturns \/ ProcessOverrun
    \/ InsideProcess \/ Settle \/ Environment

Spec == Init /\ [][Next]_vars

(* The steps a scheduled thread takes by itself.  process() returns (that is *)
(* the non-blocking contract), a push is followed by its signal, stop()      *)
(* finishes, and the clock advances.                                         *)
Fairness ==
    /\ WF_vars(Setup) /\ WF_vars(Select) /\ WF_vars(BeginActivation)
    /\ WF_vars(ProcessReturns) /\ WF_vars(Settle)
    /\ \A t \in Threads : SF_vars(EdgeSignal(t))
    /\ WF_vars(StopNotify) /\ SF_vars(Tick)

FairSpec == Spec /\ Fairness

-----------------------------------------------------------------------------
TypeOK ==
    /\ pc \in PCs /\ running \in BOOLEAN
    /\ nodes \subseteq Nodes /\ components \subseteq Nodes /\ ready_flags \subseteq Nodes
    /\ ready_signal \in [Nodes -> BOOLEAN]
    /\ ready_queue \in Seq(Nodes) /\ ready_set \subseteq Nodes /\ queue_depth \in Nat
    /\ timers \subseteq TimerWake
    /\ timer_latest_by_node \in [Nodes -> Instants \cup {NoTime}]
    /\ timer_fired \in [Nodes -> Instants \cup {NoTime}]
    /\ now \in Instants /\ wait_until \in Instants \cup {NoTime}
    /\ cur \in Nodes \cup {NoNode} /\ remaining \in Nat
    /\ wake_req \in Instants \cup {NoTime}
    /\ did_work \in BOOLEAN /\ finished \in BOOLEAN /\ panicked \in BOOLEAN
    /\ calls \in Nat
    /\ inbox \in [Nodes -> 0..Cap] /\ pushed \in [Threads -> Nodes \cup {NoNode}]
    /\ stopper \in {"idle", "stored", "done"}

(* The ready queue and the ready set hold the same nodes, each queued once,  *)
(* and all of them are registered: signal_ready, the timer drain, the pop,   *)
(* the requeue and the retain of run keep the two in step.                   *)
ReadyQueueConsistent ==
    /\ \A i, j \in 1..Len(ready_queue) : ready_queue[i] = ready_queue[j] => i = j
    /\ ready_set = {ready_queue[i] : i \in 1..Len(ready_queue)}
    /\ ready_set \subseteq ready_flags

(* A registered node is in both maps or in the hands of the run thread, never *)
(* in between: the early continues of run lose no component or context.      *)
NoNodeLost ==
    /\ pc \in {"begin", "process", "settle", "dead"} <=> cur # NoNode
    /\ cur \notin nodes \cup components
    /\ components \subseteq nodes
    /\ pc # "setup" => nodes = components
    /\ ready_flags = nodes \cup ({cur} \ {NoNode})

(* When run reaches pop_front while running, the queue is not empty and its  *)
(* head has a component and a context: the three continue arms are dead code. *)
PopFindsNode ==
    pc = "pop" /\ running =>
        ready_queue # <<>> /\ Head(ready_queue) \in nodes \cap components

(* A registered node with input on its edges, whose producers have all sent  *)
(* their signal, is queued, being processed, or about to be requeued: no     *)
(* signal that arrives between the pop, the clear of the ready flag and the  *)
(* reinsertion is lost.                                                      *)
Signalled(n) == \A t \in Threads : pushed[t] # n
NoLostReadiness ==
    \A n \in ready_flags :
        inbox[n] > 0 /\ Signalled(n) /\ pc \notin {"setup", "dead"} =>
            \/ n \in ready_set
            \/ cur = n /\ (pc \in {"begin", "process"} \/ finished \/ ShouldRequeue)

(* An armed timer belongs to a registered node and has its heap entry, so    *)
(* the drain will find it; superseding and retiring never orphan it.         *)
ArmedTimerBacked ==
    \A n \in Nodes : timer_latest_by_node[n] # NoTime =>
        /\ n \in ready_flags
        /\ [when |-> timer_latest_by_node[n], node |-> n] \in timers

(* The run thread sleeps on the condvar only when no node is ready, and not  *)
(* beyond the earliest armed deadline.                                       *)
WaitIsSound ==
    pc \in {"prewait", "waiting"} =>
        /\ ready_queue = <<>>
        /\ \A n \in Nodes : timer_latest_by_node[n] # NoTime =>
               wait_until # NoTime /\ wait_until <= timer_latest_by_node[n]

(* One activation calls process() at most as often as the node's budget      *)
(* class allows, whatever units the component reports and whatever it does   *)
(* to its own remaining_budget.                                              *)
ActivationBounded ==
    cur # NoNode /\ pc # "begin" => calls <= Budget[cur]

(* A pending timer goes away only by firing at or after its deadline and     *)
(* queueing its node, by retirement of the node, or by a newer wake_at.      *)
TimerConsumedOnlyWhenDue ==
    [][\A n \in Nodes :
          LET armed == timer_latest_by_node[n] IN
          armed # NoTime /\ timer_latest_by_node'[n] = NoTime =>
              \/ armed <= now /\ n \in ready_set' /\ timer_fired'[n] = armed
              \/ n \notin ready_flags']_vars

(* The scheduler as the rest of the runtime sees it: NodeLifecycle.          *)
Status ==
    [n \in Nodes |->
        CASE n \notin ready_flags -> IF pc = "setup" THEN "absent" ELSE "retired"
          [] n \in ready_flags /\ cur = n ->
                 IF n \in ready_set THEN "rerun" ELSE "running"
          [] OTHER -> IF n \in ready_set THEN "queued" ELSE "idle"]

Lifecycle == INSTANCE NodeLifecycle WITH status <- Status

(* Every step of the scheduler is a step of the node life cycle or leaves it *)
(* alone: a signalled node runs again, one node runs at a time, a finished   *)
(* node never comes back.                                                    *)
RefinesNodeLifecycle == Lifecycle!Spec

-----------------------------------------------------------------------------
Ended == ~running \/ pc \in EndedPCs

(* Every message on an edge leads to an activation of its node, unless the   *)
(* node retires or the scheduler ends: no starvation in the FIFO queue.      *)
InputReachesNode ==
    \A n \in Nodes : (inbox[n] > 0) ~>
        ((cur = n /\ pc = "process") \/ Ended \/ n \notin ready_flags)

(* Every armed timer fires, is replaced, or loses its node.                  *)
ArmedTimerFires ==
    \A n \in Nodes, t \in Instants :
        (timer_latest_by_node[n] = t) ~> (timer_latest_by_node[n] # t \/ Ended)

(* When the last node has retired the run thread exits by itself.  run does  *)
(* so however the last node ended; the test quoted at SurvivesPanic expects  *)
(* the thread to live on when it ended in a panic.                           *)
SelfTermination == (pc # "setup" /\ ready_flags = {}) ~> (pc = "exited")

(* A panicking component does not end the scheduler: when an activation ended *)
(* in a panic, only stop() may clear running.  This is what                   *)
(* test_scheduler_survives_component_panic asserts of a scheduler whose only  *)
(* node panics; run clears running when it retires the last node all the same. *)
SurvivesPanic == [][panicked /\ running /\ stopper' = "idle" => running']_vars

(* After stop() the run thread exits, as the scheduler tests expect when     *)
(* they join it.                                                             *)
StopTerminates == (stopper = "done") ~> (pc \in EndedPCs)

=============================================================================
