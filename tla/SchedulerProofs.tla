--------------------------- MODULE SchedulerProofs ---------------------------
(****************************************************************************)
(* Proofs about Scheduler, for every set of nodes, budget, edge capacity and *)
(* clock bound.  The invariants are proved in layers, each one using the     *)
(* layers before it in both states of a step.                                *)
(*                                                                          *)
(* The last part proves the action properties from these invariants:        *)
(* Scheduler implements NodeLifecycle, and timers are consumed only when    *)
(* due.                                                                     *)
(****************************************************************************)
EXTENDS Scheduler, TLAPS

(* Removing a node from a queue leaves a queue of nodes.                     *)
LEMMA WithoutType ==
    ASSUME NEW S, NEW q \in Seq(S), NEW n
    PROVE  Without(q, n) \in Seq(S)
<1>1. CASE \E i \in 1..Len(q) : q[i] = n
  <2> DEFINE at == CHOOSE i \in 1..Len(q) : q[i] = n
             r == [j \in 1..(Len(q) - 1) |-> IF j < at THEN q[j] ELSE q[j + 1]]
  <2>1. Len(q) - 1 \in Nat
    BY <1>1
  <2>2. \A j \in 1..(Len(q) - 1) : q[j] \in S /\ q[j + 1] \in S
    OBVIOUS
  <2>3. r \in [1..(Len(q) - 1) -> S]
    BY <2>2
  <2>4. r \in Seq(S)
    BY <2>1, <2>3
  <2>5. Without(q, n) = r
    BY <1>1 DEF Without
  <2> QED BY <2>4, <2>5
<1>2. CASE ~ \E i \in 1..Len(q) : q[i] = n
  BY <1>2 DEF Without
<1> QED BY <1>1, <1>2

(* Overwriting one entry of a function stays within its function set.        *)
LEMMA ExceptType ==
    ASSUME NEW S, NEW T, NEW f \in [S -> T], NEW x, NEW v \in T
    PROVE  [f EXCEPT ![x] = v] \in [S -> T]
OBVIOUS

(* The pc values at which the run thread holds a node it took from the maps. *)
CurHeld == pc \in {"begin", "process", "settle"} => cur # NoNode

(* The initial state of Scheduler::new is well typed.                        *)
LEMMA InitType == Init => TypeOK /\ CurHeld
<1> SUFFICES ASSUME Init PROVE TypeOK /\ CurHeld
  OBVIOUS
<1> USE BoundAssumption, SentinelAssumption DEF Init, Instants
<1>1. timers \subseteq TimerWake /\ ready_queue \in Seq(Nodes)
  OBVIOUS
<1>2. ready_signal \in [Nodes -> BOOLEAN] /\ inbox \in [Nodes -> 0..Cap]
  OBVIOUS
<1>3. /\ timer_latest_by_node \in [Nodes -> Instants \cup {NoTime}]
      /\ timer_fired \in [Nodes -> Instants \cup {NoTime}]
      /\ wait_until \in Instants \cup {NoTime} /\ wake_req \in Instants \cup {NoTime}
      /\ pushed \in [Threads -> Nodes \cup {NoNode}]
  OBVIOUS
<1>4. pc \in PCs /\ now \in Instants /\ CurHeld
  BY DEF PCs, CurHeld
<1>5. running \in BOOLEAN /\ did_work \in BOOLEAN /\ finished \in BOOLEAN
  OBVIOUS
<1>6. nodes \subseteq Nodes /\ components \subseteq Nodes /\ ready_flags \subseteq Nodes
      /\ ready_set \subseteq Nodes /\ queue_depth \in Nat /\ calls \in Nat
      /\ remaining \in Nat /\ cur \in Nodes \cup {NoNode}
      /\ stopper \in {"idle", "stored", "done"}
  OBVIOUS
<1> QED BY <1>1, <1>2, <1>3, <1>4, <1>5, <1>6 DEF TypeOK

(* Budget accounting in execute_component never leaves the naturals.         *)
LEMMA BudgetAfterType ==
    ASSUME remaining \in Nat, NEW units \in Nat, NEW left \in Nat
    PROVE  /\ BudgetAfter(units, left) \in Nat
           /\ remaining > 0 => BudgetAfter(units, left) < remaining
BY DEF BudgetAfter, SaturatingSub, Max2, Min2

(* Queueing a node keeps the types of queue, set and depth.                  *)
LEMMA EnqueueType ==
    ASSUME TypeOK, NEW n \in Nodes, Enqueue(n)
    PROVE  /\ ready_queue' \in Seq(Nodes) /\ ready_set' \subseteq Nodes
           /\ queue_depth' \in Nat
<1>1. CASE n \in ready_set
  BY <1>1 DEF Enqueue, queue, TypeOK
<1>2. CASE n \notin ready_set
  <2>1. ready_queue \in Seq(Nodes) /\ ready_set \subseteq Nodes
    BY DEF TypeOK
  <2>2. Append(ready_queue, n) \in Seq(Nodes) /\ Len(ready_queue) \in Nat
    BY <2>1
  <2> QED BY <1>2, <2>1, <2>2 DEF Enqueue
<1> QED BY <1>1, <1>2

(* signal_ready keeps the types of what it touches, and moves the run thread *)
(* only out of its wait.                                                     *)
LEMMA SignalReadyType ==
    ASSUME TypeOK, NEW n \in Nodes, SignalReady(n)
    PROVE  /\ ready_signal' \in [Nodes -> BOOLEAN]
           /\ ready_queue' \in Seq(Nodes) /\ ready_set' \subseteq Nodes
           /\ queue_depth' \in Nat
           /\ pc' = pc \/ (pc = "waiting" /\ pc' = "acquire")
<1>1. ready_signal' \in [Nodes -> BOOLEAN]
  <2>1. ready_signal' = ready_signal \/ ready_signal' = [ready_signal EXCEPT ![n] = TRUE]
    BY DEF SignalReady
  <2>2. ready_signal \in [Nodes -> BOOLEAN] /\ TRUE \in BOOLEAN
    BY DEF TypeOK
  <2> QED BY <2>1, <2>2, ExceptType
<1>2. /\ ready_queue' \in Seq(Nodes) /\ ready_set' \subseteq Nodes
      /\ queue_depth' \in Nat
  <2>1. Enqueue(n) \/ UNCHANGED queue
    BY DEF SignalReady
  <2> QED BY <2>1, EnqueueType DEF TypeOK, queue
<1>3. pc' = pc \/ (pc = "waiting" /\ pc' = "acquire")
  <2>1. Notify \/ UNCHANGED pc
    BY DEF SignalReady
  <2> QED BY <2>1 DEF Notify
<1> QED BY <1>1, <1>2, <1>3

(* Every step of the scheduler keeps the types.                              *)
LEMMA TypeStep == TypeOK /\ CurHeld /\ [Next]_vars => TypeOK' /\ CurHeld'
<1> SUFFICES ASSUME TypeOK, CurHeld, [Next]_vars PROVE TypeOK' /\ CurHeld'
  OBVIOUS
<1> USE BoundAssumption, SentinelAssumption DEF TypeOK, CurHeld, vars, registry, queue, heap,
        activation, traffic, PCs, LockedPCs, EndedPCs
<1>1. ASSUME NEW n \in Nodes, AddNode(n) PROVE TypeOK' /\ CurHeld'
  BY <1>1 DEF AddNode
<1>2. ASSUME NEW n \in Nodes, AddComponent(n) PROVE TypeOK' /\ CurHeld'
  BY <1>2 DEF AddComponent
<1>3. ASSUME NEW n \in Nodes, InitialSignal(n) PROVE TypeOK' /\ CurHeld'
  BY <1>3, SignalReadyType DEF InitialSignal
<1>4. CASE Spawn
  BY <1>4 DEF Spawn
<1>5. CASE Acquire
  BY <1>5 DEF Acquire
<1>6. ASSUME NEW e \in timers, DrainDiscard(e) PROVE TypeOK' /\ CurHeld'
  BY <1>6 DEF DrainDiscard
<1>7. ASSUME NEW e \in timers, DrainFire(e) PROVE TypeOK' /\ CurHeld'
  <2>1. e.node \in Nodes /\ e.when \in Instants
    BY DEF TimerWake
  <2>2. ready_signal' \in [Nodes -> BOOLEAN]
    <3>1. ready_signal' = ready_signal
            \/ ready_signal' = [ready_signal EXCEPT ![e.node] = TRUE]
      BY <1>7 DEF DrainFire
    <3> QED BY <3>1, ExceptType
  <2>3. /\ timer_latest_by_node' \in [Nodes -> Instants \cup {NoTime}]
        /\ timer_fired' \in [Nodes -> Instants \cup {NoTime}]
    <3>1. timer_fired' = timer_fired \/ timer_fired' = [timer_fired EXCEPT ![e.node] = e.when]
      BY <1>7 DEF DrainFire
    <3>2. timer_latest_by_node' = [timer_latest_by_node EXCEPT ![e.node] = NoTime]
      BY <1>7 DEF DrainFire
    <3> QED BY <2>1, <3>1, <3>2
  <2>4. timers' \subseteq TimerWake /\ ready_queue' \in Seq(Nodes) /\ ready_set' \subseteq Nodes
    <3>1. timers' \subseteq TimerWake
      BY <1>7 DEF DrainFire
    <3>2. Append(ready_queue, e.node) \in Seq(Nodes)
      BY <2>1
    <3>3. /\ ready_queue' = ready_queue \/ ready_queue' = Append(ready_queue, e.node)
          /\ ready_set' = ready_set \/ ready_set' = ready_set \cup {e.node}
      BY <1>7 DEF DrainFire
    <3> QED BY <2>1, <3>1, <3>2, <3>3
  <2> QED BY <1>7, <2>2, <2>3, <2>4 DEF DrainFire
<1>8. CASE DrainDone
  BY <1>8 DEF DrainDone
<1>9. CASE CheckReady
  BY <1>9 DEF CheckReady
<1>10. ASSUME NEW e \in timers, CheckTimer(e) PROVE TypeOK' /\ CurHeld'
  BY <1>10 DEF CheckTimer, TimerWake
<1>11. CASE CheckIdle
  BY <1>11 DEF CheckIdle
<1>12. CASE WaitEnter \/ WaitTimeout \/ SpuriousWake
  BY <1>12 DEF WaitEnter, WaitTimeout, SpuriousWake
<1>13. CASE PopExit
  BY <1>13 DEF PopExit
<1>14. CASE PopNode
  BY <1>14 DEF PopNode
<1>15. CASE BeginActivation
  <2>1. ready_signal' \in [Nodes -> BOOLEAN]
    BY <1>15, ExceptType DEF BeginActivation
  <2>2. remaining' \in Nat
    BY <1>15, BudgetAssumption DEF BeginActivation
  <2> QED BY <1>15, <2>1, <2>2 DEF BeginActivation
<1>16. ASSUME NEW units \in 0..Budget[cur], NEW left \in 0..Budget[cur],
              NEW taken \in 0..Cap, Processing, ProcessDidWork(units, left, taken)
       PROVE  TypeOK' /\ CurHeld'
  <2>1. cur \in Nodes /\ Budget[cur] \in Nat
    BY <1>16, BudgetAssumption DEF ProcessDidWork, Processing
  <2>2. units \in Nat /\ left \in Nat
    BY <2>1
  <2>3. remaining' \in Nat
    BY <1>16, <2>2, BudgetAfterType DEF ProcessDidWork
  <2>4. inbox' \in [Nodes -> 0..Cap]
    BY <1>16, <2>1 DEF ProcessDidWork
  <2> QED BY <1>16, <2>3, <2>4 DEF ProcessDidWork, Processing
<1>17. CASE ProcessNoWork
  BY <1>17 DEF ProcessNoWork, Processing
<1>18. ASSUME NEW panic \in BOOLEAN, ProcessFinished(panic) PROVE TypeOK' /\ CurHeld'
  <2>1. ready_signal' \in [Nodes -> BOOLEAN]
    BY <1>18, ExceptType DEF ProcessFinished
  <2> QED BY <1>18, <2>1 DEF ProcessFinished, Processing
<1>19. CASE ProcessOverrun
  BY <1>19 DEF ProcessOverrun
<1>20. CASE InsideProcess
  <2>1. CASE ContextSignalReady
    <3>1. ready_signal' \in [Nodes -> BOOLEAN]
      BY <2>1, ExceptType DEF ContextSignalReady
    <3> QED BY <2>1, <3>1 DEF ContextSignalReady
  <2>2. CASE ContextTakeTimerFired
    <3>1. timer_fired' = [timer_fired EXCEPT ![cur] = NoTime]
      BY <2>2 DEF ContextTakeTimerFired
    <3>2. timer_fired' \in [Nodes -> Instants \cup {NoTime}]
      BY <3>1
    <3> QED BY <2>2, <3>2 DEF ContextTakeTimerFired
  <2>3. ASSUME NEW t \in Instants, ContextWakeAt(t) PROVE TypeOK' /\ CurHeld'
    BY <2>3 DEF ContextWakeAt
  <2> QED BY <1>20, <2>1, <2>2, <2>3 DEF InsideProcess
<1>21. CASE Retire
  <2>1. ready_queue' \in Seq(Nodes)
    BY <1>21, WithoutType DEF Retire
  <2>2. queue_depth' \in Nat
    BY <1>21, <2>1 DEF Retire
  <2>3. /\ timer_latest_by_node' \in [Nodes -> Instants \cup {NoTime}]
        /\ timer_fired' \in [Nodes -> Instants \cup {NoTime}]
    BY <1>21 DEF Retire
  <2>4. running' \in BOOLEAN
    BY <1>21 DEF Retire
  <2> QED BY <1>21, <2>1, <2>2, <2>3, <2>4 DEF Retire, EndActivation
<1>22. CASE PutBack
  <2>1. cur \in Nodes
    BY <1>22 DEF PutBack
  <2>2. /\ timers' \subseteq TimerWake
        /\ timer_latest_by_node' \in [Nodes -> Instants \cup {NoTime}]
    <3>1. CASE wake_req # NoTime
      <4>1. ArmTimer(cur, wake_req) /\ wake_req \in Instants
        BY <1>22, <3>1 DEF PutBack
      <4> QED BY <2>1, <4>1 DEF ArmTimer, TimerWake
    <3>2. CASE wake_req = NoTime
      BY <1>22, <3>2 DEF PutBack
    <3> QED BY <3>1, <3>2
  <2>3. /\ ready_queue' \in Seq(Nodes) /\ ready_set' \subseteq Nodes
        /\ queue_depth' \in Nat
    <3>1. Enqueue(cur) \/ UNCHANGED queue
      BY <1>22 DEF PutBack
    <3> QED BY <2>1, <3>1, EnqueueType
  <2> QED BY <1>22, <2>1, <2>2, <2>3 DEF PutBack, EndActivation, Reinsert
<1>23. ASSUME NEW t \in Threads, EdgeSignal(t) PROVE TypeOK' /\ CurHeld'
  <2>1. pushed[t] \in Nodes /\ pushed' \in [Threads -> Nodes \cup {NoNode}]
    BY <1>23 DEF EdgeSignal
  <2> QED BY <1>23, <2>1, SignalReadyType DEF EdgeSignal
<1>24. ASSUME NEW t \in Threads, NEW n \in Nodes, EdgePush(t, n) PROVE TypeOK' /\ CurHeld'
  BY <1>24 DEF EdgePush
<1>25. ASSUME NEW n \in Nodes, NEW t \in Instants, WakeAt(n, t) PROVE TypeOK' /\ CurHeld'
  BY <1>25 DEF WakeAt, ArmTimer, Notify, TimerWake
<1>26. CASE StopStore
  BY <1>26 DEF StopStore
<1>27. CASE StopNotify
  BY <1>27 DEF StopNotify, Notify
<1>28. CASE Tick
  BY <1>28 DEF Tick, Instants
<1>29. CASE UNCHANGED vars
  BY <1>29
<1> QED
  BY <1>1, <1>2, <1>3, <1>4, <1>5, <1>6, <1>7, <1>8, <1>9, <1>10, <1>11, <1>12,
     <1>13, <1>14, <1>15, <1>16, <1>17, <1>18, <1>19, <1>20, <1>21, <1>22, <1>23,
     <1>24, <1>25, <1>26, <1>27, <1>28, <1>29
     DEF Next, Setup, Select, ProcessReturns, Settle, Environment

(* Type correctness of the scheduler.                                        *)
THEOREM TypeCorrect == Spec => []TypeOK
<1>1. TypeOK /\ CurHeld /\ [Next]_vars => (TypeOK /\ CurHeld)'
  BY TypeStep
<1> QED BY InitType, <1>1, PTL DEF Spec

-----------------------------------------------------------------------------
(* A step that leaves the maps and the taken node alone keeps NoNodeLost, if *)
(* the run thread neither takes, drops nor enters the setup phase.           *)
LEMMA NoNodeLostFrame ==
    ASSUME NoNodeLost, UNCHANGED <<nodes, components, ready_flags, cur>>,
           pc' \in {"begin", "process", "settle", "dead"}
               <=> pc \in {"begin", "process", "settle", "dead"},
           pc = "setup" <=> pc' = "setup"
    PROVE  NoNodeLost'
BY DEF NoNodeLost

(* Every step keeps each registered node in both maps or in the run thread.  *)
LEMMA NoNodeLostStep == TypeOK /\ NoNodeLost /\ [Next]_vars => NoNodeLost'
<1> SUFFICES ASSUME TypeOK, NoNodeLost, [Next]_vars PROVE NoNodeLost'
  OBVIOUS
<1> USE SentinelAssumption DEF vars, registry, activation
<1>1. ASSUME NEW n \in Nodes, AddNode(n) PROVE NoNodeLost'
  BY <1>1 DEF AddNode, NoNodeLost
<1>2. ASSUME NEW n \in Nodes, AddComponent(n) PROVE NoNodeLost'
  BY <1>2 DEF AddComponent, NoNodeLost
<1>3. ASSUME NEW n \in Nodes, SignalReady(n), UNCHANGED <<registry, activation>>
      PROVE  NoNodeLost'
  BY <1>3, SignalReadyType, NoNodeLostFrame
<1>4. CASE Spawn
  BY <1>4 DEF Spawn, NoNodeLost, TypeOK
<1>5. CASE Acquire \/ DrainDone \/ CheckReady \/ CheckIdle \/ WaitEnter \/ WaitTimeout
           \/ PopExit \/ SpuriousWake
  BY <1>5, NoNodeLostFrame DEF Acquire, DrainDone, CheckReady, CheckIdle, WaitEnter,
     WaitTimeout, PopExit, SpuriousWake
<1>6. ASSUME NEW e \in timers, DrainDiscard(e) \/ DrainFire(e) \/ CheckTimer(e)
      PROVE  NoNodeLost'
  BY <1>6, NoNodeLostFrame DEF DrainDiscard, DrainFire, CheckTimer
<1>7. CASE PopNode
  <2>1. Head(ready_queue) \in nodes \cap components /\ Head(ready_queue) # NoNode
    BY <1>7 DEF PopNode, TypeOK
  <2> QED BY <1>7, <2>1 DEF PopNode, NoNodeLost
<1>8. CASE BeginActivation \/ ProcessReturns \/ ProcessOverrun \/ InsideProcess
  BY <1>8, NoNodeLostFrame DEF BeginActivation, ProcessReturns, ProcessDidWork,
     ProcessNoWork, ProcessFinished, ProcessOverrun, InsideProcess, Processing,
     ContextSignalReady, ContextTakeTimerFired, ContextWakeAt
<1>9. CASE Retire
  BY <1>9 DEF Retire, EndActivation, NoNodeLost, TypeOK
<1>10. CASE PutBack
  BY <1>10 DEF PutBack, Reinsert, EndActivation, NoNodeLost, TypeOK
<1>11. ASSUME NEW t \in Threads, EdgeSignal(t) PROVE NoNodeLost'
  BY <1>3, <1>11 DEF EdgeSignal, TypeOK
<1>12. ASSUME NEW t \in Threads, NEW n \in Nodes, EdgePush(t, n) PROVE NoNodeLost'
  BY <1>12, NoNodeLostFrame DEF EdgePush
<1>13. ASSUME NEW n \in Nodes, NEW t \in Instants, WakeAt(n, t) PROVE NoNodeLost'
  BY <1>13, NoNodeLostFrame DEF WakeAt, Notify
<1>14. CASE StopStore \/ StopNotify \/ Tick
  BY <1>14, NoNodeLostFrame DEF StopStore, StopNotify, Tick, Notify
<1>15. CASE UNCHANGED vars
  BY <1>15, NoNodeLostFrame
<1> QED
  BY <1>1, <1>2, <1>3, <1>4, <1>5, <1>6, <1>7, <1>8, <1>9, <1>10, <1>11, <1>12,
     <1>13, <1>14, <1>15
     DEF Next, Setup, InitialSignal, Select, Settle, Environment

(* No component or context is lost: run's early continues, reinsertion and   *)
(* retirement account for every registered node.                             *)
THEOREM NodesAccountedFor == Spec => []NoNodeLost
<1>1. Init => NoNodeLost
  BY SentinelAssumption DEF Init, NoNodeLost
<1>2. TypeOK /\ NoNodeLost /\ [Next]_vars => NoNodeLost'
  BY NoNodeLostStep
<1> QED BY <1>1, <1>2, TypeCorrect, PTL DEF Spec

-----------------------------------------------------------------------------
(* A step that changes neither the timers nor the registered nodes.          *)
LEMMA ArmedTimerFrame ==
    ASSUME ArmedTimerBacked, UNCHANGED <<timers, timer_latest_by_node, ready_flags>>
    PROVE  ArmedTimerBacked'
BY DEF ArmedTimerBacked

(* Arming a registered node's timer backs it with its own heap entry and     *)
(* leaves the entries of the others in place.                                *)
LEMMA ArmTimerBacks ==
    ASSUME TypeOK, ArmedTimerBacked, UNCHANGED ready_flags,
           NEW n \in ready_flags, NEW t \in Instants, ArmTimer(n, t)
    PROVE  ArmedTimerBacked'
<1> SUFFICES ASSUME NEW m \in Nodes, timer_latest_by_node'[m] # NoTime
             PROVE  /\ m \in ready_flags
                    /\ [when |-> timer_latest_by_node'[m], node |-> m] \in timers'
  BY DEF ArmedTimerBacked
<1>1. CASE m = n
  BY <1>1 DEF ArmTimer, TypeOK
<1>2. CASE m # n
  <2>1. timer_latest_by_node'[m] = timer_latest_by_node[m]
    BY <1>2 DEF ArmTimer, TypeOK
  <2> QED BY <2>1 DEF ArmTimer, ArmedTimerBacked
<1> QED BY <1>1, <1>2

(* Every step keeps armed timers backed.                                     *)
LEMMA ArmedTimerStep ==
    TypeOK /\ NoNodeLost /\ ArmedTimerBacked /\ [Next]_vars => ArmedTimerBacked'
<1> SUFFICES ASSUME TypeOK, NoNodeLost, ArmedTimerBacked, [Next]_vars
             PROVE  ArmedTimerBacked'
  OBVIOUS
<1> USE SentinelAssumption DEF vars, registry, heap
<1>1. ASSUME NEW n \in Nodes, AddNode(n) PROVE ArmedTimerBacked'
  BY <1>1 DEF AddNode, ArmedTimerBacked
<1>2. ASSUME NEW n \in Nodes, AddComponent(n) \/ InitialSignal(n)
      PROVE  ArmedTimerBacked'
  BY <1>2, ArmedTimerFrame DEF AddComponent, InitialSignal
<1>3. CASE Spawn \/ Acquire \/ DrainDone \/ CheckReady \/ CheckIdle \/ WaitEnter
           \/ WaitTimeout \/ PopExit \/ PopNode \/ SpuriousWake
  BY <1>3, ArmedTimerFrame DEF Spawn, Acquire, DrainDone, CheckReady, CheckIdle,
     WaitEnter, WaitTimeout, PopExit, PopNode, SpuriousWake
<1>4. ASSUME NEW e \in timers, DrainDiscard(e) PROVE ArmedTimerBacked'
  <2>1. \A n \in Nodes : [when |-> timer_latest_by_node[n], node |-> n] # e
    BY <1>4 DEF DrainDiscard, Valid
  <2> QED BY <1>4, <2>1 DEF DrainDiscard, ArmedTimerBacked
<1>5. ASSUME NEW e \in timers, DrainFire(e) PROVE ArmedTimerBacked'
  <2> SUFFICES ASSUME NEW m \in Nodes, timer_latest_by_node'[m] # NoTime
               PROVE  /\ m \in ready_flags
                      /\ [when |-> timer_latest_by_node'[m], node |-> m] \in timers'
    BY <1>5 DEF ArmedTimerBacked, DrainFire
  <2>1. m # e.node /\ timer_latest_by_node'[m] = timer_latest_by_node[m]
    BY <1>5 DEF DrainFire, TypeOK, TimerWake
  <2>2. [when |-> timer_latest_by_node[m], node |-> m] # e
    BY <2>1
  <2> QED BY <1>5, <2>1, <2>2 DEF DrainFire, ArmedTimerBacked
<1>6. ASSUME NEW e \in timers, CheckTimer(e) PROVE ArmedTimerBacked'
  BY <1>6, ArmedTimerFrame DEF CheckTimer
<1>7. CASE BeginActivation \/ ProcessReturns \/ ProcessOverrun \/ InsideProcess
  BY <1>7, ArmedTimerFrame DEF BeginActivation, ProcessReturns, ProcessDidWork,
     ProcessNoWork, ProcessFinished, ProcessOverrun, InsideProcess,
     ContextSignalReady, ContextTakeTimerFired, ContextWakeAt
<1>8. CASE Retire
  <2>1. \A m \in Nodes : timer_latest_by_node'[m] # NoTime =>
            m # cur /\ timer_latest_by_node'[m] = timer_latest_by_node[m]
    BY <1>8 DEF Retire, TypeOK
  <2> QED BY <1>8, <2>1 DEF Retire, ArmedTimerBacked
<1>9. CASE PutBack
  <2>1. cur \in ready_flags
    BY <1>9 DEF PutBack, NoNodeLost
  <2>2. CASE wake_req # NoTime
    <3>1. ArmTimer(cur, wake_req) /\ UNCHANGED ready_flags
      BY <1>9, <2>2 DEF PutBack
    <3>2. wake_req \in Instants
      BY <2>2 DEF TypeOK
    <3> QED BY <2>1, <3>1, <3>2, ArmTimerBacks
  <2>3. CASE wake_req = NoTime
    BY <1>9, <2>3, ArmedTimerFrame DEF PutBack
  <2> QED BY <2>2, <2>3
<1>10. ASSUME NEW t \in Threads, EdgeSignal(t) PROVE ArmedTimerBacked'
  BY <1>10, ArmedTimerFrame DEF EdgeSignal
<1>11. ASSUME NEW t \in Threads, NEW n \in Nodes, EdgePush(t, n) PROVE ArmedTimerBacked'
  BY <1>11, ArmedTimerFrame DEF EdgePush
<1>12. ASSUME NEW n \in Nodes, NEW t \in Instants, WakeAt(n, t) PROVE ArmedTimerBacked'
  BY <1>12, ArmTimerBacks DEF WakeAt, NoNodeLost
<1>13. CASE StopStore \/ StopNotify \/ Tick
  BY <1>13, ArmedTimerFrame DEF StopStore, StopNotify, Tick
<1>14. CASE UNCHANGED vars
  BY <1>14, ArmedTimerFrame
<1> QED
  BY <1>1, <1>2, <1>3, <1>4, <1>5, <1>6, <1>7, <1>8, <1>9, <1>10, <1>11, <1>12,
     <1>13, <1>14 DEF Next, Setup, Select, Settle, Environment

(* An armed timer is never orphaned: neither superseding, discarding, firing *)
(* nor retiring removes the heap entry of another pending deadline.          *)
THEOREM TimersBacked == Spec => []ArmedTimerBacked
<1>1. Init => ArmedTimerBacked
  BY DEF Init, ArmedTimerBacked
<1>2. TypeOK /\ NoNodeLost /\ ArmedTimerBacked /\ [Next]_vars => ArmedTimerBacked'
  BY ArmedTimerStep
<1> QED BY <1>1, <1>2, TypeCorrect, NodesAccountedFor, PTL DEF Spec

-----------------------------------------------------------------------------
(* What a queue holds, and that it holds nothing twice.                      *)
Entries(q) == {q[i] : i \in 1..Len(q)}
NoRepeats(q) == \A i, j \in 1..Len(q) : q[i] = q[j] => i = j

(* retain removes exactly the given node from a queue without duplicates.    *)
LEMMA WithoutRemoves ==
    ASSUME NEW S, NEW q \in Seq(S), NEW n, NoRepeats(q), NEW r, r = Without(q, n)
    PROVE  NoRepeats(r) /\ Entries(r) = Entries(q) \ {n}
<1> USE DEF Entries, NoRepeats
<1>1. CASE \E i \in 1..Len(q) : q[i] = n
  <2> DEFINE at == CHOOSE i \in 1..Len(q) : q[i] = n
  <2>1. at \in 1..Len(q) /\ q[at] = n
    BY <1>1
  <2>2. r = [j \in 1..(Len(q) - 1) |-> IF j < at THEN q[j] ELSE q[j + 1]]
    BY <1>1 DEF Without
  <2> HIDE DEF at
  <2>3. Len(r) = Len(q) - 1 /\ Len(q) \in Nat \ {0}
    BY <2>1, <2>2
  <2>4. \A i, j \in 1..Len(r) : r[i] = r[j] => i = j
    BY <2>1, <2>2, <2>3
  <2>5. \A i \in 1..Len(r) : r[i] # n /\ \E k \in 1..Len(q) : r[i] = q[k]
    BY <2>1, <2>2, <2>3
  <2>6. ASSUME NEW k \in 1..Len(q), q[k] # n PROVE \E i \in 1..Len(r) : r[i] = q[k]
    <3>1. CASE k < at
      <4>1. k \in 1..Len(r) /\ r[k] = q[k]
        BY <2>1, <2>2, <2>3, <3>1
      <4> QED BY <4>1
    <3>2. CASE k > at
      <4>1. k - 1 \in 1..Len(r) /\ r[k - 1] = q[k]
        BY <2>1, <2>2, <2>3, <3>2
      <4> QED BY <4>1
    <3>3. k < at \/ k > at
      <4>1. k # at
        BY <2>1, <2>6
      <4> QED BY <2>1, <4>1
    <3> QED BY <3>1, <3>2, <3>3
  <2>7. {r[i] : i \in 1..Len(r)} = {q[i] : i \in 1..Len(q)} \ {n}
    <3>1. ASSUME NEW x \in {r[i] : i \in 1..Len(r)}
          PROVE  x \in {q[i] : i \in 1..Len(q)} \ {n}
      <4>1. PICK i \in 1..Len(r) : x = r[i]
        OBVIOUS
      <4>2. PICK k \in 1..Len(q) : r[i] = q[k]
        BY <2>5
      <4> QED BY <2>5, <4>1, <4>2
    <3>2. ASSUME NEW x \in {q[i] : i \in 1..Len(q)} \ {n}
          PROVE  x \in {r[i] : i \in 1..Len(r)}
      <4>1. PICK k \in 1..Len(q) : x = q[k]
        OBVIOUS
      <4>2. PICK i \in 1..Len(r) : r[i] = q[k]
        BY <2>6, <4>1
      <4> QED BY <4>1, <4>2
    <3> QED BY <3>1, <3>2
  <2> QED BY <2>4, <2>7
<1>2. CASE ~ \E i \in 1..Len(q) : q[i] = n
  BY <1>2 DEF Without
<1> QED BY <1>1, <1>2

(* A step that changes neither queue, set nor registered nodes.              *)
LEMMA ReadyQueueFrame ==
    ASSUME ReadyQueueConsistent, UNCHANGED <<ready_queue, ready_set, ready_flags>>
    PROVE  ReadyQueueConsistent'
BY DEF ReadyQueueConsistent

(* Queueing a registered node that is not queued yet.                        *)
LEMMA AppendConsistent ==
    ASSUME TypeOK, ReadyQueueConsistent, NEW n \in ready_flags, n \notin ready_set,
           ready_queue' = Append(ready_queue, n), ready_set' = ready_set \cup {n},
           UNCHANGED ready_flags
    PROVE  ReadyQueueConsistent'
<1> DEFINE q == ready_queue
           r == ready_queue'
<1>1. q \in Seq(Nodes) /\ n \in Nodes
  BY DEF TypeOK
<1>2. Len(r) = Len(q) + 1 /\ r[Len(q) + 1] = n /\ \A i \in 1..Len(q) : r[i] = q[i]
  BY <1>1
<1>3. \A i \in 1..Len(q) : q[i] # n
  BY DEF ReadyQueueConsistent
<1>4. \A i, j \in 1..Len(q) : q[i] = q[j] => i = j
  BY DEF ReadyQueueConsistent
<1>5. ready_set = {q[i] : i \in 1..Len(q)}
  BY DEF ReadyQueueConsistent
<1>6. Len(q) \in Nat
  BY <1>1
<1>7. ready_set' \subseteq ready_flags'
  BY DEF ReadyQueueConsistent
<1> HIDE DEF q, r
<1>8. \A i, j \in 1..Len(r) : r[i] = r[j] => i = j
  BY <1>2, <1>3, <1>4, <1>6
<1>9. ready_set' = {r[i] : i \in 1..Len(r)}
  <2>1. ASSUME NEW x \in ready_set' PROVE x \in {r[i] : i \in 1..Len(r)}
    <3>1. CASE x = n
      BY <1>2, <1>6, <3>1
    <3>2. CASE x # n
      <4>1. PICK i \in 1..Len(q) : x = q[i]
        BY <1>5, <3>2
      <4>2. i \in 1..Len(r) /\ x = r[i]
        BY <1>2, <1>6, <4>1
      <4> QED BY <4>2
    <3> QED BY <3>1, <3>2
  <2>2. ASSUME NEW i \in 1..Len(r) PROVE r[i] \in ready_set'
    BY <1>2, <1>5, <1>6
  <2> QED BY <2>1, <2>2
<1> QED BY <1>7, <1>8, <1>9 DEF ReadyQueueConsistent, q, r

(* Both uses of ready_set.insert + push_back.                                *)
LEMMA EnqueueConsistent ==
    ASSUME TypeOK, ReadyQueueConsistent, NEW n \in ready_flags, Enqueue(n),
           UNCHANGED ready_flags
    PROVE  ReadyQueueConsistent'
<1>1. CASE n \in ready_set
  BY <1>1, ReadyQueueFrame DEF Enqueue, queue
<1>2. CASE n \notin ready_set
  BY <1>2, AppendConsistent DEF Enqueue
<1> QED BY <1>1, <1>2

(* pop_front removes the head from the queue and from the set.               *)
LEMMA PopConsistent == TypeOK /\ ReadyQueueConsistent /\ PopNode => ReadyQueueConsistent'
<1> SUFFICES ASSUME TypeOK, ReadyQueueConsistent, PopNode PROVE ReadyQueueConsistent'
  OBVIOUS
<1> DEFINE q == ready_queue
           r == ready_queue'
<1>1. q \in Seq(Nodes) /\ q # <<>> /\ r = Tail(q)
  BY DEF TypeOK, PopNode
<1>2. /\ Len(q) \in Nat /\ Len(q) >= 1 /\ Len(r) = Len(q) - 1
      /\ \A i \in 1..Len(r) : r[i] = q[i + 1]
  BY <1>1
<1>3. /\ \A i, j \in 1..Len(q) : q[i] = q[j] => i = j
      /\ ready_set = {q[i] : i \in 1..Len(q)}
  BY DEF ReadyQueueConsistent
<1>4. ready_set' = ready_set \ {q[1]}
  BY <1>1 DEF PopNode
<1>5. ready_set' \subseteq ready_flags'
  BY <1>4 DEF ReadyQueueConsistent, PopNode
<1> HIDE DEF q, r
<1>6. \A i, j \in 1..Len(r) : r[i] = r[j] => i = j
  BY <1>2, <1>3
<1>7. ready_set' = {r[i] : i \in 1..Len(r)}
  <2>1. ASSUME NEW x \in ready_set' PROVE x \in {r[i] : i \in 1..Len(r)}
    <3>1. PICK i \in 1..Len(q) : x = q[i]
      BY <1>3, <1>4
    <3>2. i # 1
      BY <1>4, <3>1
    <3>3. i - 1 \in 1..Len(r) /\ x = r[i - 1]
      BY <1>2, <3>1, <3>2
    <3> QED BY <3>3
  <2>2. ASSUME NEW i \in 1..Len(r) PROVE r[i] \in ready_set'
    <3>1. r[i] = q[i + 1] /\ i + 1 \in 1..Len(q) /\ i + 1 # 1
      BY <1>2
    <3>2. q[i + 1] # q[1]
      BY <1>2, <1>3, <3>1
    <3> QED BY <1>3, <1>4, <3>1, <3>2
  <2> QED BY <2>1, <2>2
<1> QED BY <1>5, <1>6, <1>7 DEF ReadyQueueConsistent, q, r

(* Every step keeps queue and set in agreement.                              *)
LEMMA ReadyQueueStep ==
    TypeOK /\ NoNodeLost /\ ArmedTimerBacked /\ ReadyQueueConsistent /\ [Next]_vars
        => ReadyQueueConsistent'
<1> SUFFICES ASSUME TypeOK, NoNodeLost, ArmedTimerBacked, ReadyQueueConsistent,
                    [Next]_vars
             PROVE  ReadyQueueConsistent'
  OBVIOUS
<1> USE DEF vars, registry, queue
<1>1. ASSUME NEW n \in Nodes, AddNode(n) PROVE ReadyQueueConsistent'
  BY <1>1 DEF AddNode, ReadyQueueConsistent
<1>2. ASSUME NEW n \in Nodes, AddComponent(n) PROVE ReadyQueueConsistent'
  BY <1>2, ReadyQueueFrame DEF AddComponent
<1>3. ASSUME NEW n \in Nodes, SignalReady(n), UNCHANGED ready_flags
      PROVE  ReadyQueueConsistent'
  <2>1. CASE n \in ready_flags
    BY <1>3, <2>1, EnqueueConsistent DEF SignalReady
  <2>2. CASE n \notin ready_flags
    BY <1>3, <2>2, ReadyQueueFrame DEF SignalReady
  <2> QED BY <2>1, <2>2
<1>4. CASE Spawn \/ Acquire \/ DrainDone \/ CheckReady \/ CheckIdle \/ WaitEnter
           \/ WaitTimeout \/ PopExit \/ SpuriousWake
  BY <1>4, ReadyQueueFrame DEF Spawn, Acquire, DrainDone, CheckReady, CheckIdle,
     WaitEnter, WaitTimeout, PopExit, SpuriousWake
<1>5. ASSUME NEW e \in timers, DrainDiscard(e) \/ CheckTimer(e)
      PROVE  ReadyQueueConsistent'
  BY <1>5, ReadyQueueFrame DEF DrainDiscard, CheckTimer
<1>6. ASSUME NEW e \in timers, DrainFire(e) PROVE ReadyQueueConsistent'
  <2>1. e.node \in Nodes /\ e.when # NoTime
    BY DEF TypeOK, TimerWake, Instants, NoTime
  <2>2. e.node \in ready_flags
    BY <1>6, <2>1 DEF DrainFire, Due, Valid, ArmedTimerBacked
  <2>3. CASE e.node \in ready_set
    BY <1>6, <2>3, ReadyQueueFrame DEF DrainFire
  <2>4. CASE e.node \notin ready_set
    BY <1>6, <2>2, <2>4, AppendConsistent DEF DrainFire
  <2> QED BY <2>3, <2>4
<1>7. CASE PopNode
  BY <1>7, PopConsistent
<1>8. CASE BeginActivation \/ ProcessReturns \/ ProcessOverrun \/ InsideProcess
  BY <1>8, ReadyQueueFrame DEF BeginActivation, ProcessReturns, ProcessDidWork,
     ProcessNoWork, ProcessFinished, ProcessOverrun, InsideProcess,
     ContextSignalReady, ContextTakeTimerFired, ContextWakeAt
<1>9. CASE Retire
  <2>1. /\ ready_queue \in Seq(Nodes) /\ NoRepeats(ready_queue)
        /\ ready_queue' = Without(ready_queue, cur)
    BY <1>9 DEF TypeOK, ReadyQueueConsistent, Retire, NoRepeats
  <2>2. NoRepeats(ready_queue') /\ Entries(ready_queue') = Entries(ready_queue) \ {cur}
    BY ONLY <2>1, WithoutRemoves
  <2>3. /\ ready_set' = ready_set \ {cur}
        /\ ready_flags' = ready_flags \ {cur}
    BY <1>9 DEF Retire
  <2> QED BY <2>2, <2>3 DEF ReadyQueueConsistent, Entries, NoRepeats
<1>10. CASE PutBack
  <2>1. cur \in ready_flags /\ UNCHANGED ready_flags
    BY <1>10 DEF PutBack, NoNodeLost
  <2>2. Enqueue(cur) \/ UNCHANGED queue
    BY <1>10 DEF PutBack
  <2> QED BY <2>1, <2>2, EnqueueConsistent, ReadyQueueFrame
<1>11. ASSUME NEW t \in Threads, EdgeSignal(t) PROVE ReadyQueueConsistent'
  BY <1>3, <1>11 DEF EdgeSignal, TypeOK
<1>12. ASSUME NEW t \in Threads, NEW n \in Nodes, EdgePush(t, n)
       PROVE  ReadyQueueConsistent'
  BY <1>12, ReadyQueueFrame DEF EdgePush
<1>13. ASSUME NEW n \in Nodes, NEW t \in Instants, WakeAt(n, t)
       PROVE  ReadyQueueConsistent'
  BY <1>13, ReadyQueueFrame DEF WakeAt
<1>14. CASE StopStore \/ StopNotify \/ Tick
  BY <1>14, ReadyQueueFrame DEF StopStore, StopNotify, Tick
<1>15. CASE UNCHANGED vars
  BY <1>15, ReadyQueueFrame
<1> QED
  BY <1>1, <1>2, <1>3, <1>4, <1>5, <1>6, <1>7, <1>8, <1>9, <1>10, <1>11, <1>12,
     <1>13, <1>14, <1>15
     DEF Next, Setup, InitialSignal, Select, Settle, Environment

(* Ready queue and ready set agree, without duplicates or retired nodes.     *)
THEOREM QueueAndSetAgree == Spec => []ReadyQueueConsistent
<1>1. Init => ReadyQueueConsistent
  BY DEF Init, ReadyQueueConsistent
<1>2. TypeOK /\ NoNodeLost /\ ArmedTimerBacked /\ ReadyQueueConsistent /\ [Next]_vars
        => ReadyQueueConsistent'
  BY ReadyQueueStep
<1> QED BY <1>1, <1>2, TypeCorrect, NodesAccountedFor, TimersBacked, PTL DEF Spec

-----------------------------------------------------------------------------
(* What the check phase establishes before run pops: the scheduler was       *)
(* stopped or some node is queued, and nothing is dequeued before the pop.   *)
PopReady == pc = "pop" /\ running => ready_queue # <<>>

(* Every step keeps a node queued between the check and the pop.             *)
LEMMA PopReadyStep == TypeOK /\ PopReady /\ [Next]_vars => PopReady'
<1> SUFFICES ASSUME TypeOK, PopReady, [Next]_vars, pc' = "pop", running'
             PROVE  ready_queue' # <<>>
  BY DEF PopReady
<1> USE DEF vars, queue
<1>2. CASE Setup \/ BeginActivation \/ ProcessReturns \/ ProcessOverrun
           \/ InsideProcess \/ Settle
  <2>1. pc' # "pop"
    BY <1>2, SignalReadyType DEF Setup, AddNode, AddComponent, InitialSignal, Spawn,
       BeginActivation, ProcessReturns, ProcessDidWork, ProcessNoWork, ProcessFinished,
       ProcessOverrun, InsideProcess, ContextSignalReady, ContextTakeTimerFired,
       ContextWakeAt, Processing, Settle, Retire, PutBack, EndActivation
  <2> QED BY <2>1
<1>3. CASE Select
  BY <1>3 DEF Select, Acquire, DrainDone, CheckReady, CheckIdle, WaitEnter,
     WaitTimeout, PopExit, PopNode, DrainDiscard, DrainFire, CheckTimer
<1>4. ASSUME NEW t \in Threads, EdgeSignal(t) PROVE ready_queue' # <<>>
  BY <1>4, SignalReadyType DEF EdgeSignal, LockFree, LockedPCs, TypeOK
<1>5. ASSUME NEW t \in Threads, NEW n \in Nodes, EdgePush(t, n)
      PROVE  ready_queue' # <<>>
  BY <1>5 DEF EdgePush, PopReady
<1>6. ASSUME NEW n \in Nodes, NEW t \in Instants, WakeAt(n, t)
      PROVE  ready_queue' # <<>>
  BY <1>6 DEF WakeAt, Notify, PopReady
<1>7. CASE StopStore \/ StopNotify \/ Tick \/ SpuriousWake \/ UNCHANGED vars
  BY <1>7 DEF StopStore, StopNotify, Tick, SpuriousWake, Notify, PopReady
<1> QED BY <1>2, <1>3, <1>4, <1>5, <1>6, <1>7 DEF Next, Environment

(* The arms of run for an empty queue, a missing component and a missing     *)
(* context are never taken.                                                  *)
THEOREM PopAlwaysFindsNode == Spec => []PopFindsNode
<1>1. Init => PopReady
  BY DEF Init, PopReady
<1>2. TypeOK /\ PopReady /\ [Next]_vars => PopReady'
  BY PopReadyStep
<1>3. TypeOK /\ NoNodeLost /\ ReadyQueueConsistent /\ PopReady => PopFindsNode
  <2> SUFFICES ASSUME TypeOK, NoNodeLost, ReadyQueueConsistent, PopReady,
                      pc = "pop", running
               PROVE  ready_queue # <<>> /\ Head(ready_queue) \in nodes \cap components
    BY DEF PopFindsNode
  <2>1. ready_queue # <<>>
    BY DEF PopReady
  <2>2. Head(ready_queue) = ready_queue[1] /\ 1 \in 1..Len(ready_queue)
    BY <2>1 DEF TypeOK
  <2>3. Head(ready_queue) \in ready_flags
    BY <2>2 DEF ReadyQueueConsistent
  <2> QED BY <2>1, <2>3 DEF NoNodeLost
<1> QED BY <1>1, <1>2, <1>3, TypeCorrect, NodesAccountedFor, QueueAndSetAgree, PTL
        DEF Spec

-----------------------------------------------------------------------------
(* Where a node with delivered input is accounted for.                       *)
Covered(n) ==
    \/ n \in ready_set
    \/ cur = n /\ (pc \in {"begin", "process"} \/ finished \/ ShouldRequeue)

(* A step outside setup that consumes nothing, queues at most more nodes,    *)
(* raises at most more flags and keeps the taken node keeps nodes covered.   *)
LEMMA CoveredFrame ==
    ASSUME TypeOK, NoLostReadiness, NEW n \in ready_flags, inbox[n] > 0, Signalled(n),
           pc \notin {"setup", "dead"}, ready_set \subseteq ready_set',
           UNCHANGED <<cur, did_work, finished>>,
           ready_signal[n] => ready_signal'[n],
           pc' = pc \/ (pc \notin {"begin", "process"})
    PROVE  Covered(n)'
BY DEF NoLostReadiness, Covered, ShouldRequeue

(* Every step keeps delivered input covered.                                 *)
LEMMA NoLostReadinessStep ==
    TypeOK /\ NoNodeLost /\ NoLostReadiness /\ [Next]_vars => NoLostReadiness'
<1> SUFFICES ASSUME TypeOK, NoNodeLost, NoLostReadiness, [Next]_vars,
                    NEW n \in ready_flags', inbox'[n] > 0, Signalled(n)',
                    pc' \notin {"setup", "dead"}
             PROVE  Covered(n)'
  BY DEF NoLostReadiness, Covered
<1> USE SentinelAssumption DEF vars, registry, queue, activation, traffic
<1>1. CASE Setup
  <2>1. Spawn
    BY <1>1, SignalReadyType DEF Setup, AddNode, AddComponent, InitialSignal
  <2>2. n \in Nodes /\ ready_set' = Nodes
    BY <2>1 DEF Spawn, TypeOK
  <2> QED BY <2>2 DEF Covered
<1>2. CASE PopNode
  <2>1. n \in ready_flags /\ inbox[n] > 0 /\ Signalled(n) /\ cur # n
    BY <1>2 DEF PopNode, Signalled, NoNodeLost, TypeOK
  <2>2. n \in ready_set
    BY <1>2, <2>1 DEF NoLostReadiness, PopNode
  <2> QED BY <1>2, <2>2 DEF PopNode, Covered
<1>3. CASE Acquire \/ DrainDone \/ CheckReady \/ CheckIdle \/ WaitEnter \/ WaitTimeout
           \/ PopExit \/ SpuriousWake
  <2>1. /\ UNCHANGED <<ready_flags, ready_set, ready_signal, cur, did_work, finished,
                       inbox, pushed>>
        /\ pc \notin {"setup", "dead", "begin", "process"}
    BY <1>3 DEF Acquire, DrainDone, CheckReady, CheckIdle, WaitEnter, WaitTimeout,
       PopExit, SpuriousWake
  <2>2. inbox[n] > 0 /\ Signalled(n) /\ n \in ready_flags
    BY <2>1 DEF Signalled
  <2> QED BY <2>1, <2>2, CoveredFrame
<1>4. ASSUME NEW e \in timers, DrainDiscard(e) \/ DrainFire(e) \/ CheckTimer(e)
      PROVE  Covered(n)'
  <2>1. /\ UNCHANGED <<ready_flags, cur, did_work, finished, inbox, pushed>>
        /\ ready_set \subseteq ready_set'
        /\ pc \notin {"setup", "dead", "begin", "process", "settle"}
    BY <1>4 DEF DrainDiscard, DrainFire, CheckTimer
  <2>2. inbox[n] > 0 /\ Signalled(n) /\ n \in ready_flags /\ cur # n
    BY <2>1 DEF Signalled, NoNodeLost, TypeOK
  <2>3. n \in ready_set
    BY <2>1, <2>2 DEF NoLostReadiness
  <2> QED BY <2>1, <2>3 DEF Covered
<1>5. CASE BeginActivation \/ InsideProcess \/ ProcessOverrun
  <2>1. /\ UNCHANGED <<ready_flags, ready_set, cur, inbox, pushed>>
        /\ pc \in {"begin", "process"} /\ pc' = "process"
    BY <1>5 DEF BeginActivation, InsideProcess, ProcessOverrun, Processing,
       ContextSignalReady, ContextTakeTimerFired, ContextWakeAt
  <2>2. inbox[n] > 0 /\ Signalled(n) /\ n \in ready_flags
    BY <2>1 DEF Signalled
  <2>3. n \in ready_set \/ cur = n
    BY <2>1, <2>2 DEF NoLostReadiness
  <2> QED BY <2>1, <2>3 DEF Covered
<1>6. CASE ProcessReturns
  <2>1. /\ UNCHANGED <<ready_flags, ready_set, cur, pushed>>
        /\ pc = "process" /\ cur \in Nodes
        /\ cur # n => inbox'[n] = inbox[n]
    BY <1>6 DEF ProcessReturns, ProcessNoWork, ProcessFinished, ProcessDidWork,
       Processing, TypeOK, NoNodeLost
  <2>2. Signalled(n) /\ n \in ready_flags
    BY <2>1 DEF Signalled
  <2>3. CASE cur # n
    BY <2>1, <2>2, <2>3 DEF NoLostReadiness, Covered
  <2>4. CASE cur = n
    <3>1. did_work' \/ finished'
      BY <1>6, <2>4 DEF ProcessReturns, ProcessNoWork, ProcessFinished, ProcessDidWork,
         TypeOK
    <3> QED BY <2>1, <2>4, <3>1 DEF Covered, ShouldRequeue
  <2> QED BY <2>3, <2>4
<1>7. CASE Retire
  <2>1. n \in ready_flags /\ n # cur /\ inbox[n] > 0 /\ Signalled(n) /\ pc = "settle"
    BY <1>7 DEF Retire, Signalled
  <2> QED BY <1>7, <2>1 DEF Retire, NoLostReadiness, Covered
<1>8. CASE PutBack
  <2>1. /\ n \in ready_flags /\ inbox[n] > 0 /\ Signalled(n) /\ pc = "settle"
        /\ ~finished
    BY <1>8 DEF PutBack, Signalled
  <2>2. n \in ready_set \/ (cur = n /\ ShouldRequeue)
    BY <2>1 DEF NoLostReadiness
  <2>3. CASE n \in ready_set
    <3>1. Enqueue(cur) \/ UNCHANGED queue
      BY <1>8 DEF PutBack
    <3> QED BY <2>3, <3>1 DEF Enqueue, Covered
  <2>4. CASE cur = n /\ ShouldRequeue
    <3>1. Enqueue(cur)
      BY <1>8, <2>4 DEF PutBack
    <3> QED BY <2>4, <3>1 DEF Enqueue, Covered
  <2> QED BY <2>2, <2>3, <2>4
<1>9. ASSUME NEW t \in Threads, EdgeSignal(t) PROVE Covered(n)'
  <2>1. /\ pushed[t] \in Nodes /\ SignalReady(pushed[t])
        /\ UNCHANGED <<ready_flags, cur, did_work, finished, inbox>>
        /\ pushed' = [pushed EXCEPT ![t] = NoNode]
    BY <1>9 DEF EdgeSignal, TypeOK
  <2>2. CASE pushed[t] = n
    <3>1. Enqueue(n)
      BY <2>1, <2>2 DEF SignalReady
    <3> QED BY <3>1 DEF Enqueue, Covered
  <2>3. CASE pushed[t] # n
    <3>1. Signalled(n) /\ n \in ready_flags /\ inbox[n] > 0 /\ n \in Nodes
      BY <2>1, <2>3 DEF Signalled, TypeOK
    <3>2. pc' = pc \/ (pc = "waiting" /\ pc' = "acquire")
      BY <2>1, SignalReadyType
    <3>3. ready_set \subseteq ready_set'
      <4>1. Enqueue(pushed[t]) \/ UNCHANGED queue
        BY <2>1 DEF SignalReady
      <4> QED BY <4>1 DEF Enqueue
    <3>4. ready_signal'[n] = ready_signal[n]
      <4>1. ready_signal' = ready_signal
              \/ ready_signal' = [ready_signal EXCEPT ![pushed[t]] = TRUE]
        BY <2>1 DEF SignalReady
      <4> QED BY <2>3, <3>1, <4>1 DEF TypeOK
    <3> QED BY <2>1, <3>1, <3>2, <3>3, <3>4, CoveredFrame
  <2> QED BY <2>2, <2>3
<1>10. ASSUME NEW t \in Threads, NEW m \in Nodes, EdgePush(t, m) PROVE Covered(n)'
  <2>1. /\ UNCHANGED <<ready_flags, ready_set, ready_signal, cur, did_work, finished, pc>>
        /\ inbox' = [inbox EXCEPT ![m] = @ + 1]
        /\ pushed' = [pushed EXCEPT ![t] = m] /\ pushed[t] = NoNode
    BY <1>10 DEF EdgePush
  <2>2. m # n
    BY <2>1 DEF Signalled, TypeOK
  <2>3. Signalled(n) /\ n \in ready_flags /\ n \in Nodes
    BY <2>1 DEF Signalled, TypeOK
  <2>4. inbox[n] > 0
    BY <2>1, <2>2, <2>3 DEF TypeOK
  <2> QED BY <2>1, <2>3, <2>4, CoveredFrame
<1>11. CASE StopStore \/ StopNotify \/ Tick \/ UNCHANGED vars
              \/ \E m \in Nodes, t \in Instants : WakeAt(m, t)
  <2>1. /\ UNCHANGED <<ready_flags, ready_set, ready_signal, cur, did_work, finished,
                       inbox, pushed>>
        /\ pc' = pc \/ (pc = "waiting" /\ pc' = "acquire")
    BY <1>11 DEF StopStore, StopNotify, Tick, WakeAt, Notify
  <2>2. inbox[n] > 0 /\ Signalled(n) /\ n \in ready_flags
    BY <2>1 DEF Signalled
  <2> QED BY <2>1, <2>2, CoveredFrame
<1> QED
  BY <1>1, <1>2, <1>3, <1>4, <1>5, <1>6, <1>7, <1>8, <1>9, <1>10, <1>11
     DEF Next, Select, Settle, Environment

(* No signal is lost: input whose producer has signalled keeps its node      *)
(* queued, executing or about to be requeued, whatever the interleaving.     *)
THEOREM ReadinessNeverLost == Spec => []NoLostReadiness
<1>1. Init => NoLostReadiness
  BY DEF Init, NoLostReadiness
<1>2. TypeOK /\ NoNodeLost /\ NoLostReadiness /\ [Next]_vars => NoLostReadiness'
  BY NoLostReadinessStep
<1> QED BY <1>1, <1>2, TypeCorrect, NodesAccountedFor, PTL DEF Spec

-----------------------------------------------------------------------------
(* Every step keeps the condvar wait justified.                              *)
LEMMA WaitIsSoundStep ==
    TypeOK /\ ArmedTimerBacked /\ WaitIsSound /\ [Next]_vars => WaitIsSound'
<1> SUFFICES ASSUME TypeOK, ArmedTimerBacked, WaitIsSound, [Next]_vars,
                    pc' \in {"prewait", "waiting"}
             PROVE  WaitIsSound'
  BY DEF WaitIsSound
<1> USE DEF vars, registry, queue, heap
<1>1. ASSUME UNCHANGED <<ready_queue, timer_latest_by_node, wait_until>>,
             pc \in {"prewait", "waiting"}
      PROVE  WaitIsSound'
  BY <1>1 DEF WaitIsSound
<1>2. CASE Setup \/ BeginActivation \/ ProcessReturns \/ ProcessOverrun
           \/ InsideProcess \/ Settle
  <2>1. pc' \notin {"prewait", "waiting"}
    BY <1>2, SignalReadyType DEF Setup, AddNode, AddComponent, InitialSignal, Spawn,
       BeginActivation, ProcessReturns, ProcessDidWork, ProcessNoWork, ProcessFinished,
       ProcessOverrun, InsideProcess, ContextSignalReady, ContextTakeTimerFired,
       ContextWakeAt, Processing, Settle, Retire, PutBack, EndActivation
  <2> QED BY <2>1
<1>3. ASSUME NEW e \in timers, CheckTimer(e) PROVE WaitIsSound'
  <2>1. /\ ready_queue' = <<>> /\ wait_until' = e.when
        /\ UNCHANGED timer_latest_by_node
        /\ \A f \in timers : e.when <= f.when
    BY <1>3 DEF CheckTimer, HeapTop
  <2>2. e.when # NoTime
    BY DEF TypeOK, TimerWake, Instants, NoTime
  <2>3. ASSUME NEW n \in Nodes, timer_latest_by_node[n] # NoTime
        PROVE  e.when <= timer_latest_by_node[n]
    <3>1. [when |-> timer_latest_by_node[n], node |-> n] \in timers
      BY <2>3 DEF ArmedTimerBacked
    <3> QED BY <2>1, <3>1
  <2> QED BY <2>1, <2>2, <2>3 DEF WaitIsSound
<1>4. CASE CheckIdle
  BY <1>4 DEF CheckIdle, WaitIsSound, ArmedTimerBacked
<1>5. CASE WaitEnter
  BY <1>1, <1>5 DEF WaitEnter
<1>6. CASE Acquire \/ DrainDone \/ CheckReady \/ WaitTimeout \/ PopExit \/ PopNode
           \/ SpuriousWake \/ \E e \in timers : DrainDiscard(e) \/ DrainFire(e)
  BY <1>6 DEF Acquire, DrainDone, CheckReady, WaitTimeout, PopExit, PopNode,
     SpuriousWake, DrainDiscard, DrainFire
<1>7. ASSUME NEW t \in Threads, EdgeSignal(t) PROVE WaitIsSound'
  <2>1. /\ pc = "waiting" /\ pc' = pc
        /\ UNCHANGED <<timer_latest_by_node, wait_until>>
        /\ SignalReady(pushed[t])
    BY <1>7, SignalReadyType DEF EdgeSignal, LockFree, LockedPCs, TypeOK
  <2>2. UNCHANGED ready_queue
    <3>1. ~Notify
      BY <2>1 DEF Notify
    <3> QED BY <2>1, <3>1 DEF SignalReady
  <2> QED BY <1>1, <2>1, <2>2
<1>8. ASSUME NEW n \in Nodes, NEW t \in Instants, WakeAt(n, t) PROVE WaitIsSound'
  BY <1>8 DEF WakeAt, Notify, LockFree, LockedPCs
<1>9. CASE StopStore \/ StopNotify \/ Tick \/ UNCHANGED vars
           \/ \E t \in Threads, n \in Nodes : EdgePush(t, n)
  BY <1>1, <1>9 DEF StopStore, StopNotify, Tick, EdgePush, Notify
<1> QED
  BY <1>2, <1>3, <1>4, <1>5, <1>6, <1>7, <1>8, <1>9 DEF Next, Select, Environment

(* The run thread never sleeps past ready nodes or due timers.               *)
THEOREM WaitsOnlyWhenIdle == Spec => []WaitIsSound
<1>1. Init => WaitIsSound
  BY DEF Init, WaitIsSound
<1>2. TypeOK /\ ArmedTimerBacked /\ WaitIsSound /\ [Next]_vars => WaitIsSound'
  BY WaitIsSoundStep
<1> QED BY <1>1, <1>2, TypeCorrect, TimersBacked, PTL DEF Spec

-----------------------------------------------------------------------------
(* The strengthening of ActivationBounded: calls made and budget left never  *)
(* exceed the budget class together, and budget is left between calls.       *)
BudgetInv ==
    /\ pc = "process" => remaining > 0 /\ calls + remaining <= Budget[cur]
    /\ pc \in {"settle", "dead"} => calls <= Budget[cur]

(* Every step keeps calls within the budget.                                 *)
LEMMA BudgetStep == TypeOK /\ NoNodeLost /\ BudgetInv /\ [Next]_vars => BudgetInv'
<1> SUFFICES ASSUME TypeOK, NoNodeLost, BudgetInv, [Next]_vars PROVE BudgetInv'
  OBVIOUS
<1> USE DEF vars, activation
<1>1. CASE pc' \notin {"process", "settle", "dead"}
  BY <1>1 DEF BudgetInv
<1>2. CASE pc' = pc /\ UNCHANGED <<cur, remaining, calls>>
  BY <1>2 DEF BudgetInv
<1>3. CASE BeginActivation
  <2>1. cur \in Nodes /\ Budget[cur] \in Nat \ {0}
    BY <1>3, BudgetAssumption DEF BeginActivation, NoNodeLost, TypeOK
  <2> QED BY <1>3, <2>1 DEF BeginActivation, BudgetInv
<1>4. ASSUME NEW units \in 0..Budget[cur], NEW left \in 0..Budget[cur],
             NEW taken \in 0..Cap, ProcessDidWork(units, left, taken)
      PROVE  BudgetInv'
  <2>1. cur \in Nodes /\ Budget[cur] \in Nat /\ pc = "process"
    BY <1>4, BudgetAssumption DEF ProcessDidWork, Processing, NoNodeLost, TypeOK
  <2>2. units \in Nat /\ left \in Nat /\ remaining \in Nat /\ calls \in Nat
    BY <2>1 DEF TypeOK
  <2>3. remaining > 0 /\ calls + remaining <= Budget[cur]
    BY <2>1 DEF BudgetInv
  <2>4. BudgetAfter(units, left) \in Nat /\ BudgetAfter(units, left) < remaining
    BY <2>2, <2>3, BudgetAfterType
  <2>5. /\ remaining' = BudgetAfter(units, left) /\ calls' = calls + 1 /\ cur' = cur
        /\ pc' = IF remaining' = 0 THEN "settle" ELSE "process"
    BY <1>4 DEF ProcessDidWork
  <2> QED BY <2>1, <2>2, <2>3, <2>4, <2>5 DEF BudgetInv
<1>5. CASE ProcessNoWork \/ ProcessOverrun \/ \E panic \in BOOLEAN : ProcessFinished(panic)
  <2>1. /\ pc = "process" /\ pc' \in {"settle", "dead"} /\ calls' = calls + 1
        /\ cur' = cur
    BY <1>5 DEF ProcessNoWork, ProcessFinished, ProcessOverrun, Processing
  <2>2. cur \in Nodes /\ Budget[cur] \in Nat /\ calls \in Nat /\ remaining \in Nat
    BY <2>1, BudgetAssumption DEF NoNodeLost, TypeOK
  <2> QED BY <2>1, <2>2 DEF BudgetInv
<1>6. CASE Setup \/ Select \/ InsideProcess \/ Settle
  <2>1. \/ pc' \notin {"process", "settle", "dead"}
        \/ pc' = pc /\ UNCHANGED <<cur, remaining, calls>>
    BY <1>6, SignalReadyType DEF Setup, AddNode, AddComponent, InitialSignal, Spawn,
       Select, Acquire, DrainDone, CheckReady, CheckIdle, WaitEnter, WaitTimeout,
       PopExit, PopNode, DrainDiscard, DrainFire, CheckTimer, InsideProcess,
       ContextSignalReady, ContextTakeTimerFired, ContextWakeAt,
       Settle, Retire, PutBack, EndActivation
  <2> QED BY <1>1, <1>2, <2>1
<1>7. CASE Environment \/ UNCHANGED vars
  <2>1. \/ pc' \notin {"process", "settle", "dead"}
        \/ pc' = pc /\ UNCHANGED <<cur, remaining, calls>>
    <3>1. ASSUME NEW t \in Threads, EdgeSignal(t)
          PROVE  \/ pc' \notin {"process", "settle", "dead"}
                 \/ pc' = pc /\ UNCHANGED <<cur, remaining, calls>>
      BY <3>1, SignalReadyType DEF EdgeSignal, TypeOK
    <3> QED BY <1>7, <3>1 DEF Environment, EdgePush, WakeAt, StopStore, StopNotify,
            SpuriousWake, Tick, Notify
  <2> QED BY <1>1, <1>2, <2>1
<1> QED BY <1>3, <1>4, <1>5, <1>6, <1>7 DEF Next, ProcessReturns

(* An activation never calls process() more often than its budget class      *)
(* says, for any units a component reports and any budget it leaves.         *)
THEOREM ActivationsBounded == Spec => []ActivationBounded
<1>1. Init => BudgetInv
  BY DEF Init, BudgetInv
<1>2. TypeOK /\ NoNodeLost /\ BudgetInv /\ [Next]_vars => BudgetInv'
  BY BudgetStep
<1>3. TypeOK /\ NoNodeLost /\ BudgetInv => ActivationBounded
  <2> SUFFICES ASSUME TypeOK, NoNodeLost, BudgetInv, cur # NoNode, pc # "begin"
               PROVE  calls <= Budget[cur]
    BY DEF ActivationBounded
  <2>1. pc \in {"process", "settle", "dead"}
    BY DEF NoNodeLost
  <2>2. Budget[cur] \in Nat /\ calls \in Nat /\ remaining \in Nat
    BY BudgetAssumption DEF TypeOK
  <2> QED BY <2>1, <2>2 DEF BudgetInv
<1> QED BY <1>1, <1>2, <1>3, TypeCorrect, NodesAccountedFor, PTL DEF Spec

------------------------------------------------------------------------------
(* The refinement, and the timers.                                           *)

(* The life cycle state of one node, read off the scheduler.                 *)
StatusOf(n) ==
    IF n \notin ready_flags THEN (IF pc = "setup" THEN "absent" ELSE "retired")
    ELSE IF cur = n THEN (IF n \in ready_set THEN "rerun" ELSE "running")
    ELSE (IF n \in ready_set THEN "queued" ELSE "idle")

(* The refinement mapping is StatusOf, in both states of a step.             *)
LEMMA StatusValue ==
    /\ Status = [n \in Nodes |-> StatusOf(n)]
    /\ Status' = [n \in Nodes |-> StatusOf(n)']
BY DEF Status, StatusOf

(* A step that changes the state of one node is a move of that node.         *)
LEMMA OneMoves ==
    ASSUME NEW n \in Nodes, NEW to, StatusOf(n)' = to,
           \A m \in Nodes : m # n => StatusOf(m)' = StatusOf(m)
    PROVE  Lifecycle!Move(n, to)
<1> HIDE DEF StatusOf
<1> QED BY StatusValue DEF Lifecycle!Move

(* A step that leaves the registered nodes, the taken node and the ready set  *)
(* alone, and neither enters nor leaves the setup, is invisible.             *)
LEMMA NobodyMoves ==
    ASSUME UNCHANGED <<ready_flags, cur, ready_set>>, pc = "setup" <=> pc' = "setup"
    PROVE  UNCHANGED Status
<1>1. \A n \in Nodes : StatusOf(n)' = StatusOf(n)
  BY DEF StatusOf
<1> HIDE DEF StatusOf
<1> QED BY <1>1, StatusValue

(* Queueing a registered node is a Signal of the life cycle, or nothing.     *)
LEMMA QueueingIsSignal ==
    ASSUME NEW n \in Nodes, n \in ready_flags, UNCHANGED <<ready_flags, cur>>,
           ready_set' = ready_set \cup {n}, pc = "setup" <=> pc' = "setup"
    PROVE  Lifecycle!Next \/ UNCHANGED Status
<1>1. CASE n \in ready_set
  BY <1>1, NobodyMoves
<1>2. CASE n \notin ready_set
  <2>1. \A m \in Nodes : m # n => StatusOf(m)' = StatusOf(m)
    BY DEF StatusOf
  <2>2. \/ StatusOf(n) = "idle" /\ StatusOf(n)' = "queued"
        \/ StatusOf(n) = "running" /\ StatusOf(n)' = "rerun"
    BY <1>2 DEF StatusOf
  <2>3. Status[n] = StatusOf(n)
    BY StatusValue
  <2> QED BY <2>1, <2>2, <2>3, OneMoves DEF Lifecycle!Next, Lifecycle!Signal
<1> QED BY <1>1, <1>2

(* signal_ready is a Signal of the life cycle, or nothing.                    *)
LEMMA SignalReadySignals ==
    ASSUME TypeOK, NEW n \in Nodes, SignalReady(n), UNCHANGED <<ready_flags, cur>>
    PROVE  Lifecycle!Next \/ UNCHANGED Status
<1>1. pc = "setup" <=> pc' = "setup"
  BY SignalReadyType
<1>2. CASE n \in ready_flags
  <2>1. ready_set' = ready_set \cup {n}
    BY <1>2 DEF SignalReady, Enqueue, queue
  <2> QED BY <1>1, <1>2, <2>1, QueueingIsSignal
<1>3. CASE n \notin ready_flags
  BY <1>1, <1>3, NobodyMoves DEF SignalReady, queue
<1> QED BY <1>2, <1>3

(* Every step of the scheduler is a step of the life cycle or leaves it alone. *)
LEMMA LifecycleStep ==
    TypeOK /\ NoNodeLost /\ ArmedTimerBacked /\ ReadyQueueConsistent /\ [Next]_vars
        => [Lifecycle!Next]_Status
<1> SUFFICES ASSUME TypeOK, NoNodeLost, ArmedTimerBacked, ReadyQueueConsistent, [Next]_vars
             PROVE  Lifecycle!Next \/ UNCHANGED Status
  OBVIOUS
<1> USE DEF vars, registry, queue, activation
<1>0. \A n \in Nodes : Status[n] = StatusOf(n)
  BY StatusValue
<1>1. ASSUME NEW n \in Nodes, AddNode(n) PROVE Lifecycle!Next
  <2>1. n \notin ready_set /\ cur = NoNode
    BY <1>1 DEF AddNode, ReadyQueueConsistent, NoNodeLost
  <2>2. StatusOf(n) = "absent" /\ StatusOf(n)' = "idle"
        /\ \A m \in Nodes : m # n => StatusOf(m)' = StatusOf(m)
    BY <1>1, <2>1, SentinelAssumption DEF AddNode, StatusOf
  <2> QED BY <1>0, <2>2, OneMoves DEF Lifecycle!Next, Lifecycle!Register
<1>2. ASSUME NEW n \in Nodes, AddComponent(n) PROVE UNCHANGED Status
  BY <1>2, NobodyMoves DEF AddComponent
<1>3. ASSUME NEW n \in Nodes, InitialSignal(n) PROVE Lifecycle!Next \/ UNCHANGED Status
  BY <1>3, SignalReadySignals DEF InitialSignal
<1>4. CASE Spawn
  <2>1. \A n \in Nodes : n \in ready_flags
    BY <1>4 DEF Spawn, NoNodeLost
  <2>2. \A n \in Nodes : StatusOf(n)' = StatusOf(n)
    BY <1>4, <2>1 DEF Spawn, StatusOf
  <2> HIDE DEF StatusOf
  <2> QED BY <2>2, StatusValue
<1>5. CASE Acquire \/ DrainDone \/ CheckReady \/ CheckIdle \/ WaitEnter \/ WaitTimeout
           \/ PopExit \/ SpuriousWake
  BY <1>5, NobodyMoves DEF Acquire, DrainDone, CheckReady, CheckIdle, WaitEnter, WaitTimeout,
     PopExit, SpuriousWake
<1>6. ASSUME NEW e \in timers, DrainDiscard(e) \/ CheckTimer(e) PROVE UNCHANGED Status
  BY <1>6, NobodyMoves DEF DrainDiscard, CheckTimer
<1>7. ASSUME NEW e \in timers, DrainFire(e) PROVE Lifecycle!Next \/ UNCHANGED Status
  <2>1. e.node \in Nodes /\ e.when # NoTime
    BY DEF TypeOK, TimerWake, Instants, NoTime
  <2>2. e.node \in ready_flags
    BY <1>7, <2>1 DEF DrainFire, Due, Valid, ArmedTimerBacked
  <2>3. ready_set' = ready_set \cup {e.node} /\ UNCHANGED <<ready_flags, cur, pc>>
    BY <1>7 DEF DrainFire
  <2> QED BY <2>1, <2>2, <2>3, QueueingIsSignal
<1>8. CASE PopNode
  <2>0. PICK n \in Nodes : n = Head(ready_queue)
    BY <1>8 DEF PopNode, TypeOK
  <2>1. n \in ready_flags
    BY <1>8, <2>0 DEF PopNode, NoNodeLost
  <2>2. n \in ready_set
    <3>1. ready_queue \in Seq(Nodes) /\ ready_queue # <<>>
      BY <1>8 DEF PopNode, TypeOK
    <3>2. n = ready_queue[1] /\ 1 \in 1..Len(ready_queue)
      BY <2>0, <3>1
    <3> QED BY <3>2 DEF ReadyQueueConsistent
  <2>3. cur = NoNode /\ cur' = n /\ ready_set' = ready_set \ {n}
        /\ UNCHANGED ready_flags /\ pc = "pop" /\ pc' = "begin"
    BY <1>8, <2>0 DEF PopNode, NoNodeLost
  <2>4. StatusOf(n) = "queued" /\ StatusOf(n)' = "running"
        /\ \A m \in Nodes : m # n => StatusOf(m)' = StatusOf(m)
    BY <2>1, <2>2, <2>3, SentinelAssumption DEF StatusOf
  <2>5. Lifecycle!Active = {}
    <3>1. \A m \in Nodes : Status[m] \notin {"running", "rerun"}
      BY <1>0, <2>3, SentinelAssumption DEF StatusOf
    <3> QED BY <3>1 DEF Lifecycle!Active
  <2> QED BY <1>0, <2>4, <2>5, OneMoves DEF Lifecycle!Next, Lifecycle!Activate
<1>9. CASE BeginActivation \/ ProcessReturns \/ ProcessOverrun \/ InsideProcess
  BY <1>9, NobodyMoves DEF BeginActivation, ProcessReturns, ProcessDidWork, ProcessNoWork,
     ProcessFinished, ProcessOverrun, InsideProcess, Processing, ContextSignalReady,
     ContextTakeTimerFired, ContextWakeAt
<1>10. CASE Retire
  <2>1. cur \in Nodes /\ cur \in ready_flags
    BY <1>10 DEF Retire, NoNodeLost, TypeOK
  <2>2. /\ ready_flags' = ready_flags \ {cur} /\ ready_set' = ready_set \ {cur}
        /\ cur' = NoNode /\ pc = "settle" /\ pc' = "acquire"
    BY <1>10 DEF Retire, EndActivation
  <2>3. StatusOf(cur) \in {"running", "rerun"}
    BY <2>1 DEF StatusOf
  <2>4. \A m \in Nodes : IF m = cur THEN StatusOf(m)' = "retired" ELSE StatusOf(m)' = StatusOf(m)
    BY <2>1, <2>2, SentinelAssumption DEF StatusOf
  <2>5. PICK n \in Nodes : n = cur
    BY <2>1
  <2>6. StatusOf(n) \in {"running", "rerun"} /\ StatusOf(n)' = "retired"
        /\ \A m \in Nodes : m # n => StatusOf(m)' = StatusOf(m)
    BY <2>3, <2>4, <2>5
  <2> QED BY <1>0, <2>6, OneMoves DEF Lifecycle!Next, Lifecycle!Retire
<1>11. CASE PutBack
  <2>1. cur \in Nodes /\ cur \in ready_flags
    BY <1>11 DEF PutBack, NoNodeLost, TypeOK
  <2>2. /\ UNCHANGED ready_flags
        /\ ready_set' \in {ready_set, ready_set \cup {cur}}
        /\ cur' = NoNode /\ pc = "settle" /\ pc' = "acquire"
    BY <1>11 DEF PutBack, EndActivation, Enqueue
  <2>3. PICK n \in Nodes : n = cur
    BY <2>1
  <2>4. \A m \in Nodes : m # n => StatusOf(m)' = StatusOf(m)
    BY <2>1, <2>2, <2>3, SentinelAssumption DEF StatusOf
  <2>5. \/ StatusOf(n) = "running" /\ StatusOf(n)' = "idle"
        \/ StatusOf(n) \in {"running", "rerun"} /\ StatusOf(n)' = "queued"
    BY <2>1, <2>2, <2>3, SentinelAssumption DEF StatusOf
  <2> QED BY <1>0, <2>4, <2>5, OneMoves DEF Lifecycle!Next, Lifecycle!Yield
<1>12. ASSUME NEW t \in Threads, EdgeSignal(t) PROVE Lifecycle!Next \/ UNCHANGED Status
  BY <1>12, SignalReadySignals DEF EdgeSignal, TypeOK
<1>13. ASSUME NEW t \in Threads, NEW n \in Nodes, EdgePush(t, n) PROVE UNCHANGED Status
  BY <1>13, NobodyMoves DEF EdgePush
<1>14. ASSUME NEW n \in Nodes, NEW t \in Instants, WakeAt(n, t) PROVE UNCHANGED Status
  BY <1>14, NobodyMoves DEF WakeAt, Notify
<1>15. CASE StopStore \/ StopNotify \/ Tick \/ UNCHANGED vars
  BY <1>15, NobodyMoves DEF StopStore, StopNotify, Tick, Notify
<1> QED
  BY <1>1, <1>2, <1>3, <1>4, <1>5, <1>6, <1>7, <1>8, <1>9, <1>10, <1>11, <1>12, <1>13,
     <1>14, <1>15
     DEF Next, Setup, Select, Settle, Environment

(* The scheduler implements the node life cycle: one node runs at a time, a   *)
(* signal to a running node makes it run again, and a finished node never     *)
(* comes back, through pop, timers, requeueing and retirement.                *)
THEOREM ImplementsLifecycle == Spec => RefinesNodeLifecycle
<1>1. Init => Lifecycle!Init
  BY DEF Init, Lifecycle!Init, Status
<1>2. TypeOK /\ NoNodeLost /\ ArmedTimerBacked /\ ReadyQueueConsistent /\ [Next]_vars
        => [Lifecycle!Next]_Status
  BY LifecycleStep
<1> QED BY <1>1, <1>2, TypeCorrect, NodesAccountedFor, TimersBacked, QueueAndSetAgree, PTL
        DEF Spec, RefinesNodeLifecycle, Lifecycle!Spec

-----------------------------------------------------------------------------
(* What a step may do to an armed timer.                                     *)
ConsumedWhenDue ==
    \A n \in Nodes :
        LET armed == timer_latest_by_node[n] IN
        armed # NoTime /\ timer_latest_by_node'[n] = NoTime =>
            \/ armed <= now /\ n \in ready_set' /\ timer_fired'[n] = armed
            \/ n \notin ready_flags'

(* Arming a timer never clears one.                                          *)
LEMMA ArmingClearsNothing ==
    ASSUME TypeOK, NEW n \in Nodes, NEW t, t # NoTime, ArmTimer(n, t)
    PROVE  \A m \in Nodes : timer_latest_by_node[m] # NoTime => timer_latest_by_node'[m] # NoTime
BY DEF TypeOK, ArmTimer

(* Of all steps only a firing and a retirement clear a timer.                 *)
LEMMA ConsumedStep ==
    TypeOK /\ NoNodeLost /\ ArmedTimerBacked /\ [Next]_vars => ConsumedWhenDue
<1> SUFFICES ASSUME TypeOK, NoNodeLost, ArmedTimerBacked, [Next]_vars PROVE ConsumedWhenDue
  OBVIOUS
<1> USE DEF vars, heap
<1>1. CASE UNCHANGED timer_latest_by_node
  BY <1>1 DEF ConsumedWhenDue
<1>2. ASSUME NEW e \in timers, DrainFire(e) PROVE ConsumedWhenDue
  <2>1. e.node \in Nodes /\ e.when # NoTime
    BY DEF TypeOK, TimerWake, Instants, NoTime
  <2>2. e.node \in ready_flags
    BY <1>2, <2>1 DEF DrainFire, Due, Valid, ArmedTimerBacked
  <2>3. e.node \in nodes
    BY <1>2, <2>2, SentinelAssumption DEF DrainFire, NoNodeLost
  <2>4. timer_fired'[e.node] = e.when /\ e.node \in ready_set'
        /\ timer_latest_by_node[e.node] = e.when /\ e.when <= now
    BY <1>2, <2>1, <2>3 DEF DrainFire, Due, Valid, TypeOK
  <2>5. \A n \in Nodes : n # e.node => timer_latest_by_node'[n] = timer_latest_by_node[n]
    BY <1>2 DEF DrainFire, TypeOK
  <2> QED BY <2>4, <2>5 DEF ConsumedWhenDue
<1>3. CASE Retire
  <2>1. cur \notin ready_flags'
        /\ \A n \in Nodes : n # cur => timer_latest_by_node'[n] = timer_latest_by_node[n]
    BY <1>3 DEF Retire, TypeOK
  <2> QED BY <2>1 DEF ConsumedWhenDue
<1>4. CASE PutBack
  <2>1. CASE wake_req = NoTime
    BY <1>1, <1>4, <2>1 DEF PutBack
  <2>2. CASE wake_req # NoTime
    <3>1. cur \in Nodes
      BY <1>4 DEF PutBack, NoNodeLost, TypeOK
    <3> QED BY <1>4, <2>2, <3>1, ArmingClearsNothing DEF PutBack, ConsumedWhenDue
  <2> QED BY <2>1, <2>2
<1>5. ASSUME NEW n \in Nodes, NEW t \in Instants, WakeAt(n, t) PROVE ConsumedWhenDue
  <2>1. t # NoTime
    BY DEF Instants, NoTime
  <2> QED BY <1>5, <2>1, ArmingClearsNothing DEF WakeAt, ConsumedWhenDue
<1>6. CASE Setup \/ BeginActivation \/ ProcessReturns \/ ProcessOverrun \/ InsideProcess
  <2>1. UNCHANGED timer_latest_by_node
    BY <1>6 DEF Setup, AddNode, AddComponent, InitialSignal, Spawn, BeginActivation,
       ProcessReturns, ProcessDidWork, ProcessNoWork, ProcessFinished, ProcessOverrun,
       InsideProcess, ContextSignalReady, ContextTakeTimerFired, ContextWakeAt
  <2> QED BY <1>1, <2>1
<1>7. CASE Select /\ ~ \E e \in timers : DrainFire(e)
  <2>1. UNCHANGED timer_latest_by_node
    BY <1>7 DEF Select, Acquire, DrainDone, CheckReady, CheckIdle, WaitEnter, WaitTimeout,
       PopExit, PopNode, DrainDiscard, CheckTimer
  <2> QED BY <1>1, <2>1
<1>8. CASE Environment /\ ~ \E n \in Nodes, t \in Instants : WakeAt(n, t)
  <2>1. UNCHANGED timer_latest_by_node
    BY <1>8 DEF Environment, EdgeSignal, EdgePush, StopStore, StopNotify, SpuriousWake, Tick
  <2> QED BY <1>1, <2>1
<1> QED BY <1>1, <1>2, <1>3, <1>4, <1>5, <1>6, <1>7, <1>8 DEF Next, Settle

(* A pending timer goes away only by firing at or after its deadline with its  *)
(* node queued and told, or with its node.                                    *)
THEOREM TimersConsumedWhenDue == Spec => TimerConsumedOnlyWhenDue
<1>1. TypeOK /\ NoNodeLost /\ ArmedTimerBacked /\ [Next]_vars =>
        [\A n \in Nodes :
            LET armed == timer_latest_by_node[n] IN
            armed # NoTime /\ timer_latest_by_node'[n] = NoTime =>
                \/ armed <= now /\ n \in ready_set' /\ timer_fired'[n] = armed
                \/ n \notin ready_flags']_vars
  BY ConsumedStep DEF ConsumedWhenDue
<1> QED BY <1>1, TypeCorrect, NodesAccountedFor, TimersBacked, PTL
        DEF Spec, TimerConsumedOnlyWhenDue
==============================================================================
