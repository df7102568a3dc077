---------------------------- MODULE NetworkProofs ----------------------------
(****************************************************************************)
(* Proofs about Network, for every set of graphs and clients and any number  *)
(* of starts.  The invariants are proved in layers, each one using the       *)
(* layers before it.                                                        *)
(****************************************************************************)
EXTENDS Network, TLAPS

(* Overwriting one entry of a function stays within its function set.        *)
LEMMA ExceptType ==
    ASSUME NEW S, NEW T, NEW f \in [S -> T], NEW x, NEW v \in T
    PROVE  [f EXCEPT ![x] = v] \in [S -> T]
OBVIOUS

(* A handler that has begun a network:stop remembers the graph it names.      *)
StopNamesGraph ==
    \A c \in Clients :
        client[c].at \in {"stop", "ack_running", "ack_stopped"} => client[c].graph \in Graphs

(* The state Runtime::new leaves is well typed.                              *)
LEMMA InitType == Init => TypeOK /\ StopNamesGraph
<1> SUFFICES ASSUME Init PROVE TypeOK /\ StopNamesGraph
  OBVIOUS
<1> USE GraphAssumption, NetworkBounds
    DEF Init, Gens, None, NoStop, ThreadStates, StopPCs, ClientPCs
<1>1. /\ rt_graph \in Graphs
      /\ status \in [graph : Graphs, started : BOOLEAN, running : BOOLEAN]
      /\ schedulers \in [Graphs -> Gens \cup {None}]
      /\ scheduler_threads \in [Graphs -> Gens \cup {None}]
      /\ boundary_threads \in [Graphs -> Gens \cup {None}]
      /\ watchdog_thread \in Gens \cup {None} /\ watchdog_channel \in Gens \cup {None}
  OBVIOUS
<1>2. /\ starts \in Gens \cup {0} /\ graph_of \in [Gens -> Graphs \cup {NoGraph}]
      /\ sched \in [Gens -> ThreadStates] /\ out_thread \in [Gens -> ThreadStates]
      /\ dog \in [Gens -> {"none", "check", "look_ok", "look_lost", "trywrite", "stopping",
                           "report", "finished"}]
      /\ dog_stop \in [Gens -> BOOLEAN] /\ dog_watches \in [Gens -> BOOLEAN]
      /\ async_stops \in [Gens -> 0..MaxAsync]
  OBVIOUS
<1>3. /\ client \in [Clients -> [at : ClientPCs, graph : Graphs \cup {NoGraph}]]
      /\ StopNamesGraph
  BY DEF StopNamesGraph
<1>4. /\ stopping \in [by : {"nobody", "async", "dog", "main"}, gen : Gens \cup {None},
                       at : StopPCs, late : BOOLEAN]
      /\ writer_waits \in BOOLEAN /\ main \in {"serving", "stop", "stopping", "exited"}
  OBVIOUS
<1> QED BY <1>1, <1>2, <1>3, <1>4 DEF TypeOK

(* The answer to network:stop writes the graph the handler remembered.       *)
LEMMA MarkStoppedType ==
    ASSUME TypeOK, StopNamesGraph, NEW c \in Clients, client[c].graph \in Graphs,
           NEW next \in {"idle", "acked"}, MarkStopped(c, next)
    PROVE  /\ status' \in [graph : Graphs, started : BOOLEAN, running : BOOLEAN]
           /\ client' \in [Clients -> [at : ClientPCs, graph : Graphs \cup {NoGraph}]]
           /\ StopNamesGraph'
           /\ UNCHANGED <<rt_graph, schedulers, scheduler_threads, boundary_threads,
                          watchdog_thread, watchdog_channel>>
<1>1. status' \in [graph : Graphs, started : BOOLEAN, running : BOOLEAN]
  BY DEF MarkStopped
<1>2. /\ client' \in [Clients -> [at : ClientPCs, graph : Graphs \cup {NoGraph}]]
      /\ StopNamesGraph'
  BY DEF MarkStopped, Goto, TypeOK, StopNamesGraph, ClientPCs
<1> QED BY <1>1, <1>2 DEF MarkStopped

(* Both answers to a network:stop keep the types.                             *)
LEMMA AckType ==
    ASSUME TypeOK, StopNamesGraph, NEW c \in Clients, AckStopped(c) \/ AckRunning(c)
    PROVE  TypeOK' /\ StopNamesGraph'
<1>1. client[c].graph \in Graphs
  BY DEF AckStopped, AckRunning, At, StopNamesGraph
<1>2. PICK next \in {"idle", "acked"} : MarkStopped(c, next)
  BY DEF AckStopped, AckRunning
<1>3. UNCHANGED <<history, sched, out_thread, dogs, async_stops, stopping, main, writer_waits>>
  BY DEF AckStopped, AckRunning
<1> QED BY <1>1, <1>2, <1>3, MarkStoppedType DEF TypeOK, history, dogs

(* So does the spawn of the teardown thread.                                  *)
LEMMA SpawnTeardownType ==
    ASSUME TypeOK, StopNamesGraph, NEW c \in Clients, SpawnTeardown(c)
    PROVE  TypeOK' /\ StopNamesGraph'
<1>1. UNCHANGED <<fields, history, sched, out_thread, dogs, stopping, main, writer_waits>>
  BY DEF SpawnTeardown
<1>2. async_stops' \in [Gens -> 0..MaxAsync]
  <2>1. starts \in Gens => async_stops[starts] + 1 \in 0..MaxAsync
    BY NetworkBounds DEF SpawnTeardown, TypeOK, Gens
  <2>2. async_stops' = [async_stops EXCEPT ![starts] = async_stops[starts] + 1]
        /\ async_stops \in [Gens -> 0..MaxAsync]
    BY DEF SpawnTeardown, TypeOK
  <2> QED BY <2>1, <2>2
<1>3. /\ client' \in [Clients -> [at : ClientPCs, graph : Graphs \cup {NoGraph}]]
      /\ StopNamesGraph'
  BY DEF SpawnTeardown, Goto, TypeOK, StopNamesGraph, ClientPCs
<1> QED BY <1>1, <1>2, <1>3 DEF TypeOK, fields, history, dogs

(* Every step of a handler, a thread or a stop() keeps the types.            *)
LEMMA TypeStep == TypeOK /\ StopNamesGraph /\ [Next]_vars => TypeOK' /\ StopNamesGraph'
<1> SUFFICES ASSUME TypeOK, StopNamesGraph, [Next]_vars PROVE TypeOK' /\ StopNamesGraph'
  OBVIOUS
<1> USE GraphAssumption, NetworkBounds
    DEF TypeOK, StopNamesGraph, Gens, None, NoStop, ThreadStates, StopPCs, fields, dogs, history
<1>1. ASSUME NEW c \in Clients, NEW g \in Graphs, RefuseStart(c, g) PROVE TypeOK' /\ StopNamesGraph'
  BY <1>1 DEF RefuseStart
<1>2. ASSUME NEW c \in Clients, NEW g \in Graphs, FailStart(c, g) PROVE TypeOK' /\ StopNamesGraph'
  BY <1>2 DEF FailStart
<1>3. ASSUME NEW c \in Clients, NEW g \in Graphs, StartNetwork(c, g) PROVE TypeOK' /\ StopNamesGraph'
  <2> DEFINE k == starts + 1
  <2>1. k \in Gens
    BY <1>3 DEF StartNetwork
  <2>2. /\ out_thread' \in [Gens -> ThreadStates]
        /\ boundary_threads' \in [Graphs -> Gens \cup {None}]
    <3>1. CASE g \in WithOutports
      <4>1. /\ out_thread' = [out_thread EXCEPT ![k] = "running"]
            /\ boundary_threads' = [boundary_threads EXCEPT ![g] = k]
        BY <1>3, <3>1 DEF StartNetwork, SpawnOut
      <4> QED BY <2>1, <4>1
    <3>2. CASE g \notin WithOutports
      BY <1>3, <3>2 DEF StartNetwork, SpawnOut
    <3> QED BY <3>1, <3>2
  <2>3. /\ dog' \in [Gens -> {"none", "check", "look_ok", "look_lost", "trywrite", "stopping",
                              "report", "finished"}]
        /\ dog_watches' \in [Gens -> BOOLEAN]
        /\ watchdog_thread' \in Gens \cup {None} /\ watchdog_channel' \in Gens \cup {None}
    <3>1. (g \in WithOutports) \in BOOLEAN
      OBVIOUS
    <3>2. dog_watches' \in [Gens -> BOOLEAN]
      BY <1>3, <3>1, ExceptType DEF StartNetwork, SpawnWatchdog
    <3> QED BY <1>3, <2>1, <3>2 DEF StartNetwork, SpawnWatchdog
  <2>4. /\ schedulers' \in [Graphs -> Gens \cup {None}]
        /\ scheduler_threads' \in [Graphs -> Gens \cup {None}]
        /\ sched' \in [Gens -> ThreadStates]
    BY <1>3, <2>1 DEF StartNetwork, SpawnScheduler
  <2>5. /\ starts' \in Gens \cup {0} /\ graph_of' \in [Gens -> Graphs \cup {NoGraph}]
        /\ rt_graph' \in Graphs
        /\ status' \in [graph : Graphs, started : BOOLEAN, running : BOOLEAN]
        /\ UNCHANGED <<dog_stop, async_stops, stopping, main, writer_waits>>
    BY <1>3, <2>1 DEF StartNetwork
  <2>6. /\ client' \in [Clients -> [at : ClientPCs, graph : Graphs \cup {NoGraph}]]
        /\ StopNamesGraph'
    BY <1>3 DEF StartNetwork, Goto, ClientPCs
  <2> QED BY <2>2, <2>3, <2>4, <2>5, <2>6
<1>4. ASSUME NEW c \in Clients, NEW g \in Graphs, DebugMode(c, g) PROVE TypeOK' /\ StopNamesGraph'
  <2>1. /\ status' \in [graph : Graphs, started : BOOLEAN, running : BOOLEAN]
        /\ rt_graph' \in Graphs
    BY <1>4 DEF DebugMode
  <2>2. UNCHANGED <<schedulers, scheduler_threads, boundary_threads, watchdog_thread,
                    watchdog_channel, history, sched, out_thread, dogs, client,
                    async_stops, stopping, main, writer_waits>>
    BY <1>4 DEF DebugMode
  <2> QED BY <2>1, <2>2
<1>5. ASSUME NEW c \in Clients, NEW g \in Graphs, StopRequest(c, g) PROVE TypeOK' /\ StopNamesGraph'
  BY <1>5 DEF StopRequest, Goto, ClientPCs
<1>6. ASSUME NEW c \in Clients,
             ReadForSecret(c) \/ SecretRead(c) \/ NoPacket(c) \/ PacketWaits(c) \/ AckFails(c)
      PROVE  TypeOK' /\ StopNamesGraph'
  <2>1. \E at \in {"secret", "checked", "idle", "packet"} : Goto(c, at, NoGraph)
    BY <1>6 DEF ReadForSecret, SecretRead, NoPacket, PacketWaits, AckFails
  <2>2. /\ client' \in [Clients -> [at : ClientPCs, graph : Graphs \cup {NoGraph}]]
        /\ StopNamesGraph'
    BY <2>1 DEF Goto, ClientPCs
  <2>3. UNCHANGED <<fields, history, sched, out_thread, dogs, async_stops, stopping, main,
                    writer_waits>>
    BY <1>6 DEF ReadForSecret, SecretRead, NoPacket, PacketWaits, AckFails
  <2> QED BY <2>2, <2>3
<1>7. ASSUME NEW c \in Clients, ReportStarted(c) PROVE TypeOK' /\ StopNamesGraph'
  BY <1>7 DEF ReportStarted, Goto, ClientPCs
<1>8. ASSUME NEW c \in Clients, ReadUnlock(c) PROVE TypeOK' /\ StopNamesGraph'
  BY <1>8 DEF ReadUnlock, Goto, ClientPCs
<1>9. ASSUME NEW c \in Clients, StopReadsRunning(c) PROVE TypeOK' /\ StopNamesGraph'
  <2>1. /\ client' \in [Clients -> [at : ClientPCs, graph : Graphs \cup {NoGraph}]]
        /\ StopNamesGraph'
    <3>1. client[c].graph \in Graphs
      BY <1>9 DEF StopReadsRunning, At
    <3> QED BY <1>9, <3>1 DEF StopReadsRunning, Goto, ClientPCs
  <2> QED BY <1>9, <2>1 DEF StopReadsRunning
<1>10. ASSUME NEW c \in Clients, AckStopped(c) \/ AckRunning(c) PROVE TypeOK' /\ StopNamesGraph'
  BY <1>10, AckType
<1>11. ASSUME NEW c \in Clients, SpawnTeardown(c) PROVE TypeOK' /\ StopNamesGraph'
  BY <1>11, SpawnTeardownType
<1>12. ASSUME NEW k \in Gens, AsyncStop(k) PROVE TypeOK' /\ StopNamesGraph'
  BY <1>12 DEF AsyncStop
<1>13. ASSUME NEW k \in Gens, SchedulerEnds(k) PROVE TypeOK' /\ StopNamesGraph'
  BY <1>13 DEF SchedulerEnds
<1>14. ASSUME NEW k \in Gens, OutEnds(k) PROVE TypeOK' /\ StopNamesGraph'
  BY <1>14 DEF OutEnds
<1>15. ASSUME NEW k \in Gens, DogStops(k) \/ DogGivesUp(k) \/ DogReports(k) PROVE TypeOK' /\ StopNamesGraph'
  BY <1>15 DEF DogStops, DogGivesUp, DogReports, DogEnds, DogGoto
<1>16. ASSUME NEW k \in Gens, DogChecks(k) PROVE TypeOK' /\ StopNamesGraph'
  BY <1>16 DEF DogChecks, DogGoto
<1>17. ASSUME NEW k \in Gens, DogLooks(k) PROVE TypeOK' /\ StopNamesGraph'
  BY <1>17 DEF DogLooks, DogGoto
<1>18. ASSUME NEW k \in Gens, DogCallsStop(k) PROVE TypeOK' /\ StopNamesGraph'
  BY <1>18 DEF DogCallsStop, DogGoto
<1>19. CASE StopWatchdog
  BY <1>19 DEF StopWatchdog, StopGoto
<1>20. CASE StopBoundary
  BY <1>20 DEF StopBoundary, StopGoto, Told
<1>21. CASE StopSchedulers
  BY <1>21 DEF StopSchedulers, StopGoto, Told
<1>22. CASE JoinSchedulers
  BY <1>22 DEF JoinSchedulers, StopGoto, Keep
<1>23. CASE JoinBoundary
  BY <1>23 DEF JoinBoundary, Keep
<1>24. CASE JoinWatchdog
  <2>1. watchdog_thread' \in Gens \cup {None}
    BY <1>24 DEF JoinWatchdog
  <2>2. stopping' \in [by : {"nobody", "async", "dog", "main"}, gen : Gens \cup {None},
                       at : StopPCs, late : BOOLEAN]
    BY <1>24 DEF JoinWatchdog
  <2>3. UNCHANGED <<rt_graph, status, schedulers, scheduler_threads, boundary_threads,
                    watchdog_channel, history, sched, out_thread, dogs, client,
                    async_stops, main, writer_waits>>
    BY <1>24 DEF JoinWatchdog
  <2> QED BY <2>1, <2>2, <2>3
<1>25. CASE StopFinish
  BY <1>25 DEF StopFinish
<1>26. CASE MainChecks
  BY <1>26 DEF MainChecks
<1>27. CASE MainStops
  BY <1>27 DEF MainStops
<1>28. CASE WriterQueues \/ UNCHANGED vars
  BY <1>28 DEF WriterQueues, vars
<1> HIDE DEF TypeOK, StopNamesGraph, Gens, None, NoStop, ThreadStates, StopPCs, fields,
             dogs, history
<1> QED
  BY <1>1, <1>2, <1>3, <1>4, <1>5, <1>6, <1>7, <1>8, <1>9, <1>10, <1>11, <1>12, <1>13,
     <1>14, <1>15, <1>16, <1>17, <1>18, <1>19, <1>20, <1>21, <1>22, <1>23, <1>24, <1>25,
     <1>26, <1>27, <1>28
  DEF Next, Request, Continue, ThreadEnds, DogStep, StopStep

(* The fields of Runtime, the handlers and the threads keep their types.     *)
THEOREM TypeCorrect == Spec => []TypeOK
<1>1. Spec => [](TypeOK /\ StopNamesGraph)
  BY InitType, TypeStep, PTL DEF Spec
<1> QED BY <1>1, PTL

-----------------------------------------------------------------------------
(* What a handler does to the locks and its own place, and a writer that        *)
(* begins to wait, leaves the runtime's fields and the network's threads alone. *)
Locking(c) ==
    \/ ReportStarted(c) \/ ReadForSecret(c) \/ SecretRead(c) \/ NoPacket(c) \/ PacketWaits(c)
    \/ ReadUnlock(c) \/ StopReadsRunning(c) \/ SpawnTeardown(c) \/ AckFails(c) \/ WriterQueues

(* They touch nothing else.                                                 *)
LEMMA LockingFrame ==
    ASSUME NEW c, Locking(c)
    PROVE  UNCHANGED <<fields, history, sched, out_thread, dogs, stopping, main>>
BY DEF Locking, ReportStarted, ReadForSecret, SecretRead, NoPacket, PacketWaits, ReadUnlock,
   StopReadsRunning, SpawnTeardown, AckFails, WriterQueues

(* The write lock: stop() holds it from its caller's step to StopFinish, and  *)
(* nobody reads meanwhile.                                                    *)
LockExclusive ==
    /\ stopping.at = "idle" <=> stopping = NoStop
    /\ stopping.by = "nobody" <=> stopping = NoStop
    /\ stopping # NoStop => Readers = {}

(* The lock stays exclusive: a stop() begins only without readers, and readers *)
(* begin only without a stop().                                               *)
LEMMA LockStep == TypeOK /\ LockExclusive /\ [Next]_vars => LockExclusive'
<1> SUFFICES ASSUME TypeOK, LockExclusive, [Next]_vars PROVE LockExclusive'
  OBVIOUS
<1>0. /\ stopping \in [by : {"nobody", "async", "dog", "main"}, gen : Gens \cup {None},
                       at : StopPCs, late : BOOLEAN]
      /\ client \in [Clients -> [at : ClientPCs, graph : Graphs \cup {NoGraph}]]
  BY DEF TypeOK
<1> USE <1>0 DEF LockExclusive, Readers, NoStop, CanRead, CanWrite, ClientPCs
<1>1. ASSUME NEW c \in Clients, NEW g \in Graphs,
             RefuseStart(c, g) \/ FailStart(c, g) \/ DebugMode(c, g)
      PROVE  LockExclusive'
  BY <1>1 DEF RefuseStart, FailStart, DebugMode
<1>2. ASSUME NEW c \in Clients, NEW g \in Graphs, StartNetwork(c, g) \/ StopRequest(c, g)
      PROVE  LockExclusive'
  BY <1>2 DEF StartNetwork, StopRequest, Goto
<1>3. ASSUME NEW c \in Clients, ReadForSecret(c) \/ PacketWaits(c) \/ ReportStarted(c)
      PROVE  LockExclusive'
  BY <1>3 DEF ReadForSecret, PacketWaits, ReportStarted, Goto
<1>3a. ASSUME NEW c \in Clients,
              SecretRead(c) \/ NoPacket(c) \/ ReadUnlock(c) \/ SpawnTeardown(c) \/ AckFails(c)
       PROVE  LockExclusive'
  BY <1>3a DEF SecretRead, NoPacket, ReadUnlock, SpawnTeardown, AckFails, Goto
<1>4. ASSUME NEW c \in Clients, StopReadsRunning(c) \/ AckStopped(c) \/ AckRunning(c)
      PROVE  LockExclusive'
  BY <1>4 DEF StopReadsRunning, AckStopped, AckRunning, MarkStopped, Goto
<1>5. ASSUME NEW k \in Gens, AsyncStop(k) \/ DogCallsStop(k) PROVE LockExclusive'
  BY <1>5 DEF AsyncStop, DogCallsStop
<1>6. ASSUME NEW k \in Gens, SchedulerEnds(k) \/ OutEnds(k) PROVE LockExclusive'
  BY <1>6 DEF SchedulerEnds, OutEnds
<1>7. ASSUME NEW k \in Gens,
             DogStops(k) \/ DogChecks(k) \/ DogLooks(k) \/ DogGivesUp(k) \/ DogReports(k)
      PROVE  LockExclusive'
  BY <1>7 DEF DogStops, DogChecks, DogLooks, DogGivesUp, DogReports
<1>8. CASE StopWatchdog \/ StopBoundary \/ StopSchedulers \/ JoinSchedulers
  BY <1>8 DEF StopWatchdog, StopBoundary, StopSchedulers, JoinSchedulers, StopAt, StopGoto
<1>9. CASE JoinBoundary \/ JoinWatchdog
  <2>1. stopping'.at \in {"join_watchdog", "finish"} /\ stopping'.by = stopping.by
        /\ stopping.at # "idle" /\ UNCHANGED client
    BY <1>9 DEF JoinBoundary, JoinWatchdog, StopAt
  <2> QED BY <2>1
<1>10. CASE StopFinish
  BY <1>10 DEF StopFinish
<1>11. CASE MainChecks \/ MainStops
  BY <1>11 DEF MainChecks, MainStops
<1>12. CASE WriterQueues \/ UNCHANGED vars
  BY <1>12 DEF WriterQueues, vars
<1> QED
  BY <1>1, <1>2, <1>3, <1>3a, <1>4, <1>5, <1>6, <1>7, <1>8, <1>9, <1>10, <1>11, <1>12
  DEF Next, Request, Continue, ThreadEnds, DogStep, StopStep

(* A watchdog on duty is the tracked one, of the last start; one that called  *)
(* stop() is the caller of the stop() in progress.                            *)
OnDuty(k) == dog[k] \in {"check", "look_ok", "look_lost", "trywrite"}
DogTracked ==
    /\ \A k \in Gens : OnDuty(k) => watchdog_thread = k /\ k = starts
    /\ \A k \in Gens : dog[k] = "stopping" => stopping.by = "dog" /\ stopping.gen = k
    /\ stopping.by = "dog" =>
           /\ stopping.gen = starts /\ stopping.gen \in Gens
           /\ dog[stopping.gen] = "stopping"

(* Watchdogs stay tracked: a start is refused while one is, and only the       *)
(* watchdog that calls stop() itself, or one that has ended, is let go.       *)
LEMMA DogTrackedStep ==
    TypeOK /\ LockExclusive /\ DogTracked /\ [Next]_vars => DogTracked'
<1> SUFFICES ASSUME TypeOK, LockExclusive, DogTracked, [Next]_vars PROVE DogTracked'
  OBVIOUS
<1>0. /\ stopping \in [by : {"nobody", "async", "dog", "main"}, gen : Gens \cup {None},
                       at : StopPCs, late : BOOLEAN]
      /\ dog \in [Gens -> {"none", "check", "look_ok", "look_lost", "trywrite", "stopping",
                           "report", "finished"}]
      /\ starts \in Gens \cup {0} /\ watchdog_thread \in Gens \cup {None}
      /\ Gens \subseteq Nat /\ None \notin Gens
  BY NetworkBounds DEF TypeOK, Gens, None
<1> USE <1>0 DEF DogTracked, OnDuty, LockExclusive, NoStop, CanWrite, CanRead
<1>1. ASSUME NEW c \in Clients, NEW g \in Graphs,
             RefuseStart(c, g) \/ FailStart(c, g) \/ DebugMode(c, g) \/ StopRequest(c, g)
      PROVE  DogTracked'
  BY <1>1 DEF RefuseStart, FailStart, DebugMode, StopRequest, fields, dogs, history
<1>2. ASSUME NEW c \in Clients, NEW g \in Graphs, StartNetwork(c, g) PROVE DogTracked'
  <2>1. starts' = starts + 1 /\ starts' \in Gens /\ watchdog_thread' = starts'
        /\ dog' = [dog EXCEPT ![starts'] = "check"] /\ UNCHANGED stopping
    BY <1>2, NetworkBounds DEF StartNetwork, SpawnWatchdog, Gens, TypeOK
  <2>2. watchdog_thread = None /\ stopping = NoStop
    BY <1>2 DEF StartNetwork, StartRefused
  <2>3. \A k \in Gens : ~OnDuty(k) /\ dog[k] # "stopping"
    BY <2>2
  <2> QED BY <2>1, <2>2, <2>3
<1>3. ASSUME NEW c, Locking(c) PROVE DogTracked'
  BY <1>3, LockingFrame DEF fields, dogs, history
<1>4. ASSUME NEW c \in Clients, AckStopped(c) \/ AckRunning(c) PROVE DogTracked'
  BY <1>4 DEF AckStopped, AckRunning, MarkStopped, dogs, history
<1>5. ASSUME NEW k \in Gens, AsyncStop(k) PROVE DogTracked'
  BY <1>5 DEF AsyncStop, fields, dogs, history
<1>6. ASSUME NEW k \in Gens, DogCallsStop(k) PROVE DogTracked'
  BY <1>6 DEF DogCallsStop, DogAt, DogGoto, fields, history
<1>7. ASSUME NEW k \in Gens, SchedulerEnds(k) \/ OutEnds(k) PROVE DogTracked'
  BY <1>7 DEF SchedulerEnds, OutEnds, fields, dogs, history
<1>8. ASSUME NEW k \in Gens, DogStops(k) \/ DogGivesUp(k) \/ DogReports(k) PROVE DogTracked'
  BY <1>8 DEF DogStops, DogGivesUp, DogReports, DogAt, DogEnds, DogGoto, fields, history
<1>9. ASSUME NEW k \in Gens, DogChecks(k) \/ DogLooks(k) PROVE DogTracked'
  BY <1>9 DEF DogChecks, DogLooks, DogAt, DogGoto, fields, history
<1>10. CASE StopWatchdog \/ StopBoundary \/ StopSchedulers \/ JoinSchedulers
  BY <1>10 DEF StopWatchdog, StopBoundary, StopSchedulers, JoinSchedulers, StopAt, StopGoto,
     fields, dogs, history
<1>11. CASE JoinBoundary
  BY <1>11 DEF JoinBoundary, dogs, history
<1>12. CASE JoinWatchdog
  BY <1>12 DEF JoinWatchdog, dogs, history
<1>13. CASE StopFinish
  BY <1>13 DEF StopFinish, history
<1>14. CASE MainChecks \/ MainStops
  BY <1>14 DEF MainChecks, MainStops, fields, dogs, history
<1>15. CASE UNCHANGED vars
  BY <1>15 DEF vars, fields, dogs, history
<1> QED
  BY <1>1, <1>2, <1>3, <1>4, <1>5, <1>6, <1>7, <1>8, <1>9, <1>10, <1>11, <1>12, <1>13,
     <1>14, <1>15
  DEF Next, Request, Continue, Locking, ThreadEnds, DogStep, StopStep

(* The generations so far have a graph, the others have no threads yet.       *)
Generations ==
    \A k \in Gens :
        IF k <= starts THEN graph_of[k] \in Graphs
                       ELSE sched[k] = "none" /\ out_thread[k] = "none"

(* Threads come into being only with the generation that start() makes.       *)
LEMMA GenerationsStep == TypeOK /\ Generations /\ [Next]_vars => Generations'
<1> SUFFICES ASSUME TypeOK, Generations, [Next]_vars PROVE Generations'
  OBVIOUS
<1>0. /\ sched \in [Gens -> ThreadStates] /\ out_thread \in [Gens -> ThreadStates]
      /\ graph_of \in [Gens -> Graphs \cup {NoGraph}]
      /\ starts \in Gens \cup {0} /\ Gens \subseteq Nat
  BY NetworkBounds DEF TypeOK, Gens
<1> USE <1>0 DEF Generations
<1>1. ASSUME NEW c \in Clients, NEW g \in Graphs,
             RefuseStart(c, g) \/ FailStart(c, g) \/ DebugMode(c, g) \/ StopRequest(c, g)
      PROVE  Generations'
  BY <1>1 DEF RefuseStart, FailStart, DebugMode, StopRequest, history
<1>2. ASSUME NEW c \in Clients, NEW g \in Graphs, StartNetwork(c, g) PROVE Generations'
  <2>1. /\ starts' = starts + 1
        /\ graph_of' = [graph_of EXCEPT ![starts'] = g]
        /\ sched' = [sched EXCEPT ![starts'] = "running"]
        /\ \/ out_thread' = [out_thread EXCEPT ![starts'] = "running"]
           \/ out_thread' = out_thread
    BY <1>2 DEF StartNetwork, SpawnScheduler, SpawnOut
  <2> QED BY <2>1
<1>3. ASSUME NEW c, Locking(c) PROVE Generations'
  BY <1>3, LockingFrame DEF history
<1>3a. ASSUME NEW c \in Clients, AckStopped(c) \/ AckRunning(c) PROVE Generations'
  BY <1>3a DEF AckStopped, AckRunning, history
<1>4. ASSUME NEW k \in Gens, AsyncStop(k) \/ DogStep(k) PROVE Generations'
  BY <1>4 DEF AsyncStop, DogStep, DogStops, DogChecks, DogLooks, DogCallsStop, DogGivesUp,
     DogReports, history
<1>5. ASSUME NEW k \in Gens, ThreadEnds(k) PROVE Generations'
  BY <1>5 DEF ThreadEnds, SchedulerEnds, OutEnds, Alive, history
<1>6. CASE StopBoundary \/ StopSchedulers
  BY <1>6 DEF StopBoundary, StopSchedulers, Told, history
<1>7. CASE StopWatchdog \/ JoinSchedulers \/ JoinBoundary \/ JoinWatchdog \/ StopFinish
  BY <1>7 DEF StopWatchdog, JoinSchedulers, JoinBoundary, JoinWatchdog, StopFinish, history
<1>8. CASE MainChecks \/ MainStops \/ UNCHANGED vars
  BY <1>8 DEF MainChecks, MainStops, vars, history
<1> QED
  BY <1>1, <1>2, <1>3, <1>3a, <1>4, <1>5, <1>6, <1>7, <1>8 DEF Next, Request, Continue, Locking, StopStep

(* From the join on, stop() has told every scheduler.                         *)
SchedulersTold ==
    stopping.at \in {"join_schedulers", "join_boundary", "join_watchdog", "finish"} =>
        \A k \in Gens : sched[k] # "running"

(* Schedulers run only under a tracked watchdog, so a start never meets one,   *)
(* and stop() tells each of them before it lets go of anything.               *)
LEMMA OneLiveStep ==
    TypeOK /\ LockExclusive /\ Generations /\ SchedulersTold /\ OneLiveNetwork /\ [Next]_vars
        => SchedulersTold' /\ OneLiveNetwork'
<1> SUFFICES ASSUME TypeOK, LockExclusive, Generations, SchedulersTold, OneLiveNetwork,
                    [Next]_vars
             PROVE  SchedulersTold' /\ OneLiveNetwork'
  OBVIOUS
<1>0. /\ stopping \in [by : {"nobody", "async", "dog", "main"}, gen : Gens \cup {None},
                       at : StopPCs, late : BOOLEAN]
      /\ sched \in [Gens -> ThreadStates] /\ graph_of \in [Gens -> Graphs \cup {NoGraph}]
      /\ schedulers \in [Graphs -> Gens \cup {None}]
      /\ scheduler_threads \in [Graphs -> Gens \cup {None}]
      /\ starts \in Gens \cup {0} /\ watchdog_thread \in Gens \cup {None}
      /\ Gens \subseteq Nat /\ None \notin Gens
  BY NetworkBounds DEF TypeOK, Gens, None
<1> USE <1>0 DEF SchedulersTold, OneLiveNetwork, LockExclusive, NoStop, CanWrite
<1>1. ASSUME NEW c \in Clients, NEW g \in Graphs,
             RefuseStart(c, g) \/ DebugMode(c, g) \/ StopRequest(c, g)
      PROVE  SchedulersTold' /\ OneLiveNetwork'
  BY <1>1 DEF RefuseStart, DebugMode, StopRequest, fields, history
<1>2. ASSUME NEW c \in Clients, NEW g \in Graphs, FailStart(c, g)
      PROVE  SchedulersTold' /\ OneLiveNetwork'
  BY <1>2 DEF FailStart, StartRefused
<1>3. ASSUME NEW c \in Clients, NEW g \in Graphs, StartNetwork(c, g)
      PROVE  SchedulersTold' /\ OneLiveNetwork'
  <2> DEFINE k == starts + 1
  <2>1. \A j \in Gens : sched[j] # "running"
    BY <1>3 DEF StartNetwork, StartRefused
  <2>2. k \in Gens /\ starts' = k /\ watchdog_thread' = k
        /\ graph_of' = [graph_of EXCEPT ![k] = g]
        /\ schedulers' = [schedulers EXCEPT ![g] = k]
        /\ scheduler_threads' = [scheduler_threads EXCEPT ![g] = k]
        /\ sched' = [sched EXCEPT ![k] = "running"]
    BY <1>3, NetworkBounds DEF StartNetwork, SpawnWatchdog, SpawnScheduler, Gens
  <2>3. stopping.at = "idle" /\ UNCHANGED stopping
    BY <1>3 DEF StartNetwork
  <2>4. \A j \in Gens : sched'[j] = "running" => j = k
    BY <2>1, <2>2
  <2>5. graph_of'[k] = g /\ schedulers'[g] = k /\ scheduler_threads'[g] = k
    BY <2>2
  <2> HIDE DEF k
  <2>6. OneLiveNetwork'
    BY <2>2, <2>4, <2>5
  <2> QED BY <2>3, <2>6
<1>4. ASSUME NEW c, Locking(c) PROVE SchedulersTold' /\ OneLiveNetwork'
  BY <1>4, LockingFrame DEF fields, history
<1>5. ASSUME NEW c \in Clients, AckStopped(c) \/ AckRunning(c)
      PROVE  SchedulersTold' /\ OneLiveNetwork'
  BY <1>5 DEF AckStopped, AckRunning, MarkStopped, history
<1>6. ASSUME NEW k \in Gens, AsyncStop(k) \/ DogCallsStop(k)
      PROVE  SchedulersTold' /\ OneLiveNetwork'
  BY <1>6 DEF AsyncStop, DogCallsStop, fields, history
<1>7. ASSUME NEW k \in Gens, SchedulerEnds(k) PROVE SchedulersTold' /\ OneLiveNetwork'
  BY <1>7 DEF SchedulerEnds, fields, history
<1>8. ASSUME NEW k \in Gens, OutEnds(k) \/ DogStops(k) \/ DogGivesUp(k) \/ DogReports(k)
      PROVE  SchedulersTold' /\ OneLiveNetwork'
  BY <1>8 DEF OutEnds, DogStops, DogGivesUp, DogReports, fields, history
<1>9. ASSUME NEW k \in Gens, DogChecks(k) \/ DogLooks(k)
      PROVE  SchedulersTold' /\ OneLiveNetwork'
  BY <1>9 DEF DogChecks, DogLooks, fields, history
<1>10. CASE StopWatchdog \/ StopBoundary
  BY <1>10 DEF StopWatchdog, StopBoundary, StopAt, StopGoto, fields, history
<1>11. CASE StopSchedulers
  <2>1. \A k \in Gens : sched[k] = "running" => \E g \in Graphs : schedulers[g] = k
    <3> SUFFICES ASSUME NEW k \in Gens, sched[k] = "running"
                 PROVE  \E g \in Graphs : schedulers[g] = k
      OBVIOUS
    <3>1. k = starts /\ schedulers[graph_of[k]] = k
      OBVIOUS
    <3>2. graph_of[k] \in Graphs
      BY <3>1 DEF Generations
    <3> QED BY <3>1, <3>2
  <2>2. \A k \in Gens : sched'[k] # "running"
    BY <1>11, <2>1 DEF StopSchedulers, Told, ThreadStates
  <2> QED BY <2>2
<1>12. CASE JoinSchedulers
  <2>1. \A k \in Gens : sched'[k] # "running"
    BY <1>12 DEF JoinSchedulers, StopAt
  <2> QED BY <2>1
<1>13. CASE JoinBoundary \/ JoinWatchdog
  <2>1. \A k \in Gens : sched'[k] # "running"
    BY <1>13 DEF JoinBoundary, JoinWatchdog, StopAt
  <2> QED BY <2>1
<1>14. CASE StopFinish
  BY <1>14 DEF StopFinish, history
<1>15. CASE MainChecks \/ MainStops
  BY <1>15 DEF MainChecks, MainStops, fields, history
<1>16. CASE UNCHANGED vars
  BY <1>16 DEF vars, fields, history
<1> QED
  BY <1>1, <1>2, <1>3, <1>4, <1>5, <1>6, <1>7, <1>8, <1>9, <1>10, <1>11, <1>12, <1>13,
     <1>14, <1>15, <1>16
  DEF Next, Request, Continue, Locking, ThreadEnds, DogStep, StopStep

(* Boundary threads are those of the last start, of an exported graph.        *)
BoundaryOfLast ==
    \A g \in Graphs : boundary_threads[g] # None =>
        boundary_threads[g] = starts /\ graph_of[starts] = g /\ g \in WithOutports

(* start() is refused while an OUT thread is tracked, and stop() keeps the     *)
(* entry of each that has not ended.                                          *)
LEMMA BoundaryStep ==
    TypeOK /\ Generations /\ BoundaryOfLast /\ BoundaryThreadsTracked /\ [Next]_vars
        => BoundaryOfLast' /\ BoundaryThreadsTracked'
<1> SUFFICES ASSUME TypeOK, Generations, BoundaryOfLast, BoundaryThreadsTracked, [Next]_vars
             PROVE  BoundaryOfLast' /\ BoundaryThreadsTracked'
  OBVIOUS
<1>0. /\ out_thread \in [Gens -> ThreadStates]
      /\ boundary_threads \in [Graphs -> Gens \cup {None}]
      /\ graph_of \in [Gens -> Graphs \cup {NoGraph}]
      /\ starts \in Gens \cup {0} /\ Gens \subseteq Nat /\ None \notin Gens
  BY NetworkBounds DEF TypeOK, Gens, None
<1>a. \A k \in Gens : Alive(out_thread[k]) => graph_of[k] \in Graphs
  BY <1>0 DEF Generations, Alive
<1> USE <1>0 DEF BoundaryOfLast, BoundaryThreadsTracked, Alive
<1>1. ASSUME NEW c \in Clients, NEW g \in Graphs,
             RefuseStart(c, g) \/ FailStart(c, g) \/ DebugMode(c, g) \/ StopRequest(c, g)
      PROVE  BoundaryOfLast' /\ BoundaryThreadsTracked'
  BY <1>1 DEF RefuseStart, FailStart, DebugMode, StopRequest, fields, history
<1>2. ASSUME NEW c \in Clients, NEW g \in Graphs, StartNetwork(c, g)
      PROVE  BoundaryOfLast' /\ BoundaryThreadsTracked'
  <2>1. \A h \in Graphs : boundary_threads[h] = None
    BY <1>2 DEF StartNetwork, StartRefused
  <2>2. \A k \in Gens : ~Alive(out_thread[k])
    BY <2>1, <1>a
  <2>3. /\ starts' = starts + 1 /\ starts' \in Gens
        /\ graph_of' = [graph_of EXCEPT ![starts'] = g]
    BY <1>2, NetworkBounds DEF StartNetwork, Gens
  <2>4. CASE g \in WithOutports
    <3>1. /\ out_thread' = [out_thread EXCEPT ![starts'] = "running"]
          /\ boundary_threads' = [boundary_threads EXCEPT ![g] = starts']
      BY <1>2, <2>3, <2>4 DEF StartNetwork, SpawnOut
    <3> QED BY <2>1, <2>2, <2>3, <2>4, <3>1
  <2>5. CASE g \notin WithOutports
    BY <1>2, <2>1, <2>2, <2>5 DEF StartNetwork, SpawnOut
  <2> QED BY <2>4, <2>5
<1>3. ASSUME NEW c, Locking(c) PROVE BoundaryOfLast' /\ BoundaryThreadsTracked'
  BY <1>3, LockingFrame DEF fields, history
<1>4. ASSUME NEW c \in Clients, AckStopped(c) \/ AckRunning(c)
      PROVE  BoundaryOfLast' /\ BoundaryThreadsTracked'
  BY <1>4 DEF AckStopped, AckRunning, MarkStopped, history
<1>5. ASSUME NEW k \in Gens, AsyncStop(k) \/ SchedulerEnds(k)
      PROVE  BoundaryOfLast' /\ BoundaryThreadsTracked'
  BY <1>5 DEF AsyncStop, SchedulerEnds, fields, history
<1>6. ASSUME NEW k \in Gens, OutEnds(k) PROVE BoundaryOfLast' /\ BoundaryThreadsTracked'
  BY <1>6 DEF OutEnds, fields, history
<1>7. ASSUME NEW k \in Gens, DogStep(k) PROVE BoundaryOfLast' /\ BoundaryThreadsTracked'
  BY <1>7 DEF DogStep, DogStops, DogChecks, DogLooks, DogCallsStop, DogGivesUp, DogReports,
     fields, history
<1>8. CASE StopWatchdog \/ StopSchedulers \/ JoinSchedulers
  BY <1>8 DEF StopWatchdog, StopSchedulers, JoinSchedulers, fields, history
<1>9. CASE StopBoundary
  BY <1>9 DEF StopBoundary, Told, fields, history
<1>10. CASE JoinBoundary
  <2> DEFINE late == Unfinished(boundary_threads, out_thread)
  <2>1. boundary_threads' = [g \in Graphs |-> IF g \in late THEN boundary_threads[g] ELSE None]
        /\ UNCHANGED <<starts, graph_of, out_thread>>
    BY <1>10 DEF JoinBoundary, Keep, history
  <2>2. \A k \in Gens : Alive(out_thread[k]) => graph_of[k] \in late
    BY <1>a DEF Unfinished
  <2> HIDE DEF late
  <2> QED BY <1>a, <2>1, <2>2
<1>11. CASE JoinWatchdog \/ StopFinish
  BY <1>11 DEF JoinWatchdog, StopFinish, history
<1>12. CASE MainChecks \/ MainStops \/ UNCHANGED vars
  BY <1>12 DEF MainChecks, MainStops, vars, fields, history
<1> QED
  BY <1>1, <1>2, <1>3, <1>4, <1>5, <1>6, <1>7, <1>8, <1>9, <1>10, <1>11, <1>12
  DEF Next, Request, Continue, Locking, ThreadEnds, StopStep

(* Past StopBoundary every OUT thread has been told, too.                     *)
OutsTold ==
    stopping.at \in {"schedulers", "join_schedulers", "join_boundary", "join_watchdog", "finish"} =>
        \A k \in Gens : out_thread[k] # "running"

(* stop() tells the tracked OUT threads, which are all that are alive.        *)
LEMMA OutsToldStep ==
    TypeOK /\ LockExclusive /\ Generations /\ BoundaryThreadsTracked /\ OutsTold /\ [Next]_vars
        => OutsTold'
<1> SUFFICES ASSUME TypeOK, LockExclusive, Generations, BoundaryThreadsTracked, OutsTold,
                    [Next]_vars
             PROVE  OutsTold'
  OBVIOUS
<1>0. /\ stopping \in [by : {"nobody", "async", "dog", "main"}, gen : Gens \cup {None},
                       at : StopPCs, late : BOOLEAN]
      /\ out_thread \in [Gens -> ThreadStates]
  BY DEF TypeOK
<1> USE <1>0 DEF OutsTold, LockExclusive, NoStop, CanWrite
<1>0a. ASSUME NEW c, Locking(c) PROVE OutsTold'
  BY <1>0a, LockingFrame
<1>1. ASSUME NEW c \in Clients, NEW g \in Graphs,
             \/ RefuseStart(c, g) \/ FailStart(c, g) \/ StartNetwork(c, g) \/ DebugMode(c, g)
             \/ StopRequest(c, g)
      PROVE  OutsTold'
  <2>1. UNCHANGED stopping /\ (UNCHANGED out_thread \/ stopping.at = "idle")
    BY <1>1 DEF RefuseStart, FailStart, StartNetwork, DebugMode, StopRequest
  <2> QED BY <2>1
<1>2. ASSUME NEW k \in Gens, AsyncStop(k) \/ DogCallsStop(k) PROVE OutsTold'
  BY <1>2 DEF AsyncStop, DogCallsStop
<1>3. ASSUME NEW k \in Gens, ThreadEnds(k) PROVE OutsTold'
  BY <1>3 DEF ThreadEnds, SchedulerEnds, OutEnds
<1>4. ASSUME NEW k \in Gens,
             DogStops(k) \/ DogChecks(k) \/ DogLooks(k) \/ DogGivesUp(k) \/ DogReports(k)
      PROVE  OutsTold'
  BY <1>4 DEF DogStops, DogChecks, DogLooks, DogGivesUp, DogReports
<1>5. CASE StopBoundary
  <2>1. \A k \in Gens : out_thread[k] = "running" => \E g \in Graphs : boundary_threads[g] = k
    <3>1. \A k \in Gens : out_thread[k] = "running" => graph_of[k] \in Graphs
      BY NetworkBounds DEF Generations, TypeOK, Gens
    <3> QED BY <3>1 DEF BoundaryThreadsTracked, Alive
  <2>2. \A k \in Gens : out_thread'[k] # "running"
    BY <1>5, <2>1 DEF StopBoundary, Told, ThreadStates
  <2> QED BY <2>2
<1>6. CASE StopWatchdog \/ StopSchedulers \/ JoinSchedulers \/ StopFinish
  BY <1>6 DEF StopWatchdog, StopSchedulers, JoinSchedulers, StopFinish, StopAt, StopGoto
<1>7. CASE JoinBoundary \/ JoinWatchdog
  BY <1>7 DEF JoinBoundary, JoinWatchdog, StopAt
<1>8. CASE MainChecks \/ MainStops \/ UNCHANGED vars
  BY <1>8 DEF MainChecks, MainStops, vars
<1>0b. ASSUME NEW c \in Clients, AckStopped(c) \/ AckRunning(c) PROVE OutsTold'
  BY <1>0b DEF AckStopped, AckRunning
<1> QED
  BY <1>0a, <1>0b, <1>1, <1>2, <1>3, <1>4, <1>5, <1>6, <1>7, <1>8
  DEF Next, Request, Continue, Locking, DogStep, StopStep

(* A stop() that goes on as incomplete has a thread that it left tracked.     *)
LateMeansTracked ==
    /\ stopping.at = "join_watchdog" /\ stopping.late =>
           \E g \in Graphs : boundary_threads[g] # None
    /\ stopping.at = "finish" /\ stopping.late =>
           watchdog_thread # None \/ \E g \in Graphs : boundary_threads[g] # None

(* running=true is only ever left behind together with a tracked thread.      *)
LEMMA StoppableStep ==
    TypeOK /\ LockExclusive /\ LateMeansTracked /\ RunningMeansStoppable /\ [Next]_vars
        => LateMeansTracked' /\ RunningMeansStoppable'
<1> SUFFICES ASSUME TypeOK, LockExclusive, LateMeansTracked, RunningMeansStoppable, [Next]_vars
             PROVE  LateMeansTracked' /\ RunningMeansStoppable'
  OBVIOUS
<1>0. /\ stopping \in [by : {"nobody", "async", "dog", "main"}, gen : Gens \cup {None},
                       at : StopPCs, late : BOOLEAN]
      /\ status \in [graph : Graphs, started : BOOLEAN, running : BOOLEAN]
      /\ boundary_threads \in [Graphs -> Gens \cup {None}]
      /\ starts \in Nat
  BY NetworkBounds DEF TypeOK, Gens
<1> USE <1>0 DEF LateMeansTracked, RunningMeansStoppable, LockExclusive, CanRead, CanWrite, NoStop
<1>1. ASSUME NEW c \in Clients, NEW g \in Graphs,
             RefuseStart(c, g) \/ FailStart(c, g) \/ DebugMode(c, g) \/ StopRequest(c, g)
      PROVE  LateMeansTracked' /\ RunningMeansStoppable'
  BY <1>1 DEF RefuseStart, FailStart, DebugMode, StopRequest, fields
<1>2. ASSUME NEW c \in Clients, NEW g \in Graphs, StartNetwork(c, g)
      PROVE  LateMeansTracked' /\ RunningMeansStoppable'
  BY <1>2 DEF StartNetwork, SpawnWatchdog, None
<1>3. ASSUME NEW c, Locking(c) PROVE LateMeansTracked' /\ RunningMeansStoppable'
  BY <1>3, LockingFrame DEF fields
<1>4. ASSUME NEW c \in Clients, AckStopped(c) \/ AckRunning(c)
      PROVE  LateMeansTracked' /\ RunningMeansStoppable'
  BY <1>4 DEF AckStopped, AckRunning, MarkStopped
<1>5. ASSUME NEW k \in Gens, AsyncStop(k) \/ DogCallsStop(k)
      PROVE  LateMeansTracked' /\ RunningMeansStoppable'
  BY <1>5 DEF AsyncStop, DogCallsStop, fields
<1>6. ASSUME NEW k \in Gens, SchedulerEnds(k) \/ OutEnds(k)
      PROVE  LateMeansTracked' /\ RunningMeansStoppable'
  BY <1>6 DEF SchedulerEnds, OutEnds, fields
<1>7. ASSUME NEW k \in Gens,
             DogStops(k) \/ DogChecks(k) \/ DogLooks(k) \/ DogGivesUp(k) \/ DogReports(k)
      PROVE  LateMeansTracked' /\ RunningMeansStoppable'
  BY <1>7 DEF DogStops, DogChecks, DogLooks, DogGivesUp, DogReports, fields
<1>8. CASE StopWatchdog \/ StopBoundary \/ StopSchedulers \/ JoinSchedulers
  BY <1>8 DEF StopWatchdog, StopBoundary, StopSchedulers, JoinSchedulers, StopAt, StopGoto, fields
<1>9. CASE JoinBoundary
  <2> DEFINE left == Unfinished(boundary_threads, out_thread)
  <2>1. /\ boundary_threads' = [g \in Graphs |-> IF g \in left THEN boundary_threads[g] ELSE None]
        /\ stopping'.at = "join_watchdog" /\ (stopping'.late => left # {})
    BY <1>9 DEF JoinBoundary, Keep
  <2>2. \A g \in left : g \in Graphs /\ boundary_threads[g] # None
    BY DEF Unfinished
  <2> HIDE DEF left
  <2> QED BY <2>1, <2>2
<1>10. CASE JoinWatchdog
  <2> DEFINE left == /\ stopping.by # "dog" /\ watchdog_thread # None
                     /\ dog[watchdog_thread] # "finished"
  <2>1. /\ watchdog_thread' = IF left THEN watchdog_thread ELSE None
        /\ stopping'.at = "finish" /\ (stopping'.late => stopping.late \/ left)
        /\ stopping.at = "join_watchdog" /\ UNCHANGED boundary_threads
    BY <1>10 DEF JoinWatchdog, StopAt
  <2>2. left => watchdog_thread # None
    OBVIOUS
  <2> HIDE DEF left
  <2> QED BY <2>1, <2>2
<1>11. CASE StopFinish
  BY <1>11 DEF StopFinish, StopAt
<1>12. CASE MainChecks \/ MainStops \/ UNCHANGED vars
  BY <1>12 DEF MainChecks, MainStops, vars, fields
<1> QED
  BY <1>1, <1>2, <1>3, <1>4, <1>5, <1>6, <1>7, <1>8, <1>9, <1>10, <1>11, <1>12
  DEF Next, Request, Continue, Locking, ThreadEnds, DogStep, StopStep

(* A watchdog that no longer watches an OUT thread has none that is alive, and *)
(* it calls stop() only then; so that stop() finds nothing late.              *)
DogSawEnd ==
    /\ \A k \in Gens : (OnDuty(k) \/ dog[k] = "stopping") /\ ~dog_watches[k] =>
           out_thread[k] = "finished" \/ graph_of[k] \notin WithOutports
    /\ \A k \in Gens : dog[k] \in {"trywrite", "stopping"} => ~dog_watches[k]
    /\ stopping.by = "dog" /\ stopping.at \in {"join_watchdog", "finish"} => ~stopping.late

(* Ended OUT threads stay ended, and the ones stop() meets are of the caller's  *)
(* own generation.                                                            *)
LEMMA DogSawEndStep ==
    TypeOK /\ LockExclusive /\ DogTracked /\ BoundaryOfLast /\ DogSawEnd /\ [Next]_vars
        => DogSawEnd'
<1> SUFFICES ASSUME TypeOK, LockExclusive, DogTracked, BoundaryOfLast, DogSawEnd, [Next]_vars
             PROVE  DogSawEnd'
  OBVIOUS
<1>0. /\ stopping \in [by : {"nobody", "async", "dog", "main"}, gen : Gens \cup {None},
                       at : StopPCs, late : BOOLEAN]
      /\ dog \in [Gens -> {"none", "check", "look_ok", "look_lost", "trywrite", "stopping",
                           "report", "finished"}]
      /\ dog_watches \in [Gens -> BOOLEAN] /\ out_thread \in [Gens -> ThreadStates]
      /\ graph_of \in [Gens -> Graphs \cup {NoGraph}]
      /\ starts \in Gens \cup {0} /\ Gens \subseteq Nat
  BY NetworkBounds DEF TypeOK, Gens
<1> USE <1>0 DEF DogSawEnd, OnDuty, LockExclusive, NoStop, CanWrite
<1>1. ASSUME NEW c \in Clients, NEW g \in Graphs,
             RefuseStart(c, g) \/ FailStart(c, g) \/ DebugMode(c, g) \/ StopRequest(c, g)
      PROVE  DogSawEnd'
  BY <1>1 DEF RefuseStart, FailStart, DebugMode, StopRequest, dogs, history
<1>2. ASSUME NEW c \in Clients, NEW g \in Graphs, StartNetwork(c, g) PROVE DogSawEnd'
  <2> DEFINE k == starts + 1
  <2>1. /\ dog' = [dog EXCEPT ![k] = "check"] /\ graph_of' = [graph_of EXCEPT ![k] = g]
        /\ dog_watches' = [dog_watches EXCEPT ![k] = g \in WithOutports]
        /\ UNCHANGED stopping /\ k \in Gens
    BY <1>2, NetworkBounds DEF StartNetwork, SpawnWatchdog, Gens
  <2>2. \A j \in Gens : j # k => out_thread'[j] = out_thread[j]
    BY <1>2 DEF StartNetwork, SpawnOut
  <2> HIDE DEF k
  <2>3. \A j \in Gens : j # k => dog'[j] = dog[j] /\ dog_watches'[j] = dog_watches[j]
                               /\ graph_of'[j] = graph_of[j]
    BY <2>1
  <2>4. dog'[k] = "check" /\ dog_watches'[k] = (g \in WithOutports) /\ graph_of'[k] = g
    BY <2>1
  <2> QED BY <2>1, <2>2, <2>3, <2>4
<1>3. ASSUME NEW c, Locking(c) PROVE DogSawEnd'
  BY <1>3, LockingFrame DEF dogs, history
<1>3a. ASSUME NEW c \in Clients, AckStopped(c) \/ AckRunning(c) PROVE DogSawEnd'
  BY <1>3a DEF AckStopped, AckRunning, dogs, history
<1>4. ASSUME NEW k \in Gens, AsyncStop(k) PROVE DogSawEnd'
  BY <1>4 DEF AsyncStop, dogs, history
<1>5. ASSUME NEW k \in Gens, ThreadEnds(k) PROVE DogSawEnd'
  BY <1>5 DEF ThreadEnds, SchedulerEnds, OutEnds, dogs, history
<1>6. ASSUME NEW k \in Gens, DogStops(k) \/ DogGivesUp(k) \/ DogReports(k) PROVE DogSawEnd'
  BY <1>6 DEF DogStops, DogGivesUp, DogReports, DogEnds, DogGoto, history
<1>7. ASSUME NEW k \in Gens, DogChecks(k) PROVE DogSawEnd'
  <2> DEFINE exited == dog_watches[k] /\ out_thread[k] = "finished"
  <2>1. /\ dog' = [dog EXCEPT ![k] = IF exited THEN "look_lost" ELSE "look_ok"]
        /\ dog_watches' = [dog_watches EXCEPT ![k] = dog_watches[k] /\ ~exited]
        /\ dog[k] = "check" /\ UNCHANGED <<stopping, out_thread, graph_of>>
    BY <1>7 DEF DogChecks, DogGoto, DogAt, history
  <2>2. \A j \in Gens : j # k => dog'[j] = dog[j] /\ dog_watches'[j] = dog_watches[j]
    BY <2>1
  <2>3. dog'[k] \in {"look_lost", "look_ok"}
        /\ (~dog_watches'[k] => ~dog_watches[k] \/ out_thread[k] = "finished")
    BY <2>1
  <2> QED BY <2>1, <2>2, <2>3
<1>8. ASSUME NEW k \in Gens, DogLooks(k) PROVE DogSawEnd'
  BY <1>8 DEF DogLooks, DogGoto, DogAt, history
<1>9. ASSUME NEW k \in Gens, DogCallsStop(k) PROVE DogSawEnd'
  BY <1>9 DEF DogCallsStop, DogGoto, DogAt, history
<1>10. CASE StopWatchdog \/ StopSchedulers \/ JoinSchedulers
  BY <1>10 DEF StopWatchdog, StopSchedulers, JoinSchedulers, StopGoto, dogs, history
<1>11. CASE StopBoundary
  BY <1>11 DEF StopBoundary, Told, StopGoto, dogs, history
<1>12. CASE JoinBoundary
  <2> DEFINE left == Unfinished(boundary_threads, out_thread)
  <2>1. stopping'.by = stopping.by /\ (stopping'.late => left # {})
        /\ UNCHANGED <<dog, dog_watches, out_thread, graph_of>>
    BY <1>12 DEF JoinBoundary, dogs, history
  <2>2. stopping.by = "dog" => left = {}
    <3> SUFFICES ASSUME stopping.by = "dog", NEW g \in left PROVE FALSE
      OBVIOUS
    <3>1. boundary_threads[g] = starts /\ graph_of[starts] = g /\ g \in WithOutports
          /\ out_thread[starts] # "finished"
      BY DEF Unfinished, BoundaryOfLast
    <3>2. starts \in Gens /\ dog[starts] = "stopping"
      BY DEF DogTracked
    <3> QED BY <3>1, <3>2
  <2> HIDE DEF left
  <2> QED BY <2>1, <2>2
<1>13. CASE JoinWatchdog
  <2>1. /\ stopping'.by = stopping.by /\ stopping.at = "join_watchdog"
        /\ (stopping'.late => stopping.late \/ stopping.by # "dog")
        /\ UNCHANGED <<dog, dog_watches, out_thread, graph_of>>
    BY <1>13 DEF JoinWatchdog, StopAt, dogs, history
  <2> QED BY <2>1
<1>14. CASE StopFinish
  BY <1>14 DEF StopFinish, history
<1>15. CASE MainChecks \/ MainStops \/ UNCHANGED vars
  BY <1>15 DEF MainChecks, MainStops, vars, dogs, history
<1> QED
  BY <1>1, <1>2, <1>3, <1>3a, <1>4, <1>5, <1>6, <1>7, <1>8, <1>9, <1>10, <1>11, <1>12, <1>13,
     <1>14, <1>15
  DEF Next, Request, Continue, Locking, DogStep, StopStep

-----------------------------------------------------------------------------
(* The layers together: the inductive invariant of Network.                   *)
NetworkInv ==
    /\ TypeOK /\ StopNamesGraph /\ LockExclusive /\ DogTracked /\ Generations
    /\ SchedulersTold /\ OneLiveNetwork
    /\ BoundaryOfLast /\ BoundaryThreadsTracked /\ OutsTold
    /\ LateMeansTracked /\ RunningMeansStoppable
    /\ DogSawEnd

(* It holds when Runtime::new returns.                                        *)
LEMMA InitInv == Init => NetworkInv
<1> SUFFICES ASSUME Init PROVE NetworkInv
  OBVIOUS
<1> USE NetworkBounds DEF Init, NoStop, Gens, None
<1>1. TypeOK /\ StopNamesGraph
  BY InitType
<1>2. LockExclusive /\ DogTracked /\ Generations
  BY DEF LockExclusive, Readers, DogTracked, OnDuty, Generations
<1>3. SchedulersTold /\ OneLiveNetwork /\ BoundaryOfLast /\ BoundaryThreadsTracked /\ OutsTold
  BY DEF SchedulersTold, OutsTold, OneLiveNetwork, BoundaryOfLast, BoundaryThreadsTracked, Alive
<1>4. LateMeansTracked /\ RunningMeansStoppable /\ DogSawEnd
  BY DEF LateMeansTracked, RunningMeansStoppable, DogSawEnd, OnDuty
<1> QED BY <1>1, <1>2, <1>3, <1>4 DEF NetworkInv

(* Every step keeps it.                                                       *)
LEMMA StepInv == NetworkInv /\ [Next]_vars => NetworkInv'
BY TypeStep, LockStep, DogTrackedStep, GenerationsStep, OneLiveStep, BoundaryStep, OutsToldStep,
   StoppableStep, DogSawEndStep
DEF NetworkInv

(* The inductive invariant holds throughout.                                  *)
LEMMA InvHolds == Spec => []NetworkInv
BY InitInv, StepInv, PTL DEF Spec

(* No interleaving of start, network:stop, watchdogs, teardown threads and    *)
(* signal shutdown leaves a scheduler that nobody has told to stop without    *)
(* the map entries and the watchdog a stop() goes by (runtime.rs, start and   *)
(* stop).                                                                     *)
THEOREM OneNetworkLives == Spec => []OneLiveNetwork
<1>1. NetworkInv => OneLiveNetwork
  BY DEF NetworkInv
<1> QED BY <1>1, InvHolds, PTL

(* A graph OUT thread is never detached before it ends: what stop() could not  *)
(* join stays in graph_boundary_threads (runtime.rs, stop).                   *)
THEOREM OutThreadsTracked == Spec => []BoundaryThreadsTracked
<1>1. NetworkInv => BoundaryThreadsTracked
  BY DEF NetworkInv
<1> QED BY <1>1, InvHolds, PTL

(* running=true read under the lock always comes with a thread that the next   *)
(* stop() can join, also after an incomplete stop().                          *)
THEOREM RunningIsStoppable == Spec => []RunningMeansStoppable
<1>1. NetworkInv => RunningMeansStoppable
  BY DEF NetworkInv
<1> QED BY <1>1, InvHolds, PTL

(* A watchdog never stops a network other than its own: between its health     *)
(* check and its try_write no restart can have come.                          *)
THEOREM WatchdogStopsOwn == Spec => []WatchdogStopsOwnNetwork
<1>1. NetworkInv => WatchdogStopsOwnNetwork
  BY DEF NetworkInv, WatchdogStopsOwnNetwork, DogTracked, LockExclusive, NoStop
<1> QED BY <1>1, InvHolds, PTL

(* The lock is given back by the last step of stop() only.                    *)
LEMMA OnlyFinishUnlocks ==
    ASSUME NetworkInv, Next, stopping # NoStop, stopping' = NoStop
    PROVE  StopFinish
<1>0. stopping \in [by : {"nobody", "async", "dog", "main"}, gen : Gens \cup {None},
                    at : StopPCs, late : BOOLEAN]
  BY DEF NetworkInv, TypeOK
<1> USE <1>0 DEF NoStop
<1>0a. ASSUME NEW c PROVE ~ Locking(c)
  BY LockingFrame
<1>1. ~ \E c \in Clients : Request(c) \/ PacketWaits(c) \/ Continue(c) \/ AckFails(c)
  BY <1>0a DEF Request, RefuseStart, FailStart, StartNetwork, DebugMode, StopRequest, Continue,
     AckStopped, AckRunning, Locking
<1>2. ~ \E k \in Gens : AsyncStop(k) \/ ThreadEnds(k) \/ DogStep(k)
  BY DEF AsyncStop, ThreadEnds, SchedulerEnds, OutEnds, DogStep, DogStops, DogChecks, DogLooks,
     DogCallsStop, DogGivesUp, DogReports, CanWrite
<1>3. ~ (StopWatchdog \/ StopBoundary \/ StopSchedulers \/ JoinSchedulers \/ JoinBoundary)
  BY DEF StopWatchdog, StopBoundary, StopSchedulers, JoinSchedulers, JoinBoundary, StopGoto
<1>4. ~ JoinWatchdog
  BY DEF JoinWatchdog
<1>5. ~ (MainChecks \/ MainStops)
  BY DEF MainChecks, MainStops
<1> QED BY <1>0a, <1>1, <1>2, <1>3, <1>4, <1>5 DEF Next, StopStep, Locking

(* A stop() called by the watchdog never ends as incomplete.                  *)
THEOREM WatchdogStopFinal == Spec => WatchdogStopIsFinal
<1>1. NetworkInv /\ [Next]_vars => [stopping.by = "dog" /\ stopping' = NoStop => ~status'.running]_vars
  <2> SUFFICES ASSUME NetworkInv, Next, stopping.by = "dog", stopping' = NoStop
               PROVE  ~status'.running
    OBVIOUS
  <2>1. StopFinish
    BY OnlyFinishUnlocks DEF NoStop
  <2>2. ~stopping.late
    BY <2>1 DEF StopFinish, StopAt, NetworkInv, DogSawEnd
  <2> QED BY <2>1, <2>2 DEF StopFinish
<1> QED BY <1>1, InvHolds, PTL DEF Spec, WatchdogStopIsFinal

(* Whoever called it and however many joins time out: when stop() gives the    *)
(* lock back, each scheduler and OUT thread has been told to end or has ended. *)
StopTellsEveryThread ==
    [][stopping # NoStop /\ stopping' = NoStop =>
          \A k \in Gens : sched'[k] # "running" /\ out_thread'[k] # "running"]_vars

(* A returned stop() leaves no thread untold, even if it was incomplete.      *)
THEOREM StopTellsAll == Spec => StopTellsEveryThread
<1>1. NetworkInv /\ [Next]_vars =>
        [stopping # NoStop /\ stopping' = NoStop =>
            \A k \in Gens : sched'[k] # "running" /\ out_thread'[k] # "running"]_vars
  <2> SUFFICES ASSUME NetworkInv, Next, stopping # NoStop, stopping' = NoStop,
                      NEW k \in Gens
               PROVE  sched'[k] # "running" /\ out_thread'[k] # "running"
    OBVIOUS
  <2>1. StopFinish
    BY OnlyFinishUnlocks
  <2> QED BY <2>1 DEF StopFinish, StopAt, NetworkInv, SchedulersTold, OutsTold
<1> QED BY <1>1, InvHolds, PTL DEF Spec, StopTellsEveryThread

=============================================================================
