------------------------------- MODULE Network -------------------------------
(****************************************************************************)
(* The life cycle of the network (src/src/runtime.rs: start, stop and the    *)
(* watchdog thread; src/src/server.rs: network:start, network:stop,          *)
(* network:debug, network:edges, runtime:packet and the signal shutdown).    *)
(*                                                                          *)
(* Each successful start makes a generation: a scheduler thread, a graph OUT *)
(* thread if the graph has outports, and a watchdog thread.  The fields of   *)
(* Runtime name generations, None standing for an absent entry.  Everything  *)
(* but stop() holds the runtime's RwLock for one step only; stop() holds the *)
(* write lock from its caller's step to StopFinish, and network:started and  *)
(* runtime:packet hold the read lock while they talk to the client or wait   *)
(* for room on an edge.  The requests that name no graph hold it while they  *)
(* take it a second time to validate the secret.  The lock is that of std on *)
(* Linux: while a thread waits in write(), read() waits too and try_read     *)
(* fails.                                                                   *)
(****************************************************************************)
EXTENDS Integers, FiniteSets

CONSTANTS
    Graphs,         \* the loaded graphs
    WithOutports,   \* the graphs that export outports
    Clients,        \* client handler threads
    MaxStarts,      \* bound: successful starts
    MaxAsync,       \* bound: teardown threads waiting for one generation
    NoGraph,        \* no graph
    JoinsTimeOut    \* a thread may need longer than the join grace periods

ASSUME GraphAssumption == WithOutports \subseteq Graphs /\ NoGraph \notin Graphs
ASSUME NetworkBounds ==
    MaxStarts \in Nat /\ MaxAsync \in Nat /\ JoinsTimeOut \in BOOLEAN

None == 0
Gens == 1..MaxStarts

VARIABLES
    rt_graph,                       \* Runtime.graph
    status,                         \* Runtime.status
    schedulers, scheduler_threads,  \* per graph, the generation
    boundary_threads,               \* per graph, the generation of its OUT thread
    watchdog_thread, watchdog_channel,
    starts, graph_of,               \* generations so far, and their graphs
    sched, out_thread,              \* per generation, the two threads
    dog,                            \* per generation, where its watchdog is
    dog_stop,                       \* "stop" is in its channel
    dog_watches,                    \* OUT is still in its map
    client,                         \* per client, where its handler is
    async_stops,                    \* per generation, teardown threads not begun
    stopping,                       \* the stop() that holds the write lock
    writer_waits,                   \* a thread waits in write() for the readers
    main                            \* the accept loop and signal shutdown

fields == <<rt_graph, status, schedulers, scheduler_threads, boundary_threads,
            watchdog_thread, watchdog_channel>>
dogs == <<dog, dog_stop, dog_watches>>
history == <<starts, graph_of>>
vars == <<fields, history, sched, out_thread, dogs, client, async_stops, stopping,
          writer_waits, main>>

Alive(thread) == thread \in {"running", "told"}
Told(thread) == IF thread = "running" THEN "told" ELSE thread

NoStop == [by |-> "nobody", gen |-> None, at |-> "idle", late |-> FALSE]

(* Where a thread of the process is; the exit of main ends them all.         *)
Running == main # "exited"
At(c, at) == Running /\ client[c].at = at
DogAt(k, at) == Running /\ dog[k] = at
StopAt(at) == Running /\ stopping.at = at
Idle(c) == At(c, "idle")

Readers == {c \in Clients : client[c].at \in {"reporting", "secret", "packet"}}
CanRead == stopping = NoStop /\ ~writer_waits
CanWrite == stopping = NoStop /\ Readers = {}

Goto(c, at, g) == client' = [client EXCEPT ![c] = [at |-> at, graph |-> g]]

Init ==
    /\ rt_graph \in Graphs
    /\ status \in [graph : Graphs, started : {FALSE}, running : {FALSE}]
    /\ schedulers = [g \in Graphs |-> None]
    /\ scheduler_threads = [g \in Graphs |-> None]
    /\ boundary_threads = [g \in Graphs |-> None]
    /\ watchdog_thread = None /\ watchdog_channel = None
    /\ starts = 0 /\ graph_of = [k \in Gens |-> NoGraph]
    /\ sched = [k \in Gens |-> "none"] /\ out_thread = [k \in Gens |-> "none"]
    /\ dog = [k \in Gens |-> "none"] /\ dog_stop = [k \in Gens |-> FALSE]
    /\ dog_watches = [k \in Gens |-> FALSE]
    /\ client = [c \in Clients |-> [at |-> "idle", graph |-> NoGraph]]
    /\ async_stops = [k \in Gens |-> 0]
    /\ stopping = NoStop /\ writer_waits = FALSE
    /\ main = "serving"

-----------------------------------------------------------------------------
(* network:start                                                            *)

StartRefusedRunningMutant == status.running

(* "network already running or previous shutdown incomplete"                *)
StartRefused ==
    \/ status.running
    \/ \E g \in Graphs : boundary_threads[g] # None
    \/ watchdog_thread # None

RefuseStart(c, g) ==
    /\ Idle(c) /\ CanWrite /\ StartRefused
    /\ rt_graph' = g
    /\ UNCHANGED <<status, schedulers, scheduler_threads, boundary_threads,
                   watchdog_thread, watchdog_channel, history, sched, out_thread, dogs,
                   client, async_stops, stopping, main, writer_waits>>

(* A graph that fails a check inside start(): the fresh scheduler is already *)
(* in the map and never gets a thread.                                      *)
FailStart(c, g) ==
    /\ Idle(c) /\ CanWrite /\ ~StartRefused
    /\ rt_graph' = g
    /\ schedulers' = [schedulers EXCEPT ![g] = None]
    /\ UNCHANGED <<status, scheduler_threads, boundary_threads, watchdog_thread,
                   watchdog_channel, history, sched, out_thread, dogs, client,
                   async_stops, stopping, main, writer_waits>>

SpawnScheduler(k, g) ==
    /\ schedulers' = [schedulers EXCEPT ![g] = k]
    /\ scheduler_threads' = [scheduler_threads EXCEPT ![g] = k]
    /\ sched' = [sched EXCEPT ![k] = "running"]

SpawnOut(k, g) ==
    IF g \in WithOutports
    THEN /\ out_thread' = [out_thread EXCEPT ![k] = "running"]
         /\ boundary_threads' = [boundary_threads EXCEPT ![g] = k]
    ELSE UNCHANGED <<out_thread, boundary_threads>>

SpawnWatchdog(k, g) ==
    /\ dog' = [dog EXCEPT ![k] = "check"]
    /\ dog_watches' = [dog_watches EXCEPT ![k] = g \in WithOutports]
    /\ watchdog_thread' = k /\ watchdog_channel' = k

StartNetwork(c, g) ==
    /\ Idle(c) /\ CanWrite /\ ~StartRefused
    /\ starts < MaxStarts
    /\ rt_graph' = g
    /\ LET k == starts + 1 IN
       /\ starts' = k /\ graph_of' = [graph_of EXCEPT ![k] = g]
       /\ SpawnOut(k, g) /\ SpawnWatchdog(k, g) /\ SpawnScheduler(k, g)
    /\ status' = [graph |-> g, started |-> TRUE, running |-> TRUE]
    /\ Goto(c, "started", NoGraph)
    /\ UNCHANGED <<dog_stop, async_stops, stopping, main, writer_waits>>

(* The handler takes the read lock again to answer and to broadcast.        *)
ReportStarted(c) ==
    /\ At(c, "started") /\ CanRead
    /\ Goto(c, "reporting", NoGraph)
    /\ UNCHANGED <<fields, history, sched, out_thread, dogs, async_stops, stopping,
                   main, writer_waits>>

(* runtime:packet, runtime:getruntime, network:persist and the requests for   *)
(* components: the argument of validate_secret is a field read under a guard  *)
(* that lives as long as the call, which takes the lock again.               *)
ReadForSecret(c) ==
    /\ Idle(c) /\ CanRead
    /\ Goto(c, "secret", NoGraph)
    /\ UNCHANGED <<fields, history, sched, out_thread, dogs, async_stops, stopping,
                   main, writer_waits>>

SecretRead(c) ==
    /\ At(c, "secret") /\ CanRead
    /\ Goto(c, "checked", NoGraph)
    /\ UNCHANGED <<fields, history, sched, out_thread, dogs, async_stops, stopping,
                   main, writer_waits>>

(* A wrong secret, or a request other than runtime:packet.                   *)
NoPacket(c) ==
    /\ At(c, "checked")
    /\ Goto(c, "idle", NoGraph)
    /\ UNCHANGED <<fields, history, sched, out_thread, dogs, async_stops, stopping,
                   main, writer_waits>>

(* runtime:packet holds the read lock while the graph inport is full.       *)
PacketWaits(c) ==
    /\ At(c, "checked") /\ CanRead
    /\ Goto(c, "packet", NoGraph)
    /\ UNCHANGED <<fields, history, sched, out_thread, dogs, async_stops, stopping,
                   main, writer_waits>>

ReadUnlock(c) ==
    /\ At(c, "reporting") \/ At(c, "packet")
    /\ Goto(c, "idle", NoGraph)
    /\ writer_waits' = (writer_waits /\ Readers # {c})
    /\ UNCHANGED <<fields, history, sched, out_thread, dogs, async_stops, stopping, main>>

(* Who may call write(): a teardown, the signal shutdown, a network:stop, or a *)
(* handler that has just received network:start, network:debug or :edges.     *)
WantsWrite ==
    \/ \E k \in Gens : async_stops[k] > 0
    \/ main = "stop"
    \/ \E c \in Clients : client[c].at \in {"idle", "ack_running", "ack_stopped"}

WriterQueues ==
    /\ Running /\ Readers # {} /\ ~writer_waits /\ WantsWrite
    /\ writer_waits' = TRUE
    /\ UNCHANGED <<fields, history, sched, out_thread, dogs, client, async_stops,
                   stopping, main>>

(* network:debug and network:edges.                                         *)
DebugMode(c, g) ==
    /\ Idle(c) /\ CanWrite
    /\ rt_graph' = g /\ status' = [status EXCEPT !.graph = g]
    /\ UNCHANGED <<schedulers, scheduler_threads, boundary_threads, watchdog_thread,
                   watchdog_channel, history, sched, out_thread, dogs, client,
                   async_stops, stopping, main, writer_waits>>

-----------------------------------------------------------------------------
(* network:stop: two reads of status, then a write, each under its own lock. *)

StopRequest(c, g) ==
    /\ Idle(c) /\ CanRead
    /\ status.graph = g
    /\ Goto(c, "stop", g)
    /\ UNCHANGED <<fields, history, sched, out_thread, dogs, async_stops, stopping,
                   main, writer_waits>>

StopReadsRunning(c) ==
    /\ At(c, "stop") /\ CanRead
    /\ Goto(c, IF status.running THEN "ack_running" ELSE "ack_stopped", client[c].graph)
    /\ UNCHANGED <<fields, history, sched, out_thread, dogs, async_stops, stopping,
                   main, writer_waits>>

MarkStopped(c, next) ==
    /\ status' = [graph |-> client[c].graph, started |-> FALSE, running |-> FALSE]
    /\ Goto(c, next, NoGraph)
    /\ UNCHANGED <<rt_graph, schedulers, scheduler_threads, boundary_threads,
                   watchdog_thread, watchdog_channel>>

AckStopped(c) ==
    /\ At(c, "ack_stopped") /\ CanWrite
    /\ MarkStopped(c, "idle")
    /\ UNCHANGED <<history, sched, out_thread, dogs, async_stops, stopping, main,
                   writer_waits>>

AckRunning(c) ==
    /\ At(c, "ack_running") /\ CanWrite
    /\ MarkStopped(c, "acked")
    /\ UNCHANGED <<history, sched, out_thread, dogs, async_stops, stopping, main,
                   writer_waits>>

(* After the answer and the broadcast.  The teardown thread is remembered with *)
(* the latest generation at its spawn.                                       *)
SpawnTeardown(c) ==
    /\ At(c, "acked")
    /\ async_stops[starts] < MaxAsync
    /\ async_stops' = [async_stops EXCEPT ![starts] = @ + 1]
    /\ Goto(c, "idle", NoGraph)
    /\ UNCHANGED <<fields, history, sched, out_thread, dogs, stopping, main,
                   writer_waits>>

(* The answer cannot be sent: the handler panics and there is no teardown.   *)
AckFails(c) ==
    /\ At(c, "acked")
    /\ Goto(c, "idle", NoGraph)
    /\ UNCHANGED <<fields, history, sched, out_thread, dogs, async_stops, stopping,
                   main, writer_waits>>


AsyncStop(k) ==
    /\ Running /\ async_stops[k] > 0 /\ CanWrite
    /\ async_stops' = [async_stops EXCEPT ![k] = @ - 1]
    /\ stopping' = [by |-> "async", gen |-> k, at |-> "watchdog", late |-> FALSE]
    /\ UNCHANGED <<fields, history, sched, out_thread, dogs, client, main,
                   writer_waits>>

-----------------------------------------------------------------------------
(* Runtime::stop, with the write lock held throughout.               *)

StopGoto(at) == stopping' = [stopping EXCEPT !.at = at]

StopWatchdog ==
    /\ StopAt("watchdog")
    /\ dog_stop' = IF stopping.by # "dog" /\ watchdog_channel # None
                   THEN [dog_stop EXCEPT ![watchdog_channel] = TRUE] ELSE dog_stop
    /\ watchdog_channel' = None
    /\ StopGoto("boundary")
    /\ UNCHANGED <<rt_graph, status, schedulers, scheduler_threads, boundary_threads,
                   watchdog_thread, history, sched, out_thread, dog, dog_watches,
                   client, async_stops, main, writer_waits>>

StopBoundary ==
    /\ StopAt("boundary")
    /\ out_thread' = [k \in Gens |->
                          IF \E g \in Graphs : boundary_threads[g] = k
                          THEN Told(out_thread[k]) ELSE out_thread[k]]
    /\ StopGoto("schedulers")
    /\ UNCHANGED <<fields, history, sched, dogs, client, async_stops, main,
                   writer_waits>>

StopSchedulers ==
    /\ StopAt("schedulers")
    /\ sched' = [k \in Gens |->
                    IF \E g \in Graphs : schedulers[g] = k
                    THEN Told(sched[k]) ELSE sched[k]]
    /\ StopGoto("join_schedulers")
    /\ UNCHANGED <<fields, history, out_thread, dogs, client, async_stops, main,
                   writer_waits>>

Unfinished(tracked, thread) ==
    {g \in Graphs : tracked[g] # None /\ thread[tracked[g]] # "finished"}
KeepMutant(tracked, late) == [g \in late |-> tracked[g]]

(* The handles of the threads that timed out go back into the map.           *)
Keep(tracked, late) == [g \in Graphs |-> IF g \in late THEN tracked[g] ELSE None]

(* A scheduler thread that misses its grace period is put back into the map  *)
(* but does not make the stop incomplete.                                   *)
JoinSchedulers ==
    /\ StopAt("join_schedulers")
    /\ LET late == Unfinished(scheduler_threads, sched) IN
       /\ late # {} => JoinsTimeOut
       /\ scheduler_threads' = Keep(scheduler_threads, late)
    /\ StopGoto("join_boundary")
    /\ UNCHANGED <<rt_graph, status, schedulers, boundary_threads, watchdog_thread,
                   watchdog_channel, history, sched, out_thread, dogs, client,
                   async_stops, main, writer_waits>>

JoinBoundaryMutant ==
    /\ StopAt("join_boundary")
    /\ Unfinished(boundary_threads, out_thread) # {} => JoinsTimeOut
    /\ boundary_threads' = [g \in Graphs |-> None]
    /\ stopping' = [stopping EXCEPT !.at = "join_watchdog"]
    /\ UNCHANGED <<rt_graph, status, schedulers, scheduler_threads, watchdog_thread,
                   watchdog_channel, history, sched, out_thread, dogs, client,
                   async_stops, main, writer_waits>>

JoinBoundaryWaitsMutant ==
    /\ StopAt("join_boundary")
    /\ Unfinished(boundary_threads, out_thread) = {}
    /\ boundary_threads' = [g \in Graphs |-> None]
    /\ stopping' = [stopping EXCEPT !.at = "join_watchdog"]
    /\ UNCHANGED <<rt_graph, status, schedulers, scheduler_threads, watchdog_thread,
                   watchdog_channel, history, sched, out_thread, dogs, client,
                   async_stops, main, writer_waits>>

JoinBoundary ==
    /\ StopAt("join_boundary")
    /\ LET late == Unfinished(boundary_threads, out_thread) IN
       /\ late # {} => JoinsTimeOut
       /\ boundary_threads' = Keep(boundary_threads, late)
       /\ stopping' = [stopping EXCEPT !.at = "join_watchdog", !.late = late # {}]
    /\ UNCHANGED <<rt_graph, status, schedulers, scheduler_threads, watchdog_thread,
                   watchdog_channel, history, sched, out_thread, dogs, client,
                   async_stops, main, writer_waits>>

JoinWatchdogMutant ==
    /\ StopAt("join_watchdog")
    /\ LET late == watchdog_thread # None /\ dog[watchdog_thread] # "finished" IN
       /\ late => JoinsTimeOut
       /\ watchdog_thread' = IF late THEN watchdog_thread ELSE None
       /\ stopping' = [stopping EXCEPT !.at = "finish", !.late = @ \/ late]
    /\ UNCHANGED <<rt_graph, status, schedulers, scheduler_threads, boundary_threads,
                   watchdog_channel, history, sched, out_thread, dogs, client,
                   async_stops, main, writer_waits>>

JoinWatchdogDropMutant ==
    /\ StopAt("join_watchdog")
    /\ LET late == /\ stopping.by # "dog" /\ watchdog_thread # None
                   /\ dog[watchdog_thread] # "finished" IN
       /\ late => JoinsTimeOut
       /\ stopping' = [stopping EXCEPT !.at = "finish", !.late = @ \/ late]
    /\ watchdog_thread' = None
    /\ UNCHANGED <<rt_graph, status, schedulers, scheduler_threads, boundary_threads,
                   watchdog_channel, history, sched, out_thread, dogs, client,
                   async_stops, main, writer_waits>>

(* The watchdog that called stop() itself is detached, not joined.          *)
JoinWatchdog ==
    /\ StopAt("join_watchdog")
    /\ LET late == /\ stopping.by # "dog" /\ watchdog_thread # None
                   /\ dog[watchdog_thread] # "finished" IN
       /\ late => JoinsTimeOut
       /\ watchdog_thread' = IF late THEN watchdog_thread ELSE None
       /\ stopping' = [stopping EXCEPT !.at = "finish", !.late = @ \/ late]
    /\ UNCHANGED <<rt_graph, status, schedulers, scheduler_threads, boundary_threads,
                   watchdog_channel, history, sched, out_thread, dogs, client,
                   async_stops, main, writer_waits>>

(* An incomplete stop says running; a complete one keeps started only when   *)
(* the watchdog found the network finished.  Then the lock is released.      *)
StopFinish ==
    /\ StopAt("finish")
    /\ status' = [graph |-> rt_graph, running |-> stopping.late,
                  started |-> stopping.late \/ stopping.by = "dog"]
    /\ stopping' = NoStop
    /\ dog' = IF stopping.by = "dog" THEN [dog EXCEPT ![stopping.gen] = "report"] ELSE dog
    /\ main' = IF stopping.by = "main" THEN "exited" ELSE main
    /\ UNCHANGED <<rt_graph, schedulers, scheduler_threads, boundary_threads,
                   watchdog_thread, watchdog_channel, history, sched, out_thread,
                   dog_stop, dog_watches, client, async_stops, writer_waits>>

StopStep ==
    \/ StopWatchdog \/ StopBoundary \/ StopSchedulers
    \/ JoinSchedulers \/ JoinBoundary \/ JoinWatchdog \/ StopFinish

-----------------------------------------------------------------------------
(* The threads of a generation.                                             *)

(* A scheduler thread ends when told to, or when its last node is done.     *)
SchedulerEnds(k) ==
    /\ Running /\ Alive(sched[k])
    /\ sched' = [sched EXCEPT ![k] = "finished"]
    /\ UNCHANGED <<fields, history, out_thread, dogs, client, async_stops, stopping,
                   main, writer_waits>>

(* The OUT thread ends when told to, or by panic on a non-text packet.      *)
OutEnds(k) ==
    /\ Running /\ Alive(out_thread[k])
    /\ out_thread' = [out_thread EXCEPT ![k] = "finished"]
    /\ UNCHANGED <<fields, history, sched, dogs, client, async_stops, stopping, main,
                   writer_waits>>

DogGoto(k, at) == dog' = [dog EXCEPT ![k] = at]

(* The thread ends; its map and its end of the channel go with it.           *)
DogEnds(k) ==
    /\ DogGoto(k, "finished")
    /\ dog_stop' = [dog_stop EXCEPT ![k] = FALSE]
    /\ dog_watches' = [dog_watches EXCEPT ![k] = FALSE]

DogStops(k) ==
    /\ DogAt(k, "check") /\ dog_stop[k]
    /\ DogEnds(k)
    /\ UNCHANGED <<fields, history, sched, out_thread, client, async_stops, stopping,
                   main, writer_waits>>

(* One health check: drop the OUT thread from the map once it has exited.   *)
DogChecks(k) ==
    /\ DogAt(k, "check") /\ ~dog_stop[k]
    /\ LET exited == dog_watches[k] /\ out_thread[k] = "finished" IN
       /\ dog_watches' = [dog_watches EXCEPT ![k] = @ /\ ~exited]
       /\ DogGoto(k, IF exited THEN "look_lost" ELSE "look_ok")
    /\ UNCHANGED <<fields, history, sched, out_thread, dog_stop, client, async_stops,
                   stopping, main, writer_waits>>

AllSchedulersExited ==
    /\ \E g \in Graphs : scheduler_threads[g] # None
    /\ Unfinished(scheduler_threads, sched) = {}

(* try_read of the runtime; a busy lock counts as "not yet".                *)
DogLooks(k) ==
    /\ DogAt(k, "look_ok") \/ DogAt(k, "look_lost")
    /\ LET allExited == ~dog_watches[k] /\ CanRead /\ AllSchedulersExited IN
       DogGoto(k, IF allExited \/ (dog[k] = "look_lost" /\ ~dog_watches[k])
                  THEN "trywrite" ELSE "check")
    /\ UNCHANGED <<fields, history, sched, out_thread, dog_stop, dog_watches, client,
                   async_stops, stopping, main, writer_waits>>

DogCallsStopMutant(k) ==
    /\ DogAt(k, "trywrite")
    /\ DogGoto(k, "stopping")
    /\ stopping' = [by |-> "dog", gen |-> k, at |-> "watchdog", late |-> FALSE]
    /\ UNCHANGED <<fields, history, sched, out_thread, dog_stop, dog_watches, client,
                   async_stops, main, writer_waits>>

DogCallsStop(k) ==
    /\ DogAt(k, "trywrite") /\ CanWrite
    /\ DogGoto(k, "stopping")
    /\ stopping' = [by |-> "dog", gen |-> k, at |-> "watchdog", late |-> FALSE]
    /\ UNCHANGED <<fields, history, sched, out_thread, dog_stop, dog_watches, client,
                   async_stops, main, writer_waits>>

(* "external stop is likely in progress, exiting watchdog loop"             *)
DogGivesUp(k) ==
    /\ DogAt(k, "trywrite") /\ ~CanWrite
    /\ DogEnds(k)
    /\ UNCHANGED <<fields, history, sched, out_thread, client, async_stops, stopping,
                   main, writer_waits>>

DogReports(k) ==
    /\ DogAt(k, "report") /\ CanRead
    /\ DogEnds(k)
    /\ UNCHANGED <<fields, history, sched, out_thread, client, async_stops, stopping,
                   main, writer_waits>>

DogStep(k) ==
    \/ DogStops(k) \/ DogChecks(k) \/ DogLooks(k)
    \/ DogCallsStop(k) \/ DogGivesUp(k) \/ DogReports(k)

-----------------------------------------------------------------------------
(* SIGTERM or SIGINT ends the accept loop; the process exits afterwards.    *)

MainChecks ==
    /\ main = "serving" /\ CanRead
    /\ main' = IF status.running THEN "stop" ELSE "exited"
    /\ UNCHANGED <<fields, history, sched, out_thread, dogs, client, async_stops,
                   stopping, writer_waits>>

MainStops ==
    /\ main = "stop" /\ CanWrite
    /\ main' = "stopping"
    /\ stopping' = [by |-> "main", gen |-> None, at |-> "watchdog", late |-> FALSE]
    /\ UNCHANGED <<fields, history, sched, out_thread, dogs, client, async_stops,
                   writer_waits>>

-----------------------------------------------------------------------------
Request(c) ==
    \E g \in Graphs :
        \/ RefuseStart(c, g) \/ FailStart(c, g) \/ StartNetwork(c, g)
        \/ DebugMode(c, g) \/ StopRequest(c, g) \/ ReadForSecret(c)

Continue(c) ==
    \/ ReportStarted(c) \/ SecretRead(c) \/ NoPacket(c) \/ ReadUnlock(c)
    \/ StopReadsRunning(c) \/ AckStopped(c) \/ AckRunning(c) \/ SpawnTeardown(c)

ThreadEnds(k) == SchedulerEnds(k) \/ OutEnds(k)

Next ==
    \/ \E c \in Clients : Request(c) \/ PacketWaits(c) \/ Continue(c) \/ AckFails(c)
    \/ \E k \in Gens : AsyncStop(k) \/ ThreadEnds(k) \/ DogStep(k)
    \/ StopStep \/ MainChecks \/ MainStops \/ WriterQueues

Spec == Init /\ [][Next]_vars

(* Handlers, teardown threads and watchdogs go on, and the RwLock does not   *)
(* starve a waiting writer.  Scheduler and OUT threads get no fairness: the  *)
(* grace periods bound how long stop() waits for them.                      *)
Fairness ==
    /\ WF_vars(StopStep) /\ SF_vars(MainStops)
    /\ \A c \in Clients : SF_vars(Continue(c))
    /\ \A k \in Gens : SF_vars(AsyncStop(k)) /\ WF_vars(DogStep(k))

FairSpec == Spec /\ Fairness

-----------------------------------------------------------------------------
ClientPCs == {"idle", "started", "reporting", "secret", "checked", "packet", "stop",
              "ack_running", "ack_stopped", "acked"}
ThreadStates == {"none", "running", "told", "finished"}
StopPCs == {"idle", "watchdog", "boundary", "schedulers", "join_schedulers",
            "join_boundary", "join_watchdog", "finish"}

TypeOK ==
    /\ rt_graph \in Graphs
    /\ status \in [graph : Graphs, started : BOOLEAN, running : BOOLEAN]
    /\ schedulers \in [Graphs -> Gens \cup {None}]
    /\ scheduler_threads \in [Graphs -> Gens \cup {None}]
    /\ boundary_threads \in [Graphs -> Gens \cup {None}]
    /\ watchdog_thread \in Gens \cup {None} /\ watchdog_channel \in Gens \cup {None}
    /\ starts \in Gens \cup {0} /\ graph_of \in [Gens -> Graphs \cup {NoGraph}]
    /\ sched \in [Gens -> ThreadStates] /\ out_thread \in [Gens -> ThreadStates]
    /\ dog \in [Gens -> {"none", "check", "look_ok", "look_lost", "trywrite", "stopping", "report",
                         "finished"}]
    /\ dog_stop \in [Gens -> BOOLEAN] /\ dog_watches \in [Gens -> BOOLEAN]
    /\ client \in [Clients -> [at : ClientPCs, graph : Graphs \cup {NoGraph}]]
    /\ async_stops \in [Gens -> 0..MaxAsync]
    /\ stopping \in [by : {"nobody", "async", "dog", "main"}, gen : Gens \cup {None},
                     at : StopPCs, late : BOOLEAN]
    /\ writer_waits \in BOOLEAN
    /\ main \in {"serving", "stop", "stopping", "exited"}

(* A scheduler that nobody has told to stop belongs to the last start, both   *)
(* maps still name it, and its watchdog is tracked: no interleaving of start, *)
(* network:stop, watchdog and teardown leaves a network nobody can stop.      *)
OneLiveNetwork ==
    \A k \in Gens : sched[k] = "running" =>
        /\ k = starts
        /\ schedulers[graph_of[k]] = k /\ scheduler_threads[graph_of[k]] = k
        /\ watchdog_thread = k

(* Whoever reads running=true finds a thread that a later stop() can join:    *)
(* running after an incomplete stop is cleared by the next one.               *)
RunningMeansStoppable ==
    stopping = NoStop /\ status.running =>
        watchdog_thread # None \/ \E g \in Graphs : boundary_threads[g] # None

(* A graph OUT thread is tracked until it has ended: timeouts, restarts and   *)
(* panics never detach one.                                                  *)
BoundaryThreadsTracked ==
    \A k \in Gens : Alive(out_thread[k]) => boundary_threads[graph_of[k]] = k

(* A watchdog only ever stops the network it was started with, and not while  *)
(* another stop() or a reader holds the lock.                                *)
WatchdogStopsOwnNetwork ==
    stopping.by = "dog" => stopping.gen = starts /\ Readers = {}

(* A stop() the watchdog asked for completes: it joins neither itself nor a   *)
(* live boundary thread, so the status it leaves is not running.              *)
WatchdogStopIsFinal ==
    [][stopping.by = "dog" /\ stopping' = NoStop => ~status'.running]_vars

(* stop() gives the runtime lock back although threads may hang.             *)
StopReturns == (stopping # NoStop) ~> (stopping = NoStop)

(* A reader about to take the lock again while a writer waits for it to let go: *)
(* neither goes on, and nobody else gets the lock any more (server.rs:2459).  *)
NestedReadBlocks == writer_waits /\ \E c \in Clients : client[c].at = "secret"


-----------------------------------------------------------------------------
(* What documents, comments and messages of the repository say.              *)

(* features.md: "The watchdog thread recognizes network self-shutdown and     *)
(* calls the runtime to stop", blocked readers left aside.                   *)
SelfShutdownRecognized ==
    \A k \in Gens :
        (sched[k] = "finished" /\ starts = k /\ graph_of[k] \notin WithOutports)
            ~> (~status.running \/ starts # k \/ ~Running \/ NestedReadBlocks)

=============================================================================
