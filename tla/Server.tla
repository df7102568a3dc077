------------------------------- MODULE Server -------------------------------
(****************************************************************************)
(* The socket servers (TCP, Unix socket, WebSocket, TLS): one process()     *)
(* call configures the listener, sends the data earlier calls could not,    *)
(* accepts a client, reads each connection once, writes responses that      *)
(* arrive on RESP and drops the connections that broke.  All sockets are    *)
(* non-blocking or have timeouts, so nothing wakes the node when a client   *)
(* acts: it polls with a timer.                                             *)
(*                                                                          *)
(* In-edge 1 is RESP, out-edge 1 is OUT.  A client is a number in order of  *)
(* arrival; the graph knows it by the id its data was framed with.  What a  *)
(* socket does is the environment's choice at each read and write.  Of the  *)
(* variables of IoWorker the servers use st for the listener, held for      *)
(* pending_outbound and fetched for the chunks read from clients.           *)
(****************************************************************************)
EXTENDS IoWorker

CONSTANTS
    MaxClients,     \* bound: clients that ever connect
    MaxChunks       \* bound: chunks of data clients ever send

ASSUME ServerBounds == {MaxClients, MaxChunks} \subseteq Nat \ {0}

VARIABLES
    connections,        \* id -> [client, hs, req, resp]: who it is, the state it is in,
                        \* and for HTTP its request and response
    ids,                \* the id each client was given, in order of arrival
    pending_responses,  \* <<id, response, client>> not written yet
    todo, removing,     \* ids a loop has still to visit; connections_to_remove
    answers,            \* <<response, client it was for, client it was written to>>
    torn                \* the same of writes that stopped after a part of the response

serverVars == <<connections, ids, pending_responses, todo, removing, answers, torn>>
ioRest == <<channels, inflight, retry_state, failures, submitted, confirmed, lost>>

(* confcost, confbudget: work counted and budget taken by the configuration; *)
(* refuses: what a bad one does ("dead" for a NoWork that has consumed it);  *)
(* breaks: a full out-edge ends the read loop; routed: responses name their  *)
(* client; queued: they wait in a queue for any client; eof: when a closed   *)
(* RESP finishes the node; acceptall: accepts until nobody is there; visit:  *)
(* the phase that visits the connections.                                    *)
TCPServer ==
    [name |-> "TCPServer", family |-> "server", first |-> "config",
     phases |-> {"config", "flush", "accept", "read", "respond", "retry", "end"},
     config |-> "inline", confcost |-> 1, confbudget |-> 1, inports |-> {1},
     refuses |-> {"dead", "panicked"}, handshake |-> "active", breaks |-> FALSE,
     acceptfails |-> FALSE, routed |-> TRUE, queued |-> FALSE, retrycost |-> 1,
     eof |-> "clean", acceptall |-> FALSE, visit |-> "read"]
UnixSocketServer ==
    [TCPServer EXCEPT !.name = "UnixSocketServer", !.confbudget = 0, !.refuses = {"dead"},
                      !.retrycost = 0, !.eof = "never"]
WSServer ==
    [TCPServer EXCEPT !.name = "WSServer", !.config = "return", !.refuses = {"panicked"},
                      !.breaks = TRUE, !.acceptfails = TRUE, !.routed = FALSE,
                      !.eof = "any"]
TLSServer ==
    [TCPServer EXCEPT !.name = "TLSServer", !.confcost = 0, !.confbudget = 0,
                      !.refuses = {"panicked"}, !.handshake = "shaking",
                      !.routed = FALSE, !.queued = TRUE, !.eof = "never"]

ServerKinds == {TCPServer, UnixSocketServer, WSServer, TLSServer}
IsServer == kind.family = "server"

Clients == 1..MaxClients
Ids == 0..(MaxClients - 1)

ServerTypeOK ==
    /\ DOMAIN connections \subseteq Ids
    /\ \A id \in DOMAIN connections :
           connections[id] \in
               [client : Clients, req : 0..MaxMsgs, resp : 0..MaxMsgs,
                hs : {"active", "shaking", "ok", "failed",
                      "reading", "processing", "pending", "writing", "keepalive"}]
    /\ ids \in Seq(Ids) /\ Len(ids) <= MaxClients
    /\ pending_responses \subseteq Nat \X (0..MaxMsgs) \X Clients
    /\ todo \subseteq Ids /\ removing \in Seq(Ids)
    /\ answers \in Seq((1..MaxMsgs) \X Clients \X Clients)
    /\ torn \subseteq (1..MaxMsgs) \X Clients \X Clients

ServerInit ==
    /\ connections = [id \in {} |-> 0] /\ ids = <<>>
    /\ pending_responses = {} /\ todo = {} /\ removing = <<>>
    /\ answers = <<>> /\ torn = {}

Without(f, S) == [x \in DOMAIN f \ S |-> f[x]]

(* ------------------------------------------------------------ process() -- *)
(* Read the configuration and bind the listener.  (TLS flushes first, but    *)
(* has nothing to flush before it listens.)                                  *)
Listen ==
    /\ phase = "config" /\ IsServer
    /\ \/ /\ st = "active"
          /\ Goto("flush", remaining_budget, work_units)
          /\ UNCHANGED <<conf, st>>
       \/ /\ st = "waiting" /\ conf # "queued"
          /\ NoWork(ready)
          /\ UNCHANGED <<conf, st>>
       \/ /\ st = "waiting" /\ conf = "queued"
          /\ conf' = "got" /\ st' = "active"
          /\ IF kind.config = "return"
             THEN DidWork(1, remaining_budget, ready)
             ELSE Goto("flush", remaining_budget - kind.confbudget, work_units + kind.confcost)
       \/ \E why \in kind.refuses :
          /\ st = "waiting" /\ conf = "queued"
          /\ conf' = "got" /\ UNCHANGED st
          /\ IF why = "dead" THEN NoWork(ready) ELSE Retire(why)
    /\ UNCHANGED <<kind, inq, sent, open, outq, delivered, wake, fired, ioRest, held,
                   fetched, serverVars>>

(* Drain pending_outbound, oldest first, until the edge is full.            *)
FlushOutbound ==
    /\ phase = "flush" /\ IsServer
    /\ IF remaining_budget > 0 /\ held # <<>> /\ Room(1)
       THEN /\ Push(1, Head(held)) /\ held' = Tail(held)
            /\ Goto("flush", remaining_budget - 1, work_units + 1)
       ELSE Goto("accept", remaining_budget, work_units) /\ UNCHANGED <<outq, held>>
    /\ UNCHANGED <<kind, inq, sent, open, conf, delivered, wake, fired, st, ioRest, fetched,
                   serverVars>>

NextClientIdMutant == Cardinality(DOMAIN connections)

(* next_client_id counts the clients ever accepted.                         *)
NextClientId == Len(ids)

(* Accept a client, if one is there.                                        *)
Accept ==
    /\ phase = "accept" /\ IsServer
    /\ \/ /\ Goto(kind.visit, remaining_budget, work_units)
          /\ UNCHANGED <<connections, ids>>
       \/ /\ remaining_budget > 0 /\ Len(ids) < MaxClients
          /\ connections' = [id \in DOMAIN connections \cup {NextClientId} |->
                 IF id = NextClientId
                 THEN [client |-> Len(ids) + 1, hs |-> kind.handshake, req |-> 0, resp |-> 0]
                 ELSE connections[id]]
          /\ ids' = Append(ids, NextClientId)
          /\ Goto(IF kind.acceptall THEN "accept" ELSE kind.visit,
                  remaining_budget - 1, work_units + 1)
       \/ /\ remaining_budget > 0 /\ kind.acceptfails
          /\ Retire("finished")
          /\ UNCHANGED <<connections, ids>>
    /\ todo' = DOMAIN connections'
    /\ UNCHANGED <<kind, edges, wake, fired, st, ioRest, held, fetched,
                   pending_responses, removing, answers, torn>>

(* The handshake thread of a TLS connection reports its outcome and wakes    *)
(* the node.                                                                *)
Handshake ==
    /\ IsServer /\ ended = "no"
    /\ \E id \in DOMAIN connections, outcome \in {"ok", "failed"} :
        /\ connections[id].hs = "shaking"
        /\ connections' = [connections EXCEPT ![id].hs = outcome]
    /\ ready' = TRUE
    /\ UNCHANGED <<kind, edges, wake, fired, call, ioVars, ids, pending_responses, todo,
                   removing, answers, torn>>

(* One connection of the read loop, in any order (a HashMap): no data, data  *)
(* that is pushed or kept for later, or a connection to remove.              *)
ReadClient ==
    /\ phase = "read" /\ IsServer /\ remaining_budget > 0
    /\ \E id \in todo :
        \/ /\ connections[id].hs \in {"active", "shaking"}
           /\ todo' = todo \ {id}
           /\ removing' \in {removing, Append(removing, id)}
           /\ Goto("read", remaining_budget, work_units)
           /\ UNCHANGED <<outq, held, fetched, connections>>
        \/ /\ connections[id].hs = "failed"
           /\ todo' = todo \ {id} /\ removing' = Append(removing, id)
           /\ Goto("read", remaining_budget, work_units)
           /\ UNCHANGED <<outq, held, fetched, connections>>
        \/ /\ connections[id].hs = "ok"
           /\ todo' = todo \ {id}
           /\ connections' = [connections EXCEPT ![id].hs = "active"]
           /\ Goto("read", remaining_budget - 1, work_units + 1)
           /\ UNCHANGED <<outq, held, fetched, removing>>
        \/ /\ connections[id].hs = "active" /\ fetched < MaxChunks
           /\ fetched' = fetched + 1
           /\ LET chunk == <<1, fetched + 1, 1>>
              IN IF Room(1)
                 THEN Push(1, chunk) /\ UNCHANGED held
                 ELSE held' = Append(held, chunk) /\ UNCHANGED outq
           /\ IF kind.breaks /\ ~Room(1)
              THEN todo' = {} /\ Goto("read", remaining_budget, work_units)
              ELSE todo' = todo \ {id} /\ Goto("read", remaining_budget - 1, work_units + 1)
           /\ UNCHANGED <<connections, removing>>
    /\ UNCHANGED <<kind, inq, sent, open, conf, delivered, wake, fired, st, ioRest,
                   ids, pending_responses, answers, torn>>

(* The end of the read loop.  WS and TLS drop broken connections here, TCP   *)
(* and Unix at the end of the call.                                         *)
ReadDone ==
    /\ phase = "read" /\ IsServer
    /\ todo = {} \/ remaining_budget = 0
    /\ todo' = {}
    /\ IF kind.routed
       THEN /\ Goto("respond", remaining_budget, work_units)
            /\ UNCHANGED <<connections, removing>>
       ELSE /\ connections' = Without(connections, SeqExt!ToSet(removing)) /\ removing' = <<>>
            /\ Goto("respond", remaining_budget,
                    IF kind.queued THEN work_units + Len(removing) ELSE work_units)
    /\ UNCHANGED <<kind, edges, wake, fired, ioVars, ids, pending_responses, answers,
                   torn>>

Response == Head(inq[1])
Write(m, c, id) ==
    /\ answers' = Append(answers, <<m, c, connections[id].client>>)
    /\ UNCHANGED torn

(* write_all fails, because the socket would block or is broken, before or   *)
(* after a part of the response was written; nobody keeps how much it was.   *)
WriteFails(m, c, id) ==
    /\ torn' \in {torn, torn \cup {<<m, c, connections[id].client>>}}
    /\ UNCHANGED answers

(* TCP and Unix take one response, which names its client by id: it is       *)
(* written, kept whole because the socket would block, or lost with a broken *)
(* connection, a client that is gone, or a framing nobody can read.          *)
RouteResponse ==
    /\ phase = "respond" /\ IsServer /\ kind.routed
    /\ \/ /\ remaining_budget = 0 \/ inq[1] = <<>>
          /\ Goto("retry", remaining_budget, work_units)
          /\ UNCHANGED <<inq, pending_responses, removing, answers, torn>>
       \/ /\ remaining_budget > 0 /\ inq[1] # <<>> /\ Pop(1)
          /\ Goto("retry", remaining_budget, work_units)
          /\ UNCHANGED <<pending_responses, removing, answers, torn>>
       \/ \E c \in 1..Len(ids) : LET id == ids[c] IN
          /\ remaining_budget > 0 /\ inq[1] # <<>> /\ Pop(1)
          /\ id \in DOMAIN connections
          /\ \/ /\ Write(Response, c, id)
                /\ Goto("retry", remaining_budget - 1, work_units + 1)
                /\ UNCHANGED <<pending_responses, removing>>
             \/ /\ WriteFails(Response, c, id)
                /\ pending_responses' = {e \in pending_responses : e[1] # id}
                                            \cup {<<id, Response, c>>}
                /\ Goto("retry", remaining_budget - kind.retrycost, work_units + kind.retrycost)
                /\ UNCHANGED removing
             \/ /\ WriteFails(Response, c, id) /\ removing' = Append(removing, id)
                /\ Goto("retry", remaining_budget, work_units)
                /\ UNCHANGED pending_responses
    /\ todo' = {e[1] : e \in pending_responses'}
    /\ UNCHANGED <<kind, sent, open, conf, outq, delivered, wake, fired, ioVars, connections, ids>>

(* Then the responses kept so far are tried again, each from its start.     *)
RetryResponse ==
    /\ phase = "retry" /\ IsServer
    /\ \/ /\ remaining_budget > 0
          /\ \E e \in pending_responses :
             /\ e[1] \in todo /\ todo' = todo \ {e[1]}
             /\ \/ /\ e[1] \in DOMAIN connections /\ Write(e[2], e[3], e[1])
                   /\ pending_responses' = pending_responses \ {e}
                   /\ Goto("retry", remaining_budget - 1, work_units + 1)
                   /\ UNCHANGED removing
                \/ /\ e[1] \in DOMAIN connections /\ WriteFails(e[2], e[3], e[1])
                   /\ Goto("retry", remaining_budget, work_units)
                   /\ UNCHANGED <<pending_responses, removing>>
                \/ /\ e[1] \in DOMAIN connections /\ WriteFails(e[2], e[3], e[1])
                   /\ removing' = Append(removing, e[1])
                   /\ pending_responses' = pending_responses \ {e}
                   /\ Goto("retry", remaining_budget, work_units)
                \/ /\ e[1] \notin DOMAIN connections
                   /\ pending_responses' = pending_responses \ {e}
                   /\ Goto("retry", remaining_budget, work_units)
                   /\ UNCHANGED <<removing, answers, torn>>
       \/ /\ todo = {} \/ remaining_budget = 0
          /\ todo' = {} /\ Goto("end", remaining_budget, work_units)
          /\ UNCHANGED <<pending_responses, removing, answers, torn>>
    /\ UNCHANGED <<kind, edges, wake, fired, ioVars, connections, ids>>

(* WS sends each response to some connection; a failed write, or no client,  *)
(* loses it.  A write whose flush fails is not counted, but the session has  *)
(* the frame and sends it with the next flush, or loses it with the client.  *)
SendResponse ==
    /\ phase = "respond" /\ IsServer /\ ~kind.routed /\ ~kind.queued
    /\ \/ /\ inq[1] = <<>> \/ remaining_budget = 0
          /\ Goto("end", remaining_budget, work_units)
          /\ UNCHANGED <<inq, answers, torn>>
       \/ /\ inq[1] # <<>> /\ remaining_budget > 0 /\ Pop(1)
          /\ Goto("respond", remaining_budget, work_units)
          /\ UNCHANGED <<answers, torn>>
       \/ \E id \in DOMAIN connections :
          /\ inq[1] # <<>> /\ remaining_budget > 0 /\ Pop(1)
          /\ Write(Response, connections[id].client, id)
          /\ \/ Goto("respond", remaining_budget - 1, work_units + 1)
             \/ Goto("respond", remaining_budget, work_units)
    /\ UNCHANGED <<kind, sent, open, conf, outq, delivered, wake, fired, ioVars, connections,
                   ids, pending_responses, todo, removing>>

(* TLS queues the response and sends the oldest one to some connection; when *)
(* the socket does not take what the TLS session has accepted, the response  *)
(* stays queued and is sent again, so answers does not record them.         *)
QueueResponse ==
    /\ phase = "respond" /\ IsServer /\ kind.queued
    /\ LET arrived == IF inq[1] = <<>> THEN {} ELSE {<<0, Response, 1>>}
           queue == pending_responses \cup arrived
       IN /\ inq' = IF inq[1] = <<>> THEN inq ELSE [inq EXCEPT ![1] = Tail(@)]
          /\ \/ /\ pending_responses' = queue
                /\ Goto("end", remaining_budget, work_units)
             \/ /\ remaining_budget > 0
                /\ \E id \in DOMAIN connections : connections[id].hs = "active"
                /\ \E oldest \in queue :
                   /\ \A e \in queue : oldest[2] <= e[2]
                   /\ pending_responses' = queue \ {oldest}
                /\ Goto("end", remaining_budget - 1, work_units + 1)
    /\ UNCHANGED <<kind, sent, open, conf, outq, delivered, wake, fired, ioVars, connections,
                   ids, todo, removing, answers, torn>>

(* The end of process(): drop what broke, finish at the end of RESP, and     *)
(* without work ask to be called again after the poll interval.             *)
EndServer ==
    /\ phase = "end" /\ IsServer
    /\ connections' = Without(connections, SeqExt!ToSet(removing)) /\ removing' = <<>>
    /\ pending_responses' =
           IF kind.routed THEN {e \in pending_responses : e[1] \notin SeqExt!ToSet(removing)}
           ELSE pending_responses
    /\ LET units == work_units + Len(removing)
       IN CASE \/ open = {} /\ kind.eof = "any"
               \/ open = {} /\ kind.eof = "clean" /\ pending_responses' = {} /\ held = <<>>
                   -> Retire("finished") /\ UNCHANGED wake
            [] OTHER ->
                  IF units > 0
                  THEN DidWork(units, remaining_budget, ready) /\ UNCHANGED wake
                  ELSE wake' = TRUE /\ NoWork(ready)
    /\ UNCHANGED <<kind, edges, fired, ioVars, ids, todo, answers, torn>>

ServerStep ==
    \/ Listen \/ FlushOutbound \/ Accept \/ Handshake \/ ReadClient \/ ReadDone
    \/ RouteResponse \/ RetryResponse \/ SendResponse \/ QueueResponse \/ EndServer
=============================================================================
