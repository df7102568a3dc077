----------------------------- MODULE HttpServer -----------------------------
(****************************************************************************)
(* The HTTP server of src/components/http: it listens and accepts like the  *)
(* servers of Server, turns the data of each connection into requests,      *)
(* sends those on REQ and matches what arrives on RESP with the requests    *)
(* that wait, first come first served.  A response carries no request id,   *)
(* so the match is right only while response_wait_queue and the requests    *)
(* the graph has been given agree.                                          *)
(*                                                                          *)
(* Out-edge 1 is the one REQ edge that is connected; a request for any      *)
(* other route is answered with 404.  CONF and ROUTES count as one          *)
(* configuration packet: until both are there process() does nothing.  A    *)
(* connection is in the states "reading", "processing", "pending" (waiting  *)
(* for the response of request req), "writing" and "keepalive".  The        *)
(* variable fetched is next_request_id.                                     *)
(****************************************************************************)
EXTENDS Server

CONSTANT MaxRequests    \* bound: requests clients ever send

ASSUME HttpBounds == MaxRequests \in 1..MaxMsgs

VARIABLES
    pending_requests,       \* <<request, id, routed>>, not yet sent on REQ
    response_wait_queue     \* requests sent on REQ that have no response yet

httpVars == <<pending_requests, response_wait_queue>>

HTTPServer ==
    [TCPServer EXCEPT !.name = "HTTPServer", !.refuses = {"panicked"}, !.eof = "never", !.routed = FALSE,
                      !.handshake = "reading", !.acceptall = TRUE, !.visit = "serve",
                      !.phases = {"config", "flush", "accept", "serve", "parse", "request",
                                  "response", "end"}]

Requests == 0..(MaxRequests - 1)

HttpTypeOK ==
    /\ pending_requests \in Seq(Requests \X Ids \X BOOLEAN)
    /\ response_wait_queue \in Seq(Requests)

HttpInit == pending_requests = <<>> /\ response_wait_queue = <<>>

Await(id, request) == [connections EXCEPT ![id].hs = "pending", ![id].req = request]

(* An answer the server gives by itself is response 0: 400, 404 or 505.     *)
Refusal(request) == <<request, 0, 1>>

(* The client the response with number n is for: the one whose request was  *)
(* the n-th the graph has taken.                                            *)
Asker(n) == delivered[1][n][3]

(* ------------------------------------------------ one connection, by state -- *)
(* Nothing to read, not enough of a request yet, or a closed connection.     *)
NoRequest(id) ==
    /\ removing' \in {removing, Append(removing, id)}
    /\ Goto("serve", remaining_budget, work_units)
    /\ UNCHANGED <<connections, fetched, pending_requests, pending_responses>>

(* Headers that stop in the middle of a line, or a chunk that does, keep the  *)
(* parser in its loop, which spends no budget: process() never returns.       *)
ParserLoops(id) ==
    /\ Goto("parse", remaining_budget, work_units)
    /\ UNCHANGED <<connections, fetched, pending_requests, pending_responses, removing>>

(* A request line, a header or a length nobody can read is answered 400.      *)
MalformedRequest(id) ==
    /\ fetched < MaxRequests /\ fetched' = fetched + 1
    /\ pending_responses' = pending_responses \cup {Refusal(fetched)}
    /\ connections' = Await(id, fetched)
    /\ Goto("serve", remaining_budget, work_units)
    /\ UNCHANGED <<pending_requests, removing>>

(* A complete request, with or without a body and a route.                    *)
RequestParsed(id) ==
    /\ fetched < MaxRequests /\ fetched' = fetched + 1
    /\ \E routed \in BOOLEAN :
           pending_requests' = Append(pending_requests, <<fetched, id, routed>>)
    /\ connections' = [connections EXCEPT ![id].hs = "processing"]
    /\ Goto("serve", remaining_budget - 1, work_units + 1)
    /\ UNCHANGED <<pending_responses, removing>>

ReadRequest(id) ==
    /\ connections[id].hs = "reading"
    /\ NoRequest(id) \/ ParserLoops(id) \/ MalformedRequest(id) \/ RequestParsed(id)
    /\ UNCHANGED answers

(* A connection whose request waits to be sent, or to be answered.          *)
AwaitResponse(id) ==
    LET found == {e \in pending_responses : e[1] = connections[id].req} IN
    /\ connections[id].hs \in {"processing", "pending"}
    /\ IF connections[id].hs = "processing" \/ found = {}
       THEN /\ Goto("serve", remaining_budget, work_units)
            /\ UNCHANGED <<connections, pending_responses>>
       ELSE \E e \in found :
            /\ pending_responses' = pending_responses \ {e}
            /\ connections' = [connections EXCEPT ![id].hs = "writing", ![id].resp = e[2]]
            /\ Goto("serve", remaining_budget - 1, work_units + 1)
    /\ UNCHANGED <<fetched, pending_requests, removing, answers>>

(* Write some of the response or the rest of it; or the socket would block,  *)
(* or is broken.                                                            *)
WriteResponse(id) ==
    LET resp == connections[id].resp IN
    /\ connections[id].hs = "writing"
    /\ \/ /\ connections' = [connections EXCEPT ![id].hs = "keepalive"]
          /\ answers' = IF resp = 0 THEN answers
                        ELSE Append(answers, <<resp, Asker(resp), connections[id].client>>)
          /\ Goto("serve", remaining_budget - 1, work_units + 1)
          /\ UNCHANGED removing
       \/ /\ Goto("serve", remaining_budget - 1, work_units + 1)
          /\ UNCHANGED <<connections, removing, answers>>
       \/ /\ removing' \in {removing, Append(removing, id)}
          /\ Goto("serve", remaining_budget, work_units)
          /\ UNCHANGED <<connections, answers>>
    /\ UNCHANGED <<fetched, pending_requests, pending_responses>>

(* After a response the connection is read again, or closed once idle too   *)
(* long.                                                                    *)
KeepAlive(id) ==
    /\ connections[id].hs = "keepalive"
    /\ \/ /\ connections' = [connections EXCEPT ![id].hs = "reading"]
          /\ Goto("serve", remaining_budget - 1, work_units + 1)
          /\ UNCHANGED removing
       \/ /\ removing' = Append(removing, id)
          /\ Goto("serve", remaining_budget, work_units)
          /\ UNCHANGED connections
    /\ UNCHANGED <<fetched, pending_requests, pending_responses, answers>>

(* The loop over the connections, in any order.  Their state changes are     *)
(* applied after it, but each is visited once.                              *)
ServeClient ==
    /\ phase = "serve" /\ remaining_budget > 0
    /\ \E id \in todo :
        /\ todo' = todo \ {id}
        /\ ReadRequest(id) \/ AwaitResponse(id) \/ WriteResponse(id) \/ KeepAlive(id)
    /\ UNCHANGED <<kind, edges, wake, fired, st, ioRest, held, ids, torn,
                   response_wait_queue>>

(* VecDeque::retain: the elements of s that are not in S, in their order.   *)
Retain(s, S) ==
    LET kept == {i \in 1..Len(s) : s[i] \notin S}
        Nth(j) == CHOOSE i \in kept : Cardinality({k \in kept : k <= i}) = j
    IN [j \in 1..Cardinality(kept) |-> s[Nth(j)]]

(* Remove what broke; a connection that waited leaves the queue.            *)
ServeDone ==
    /\ phase = "serve" /\ (todo = {} \/ remaining_budget = 0)
    /\ LET gone == SeqExt!ToSet(removing)
           waited == {connections[id].req :
                         id \in {i \in gone : connections[i].hs \in {"pending", "writing"}}}
       IN /\ connections' = Without(connections, gone)
          /\ response_wait_queue' = Retain(response_wait_queue, waited)
          /\ pending_responses' = {e \in pending_responses : e[1] \notin waited}
    /\ todo' = {} /\ removing' = <<>>
    /\ Goto("request", remaining_budget, work_units + Len(removing))
    /\ UNCHANGED <<kind, edges, wake, fired, ioVars, ids, answers, torn,
                   pending_requests>>

(* Send the requests on REQ until it is full, and refuse those without a    *)
(* route.                                                                   *)
SendRequest ==
    /\ phase = "request" /\ remaining_budget > 0 /\ pending_requests # <<>>
    /\ LET request == Head(pending_requests)[1]
           id == Head(pending_requests)[2]
           routed == Head(pending_requests)[3]
       IN /\ routed => Room(1)
          /\ connections' = Await(id, request)
          /\ IF routed
             THEN /\ Push(1, <<1, request, connections[id].client>>)
                  /\ response_wait_queue' = Append(response_wait_queue, request)
                  /\ Goto("request", remaining_budget - 1, work_units + 1)
                  /\ UNCHANGED pending_responses
             ELSE /\ pending_responses' = pending_responses \cup {Refusal(request)}
                  /\ Goto("request", remaining_budget, work_units)
                  /\ UNCHANGED <<outq, response_wait_queue>>
    /\ pending_requests' = Tail(pending_requests)
    /\ UNCHANGED <<kind, inq, sent, open, conf, delivered, wake, fired, ioVars, ids, todo,
                   removing, answers, torn>>

RequestsSent ==
    /\ phase = "request"
    /\ \/ remaining_budget = 0
       \/ pending_requests = <<>>
       \/ pending_requests # <<>> /\ Head(pending_requests)[3] /\ ~Room(1)
    /\ Goto("response", remaining_budget, work_units)
    /\ UNCHANGED <<kind, edges, wake, fired, ioVars, serverVars, httpVars>>

(* Each response goes to the request that has waited longest; without one   *)
(* it is dropped, and reading stops.                                        *)
TakeResponse ==
    /\ phase = "response" /\ remaining_budget > 0 /\ inq[1] # <<>>
    /\ Pop(1)
    /\ IF response_wait_queue = <<>>
       THEN /\ Goto("end", remaining_budget, work_units)
            /\ UNCHANGED <<pending_responses, response_wait_queue>>
       ELSE /\ pending_responses' =
                   pending_responses \cup {<<Head(response_wait_queue), Response, 1>>}
            /\ response_wait_queue' = Tail(response_wait_queue)
            /\ Goto("response", remaining_budget - 1, work_units + 1)
    /\ UNCHANGED <<kind, sent, open, conf, outq, delivered, wake, fired, ioVars, connections,
                   ids, todo, removing, answers, torn, pending_requests>>

ResponsesTaken ==
    /\ phase = "response" /\ (remaining_budget = 0 \/ inq[1] = <<>>)
    /\ Goto("end", remaining_budget, work_units)
    /\ UNCHANGED <<kind, edges, wake, fired, ioVars, serverVars, httpVars>>

HttpStep ==
    \/ ServeClient \/ ServeDone \/ SendRequest \/ RequestsSent \/ TakeResponse
    \/ ResponsesTaken
=============================================================================
