----------------------------- MODULE Components -----------------------------
(****************************************************************************)
(* A node of any of the modelled components in a running graph: its         *)
(* neighbours and the scheduler (NodeRun) with the process() of the         *)
(* component the node is an instance of (Dataflow, IoWorker, ChatWorker,     *)
(* Server, HttpServer, Pollers).                                            *)
(****************************************************************************)
EXTENDS Dataflow, ChatWorker, HttpServer, Pollers

netVars == <<serverVars, httpVars>>
vars == <<nodeVars, flowVars, ioVars, dispatcher, netVars>>

AllKinds == DataflowKinds \cup IoKinds \cup ChatKinds \cup ServerKinds
                \cup {HTTPServer} \cup PollerKinds

ASSUME KindsAssumption == Kinds \subseteq AllKinds

TypeOK == NodeTypeOK /\ DataflowTypeOK /\ IoTypeOK /\ ChatTypeOK /\ ServerTypeOK
              /\ HttpTypeOK

Init == NodeInit /\ DataflowInit /\ IoInit /\ ChatInit /\ ServerInit /\ HttpInit

Next ==
    \/ Neighbours /\ UNCHANGED <<flowVars, ioVars, dispatcher, netVars>>
    \/ Activate /\ UNCHANGED <<flowVars, ioVars, dispatcher, netVars>>
    \/ IsDataflow /\ DataflowStep /\ UNCHANGED <<ioVars, dispatcher, netVars>>
    \/ kind.family \notin {"dataflow", "poller"} /\ IoStep /\ UNCHANGED <<flowVars, dispatcher, netVars>>
    \/ ChatStep /\ UNCHANGED <<flowVars, netVars>>
    \/ ServerStep /\ UNCHANGED <<flowVars, dispatcher, httpVars>>
    \/ PollerStep /\ UNCHANGED <<flowVars, dispatcher, netVars>>
    \/ HttpStep /\ UNCHANGED <<flowVars, dispatcher>>

Spec == Init /\ [][Next]_vars

(* ---------------------------------------------------------- properties -- *)
Asleep == phase = "idle" /\ ~ready /\ ended = "no"

(* No component falls asleep for good with work at hand.  A node that is not *)
(* due to run has read its input or has what will wake it: a timer, or a     *)
(* worker with a request.  Servers and file readers always have their poll   *)
(* timer, since sockets and files wake nobody, and Cmd has one while its     *)
(* child runs.  (HTTPClient stops after one request, http.rs:769.)           *)
KeepsGoing ==
    Asleep =>
        /\ IsDataflow => ReadsItsInput /\ HasTimer
        /\ IsIo /\ st = "active" => WorkerGoesOn
        /\ IsChat /\ st = "active" => inq[1] = <<>>
        /\ IsServer /\ st = "active" => wake
        /\ kind \in {FileReader, FileTailer} => wake
        /\ kind = Cmd => (st = "active" => wake) /\ st # "finished"
        /\ kind = Cmd /\ conf = "got" /\ st = "waiting" => inq[1] = <<>>

(* A result that a worker or a dispatcher has sent is going to be read: the  *)
(* node is running or due, or its sender is still to wake it, or it looks    *)
(* again by timer as Cmd does.  (A FileWriter whose file could not be        *)
(* created waits for another name first, HTTPClient reads no result.)        *)
ResultsWakeNode ==
    Asleep /\ st # "waiting" /\ resq # <<>> /\ kind # HTTPClient =>
        \/ worker \in {"wake", "lastwake", "login"} \/ dispatcher = "wake"
        \/ kind = Cmd /\ wake

(* What a component was handed from the outside world, and the other side    *)
(* may have deleted, is never lost or repeated while it runs: it is in the   *)
(* channel, held, or sent on.  Fetchers and chat components also keep its    *)
(* order; a server or a file reader may push new data past what it holds.    *)
(* For a fetcher that is what a fetch returned: a fetch that fails returns   *)
(* nothing, and what is lost with it is the subject of FetchedIsHandedOn.    *)
ReceivedIsKept ==
    ended = "no" =>
        /\ kind.family = "fetcher" \/ (IsChat /\ phase # "finished") =>
               delivered[1] \o outq[1] \o held \o InChannel
                   = [k \in 1..fetched |-> <<1, k, 1>>]
        /\ kind \in ServerKinds \cup {FileReader, FileTailer} =>
               LET chunks == delivered[1] \o outq[1] \o held \o InChannel
               IN /\ Len(chunks) = fetched
                  /\ Items(chunks) = {<<1, k, 1>> : k \in 1..fetched}

(* A response is written in full at most once, and it and any part of it     *)
(* only to the client it is for, whatever the order of connects, disconnects *)
(* and blocked sockets.  A response TCP and Unix sockets keep for later was  *)
(* not written in full yet and is for a client that is still there; a part   *)
(* of it may be sent twice (PartNotRepeated).  The requests HTTP waits for   *)
(* are the ones the graph has still to answer, in the order it was given     *)
(* them.  (TLS may send a response twice, tls.rs:876.)                       *)
AnsweredOnce ==
    IsServer /\ kind # TLSServer =>
        /\ \A i, j \in 1..Len(answers) : answers[i][1] = answers[j][1] => i = j
        /\ \A i \in 1..Len(answers) : answers[i][2] = answers[i][3]
        /\ \A t \in torn : t[2] = t[3]
        /\ kind.routed /\ phase = "idle" => \A e \in pending_responses :
               /\ \A i \in 1..Len(answers) : answers[i][1] # e[2]
               /\ e[1] \in DOMAIN connections /\ connections[e[1]].client = e[3]
        /\ kind = HTTPServer =>
               LET asked == OutOf(1)
                   taken == sent[1] - Len(inq[1])
               IN response_wait_queue =
                      [i \in 1..(Len(asked) - taken) |-> asked[taken + i][2]]

(* testing_strategy.md:147: messages are never duplicated, here a response   *)
(* on a socket: a client that got a response in full did not get a part of   *)
(* it before.  The code keeps a response whose write_all stopped at a full   *)
(* socket and writes it again from the start (tcp.rs:778, unixsocket.rs:691). *)
PartNotRepeated == \A i \in 1..Len(answers) : answers[i] \notin torn

(* testing_strategy.md:146: messages are never lost, here mails: while a     *)
(* fetcher runs, every mail the server has handed out, and marked as seen or *)
(* deleted, is in the channel, held or sent on.  The code connects with an   *)
(* empty list when the fetch of the unseen mails fails (imap.rs:566, 1564).  *)
FetchedIsHandedOn ==
    kind.family = "fetcher" /\ ended = "no" =>
        Len(delivered[1] \o outq[1] \o held \o InChannel) = fetched + lost
=============================================================================
