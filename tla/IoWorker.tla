------------------------------ MODULE IoWorker ------------------------------
(****************************************************************************)
(* The components that give blocking I/O to a thread of their own: they     *)
(* send it commands, it does the I/O, sends a result back and then wakes    *)
(* the node.  Four shapes: connectors (TCP, WebSocket, MQTT, Redis and Unix *)
(* socket clients) that connect with retries, IMAP sessions that submit one *)
(* operation per message and count those in flight, IMAP fetchers that keep *)
(* one poll outstanding and push what it fetches, and FileWriter.           *)
(*                                                                          *)
(* The network and the disk are the worker's choice of outcome.  The        *)
(* channels of sessions and fetchers are unbounded, and a connector has one *)
(* request at a time in channels of 10 and 100 places (RequestsAccounted),  *)
(* so only FileWriter's data channel can be full.                           *)
(****************************************************************************)
EXTENDS NodeRun

SeqExt == INSTANCE SequencesExt

CONSTANTS
    MaxRetries,     \* RetryConfig.max_retries
    MaxFailures,    \* bound: connection attempts that fail for a passing reason
    CmdCap          \* bound: places of a bounded command channel

ASSUME WorkerBounds ==
    MaxRetries \in Nat /\ MaxFailures \in Nat /\ CmdCap \in Nat \ {0}

VARIABLES
    st,             \* the component's state
    cmdq, resq,     \* the channels to and from the worker
    worker,         \* what the worker is at: "recv", a command, "wake" or "gone"
    held,           \* pending_messages, pending_input: taken, not yet passed on
    inflight,       \* inflight_appends, inflight_operations, poll_inflight
    retry_state,    \* attempt of self.retry_state
    failures,       \* connection attempts that failed so far
    submitted,      \* operations given to the worker
    confirmed,      \* operations the server has done
    fetched,        \* messages the server has handed out and the worker passed on
    lost            \* messages a failing fetch had taken from the server and dropped

channels == <<cmdq, resq, worker>>
history == <<failures, submitted, confirmed, fetched, lost>>
ioVars == <<st, channels, held, inflight, retry_state, history>>

(* ------------------------------------------------------- the components -- *)
(* refuses: what a bad CONF does ("panicked", "finished", "dead" for a      *)
(* NoWork that leaves the state Finished); errors: what a failed attempt    *)
(* may be; malformed: input may be skipped; eager: polls with messages      *)
(* pending; connectcounts: poll_inflight is set by the connect.             *)
Client ==
    [name |-> "", family |-> "connector", first |-> "state",
     phases |-> {"state", "active", "eof"}, config |-> "return", inports |-> {1},
     refuses |-> {"panicked"}, errors |-> {"transient", "permanent"},
     malformed |-> FALSE, eager |-> FALSE, connectcounts |-> FALSE]

TCPClient == [Client EXCEPT !.name = "TCPClient"]
WSClient == [Client EXCEPT !.name = "WSClient"]
MQTTPublisher ==
    [Client EXCEPT !.name = "MQTTPublisher", !.refuses = {"panicked", "finished"},
                   !.errors = {"transient"}]
RedisPublisher == [Client EXCEPT !.name = "RedisPublisher"]
UnixSocketClient ==
    [Client EXCEPT !.name = "UnixSocketClient", !.refuses = {"panicked", "dead"},
                   !.errors = {"permanent"}]

Session ==
    [Client EXCEPT !.family = "session", !.first = "results", !.errors = {"error"},
                   !.phases = {"results", "state", "submit", "end"}]

IMAPAppend == [Session EXCEPT !.name = "IMAPAppend"]
IMAPMoveCopy == [Session EXCEPT !.name = "IMAPMoveCopy", !.malformed = TRUE]
IMAPDelete == [Session EXCEPT !.name = "IMAPDelete", !.malformed = TRUE]

Fetcher ==
    [Client EXCEPT !.family = "fetcher", !.first = "results", !.errors = {"error"},
                   !.inports = {}, !.phases = {"results", "push", "state", "end"}]

IMAPFetchIdle ==
    [Fetcher EXCEPT !.name = "IMAPFetchIdle", !.refuses = {"panicked", "finished"},
                    !.eager = TRUE, !.connectcounts = TRUE]
IMAPFetch == [Fetcher EXCEPT !.name = "IMAPFetch"]

FileWriter ==
    [Client EXCEPT !.name = "FileWriter", !.family = "writer", !.errors = {"error"},
                   !.phases = {"state", "results", "submit", "end"}]

IoKinds ==
    {FileWriter, TCPClient, WSClient, MQTTPublisher, RedisPublisher, UnixSocketClient,
     IMAPAppend, IMAPMoveCopy, IMAPDelete, IMAPFetchIdle, IMAPFetch}

IsIo == kind.family \in {"connector", "session", "fetcher", "writer"}

Commands == {"connect", "op", "poll", "shutdown", "prompt", "setchat"}

IoTypeOK ==
    /\ st \in {"waiting", "prompt", "connecting", "retrying", "active", "finished",
              "unconfigured"}
    /\ \A i \in 1..Len(cmdq) : cmdq[i] \in Commands
    /\ worker \in Commands \cup {"none", "recv", "login", "wake", "lastwake", "gone"}
    /\ inflight \in Nat /\ retry_state \in 0..MaxRetries
    /\ failures \in 0..MaxFailures /\ confirmed \in 0..submitted
    /\ fetched \in 0..MaxMsgs /\ lost \in 0..MaxMsgs

(* Component::new starts the worker thread, except for FileWriter.          *)
IoInit ==
    /\ st = "waiting" /\ cmdq = <<>> /\ resq = <<>>
    /\ worker = IF kind.family \in {"writer", "dataflow", "server", "poller"}
                THEN "none" ELSE "recv"
    /\ held = <<>> /\ inflight = 0 /\ retry_state = 0
    /\ failures = 0 /\ submitted = 0 /\ confirmed = 0 /\ fetched = 0 /\ lost = 0

Send(cmd) == cmdq' = Append(cmdq, cmd)

(* ------------------------------------------------------- the worker thread -- *)
(* cmd_rx.recv(): the next command; without a sender the thread ends.       *)
WorkerRecv ==
    /\ worker = "recv"
    /\ \/ cmdq # <<>> /\ worker' = Head(cmdq) /\ cmdq' = Tail(cmdq)
       \/ /\ cmdq = <<>> /\ ended # "no"
          /\ worker' = "gone" /\ UNCHANGED cmdq
    /\ UNCHANGED <<nodeVars, st, resq, held, inflight, retry_state, history>>

Answer(result) ==
    /\ resq' = Append(resq, result)
    /\ worker' = IF kind.family = "writer" /\ worker = "connect" /\ result[1] = "error"
                 THEN "lastwake" ELSE "wake"
NewMail(n) == [i \in 1..n |-> <<1, fetched + i, 1>>]
NewMails == 1..(MaxMsgs - fetched - lost)

(* Fetching marks mails as seen, and perhaps as deleted, before the fetch may *)
(* fail: the mails the server had handed out by then are not fetched again.   *)
FetchFails ==
    \/ UNCHANGED lost
    \/ kind.family = "fetcher" /\ \E n \in NewMails : lost' = lost + n

(* The blocking connect or login of a connector or a session, File::create  *)
(* of FileWriter, whose thread ends when that fails.  A fetcher's           *)
(* login may come with the unseen messages, sent ahead of Connected and     *)
(* without a wakeup of their own; when fetching them fails it connects      *)
(* without them.                                                            *)
WorkerConnect ==
    /\ worker = "connect" /\ IsIo
    /\ \/ Answer(<<"connected", <<>>>>) /\ FetchFails /\ UNCHANGED <<failures, fetched>>
       \/ \E e \in kind.errors :
          /\ e = "transient" => failures < MaxFailures
          /\ failures' = IF e = "transient" THEN failures + 1 ELSE failures
          /\ Answer(<<e, <<>>>>) /\ UNCHANGED <<fetched, lost>>
       \/ \E n \in NewMails :
          /\ kind.family = "fetcher"
          /\ resq' = Append(resq, <<"initial", NewMail(n)>>)
          /\ fetched' = fetched + n
          /\ worker' = "login" /\ UNCHANGED <<failures, lost>>
    /\ UNCHANGED <<nodeVars, st, cmdq, held, inflight, retry_state, submitted, confirmed>>

WorkerLoggedIn ==
    /\ worker = "login"
    /\ Answer(<<"connected", <<>>>>)
    /\ UNCHANGED <<nodeVars, st, cmdq, held, inflight, retry_state, history>>

(* One append, move or delete on the server.                                *)
WorkerOperate ==
    /\ worker = "op" /\ IsIo
    /\ \/ Answer(<<"done", <<>>>>) /\ confirmed' = confirmed + 1
       \/ Answer(<<"error", <<>>>>) /\ UNCHANGED confirmed
    /\ UNCHANGED <<nodeVars, st, cmdq, held, inflight, retry_state,
                   failures, submitted, fetched, lost>>

(* IDLE until the mailbox changes or the timeout passes.                    *)
WorkerPoll ==
    /\ worker = "poll"
    /\ \/ /\ \E n \in NewMails \cup {0} :
             Answer(<<"messages", NewMail(n)>>) /\ fetched' = fetched + n
          /\ UNCHANGED lost
       \/ Answer(<<"timeout", <<>>>>) /\ UNCHANGED <<fetched, lost>>
       \/ Answer(<<"error", <<>>>>) /\ FetchFails /\ UNCHANGED fetched
    /\ UNCHANGED <<nodeVars, st, cmdq, held, inflight, retry_state,
                   failures, submitted, confirmed>>

(* Shutdown closes the session and ends the thread; the node it would wake  *)
(* is being dropped.                                                        *)
WorkerShutdown ==
    /\ worker = "shutdown" /\ IsIo
    /\ worker' = "gone"
    /\ UNCHANGED <<nodeVars, st, cmdq, resq, held, inflight, retry_state, history>>

WorkerWakeMutant ==
    /\ worker \in {"wake", "lastwake"}
    /\ worker' = IF worker = "wake" THEN "recv" ELSE "gone"
    /\ UNCHANGED <<nodeVars, st, cmdq, resq, held, inflight, retry_state, history>>

(* wake_scheduler, after the result was sent.                               *)
WorkerWake ==
    /\ worker \in {"wake", "lastwake"}
    /\ worker' = IF worker = "wake" THEN "recv" ELSE "gone"
    /\ ready' = (ended = "no")
    /\ UNCHANGED <<kind, edges, wake, fired, call, st, cmdq, resq, held, inflight,
                   retry_state, history>>

WorkerStep ==
    WorkerRecv \/ WorkerConnect \/ WorkerLoggedIn \/ WorkerOperate \/ WorkerPoll
        \/ WorkerShutdown \/ WorkerWake

(* ---------------------------------------------------------- connectors -- *)
(* A connector takes the answer to its connect; without one it polls again. *)
ShouldRetry == retry_state < MaxRetries

Connecting ==
    /\ phase = "state" /\ kind.family = "connector" /\ st = "connecting"
    /\ IF resq = <<>>
       THEN /\ wake' = TRUE /\ NoWork(ready)
            /\ UNCHANGED <<st, resq, retry_state>>
       ELSE /\ resq' = Tail(resq)
            /\ \/ /\ Head(resq)[1] = "connected"
                  /\ st' = "active" /\ DidWork(1, remaining_budget, ready)
                  /\ UNCHANGED retry_state
               \/ /\ Head(resq)[1] = "transient" /\ ShouldRetry
                  /\ st' = "retrying" /\ DidWork(1, remaining_budget, ready)
                  /\ retry_state' = 0   \* mem::take: the count moves into the state and is dropped with it
               \/ /\ \/ Head(resq)[1] = "permanent"
                     \/ Head(resq)[1] = "transient" /\ ~ShouldRetry
                  /\ st' = "finished" /\ Retire("finished")
                  /\ UNCHANGED retry_state
            /\ UNCHANGED wake
    /\ UNCHANGED <<kind, edges, fired, cmdq, worker, held, inflight, history>>

(* WaitingForConfig.  The state was replaced by Finished before the match,  *)
(* so a call that finds no packet leaves the node Finished for the next one. *)
Waiting ==
    /\ phase = "state" /\ kind.family = "connector" /\ st = "waiting"
    /\ \/ /\ conf = "queued" /\ conf' = "got"
          /\ Send("connect") /\ st' = "connecting"
          /\ DidWork(1, remaining_budget, ready)
       \/ /\ conf # "queued" /\ st' = "finished"
          /\ NoWork(ready)
          /\ UNCHANGED <<conf, cmdq>>
       \/ \E why \in kind.refuses :
          /\ conf = "queued" /\ conf' = "got" /\ st' = "finished"
          /\ IF why = "dead" THEN NoWork(ready) ELSE Retire(why)
          /\ UNCHANGED cmdq
    /\ UNCHANGED <<kind, inq, sent, open, outq, delivered, wake, fired,
                   resq, worker, held, inflight, retry_state, history>>

(* RetryingConnection: the backoff has passed, or it has not.               *)
Retrying ==
    /\ phase = "state" /\ kind.family = "connector" /\ st = "retrying"
    /\ \/ /\ Send("connect") /\ st' = "connecting"
          /\ DidWork(1, remaining_budget, ready)
          /\ UNCHANGED wake
       \/ /\ wake' = TRUE /\ NoWork(ready)
          /\ UNCHANGED <<st, cmdq>>
    /\ UNCHANGED <<kind, edges, fired, resq, worker, held, inflight, retry_state, history>>

Finished ==
    /\ phase = "state" /\ kind.family = "connector" /\ st = "finished"
    /\ Retire("finished")
    /\ UNCHANGED <<kind, edges, wake, fired, ioVars>>

(* Connected: read input into pending_messages while budget lasts.          *)
ReadInput ==
    /\ phase \in {"state", "active"} /\ kind.family = "connector" /\ st = "active"
    /\ IF remaining_budget > 0 /\ inq[1] # <<>>
       THEN /\ Pop(1) /\ held' = Append(held, Head(inq[1]))
            /\ Goto("active", remaining_budget - 1, work_units + 1)
       ELSE /\ IF held # <<>> /\ remaining_budget > 0
               THEN Retire("panicked")     \* tokio::spawn on the scheduler's thread
               ELSE Goto("eof", remaining_budget, work_units)
            /\ UNCHANGED <<inq, held>>
    /\ UNCHANGED <<kind, sent, open, conf, outq, delivered, wake, fired, st, channels,
                   inflight, retry_state, history>>

ConnectorEof ==
    /\ phase = "eof" /\ kind.family = "connector"
    /\ IF open = {}
       THEN Retire("finished") /\ UNCHANGED wake
       ELSE /\ wake' = (wake \/ work_units = 0)
            /\ Result(work_units, remaining_budget, ready)
    /\ UNCHANGED <<kind, edges, fired, ioVars>>

(* --------------------------------------------- IMAP sessions and fetchers -- *)
(* The component is dropped: Drop sends Shutdown behind what is queued, and *)
(* the join makes the scheduler's thread wait for all of it.                *)
Leave(why, explicit) ==
    /\ Retire(why)
    /\ cmdq' = cmdq \o explicit \o <<"shutdown">>
    /\ st' = "finished"

TakeResultMutant ==
    /\ phase = "results" /\ kind.family # "writer" /\ resq # <<>> /\ Head(resq)[1] # "error"
    /\ resq' = Tail(resq)
    /\ st' = IF Head(resq)[1] = "connected" THEN "active" ELSE st
    /\ held' = Head(resq)[2]
    /\ inflight' = IF kind.family = "fetcher" THEN 0 ELSE
                   IF Head(resq)[1] = "done" THEN Max2(inflight - 1, 0) ELSE inflight
    /\ Goto("results", remaining_budget, work_units + 1)
    /\ UNCHANGED <<kind, edges, wake, fired, cmdq, worker, retry_state, history>>

(* The loop over result_rx.try_recv(), one result a step.                   *)
TakeResult ==
    /\ phase = "results" /\ kind.family # "writer" /\ resq # <<>> /\ Head(resq)[1] # "error"
    /\ resq' = Tail(resq)
    /\ st' = IF Head(resq)[1] = "connected" THEN "active" ELSE st
    /\ held' = held \o Head(resq)[2]
    /\ inflight' = IF kind.family = "fetcher" THEN 0 ELSE
                   IF Head(resq)[1] = "done" THEN Max2(inflight - 1, 0) ELSE inflight
    /\ Goto("results", remaining_budget, work_units + 1)
    /\ UNCHANGED <<kind, edges, wake, fired, cmdq, worker, retry_state, history>>

TakeError ==
    /\ phase = "results" /\ kind.family # "writer" /\ resq # <<>> /\ Head(resq)[1] = "error"
    /\ resq' = Tail(resq)
    /\ Leave("finished", <<>>)
    /\ UNCHANGED <<kind, edges, wake, fired, worker, held, inflight, retry_state, history>>

NoResult ==
    /\ phase = "results" /\ kind.family # "writer" /\ resq = <<>>
    /\ Goto(IF kind.family = "fetcher" THEN "push" ELSE "state", remaining_budget, work_units)
    /\ UNCHANGED <<kind, edges, wake, fired, ioVars>>

(* A fetcher pushes what it holds, oldest first, until the edge is full.    *)
PushFetched ==
    /\ phase = "push"
    /\ IF remaining_budget > 0 /\ held # <<>> /\ Room(1)
       THEN /\ Push(1, Head(held)) /\ held' = Tail(held)
            /\ Goto("push", remaining_budget - 1, work_units + 1)
       ELSE Goto("state", remaining_budget, work_units) /\ UNCHANGED <<outq, held>>
    /\ UNCHANGED <<kind, inq, sent, open, conf, delivered, wake, fired, st, channels,
                   inflight, retry_state, history>>

(* IMAPFetch returns NoWork while it is not connected, whatever it did.     *)
SettleUnconnected ==
    IF kind.name = "IMAPFetch" THEN NoWork(ready)
    ELSE Goto("end", remaining_budget, work_units)

Login ==
    /\ phase = "state" /\ kind.family \in {"session", "fetcher"} /\ st = "waiting"
    /\ \/ /\ conf = "queued" /\ conf' = "got"
          /\ Send("connect") /\ st' = "connecting"
          /\ inflight' = IF kind.connectcounts THEN 1 ELSE 0
          /\ Goto("end", remaining_budget, work_units + 1)
       \/ /\ conf # "queued" /\ SettleUnconnected
          /\ UNCHANGED <<conf, cmdq, st, inflight>>
       \/ \E why \in kind.refuses :
          /\ conf = "queued" /\ conf' = "got"
          /\ Leave(why, <<>>)
          /\ UNCHANGED inflight
    /\ UNCHANGED <<kind, inq, sent, open, outq, delivered, wake, fired,
                   resq, worker, held, retry_state, history>>

AwaitLogin ==
    /\ phase = "state" /\ kind.family \in {"session", "fetcher"} /\ st = "connecting"
    /\ SettleUnconnected
    /\ UNCHANGED <<kind, edges, wake, fired, ioVars>>

(* An active fetcher keeps one poll outstanding; IMAPFetch only once all it *)
(* holds is pushed.                                                         *)
MayPollMutant == kind.eager \/ held = <<>>
MayPoll == inflight = 0 /\ (kind.eager \/ held = <<>>)

Poll ==
    /\ phase = "state" /\ kind.family = "fetcher" /\ st = "active"
    /\ IF MayPoll
       THEN /\ Send("poll") /\ inflight' = 1
            /\ Goto("end", remaining_budget, work_units + 1)
       ELSE Goto("end", remaining_budget, work_units) /\ UNCHANGED <<cmdq, inflight>>
    /\ UNCHANGED <<kind, edges, wake, fired, st, resq, worker, held, retry_state, history>>

(* An active session takes all input at once, whatever the budget.          *)
TakeInput ==
    /\ phase = "state" /\ kind.family = "session" /\ st = "active"
    /\ held' = held \o inq[1]
    /\ inq' = [inq EXCEPT ![1] = <<>>]
    /\ Goto("submit", remaining_budget, work_units)
    /\ UNCHANGED <<kind, sent, open, conf, outq, delivered, wake, fired, st, channels,
                   inflight, retry_state, history>>

(* Submit one operation per message; a message that names none is skipped.  *)
Submit ==
    /\ phase = "submit" /\ kind.family = "session"
    /\ \/ /\ remaining_budget > 0 /\ held # <<>>
          /\ held' = Tail(held) /\ Send("op")
          /\ inflight' = inflight + 1 /\ submitted' = submitted + 1
          /\ Goto("submit", remaining_budget - 1, work_units + 1)
       \/ /\ remaining_budget > 0 /\ held # <<>> /\ kind.malformed
          /\ held' = Tail(held)
          /\ Goto("submit", remaining_budget, work_units)
          /\ UNCHANGED <<cmdq, inflight, submitted>>
       \/ /\ remaining_budget = 0 \/ held = <<>>
          /\ Goto("end", remaining_budget, work_units)
          /\ UNCHANGED <<held, cmdq, inflight, submitted>>
    /\ UNCHANGED <<kind, edges, wake, fired, st, resq, worker, retry_state,
                   failures, confirmed, fetched, lost>>

SessionOverMutant == st = "active" /\ kind.family = "session" /\ open = {} /\ held = <<>>
SessionOver ==
    /\ st = "active" /\ kind.family = "session"
    /\ open = {} /\ held = <<>> /\ inflight = 0

EndSessionMutant ==
    /\ phase = "end" /\ kind.family \in {"session", "fetcher"}
    /\ IF SessionOver
       THEN Leave("finished", <<"shutdown">>)
       ELSE Result(work_units, remaining_budget, ready) /\ UNCHANGED <<st, cmdq>>
    /\ UNCHANGED <<kind, edges, wake, fired, resq, worker, held, inflight, retry_state, history>>

(* The end of process(): shut down at the end of input once everything is   *)
(* confirmed; with messages left, ask to be run again.                      *)
EndSession ==
    /\ phase = "end" /\ kind.family \in {"session", "fetcher"}
    /\ IF SessionOver
       THEN Leave("finished", <<"shutdown">>)
       ELSE /\ Result(work_units, remaining_budget,
                      ready \/ (held # <<>> /\ (st = "active" \/ kind.family = "fetcher")))
            /\ UNCHANGED <<st, cmdq>>
    /\ UNCHANGED <<kind, edges, wake, fired, resq, worker, held, inflight, retry_state, history>>

(* ---------------------------------------------------------- FileWriter -- *)
(* Take the file name and start the writer thread.  A writer that is gone   *)
(* sends the node back here, to wait for a name that never comes.           *)
StartWriter ==
    /\ phase = "state" /\ kind.family = "writer"
    /\ \/ /\ st = "active"
          /\ Goto("results", remaining_budget, work_units)
          /\ UNCHANGED <<conf, st, worker>>
       \/ /\ st = "waiting" /\ conf = "queued" /\ conf' = "got"
          /\ st' = "active" /\ worker' = "connect"
          /\ Goto("results", remaining_budget, work_units + 1)
       \/ /\ st = "waiting" /\ conf = "queued" /\ conf' = "got"
          /\ Retire("panicked")
          /\ UNCHANGED <<st, worker>>
       \/ /\ st = "waiting" /\ conf # "queued"
          /\ NoWork(ready)
          /\ UNCHANGED <<conf, st, worker>>
    /\ UNCHANGED <<kind, inq, sent, open, outq, delivered, wake, fired, cmdq, resq,
                   held, inflight, retry_state, history>>

(* Count the results, good or bad, then take all input.                     *)
WriterResults ==
    /\ phase = "results" /\ kind.family = "writer"
    /\ IF resq # <<>>
       THEN /\ resq' = Tail(resq)
            /\ Goto("results", remaining_budget, work_units + 1)
            /\ UNCHANGED <<inq, held>>
       ELSE /\ held' = held \o inq[1] /\ inq' = [inq EXCEPT ![1] = <<>>]
            /\ Goto("submit", remaining_budget, work_units)
            /\ UNCHANGED resq
    /\ UNCHANGED <<kind, sent, open, conf, outq, delivered, wake, fired, st, cmdq,
                   worker, inflight, retry_state, history>>

(* try_send each packet: a full channel ends the loop and keeps the packet, *)
(* a writer that is gone is forgotten.                                      *)
SubmitWrite ==
    /\ phase = "submit" /\ kind.family = "writer"
    /\ IF remaining_budget > 0 /\ held # <<>> /\ worker # "gone" /\ Len(cmdq) < CmdCap
       THEN /\ Send("op") /\ held' = Tail(held) /\ submitted' = submitted + 1
            /\ Goto("submit", remaining_budget - 1, work_units + 1)
            /\ UNCHANGED st
       ELSE /\ st' = IF remaining_budget > 0 /\ held # <<>> /\ worker = "gone"
                     THEN "waiting" ELSE st
            /\ Goto("end", remaining_budget, work_units)
            /\ UNCHANGED <<cmdq, held, submitted>>
    /\ UNCHANGED <<kind, edges, wake, fired, resq, worker, inflight, retry_state,
                   failures, confirmed, fetched, lost>>

EndWriter ==
    /\ phase = "end" /\ kind.family = "writer"
    /\ IF open = {} /\ held = <<>>
       THEN Retire("finished")
       ELSE Result(work_units, remaining_budget, ready)
    /\ UNCHANGED <<kind, edges, wake, fired, ioVars>>

ComponentStep ==
    \/ Connecting \/ Waiting \/ Retrying \/ Finished \/ ReadInput \/ ConnectorEof
    \/ TakeResult \/ TakeError \/ NoResult \/ PushFetched
    \/ Login \/ AwaitLogin \/ Poll \/ TakeInput \/ Submit \/ EndSession
    \/ StartWriter \/ WriterResults \/ SubmitWrite \/ EndWriter

IoStep == ComponentStep \/ WorkerStep

(* ---------------------------------------------------------- properties -- *)
CountOf(s, x) == Cardinality({i \in 1..Len(s) : s[i] = x})
InWorker(cmds) == IF worker \in cmds THEN 1 ELSE 0
Results(ts) == Cardinality({i \in 1..Len(resq) : resq[i][1] \in ts})

(* Requests of a kind on their way: queued, being served, or answered.       *)
Connects ==
    CountOf(cmdq, "connect") + InWorker({"connect", "login"})
        + Results({"connected", "transient", "permanent"})
Jobs ==
    CountOf(cmdq, "op") + CountOf(cmdq, "poll") + InWorker({"op", "poll"})
        + Results({"done", "messages", "timeout"})
Errors == Results({"error"})

(* The counters match the channels: while connecting there is exactly one    *)
(* connect on its way and otherwise none, and while active inflight counts   *)
(* exactly the operations or polls on their way.  So a retry never starts a  *)
(* second connect, and no answer is lost or awaited twice.                   *)
RequestsAccounted ==
    kind.family \in {"connector", "session", "fetcher"} /\ ended = "no" =>
        /\ Connects + (IF st = "connecting" THEN Errors ELSE 0)
               = IF st = "connecting" THEN 1 ELSE 0
        /\ st = "active" => Jobs + Errors = inflight

(* A fetcher that is up has a poll on its way or messages to push, a session *)
(* never sits on messages it has not submitted, and a FileWriter that holds  *)
(* some has a busy writer that will wake it.                                 *)
WorkerGoesOn ==
    /\ kind.family = "fetcher" => Jobs + Errors > 0
    /\ kind.family = "session" => held = <<>>
    /\ kind.family = "writer" /\ held # <<>> =>
           cmdq # <<>> \/ worker \in {"connect", "op", "wake", "lastwake"}

(* The results in the channel, in order, with the messages they carry.       *)
InChannel == SeqExt!FlattenSeq([i \in 1..Len(resq) |-> resq[i][2]])

(* A session that shuts down because its input ended has had every           *)
(* operation it submitted confirmed by the server, and holds none back.      *)
ShutdownConfirmed ==
    [][kind.family = "session" /\ phase = "end" /\ phase' = "retired" =>
           confirmed = submitted /\ held = <<>>]_<<nodeVars, ioVars>>
=============================================================================
