-------------------------- MODULE ComponentProofs --------------------------
(***************************************************************************)
(* Proofs about Components, for any choice of components, edges, channels, *)
(* budgets and bounds: the budget of a call, and then the components that  *)
(* share two channels with a worker thread (IoWorker, ChatWorker).         *)
(***************************************************************************)
EXTENDS Components, FiniteSetTheorems, TLAPS

-----------------------------------------------------------------------------
(* What the proofs use of each component's record.                         *)

Overdrawers == {Json, HTMLQuery, Delay}

FlowKind(k) ==
    /\ k.family = "dataflow" /\ k.first \in {"config", "flush", "work"}
    /\ k.zerocost \in {0, 1} /\ k.confcost \in {0, 1}
    /\ k.steps \in {"several", "delay"} => k \in Overdrawers
    /\ k.steps # "forward" => 2 \notin k.inports

IoKind(k) ==
    /\ k.family \in {"connector", "session", "fetcher", "writer"}
    /\ k.first = IF k.family \in {"session", "fetcher"} THEN "results" ELSE "state"
    /\ k.errors \subseteq
          IF k.family = "connector" THEN {"transient", "permanent"} ELSE {"error"}
    /\ k.refuses \subseteq {"panicked", "finished", "dead"}
    /\ k.family = "session" => ~k.connectcounts

ChatKind(k) ==
    /\ k.family = "chat" /\ k.first = "state"
    /\ k.dispatches = "no" => k.name # "TelegramBot"

ServerKind(k) ==
    /\ k.family = "server" /\ k.first = "config" /\ k.visit \in {"read", "serve"}
    /\ k.confcost \in {0, 1} /\ k.confbudget \in {0, 1} /\ k.retrycost \in {0, 1}

PollerKind(k) == k.family = "poller" /\ k.first \in {"names", "open", "load", "query"}

\* The dataflow components: only Json, HTMLQuery and Delay have the loops that
\* do not look at the budget.
LEMMA FlowKinds == \A k \in DataflowKinds : FlowKind(k)
<1>1. FlowKind(Repeat)  BY DEF FlowKind, Repeat, Overdrawers, Plain, Keeping, Configured, Several
<1>2. FlowKind(Trim)  BY DEF FlowKind, Trim, Overdrawers, Plain, Keeping, Configured, Several
<1>3. FlowKind(XzCompress)  BY DEF FlowKind, XzCompress, Overdrawers, Plain, Keeping, Configured, Several
<1>4. FlowKind(XzDecompress)  BY DEF FlowKind, XzDecompress, Overdrawers, Plain, Keeping, Configured, Several
<1>5. FlowKind(BrotliCompress)  BY DEF FlowKind, BrotliCompress, Overdrawers, Plain, Keeping, Configured, Several
<1>6. FlowKind(BrotliDecompress)  BY DEF FlowKind, BrotliDecompress, Overdrawers, Plain, Keeping, Configured, Several
<1>7. FlowKind(Output)  BY DEF FlowKind, Output, Overdrawers, Plain, Keeping, Configured, Several
<1>8. FlowKind(Equals)  BY DEF FlowKind, Equals, Overdrawers, Plain, Keeping, Configured, Several
<1>9. FlowKind(Text)  BY DEF FlowKind, Text, Overdrawers, Plain, Keeping, Configured, Several
<1>10. FlowKind(Hasher)  BY DEF FlowKind, Hasher, Overdrawers, Plain, Keeping, Configured, Several
<1>11. FlowKind(HTMLStrip)  BY DEF FlowKind, HTMLStrip, Overdrawers, Plain, Keeping, Configured, Several
<1>12. FlowKind(Muxer)  BY DEF FlowKind, Muxer, Overdrawers, Plain, Keeping, Configured, Several
<1>13. FlowKind(Demux3)  BY DEF FlowKind, Demux3, Overdrawers, Plain, Keeping, Configured, Several
<1>14. FlowKind(Regexp)  BY DEF FlowKind, Regexp, Overdrawers, Plain, Keeping, Configured, Several
<1>15. FlowKind(Template)  BY DEF FlowKind, Template, Overdrawers, Plain, Keeping, Configured, Several
<1>16. FlowKind(Router)  BY DEF FlowKind, Router, Overdrawers, Plain, Keeping, Configured, Several
<1>17. FlowKind(Email)  BY DEF FlowKind, Email, Overdrawers, Plain, Keeping, Configured, Several
<1>18. FlowKind(Json)  BY DEF FlowKind, Json, Overdrawers, Plain, Keeping, Configured, Several
<1>19. FlowKind(HTMLQuery)  BY DEF FlowKind, HTMLQuery, Overdrawers, Plain, Keeping, Configured, Several
<1>20. FlowKind(Splitlines)  BY DEF FlowKind, Splitlines, Overdrawers, Plain, Keeping, Configured, Several
<1>21. FlowKind(LibComponent)  BY DEF FlowKind, LibComponent, Overdrawers, Plain, Keeping, Configured, Several
<1>22. FlowKind(Sexp)  BY DEF FlowKind, Sexp, Overdrawers, Plain, Keeping, Configured, Several
<1>23. FlowKind(Vis)  BY DEF FlowKind, Vis, Overdrawers, Plain, Keeping, Configured, Several
<1>24. FlowKind(Panic)  BY DEF FlowKind, Panic, Overdrawers, Plain, Keeping, Configured, Several
<1>25. FlowKind(Drop)  BY DEF FlowKind, Drop, Overdrawers, Plain, Keeping, Configured, Several
<1>26. FlowKind(Count)  BY DEF FlowKind, Count, Overdrawers, Plain, Keeping, Configured, Several
<1>27. FlowKind(Delay)  BY DEF FlowKind, Delay, Overdrawers, Plain, Keeping, Configured, Several
<1>28. FlowKind(Cron)  BY DEF FlowKind, Cron, Overdrawers, Plain, Keeping, Configured, Several
<1>. QED
  BY <1>1, <1>2, <1>3, <1>4, <1>5, <1>6, <1>7, <1>8, <1>9, <1>10, <1>11, <1>12, <1>13, <1>14,
     <1>15, <1>16, <1>17, <1>18, <1>19, <1>20, <1>21, <1>22, <1>23, <1>24, <1>25, <1>26, <1>27, <1>28 DEF DataflowKinds

\* The components with a worker.
LEMMA IoKindsAre == \A k \in IoKinds : IoKind(k)
<1>1. IoKind(FileWriter)  BY DEF IoKind, FileWriter, Client, Session, Fetcher
<1>2. IoKind(TCPClient)  BY DEF IoKind, TCPClient, Client, Session, Fetcher
<1>3. IoKind(WSClient)  BY DEF IoKind, WSClient, Client, Session, Fetcher
<1>4. IoKind(MQTTPublisher)  BY DEF IoKind, MQTTPublisher, Client, Session, Fetcher
<1>5. IoKind(RedisPublisher)  BY DEF IoKind, RedisPublisher, Client, Session, Fetcher
<1>6. IoKind(UnixSocketClient)  BY DEF IoKind, UnixSocketClient, Client, Session, Fetcher
<1>7. IoKind(IMAPAppend)  BY DEF IoKind, IMAPAppend, Client, Session, Fetcher
<1>8. IoKind(IMAPMoveCopy)  BY DEF IoKind, IMAPMoveCopy, Client, Session, Fetcher
<1>9. IoKind(IMAPDelete)  BY DEF IoKind, IMAPDelete, Client, Session, Fetcher
<1>10. IoKind(IMAPFetchIdle)  BY DEF IoKind, IMAPFetchIdle, Client, Session, Fetcher
<1>11. IoKind(IMAPFetch)  BY DEF IoKind, IMAPFetch, Client, Session, Fetcher
<1>. QED
  BY <1>1, <1>2, <1>3, <1>4, <1>5, <1>6, <1>7, <1>8, <1>9, <1>10, <1>11 DEF IoKinds

\* The chat components.
LEMMA ChatKindsAre == \A k \in ChatKinds : ChatKind(k)
<1>1. ChatKind(OpenAIChat)  BY DEF ChatKind, OpenAIChat, Chat
<1>2. ChatKind(TelegramBot)  BY DEF ChatKind, TelegramBot, Chat
<1>3. ChatKind(MatrixClient)  BY DEF ChatKind, MatrixClient, Chat
<1>. QED
  BY <1>1, <1>2, <1>3 DEF ChatKinds

\* The servers.
LEMMA ServerKindsAre == \A k \in ServerKinds \cup {HTTPServer} : ServerKind(k)
<1>1. ServerKind(TCPServer)  BY DEF ServerKind, TCPServer
<1>2. ServerKind(UnixSocketServer)  BY DEF ServerKind, UnixSocketServer, TCPServer
<1>3. ServerKind(WSServer)  BY DEF ServerKind, WSServer, TCPServer
<1>4. ServerKind(TLSServer)  BY DEF ServerKind, TLSServer, TCPServer
<1>5. ServerKind(HTTPServer)  BY DEF ServerKind, HTTPServer, TCPServer
<1>. QED
  BY <1>1, <1>2, <1>3, <1>4, <1>5 DEF ServerKinds

\* The pollers.
LEMMA PollerKindsAre == \A k \in PollerKinds : PollerKind(k)
<1>1. PollerKind(FileReader)  BY DEF PollerKind, FileReader, Poller
<1>2. PollerKind(FileTailer)  BY DEF PollerKind, FileTailer, Poller
<1>3. PollerKind(Cmd)  BY DEF PollerKind, Cmd, Poller
<1>4. PollerKind(HTTPClient)  BY DEF PollerKind, HTTPClient, Poller
<1>. QED
  BY <1>1, <1>2, <1>3, <1>4 DEF PollerKinds


\* Every component is of one of the five sorts.
LEMMA KindIs ==
    ASSUME NEW k \in Kinds
    PROVE  FlowKind(k) \/ IoKind(k) \/ ChatKind(k) \/ ServerKind(k) \/ PollerKind(k)
BY KindsAssumption, FlowKinds, IoKindsAre, ChatKindsAre, ServerKindsAre, PollerKindsAre
   DEF AllKinds

-----------------------------------------------------------------------------
(* A node stays an instance of its component, and only Muxer reads another *)
(* in-edge than the first.                                                 *)

PortInv ==
    kind \in Kinds /\ (kind.family = "dataflow" /\ kind.steps # "forward" => port = 1)

\* No step changes the component.
LEMMA KindStays == ASSUME Next PROVE UNCHANGED kind
<1>1. ASSUME Neighbours \/ Activate PROVE UNCHANGED kind
  BY <1>1 DEF Neighbours, Feed, Close, Configure, Drain, TimerFires, Activate
<1>2. ASSUME DataflowStep PROVE UNCHANGED kind
  BY <1>2 DEF DataflowStep, TakeConfig, Flush, EndLoop, Forward, Eof, ReadParts, EmitResult,
     EmitLine, ReadChunk, Report, CountEof, DelayLoop, Release, TakeDelayed, DelayEof, CronRetry,
     CronTick, CronIdle
<1>3. ASSUME ComponentStep PROVE UNCHANGED kind
  BY <1>3 DEF ComponentStep, Connecting, Waiting, Retrying, Finished, ReadInput, ConnectorEof,
     TakeResult, TakeError, NoResult, PushFetched, Login, AwaitLogin, Poll, TakeInput, Submit,
     EndSession, StartWriter, WriterResults, SubmitWrite, EndWriter
<1>4. ASSUME WorkerStep PROVE UNCHANGED kind
  BY <1>4 DEF WorkerStep, WorkerRecv, WorkerConnect, WorkerLoggedIn, WorkerOperate, WorkerPoll,
     WorkerShutdown, WorkerWake, nodeVars
<1>5. ASSUME ChatStep PROVE UNCHANGED kind
  BY <1>5 DEF ChatStep, ChatApply, ChatLogin, ChatOperate, ChatShutdown, Dispatch,
     DispatcherWake, ChatWaiting, ChatPrompt, ChatResult, ChatDeliver, ChatInput, ChatSend,
     ChatEnd, ChatDrop, nodeVars
<1>6. ASSUME ServerStep PROVE UNCHANGED kind
  BY <1>6 DEF ServerStep, Listen, FlushOutbound, Accept, Handshake, ReadClient, ReadDone,
     RouteResponse, RetryResponse, SendResponse, QueueResponse, EndServer
<1>7. ASSUME HttpStep PROVE UNCHANGED kind
  BY <1>7 DEF HttpStep, ServeClient, ServeDone, SendRequest, RequestsSent, TakeResponse,
     ResponsesTaken
<1>8. ASSUME PollerStep PROVE UNCHANGED kind
  BY <1>8 DEF PollerStep, TakeName, FlushPending, ReadFile, FinishRead, OpenFile, TailFile,
     EndPoll, LoadConfig, StartChild, ChildRuns, WakeForLine, TakeLine, CheckChild, ResetChild,
     CmdEof, ClientRequest, ClientResult, nodeVars
<1>. QED  BY <1>1, <1>2, <1>3, <1>4, <1>5, <1>6, <1>7, <1>8 DEF Next, IoStep

\* The in-edge a loop is at.
LEMMA PortStep == ASSUME PortInv, [Next]_vars PROVE PortInv'
<1>1. UNCHANGED kind  BY KindStays DEF vars, nodeVars
<1>2. ASSUME UNCHANGED port PROVE PortInv'  BY <1>1, <1>2 DEF PortInv
<1>3. ASSUME NEW left, NEW units, LeaveLoop(left, units), IsDataflow PROVE PortInv'
  <2>1. CASE kind.steps = "forward"  BY <1>1, <2>1 DEF PortInv
  <2>2. CASE kind.steps # "forward"
    <3>1. port = 1  BY <1>3, <2>2 DEF PortInv, IsDataflow
    <3>2. FlowKind(kind)
      BY <1>3, KindIs DEF PortInv, IsDataflow, IoKind, ChatKind, ServerKind, PollerKind
    <3>3. 2 \notin kind.inports  BY <2>2, <3>2 DEF FlowKind
    <3>4. port' = 1  BY <1>3, <3>1, <3>3 DEF LeaveLoop
    <3>. QED  BY <1>1, <3>4 DEF PortInv
  <2>. QED  BY <2>1, <2>2
<1>4. ASSUME IsDataflow, DataflowStep PROVE PortInv'
  <2>1. ASSUME EndLoop \/ Forward PROVE PortInv'
    BY <1>2, <1>3, <1>4, <2>1 DEF EndLoop, Forward
  <2>2. ASSUME \/ TakeConfig \/ Flush \/ Eof \/ ReadParts \/ EmitResult \/ EmitLine \/ ReadChunk
               \/ Report \/ CountEof \/ DelayLoop \/ Release \/ TakeDelayed \/ DelayEof
               \/ CronRetry \/ CronTick \/ CronIdle
        PROVE  UNCHANGED port
    BY <2>2 DEF TakeConfig, Flush, Eof, ReadParts, EmitResult, EmitLine, ReadChunk, Report,
       CountEof, DelayLoop, Release, TakeDelayed, DelayEof, CronRetry, CronTick, CronIdle, flowVars
  <2>. QED  BY <1>2, <1>4, <2>1, <2>2 DEF DataflowStep
<1>5. ASSUME UNCHANGED vars PROVE UNCHANGED port  BY <1>5 DEF vars, flowVars
<1>. QED  BY <1>2, <1>4, <1>5 DEF Next, flowVars

-----------------------------------------------------------------------------
(* Edges and removal lists are vectors, whatever they hold.                *)

IsVec(s) == \E S : s \in Seq(S)

VecsInv ==
    /\ inq = [p \in InPorts |-> inq[p]] /\ \A p \in InPorts : IsVec(inq[p])
    /\ IsVec(removing)

\* A vector has a length.
LEMMA VecLen == ASSUME NEW s, IsVec(s) PROVE Len(s) \in Nat
BY DEF IsVec

\* The empty vector is one.
LEMMA VecEmpty == IsVec(<<>>)
<1>1. <<>> \in Seq({})  OBVIOUS
<1>. QED  BY <1>1 DEF IsVec

\* Appending gives a vector.
LEMMA VecAppend == ASSUME NEW s, IsVec(s), NEW x PROVE IsVec(Append(s, x))
<1>1. PICK S : s \in Seq(S)  BY DEF IsVec
<1>2. s \in Seq(S \cup {x})
  <2>1. s \in [1..Len(s) -> S] /\ Len(s) \in Nat  BY <1>1
  <2>2. s \in [1..Len(s) -> S \cup {x}]  BY <2>1
  <2>. QED  BY <2>1, <2>2
<1>3. Append(s, x) \in Seq(S \cup {x})  BY <1>2
<1>. QED  BY <1>3 DEF IsVec

\* So does dropping the first element.
LEMMA VecTail == ASSUME NEW s, IsVec(s), s # <<>> PROVE IsVec(Tail(s))
<1>1. PICK S : s \in Seq(S)  BY DEF IsVec
<1>2. Tail(s) \in Seq(S)  BY <1>1
<1>. QED  BY <1>2 DEF IsVec

\* And dropping the first n.
LEMMA VecRest ==
    ASSUME NEW s, IsVec(s), NEW n \in Nat
    PROVE  IsVec(SubSeq(s, n + 1, Len(s)))
<1>1. PICK S : s \in Seq(S)  BY DEF IsVec
<1>2. SubSeq(s, n + 1, Len(s)) \in Seq(S)  BY <1>1
<1>. QED  BY <1>2 DEF IsVec

\* An in-edge that is fed, popped or emptied.
LEMMA VecsAt ==
    ASSUME VecsInv, NEW p, NEW v, p \in InPorts => IsVec(v), inq' = [inq EXCEPT ![p] = v]
    PROVE  inq' = [r \in InPorts |-> inq'[r]] /\ \A r \in InPorts : IsVec(inq'[r])
<1>1. inq' = [r \in InPorts |-> IF r = p THEN v ELSE inq[r]]  BY DEF VecsInv
<1>2. \A r \in InPorts : inq'[r] = IF r = p THEN v ELSE inq[r]  BY <1>1
<1>3. \A r \in InPorts : IsVec(inq'[r])  BY <1>2 DEF VecsInv
<1>. QED  BY <1>1, <1>2, <1>3

\* A pop.
LEMMA VecsPop ==
    ASSUME VecsInv, NEW p, inq[p] # <<>>, Pop(p), UNCHANGED removing
    PROVE  VecsInv'
<1>1. p \in InPorts => IsVec(Tail(inq[p]))  BY VecTail DEF VecsInv
<1>2. inq' = [inq EXCEPT ![p] = Tail(inq[p])]  BY DEF Pop, VecsInv
<1>. QED  BY <1>1, <1>2, VecsAt DEF VecsInv

\* A step that leaves in-edges and removal list alone.
LEMMA VecsStay == ASSUME VecsInv, UNCHANGED <<inq, removing>> PROVE VecsInv'
BY DEF VecsInv

\* A step that touches the removal list only.
LEMMA VecsRemoving ==
    ASSUME VecsInv, UNCHANGED inq,
           \/ removing' = removing \/ removing' = <<>> \/ \E x : removing' = Append(removing, x)
    PROVE  VecsInv'
<1>1. IsVec(removing')  BY VecEmpty, VecAppend DEF VecsInv
<1>. QED  BY <1>1 DEF VecsInv

\* A session and a FileWriter take all of an in-edge at once.
LEMMA VecsEmptied ==
    ASSUME VecsInv, inq' = [inq EXCEPT ![1] = <<>>], UNCHANGED removing
    PROVE  VecsInv'
BY VecEmpty, VecsAt DEF VecsInv

\* The neighbours.
LEMMA NeighboursVecs ==
    ASSUME VecsInv, Neighbours, UNCHANGED netVars
    PROVE  VecsInv'
<1>1. ASSUME Feed PROVE VecsInv'
  <2>1. PICK p \in open : inq' = [inq EXCEPT ![p] = Append(@, sent[p] + 1)]  BY <1>1 DEF Feed
  <2>2. p \in InPorts => IsVec(Append(inq[p], sent[p] + 1))  BY VecAppend DEF VecsInv
  <2>3. inq' = [inq EXCEPT ![p] = Append(inq[p], sent[p] + 1)]  BY <2>1 DEF VecsInv
  <2>. QED  BY <2>2, <2>3, VecsAt DEF VecsInv, netVars, serverVars
<1>2. ASSUME Close \/ Configure \/ Drain \/ TimerFires PROVE UNCHANGED inq
  BY <1>2 DEF Close, Configure, Drain, TimerFires, edges
<1>. QED  BY <1>1, <1>2, VecsStay DEF Neighbours, netVars, serverVars

\* The dataflow components.
LEMMA FlowVecs ==
    ASSUME VecsInv, PortInv, remaining_budget \in Nat, IsDataflow, DataflowStep,
           UNCHANGED netVars
    PROVE  VecsInv'
<1>1. UNCHANGED removing  BY DEF netVars, serverVars
<1>2. ASSUME \/ TakeConfig \/ Flush \/ EndLoop \/ Eof \/ EmitResult \/ EmitLine \/ Report
             \/ CountEof \/ DelayLoop \/ Release \/ DelayEof \/ CronRetry \/ CronTick \/ CronIdle
      PROVE  UNCHANGED inq
  BY <1>2 DEF TakeConfig, Flush, EndLoop, Eof, EmitResult, EmitLine, Report, CountEof, DelayLoop,
              Release, DelayEof, CronRetry, CronTick, CronIdle, edges
<1>3. ASSUME Forward PROVE VecsInv'
  BY <1>1, <1>3, VecsPop DEF Forward, InputOver
<1>4. ASSUME ReadParts PROVE VecsInv'
  <2>1. port = 1  BY <1>4 DEF ReadParts, PortInv, IsDataflow
  <2>2. UNCHANGED inq \/ (inq[1] # <<>> /\ Pop(1))  BY <1>4, <2>1 DEF ReadParts, InputOver
  <2>. QED  BY <1>1, <2>2, VecsPop, VecsStay
<1>5. ASSUME ReadChunk PROVE VecsInv'
  <2>1. IsVec(inq[1])  BY DEF VecsInv, InPorts
  <2>2. ToProcess \in Nat  BY <2>1, VecLen DEF ToProcess, Min2
  <2>3. inq' = [inq EXCEPT ![1] = SubSeq(inq[1], ToProcess + 1, Len(inq[1]))]
    BY <1>5 DEF ReadChunk, VecsInv
  <2>4. IsVec(SubSeq(inq[1], ToProcess + 1, Len(inq[1])))  BY <2>1, <2>2, VecRest
  <2>. QED  BY <1>1, <2>3, <2>4, VecsAt DEF VecsInv
<1>6. ASSUME TakeDelayed PROVE VecsInv'
  BY <1>1, <1>6, VecsPop, VecsStay DEF TakeDelayed
<1>. QED  BY <1>1, <1>2, <1>3, <1>4, <1>5, <1>6, VecsStay DEF DataflowStep

\* The components with a worker.
LEMMA IoVecs ==
    ASSUME VecsInv, IoStep, UNCHANGED netVars
    PROVE  VecsInv'
<1>1. UNCHANGED removing  BY DEF netVars, serverVars
<1>2. ASSUME \/ Connecting \/ Waiting \/ Retrying \/ Finished \/ ConnectorEof \/ TakeResult
             \/ TakeError \/ NoResult \/ PushFetched \/ Login \/ AwaitLogin \/ Poll \/ Submit
             \/ EndSession \/ StartWriter \/ SubmitWrite \/ EndWriter
      PROVE  UNCHANGED inq
  BY <1>2 DEF Connecting, Waiting, Retrying, Finished, ConnectorEof, TakeResult, TakeError,
     NoResult, PushFetched, Login, AwaitLogin, Poll, Submit, EndSession, StartWriter, SubmitWrite,
     EndWriter, edges
<1>3. ASSUME WorkerStep PROVE UNCHANGED inq
  BY <1>3 DEF WorkerStep, WorkerRecv, WorkerConnect, WorkerLoggedIn, WorkerOperate, WorkerPoll,
     WorkerShutdown, WorkerWake, nodeVars, edges
<1>4. ASSUME ReadInput PROVE VecsInv'  BY <1>1, <1>4, VecsPop, VecsStay DEF ReadInput
<1>5. ASSUME TakeInput \/ WriterResults PROVE VecsInv'
  BY <1>1, <1>5, VecsEmptied, VecsStay DEF TakeInput, WriterResults
<1>. QED  BY <1>1, <1>2, <1>3, <1>4, <1>5, VecsStay DEF IoStep, ComponentStep

\* The chat components.
LEMMA ChatVecs ==
    ASSUME VecsInv, ChatStep, UNCHANGED netVars
    PROVE  VecsInv'
<1>1. UNCHANGED removing  BY DEF netVars, serverVars
<1>2. ASSUME \/ ChatApply \/ ChatLogin \/ ChatOperate \/ ChatShutdown \/ Dispatch
             \/ DispatcherWake \/ ChatWaiting \/ ChatResult \/ ChatDeliver \/ ChatSend
             \/ ChatEnd \/ ChatDrop
      PROVE  UNCHANGED inq
  BY <1>2 DEF ChatApply, ChatLogin, ChatOperate, ChatShutdown, Dispatch, DispatcherWake,
     ChatWaiting, ChatResult, ChatDeliver, ChatSend, ChatEnd, ChatDrop, nodeVars, edges
<1>3. ASSUME ChatPrompt \/ ChatInput PROVE VecsInv'
  BY <1>1, <1>3, VecsPop, VecsStay DEF ChatPrompt, ChatInput
<1>. QED  BY <1>1, <1>2, <1>3, VecsStay DEF ChatStep

\* The servers.
LEMMA ServerVecs ==
    ASSUME VecsInv, ServerStep
    PROVE  VecsInv'
<1>1. ASSUME Listen \/ FlushOutbound \/ Accept \/ Handshake PROVE UNCHANGED <<inq, removing>>
  BY <1>1 DEF Listen, FlushOutbound, Accept, Handshake, edges, serverVars
<1>2. ASSUME ReadClient \/ ReadDone \/ RetryResponse \/ EndServer PROVE VecsInv'
  BY <1>2, VecsRemoving DEF ReadClient, ReadDone, RetryResponse, EndServer, edges
<1>3. ASSUME RouteResponse PROVE VecsInv'
  <2>1. IsVec(removing')
    <3>1. removing' = removing \/ \E x : removing' = Append(removing, x)
      BY <1>3 DEF RouteResponse
    <3>. QED  BY <3>1, VecAppend DEF VecsInv
  <2>2. UNCHANGED inq \/ (inq[1] # <<>> /\ Pop(1))  BY <1>3 DEF RouteResponse
  <2>3. inq' = [p \in InPorts |-> inq'[p]] /\ \A p \in InPorts : IsVec(inq'[p])
    <3>1. CASE UNCHANGED inq  BY <3>1 DEF VecsInv
    <3>2. CASE inq[1] # <<>> /\ Pop(1)
      <4>1. IsVec(Tail(inq[1]))  BY <3>2, VecTail DEF VecsInv, InPorts
      <4>2. inq' = [inq EXCEPT ![1] = Tail(inq[1])]  BY <3>2 DEF Pop, VecsInv
      <4>. QED  BY <4>1, <4>2, VecsAt
    <3>. QED  BY <2>2, <3>1, <3>2
  <2>. QED  BY <2>1, <2>3 DEF VecsInv
<1>4. ASSUME SendResponse PROVE VecsInv'
  BY <1>4, VecsPop, VecsStay DEF SendResponse
<1>5. ASSUME QueueResponse PROVE VecsInv'
  <2>1. CASE inq[1] = <<>>  BY <1>5, <2>1, VecsStay DEF QueueResponse
  <2>2. CASE inq[1] # <<>>
    <3>1. Pop(1)  BY <1>5, <2>2 DEF QueueResponse, Pop
    <3>. QED  BY <1>5, <2>2, <3>1, VecsPop DEF QueueResponse
  <2>. QED  BY <2>1, <2>2
<1>. QED  BY <1>1, <1>2, <1>3, <1>4, <1>5, VecsStay DEF ServerStep

\* The HTTP server's own steps.
LEMMA HttpVecs ==
    ASSUME VecsInv, HttpStep
    PROVE  VecsInv'
<1>1. ASSUME ServeClient PROVE VecsInv'
  <2>1. UNCHANGED inq  BY <1>1 DEF ServeClient, edges
  <2>2. removing' = removing \/ \E x : removing' = Append(removing, x)
    BY <1>1 DEF ServeClient, ReadRequest, NoRequest, ParserLoops, MalformedRequest, RequestParsed,
                AwaitResponse, WriteResponse, KeepAlive
  <2>. QED  BY <2>1, <2>2, VecsRemoving
<1>2. ASSUME ServeDone PROVE VecsInv'  BY <1>2, VecsRemoving DEF ServeDone, edges
<1>3. ASSUME SendRequest \/ RequestsSent \/ ResponsesTaken PROVE UNCHANGED <<inq, removing>>
  BY <1>3 DEF SendRequest, RequestsSent, ResponsesTaken, edges, serverVars
<1>4. ASSUME TakeResponse PROVE VecsInv'  BY <1>4, VecsPop DEF TakeResponse
<1>. QED  BY <1>1, <1>2, <1>3, <1>4, VecsStay DEF HttpStep

\* The pollers.
LEMMA PollerVecs ==
    ASSUME VecsInv, PollerStep, UNCHANGED netVars
    PROVE  VecsInv'
<1>1. UNCHANGED removing  BY DEF netVars, serverVars
<1>2. ASSUME \/ FlushPending \/ ReadFile \/ FinishRead \/ OpenFile \/ TailFile \/ EndPoll
             \/ LoadConfig \/ ChildRuns \/ WakeForLine \/ TakeLine \/ CheckChild \/ ResetChild
             \/ CmdEof \/ ClientResult
      PROVE  UNCHANGED inq
  BY <1>2 DEF FlushPending, ReadFile, FinishRead, OpenFile, TailFile, EndPoll, LoadConfig,
     ChildRuns, WakeForLine, TakeLine, CheckChild, ResetChild, CmdEof, ClientResult, nodeVars, edges
<1>3. ASSUME TakeName \/ StartChild \/ ClientRequest PROVE VecsInv'
  BY <1>1, <1>3, VecsPop, VecsStay DEF TakeName, StartChild, ClientRequest
<1>. QED  BY <1>1, <1>2, <1>3, VecsStay DEF PollerStep

\* Every step keeps the vectors vectors.
LEMMA VecsStep ==
    ASSUME VecsInv, PortInv, remaining_budget \in Nat, [Next]_vars
    PROVE  VecsInv'
<1>1. ASSUME Activate, UNCHANGED netVars PROVE VecsInv'
  BY <1>1, VecsStay DEF Activate, edges, netVars, serverVars
<1>2. ASSUME UNCHANGED vars PROVE VecsInv'
  BY <1>2, VecsStay DEF vars, nodeVars, edges, netVars, serverVars
<1>. QED
  BY <1>1, <1>2, NeighboursVecs, FlowVecs, IoVecs, ChatVecs, ServerVecs, HttpVecs, PollerVecs
  DEF Next

-----------------------------------------------------------------------------
(* The budget.  Besides the bound itself the invariant says which phases   *)
(* are entered with budget left, so that their unguarded subtraction is    *)
(* safe, and that the two phases of Delay belong to no other component.    *)

BudgetInv ==
    /\ remaining_budget \in Nat /\ work_units \in Nat /\ budget_before \in 0..Budget
    /\ kind \notin Overdrawers => remaining_budget <= budget_before
    /\ phase \in {"release", "take"} => kind \in Overdrawers
    /\ phase \in {"config", "deliver", "setchat", "op"} => remaining_budget > 0

\* No component starts a call in one of those phases, but for the first.
LEMMA FirstPhase ==
    ASSUME PortInv
    PROVE  kind.first \notin {"release", "take", "deliver", "setchat", "op"}
BY KindIs DEF PortInv, FlowKind, IoKind, ChatKind, ServerKind, PollerKind

\* A step inside process().
LEMMA GotoKeeps ==
    ASSUME BudgetInv, UNCHANGED kind, NEW next, NEW left \in Nat, NEW units \in Nat,
           Goto(next, left, units), left <= remaining_budget \/ kind \in Overdrawers,
           next \in {"release", "take"} => kind \in Overdrawers,
           next \in {"config", "deliver", "setchat", "op"} => left > 0
    PROVE  BudgetInv'
BY DEF BudgetInv, Goto

\* The end of an activation.
LEMMA SettleKeeps ==
    ASSUME BudgetInv, UNCHANGED kind, NEW worked, NEW signalled, Settle(worked, signalled)
    PROVE  BudgetInv'
BY NodeBounds DEF BudgetInv, Settle

\* Its end without work.
LEMMA NoWorkKeeps ==
    ASSUME BudgetInv, UNCHANGED kind, NEW signalled, NoWork(signalled)
    PROVE  BudgetInv'
BY SettleKeeps DEF NoWork

\* Retirement.
LEMMA RetireKeeps ==
    ASSUME BudgetInv, UNCHANGED kind, NEW why, Retire(why)
    PROVE  BudgetInv'
BY NodeBounds DEF BudgetInv, Retire

\* What a call leaves of the budget is part of it.
LEMMA LeftIsLess ==
    ASSUME BudgetInv, NEW units \in Nat, NEW left \in Nat
    PROVE  LeftAfter(units, left) \in 0..budget_before
BY NodeBounds DEF BudgetInv, LeftAfter, Max2, Min2

\* The end of a call that did work.
LEMMA DidWorkKeeps ==
    ASSUME BudgetInv, PortInv, UNCHANGED kind, NEW units \in Nat, NEW left \in Nat, NEW signalled,
           DidWork(units, left, signalled)
    PROVE  BudgetInv'
<1> DEFINE rest == LeftAfter(units, left)
<1>1. rest \in 0..budget_before  BY LeftIsLess
<1>2. CASE rest = 0  BY <1>2, SettleKeeps DEF DidWork
<1>3. CASE rest # 0
  <2>1. phase' = kind.first /\ remaining_budget' = rest /\ budget_before' = rest /\ work_units' = 0
    BY <1>3 DEF DidWork
  <2> HIDE DEF rest
  <2>2. rest \in Nat /\ rest > 0 /\ rest \in 0..Budget  BY <1>1, <1>3, NodeBounds DEF BudgetInv
  <2>. QED  BY <2>1, <2>2, FirstPhase DEF BudgetInv
<1>. QED  BY <1>2, <1>3

\* The end of a call.
LEMMA ResultKeeps ==
    ASSUME BudgetInv, PortInv, UNCHANGED kind, NEW units \in Nat, NEW left \in Nat, NEW signalled,
           Result(units, left, signalled)
    PROVE  BudgetInv'
BY DidWorkKeeps, NoWorkKeeps DEF Result

\* A step of somebody else.
LEMMA BudgetStays ==
    ASSUME BudgetInv, UNCHANGED <<kind, phase, remaining_budget, budget_before, work_units>>
    PROVE  BudgetInv'
BY DEF BudgetInv

\* The start of an activation.
LEMMA ActivateKeeps == ASSUME BudgetInv, PortInv, Activate PROVE BudgetInv'
<1>1. Budget \in Nat /\ Budget > 0  BY NodeBounds
<1>. QED  BY <1>1, FirstPhase DEF BudgetInv, Activate

\* One unit less, when one is left.
LEMMA OneLess ==
    ASSUME BudgetInv, remaining_budget > 0
    PROVE  remaining_budget - 1 \in Nat /\ remaining_budget - 1 <= remaining_budget
BY DEF BudgetInv

\* The unchecked subtraction stays in the range of the counter.
LEMMA DecInRange == ASSUME BudgetInv PROVE Dec(remaining_budget) \in Nat
BY NodeBounds DEF BudgetInv, Dec

\* The dataflow components.
LEMMA FlowBudget ==
    ASSUME BudgetInv, PortInv, VecsInv, IsDataflow, DataflowStep, UNCHANGED kind
    PROVE  BudgetInv'
<1>1. FlowKind(kind)
  BY KindIs DEF PortInv, IsDataflow, IoKind, ChatKind, ServerKind, PollerKind
<1>2. /\ remaining_budget \in Nat /\ work_units \in Nat /\ work_units + 1 \in Nat
      /\ remaining_budget <= remaining_budget
  BY DEF BudgetInv
<1>3. AfterConfig \in {"flush", "tick", "work"} /\ AfterLoop \in {"report", "eof"}
  BY DEF AfterConfig, AfterLoop
<1>4. ASSUME NEW left \in Nat, NEW units \in Nat, left <= remaining_budget, LeaveLoop(left, units)
      PROVE  BudgetInv'
  BY <1>3, <1>4, GotoKeeps DEF LeaveLoop
<1>5. ASSUME TakeConfig PROVE BudgetInv'
  <2>1. work_units + kind.confcost \in Nat  BY <1>1, <1>2 DEF FlowKind
  <2>. QED  BY <1>2, <1>3, <1>5, <2>1, GotoKeeps, NoWorkKeeps, DidWorkKeeps, RetireKeeps
            DEF TakeConfig
<1>6. ASSUME Flush PROVE BudgetInv'  BY <1>2, <1>6, OneLess, GotoKeeps DEF Flush
<1>7. ASSUME EndLoop PROVE BudgetInv'  BY <1>2, <1>4, <1>7 DEF EndLoop
<1>8. ASSUME Forward PROVE BudgetInv'
  <2>1. remaining_budget > 0  BY <1>2, <1>8 DEF Forward, InputOver
  <2>2. /\ remaining_budget - kind.zerocost \in Nat
        /\ remaining_budget - kind.zerocost <= remaining_budget /\ work_units + kind.zerocost \in Nat
    BY <1>1, <1>2, <2>1 DEF FlowKind
  <2>. QED  BY <1>2, <1>4, <1>8, <2>1, <2>2, OneLess, GotoKeeps, RetireKeeps DEF Forward
<1>9. ASSUME Eof \/ CountEof PROVE BudgetInv'
  BY <1>2, <1>9, RetireKeeps, ResultKeeps DEF Eof, CountEof
<1>10. ASSUME ReadParts PROVE BudgetInv'  BY <1>2, <1>10, GotoKeeps DEF ReadParts
<1>11. ASSUME EmitResult PROVE BudgetInv'
  <2>1. kind \in Overdrawers  BY <1>1, <1>11 DEF EmitResult, FlowKind
  <2>. QED  BY <1>2, <1>11, <2>1, DecInRange, GotoKeeps, RetireKeeps DEF EmitResult
<1>12. ASSUME EmitLine PROVE BudgetInv'  BY <1>2, <1>12, OneLess, GotoKeeps DEF EmitLine
<1>13. ASSUME ReadChunk PROVE BudgetInv'
  <2>1. Len(inq[1]) \in Nat  BY VecLen DEF VecsInv, InPorts
  <2>2. ToProcess \in Nat /\ ToProcess <= remaining_budget  BY <1>2, <2>1 DEF ToProcess, Min2
  <2> DEFINE left == (remaining_budget - ToProcess) % BudgetWrap
  <2>3. left \in Nat /\ (left <= remaining_budget \/ kind \in Overdrawers)
    <3>1. remaining_budget - ToProcess \in Nat /\ remaining_budget - ToProcess <= remaining_budget
      BY <1>2, <2>2
    <3>2. BudgetWrap \in Nat /\ BudgetWrap > 0 /\ Budget \in Nat /\ Budget < BudgetWrap
      BY NodeBounds
    <3>3. CASE kind \in Overdrawers  BY <3>1, <3>2, <3>3
    <3>4. CASE kind \notin Overdrawers
      <4>1. remaining_budget - ToProcess < BudgetWrap  BY <3>1, <3>2, <3>4 DEF BudgetInv
      <4>2. left = remaining_budget - ToProcess  BY <3>1, <3>2, <4>1
      <4>. QED  BY <3>1, <4>2
    <3>. QED  BY <3>3, <3>4
  <2> HIDE DEF left
  <2>4. work_units + ToProcess \in Nat  BY <1>2, <2>2
  <2>5. Goto("work", left, work_units + ToProcess)  BY <1>13 DEF ReadChunk, left
  <2>. QED  BY <2>3, <2>4, <2>5, GotoKeeps
<1>14. ASSUME Report PROVE BudgetInv'  BY <1>2, <1>14, GotoKeeps DEF Report
<1>15. ASSUME DelayLoop PROVE BudgetInv'
  <2>1. kind \in Overdrawers  BY <1>1, <1>15 DEF DelayLoop, FlowKind
  <2>. QED  BY <1>2, <1>15, <2>1, GotoKeeps DEF DelayLoop
<1>16. ASSUME Release \/ TakeDelayed PROVE BudgetInv'
  <2>1. kind \in Overdrawers  BY <1>16 DEF Release, TakeDelayed, BudgetInv
  <2>. QED  BY <1>2, <1>16, <2>1, DecInRange, GotoKeeps, RetireKeeps DEF Release, TakeDelayed
<1>17. ASSUME DelayEof PROVE BudgetInv'  BY <1>2, <1>17, RetireKeeps, ResultKeeps DEF DelayEof
<1>18. ASSUME CronRetry \/ CronTick \/ CronIdle PROVE BudgetInv'
  BY <1>2, <1>18, NoWorkKeeps, DidWorkKeeps, RetireKeeps DEF CronRetry, CronTick, CronIdle
<1>. QED
  BY <1>5, <1>6, <1>7, <1>8, <1>9, <1>10, <1>11, <1>12, <1>13, <1>14, <1>15, <1>16, <1>17, <1>18
  DEF DataflowStep

\* Counters that each of the remaining lemmas needs as numbers.
LEMMA Numbers ==
    ASSUME BudgetInv
    PROVE  /\ remaining_budget \in Nat /\ work_units \in Nat /\ work_units + 1 \in Nat
           /\ remaining_budget <= remaining_budget
BY DEF BudgetInv

\* The workers' threads and what goes on around the node leave it alone.
LEMMA WorkerBudget == ASSUME BudgetInv, WorkerStep PROVE BudgetInv'
<1>1. UNCHANGED <<kind, phase, remaining_budget, budget_before, work_units>>
  BY DEF WorkerStep, WorkerRecv, WorkerConnect, WorkerLoggedIn, WorkerOperate, WorkerPoll,
     WorkerShutdown, WorkerWake, nodeVars, call
<1>. QED  BY <1>1, BudgetStays

\* The components with a worker.
LEMMA IoBudget ==
    ASSUME BudgetInv, PortInv, IoStep, UNCHANGED kind
    PROVE  BudgetInv'
<1>1. /\ remaining_budget \in Nat /\ work_units \in Nat /\ work_units + 1 \in Nat
      /\ remaining_budget <= remaining_budget
  BY Numbers
<1>2. ASSUME Connecting \/ Waiting \/ Retrying \/ Finished PROVE BudgetInv'
  BY <1>1, <1>2, DidWorkKeeps, NoWorkKeeps, RetireKeeps DEF Connecting, Waiting, Retrying, Finished
<1>3. ASSUME ReadInput \/ ConnectorEof PROVE BudgetInv'
  BY <1>1, <1>3, OneLess, GotoKeeps, RetireKeeps, ResultKeeps DEF ReadInput, ConnectorEof
<1>4. ASSUME TakeResult \/ TakeError \/ NoResult PROVE BudgetInv'
  BY <1>1, <1>4, GotoKeeps, RetireKeeps DEF TakeResult, TakeError, NoResult, Leave
<1>5. ASSUME PushFetched \/ Poll \/ TakeInput PROVE BudgetInv'
  BY <1>1, <1>5, OneLess, GotoKeeps DEF PushFetched, Poll, TakeInput
<1>6. ASSUME Login \/ AwaitLogin PROVE BudgetInv'
  BY <1>1, <1>6, GotoKeeps, NoWorkKeeps, RetireKeeps DEF Login, AwaitLogin, SettleUnconnected, Leave
<1>7. ASSUME Submit \/ SubmitWrite PROVE BudgetInv'
  BY <1>1, <1>7, OneLess, GotoKeeps DEF Submit, SubmitWrite
<1>8. ASSUME EndSession \/ EndWriter PROVE BudgetInv'
  BY <1>1, <1>8, RetireKeeps, ResultKeeps DEF EndSession, EndWriter, Leave
<1>9. ASSUME StartWriter \/ WriterResults PROVE BudgetInv'
  BY <1>1, <1>9, GotoKeeps, RetireKeeps, NoWorkKeeps DEF StartWriter, WriterResults
<1>. QED
  BY <1>2, <1>3, <1>4, <1>5, <1>6, <1>7, <1>8, <1>9, WorkerBudget DEF IoStep, ComponentStep

\* The chat components.  They deliver and submit without a look at the
\* budget, in phases that are entered only with budget left.
LEMMA ChatBudget ==
    ASSUME BudgetInv, PortInv, ChatStep, UNCHANGED kind
    PROVE  BudgetInv'
<1>1. /\ remaining_budget \in Nat /\ work_units \in Nat /\ work_units + 1 \in Nat
      /\ remaining_budget <= remaining_budget
  BY Numbers
<1>2. ASSUME \/ ChatApply \/ ChatLogin \/ ChatOperate \/ ChatShutdown \/ Dispatch
             \/ DispatcherWake
      PROVE  BudgetInv'
  <2>1. UNCHANGED <<kind, phase, remaining_budget, budget_before, work_units>>
    BY <1>2 DEF ChatApply, ChatLogin, ChatOperate, ChatShutdown, Dispatch, DispatcherWake,
                nodeVars, call
  <2>. QED  BY <2>1, BudgetStays
<1>3. ASSUME ChatWaiting \/ ChatPrompt PROVE BudgetInv'
  BY <1>1, <1>3, GotoKeeps, DidWorkKeeps, NoWorkKeeps DEF ChatWaiting, ChatPrompt
<1>4. ASSUME ChatResult \/ ChatInput PROVE BudgetInv'
  BY <1>1, <1>4, OneLess, GotoKeeps DEF ChatResult, ChatInput
<1>5. ASSUME ChatDeliver PROVE BudgetInv'
  <2>1. remaining_budget > 0  BY <1>5 DEF ChatDeliver, BudgetInv
  <2>. QED  BY <1>1, <1>5, <2>1, OneLess, GotoKeeps DEF ChatDeliver
<1>6. ASSUME ChatSend PROVE BudgetInv'
  <2>1. phase \in {"setchat", "op"} => remaining_budget > 0  BY DEF BudgetInv
  <2>2. CASE phase = "prompt"  BY <1>1, <1>6, <2>2, DidWorkKeeps, GotoKeeps DEF ChatSend
  <2>3. CASE phase = "setchat"  BY <1>1, <1>6, <2>1, <2>3, GotoKeeps DEF ChatSend
  <2>4. CASE phase = "op"  BY <1>1, <1>6, <2>1, <2>4, OneLess, GotoKeeps DEF ChatSend
  <2>. QED  BY <1>6, <2>2, <2>3, <2>4 DEF ChatSend
<1>7. ASSUME ChatEnd \/ ChatDrop PROVE BudgetInv'
  BY <1>1, <1>7, ResultKeeps, RetireKeeps DEF ChatEnd, ChatDrop
<1>. QED  BY <1>2, <1>3, <1>4, <1>5, <1>6, <1>7 DEF ChatStep

\* The servers.  The configuration is paid for in the first phase of a call,
\* which always has budget.
LEMMA ServerBudget ==
    ASSUME BudgetInv, PortInv, VecsInv, ServerStep, UNCHANGED kind
    PROVE  BudgetInv'
<1>1. /\ remaining_budget \in Nat /\ work_units \in Nat /\ work_units + 1 \in Nat
      /\ remaining_budget <= remaining_budget
  BY Numbers
<1>2. IsServer  BY DEF ServerStep, Listen, FlushOutbound, Accept, Handshake, ReadClient, ReadDone,
                       RouteResponse, RetryResponse, SendResponse, QueueResponse, EndServer
<1>3. ServerKind(kind)
  BY <1>2, KindIs DEF PortInv, IsServer, FlowKind, IoKind, ChatKind, PollerKind
<1>4. work_units + Len(removing) \in Nat  BY <1>1, VecLen DEF VecsInv
<1>5. ASSUME Listen PROVE BudgetInv'
  <2>1. remaining_budget > 0  BY <1>5 DEF Listen, BudgetInv
  <2>2. /\ remaining_budget - kind.confbudget \in Nat
        /\ remaining_budget - kind.confbudget <= remaining_budget /\ work_units + kind.confcost \in Nat
    BY <1>1, <1>3, <2>1 DEF ServerKind
  <2>. QED  BY <1>1, <1>5, <2>2, GotoKeeps, NoWorkKeeps, DidWorkKeeps, RetireKeeps DEF Listen
<1>6. ASSUME FlushOutbound PROVE BudgetInv'  BY <1>1, <1>6, OneLess, GotoKeeps DEF FlushOutbound
<1>7. ASSUME Accept PROVE BudgetInv'
  <2>1. kind.visit \in {"read", "serve"}  BY <1>3 DEF ServerKind
  <2>. QED  BY <1>1, <1>7, <2>1, OneLess, GotoKeeps, RetireKeeps DEF Accept
<1>8. ASSUME Handshake PROVE BudgetInv'  BY <1>8, BudgetStays DEF Handshake, call
<1>9. ASSUME ReadClient PROVE BudgetInv'  BY <1>1, <1>9, OneLess, GotoKeeps DEF ReadClient
<1>10. ASSUME ReadDone PROVE BudgetInv'  BY <1>1, <1>4, <1>10, GotoKeeps DEF ReadDone
<1>11. ASSUME RouteResponse PROVE BudgetInv'
  <2>1. remaining_budget > 0 =>
          /\ remaining_budget - kind.retrycost \in Nat
          /\ remaining_budget - kind.retrycost <= remaining_budget
    BY <1>1, <1>3 DEF ServerKind
  <2>2. work_units + kind.retrycost \in Nat  BY <1>1, <1>3 DEF ServerKind
  <2>. QED  BY <1>1, <1>11, <2>1, <2>2, OneLess, GotoKeeps DEF RouteResponse
<1>12. ASSUME RetryResponse PROVE BudgetInv'  BY <1>1, <1>12, OneLess, GotoKeeps DEF RetryResponse
<1>13. ASSUME SendResponse PROVE BudgetInv'  BY <1>1, <1>13, OneLess, GotoKeeps DEF SendResponse
<1>14. ASSUME QueueResponse PROVE BudgetInv'  BY <1>1, <1>14, OneLess, GotoKeeps DEF QueueResponse
<1>15. ASSUME EndServer PROVE BudgetInv'
  BY <1>1, <1>4, <1>15, RetireKeeps, DidWorkKeeps, NoWorkKeeps DEF EndServer
<1>. QED
  BY <1>5, <1>6, <1>7, <1>8, <1>9, <1>10, <1>11, <1>12, <1>13, <1>14, <1>15 DEF ServerStep

\* The HTTP server's own steps.
LEMMA HttpBudget ==
    ASSUME BudgetInv, VecsInv, HttpStep, UNCHANGED kind
    PROVE  BudgetInv'
<1>1. /\ remaining_budget \in Nat /\ work_units \in Nat /\ work_units + 1 \in Nat
      /\ remaining_budget <= remaining_budget
  BY Numbers
<1>2. work_units + Len(removing) \in Nat  BY <1>1, VecLen DEF VecsInv
<1>3. ASSUME ServeClient PROVE BudgetInv'
  <2>1. remaining_budget > 0  BY <1>3 DEF ServeClient
  <2>2. PICK id : ReadRequest(id) \/ AwaitResponse(id) \/ WriteResponse(id) \/ KeepAlive(id)
    BY <1>3 DEF ServeClient
  <2>3. CASE ReadRequest(id)
    BY <1>1, <2>1, <2>3, OneLess, GotoKeeps
    DEF ReadRequest, NoRequest, ParserLoops, MalformedRequest, RequestParsed
  <2>4. CASE AwaitResponse(id) \/ WriteResponse(id) \/ KeepAlive(id)
    BY <1>1, <2>1, <2>4, OneLess, GotoKeeps DEF AwaitResponse, WriteResponse, KeepAlive
  <2>. QED  BY <2>2, <2>3, <2>4
<1>4. ASSUME ServeDone PROVE BudgetInv'  BY <1>1, <1>2, <1>4, GotoKeeps DEF ServeDone
<1>5. ASSUME SendRequest PROVE BudgetInv'  BY <1>1, <1>5, OneLess, GotoKeeps DEF SendRequest
<1>6. ASSUME RequestsSent \/ TakeResponse \/ ResponsesTaken PROVE BudgetInv'
  BY <1>1, <1>6, OneLess, GotoKeeps DEF RequestsSent, TakeResponse, ResponsesTaken
<1>. QED  BY <1>3, <1>4, <1>5, <1>6 DEF HttpStep

\* The pollers.
LEMMA PollerBudget ==
    ASSUME BudgetInv, PortInv, PollerStep, UNCHANGED kind
    PROVE  BudgetInv'
<1>1. /\ remaining_budget \in Nat /\ work_units \in Nat /\ work_units + 1 \in Nat
      /\ remaining_budget <= remaining_budget
  BY Numbers
<1>2. ASSUME ReadFile \/ ChildRuns \/ WakeForLine \/ ClientResult PROVE BudgetInv'
  <2>1. UNCHANGED <<kind, phase, remaining_budget, budget_before, work_units>>
    BY <1>2 DEF ReadFile, ChildRuns, WakeForLine, ClientResult, nodeVars, call
  <2>. QED  BY <2>1, BudgetStays
<1>3. ASSUME TakeName \/ FlushPending \/ FinishRead \/ TailFile \/ TakeLine PROVE BudgetInv'
  BY <1>1, <1>3, OneLess, GotoKeeps DEF TakeName, FlushPending, FinishRead, TailFile, TakeLine
<1>4. ASSUME OpenFile \/ EndPoll \/ LoadConfig \/ CmdEof PROVE BudgetInv'
  BY <1>1, <1>4, GotoKeeps, NoWorkKeeps, DidWorkKeeps, RetireKeeps
  DEF OpenFile, EndPoll, LoadConfig, CmdEof
<1>5. ASSUME StartChild \/ ClientRequest PROVE BudgetInv'
  BY <1>1, <1>5, OneLess, GotoKeeps, NoWorkKeeps, DidWorkKeeps, RetireKeeps
  DEF StartChild, ClientRequest
<1>6. ASSUME CheckChild PROVE BudgetInv'
  <2>1. CASE work_units > 0  BY <1>1, <1>6, <2>1, DidWorkKeeps DEF CheckChild
  <2>2. CASE ~(work_units > 0)  BY <1>6, <2>2 DEF CheckChild, BudgetInv
  <2>. QED  BY <2>1, <2>2
<1>7. ASSUME ResetChild PROVE BudgetInv'  BY <1>7 DEF ResetChild, BudgetInv
<1>. QED  BY <1>2, <1>3, <1>4, <1>5, <1>6, <1>7 DEF PollerStep

\* The neighbours.
LEMMA NeighboursBudget == ASSUME BudgetInv, Neighbours PROVE BudgetInv'
<1>1. UNCHANGED <<kind, phase, remaining_budget, budget_before, work_units>>
  BY DEF Neighbours, Feed, Close, Configure, Drain, TimerFires, call
<1>. QED  BY <1>1, BudgetStays

\* Every step keeps the budget.
LEMMA BudgetStep ==
    ASSUME BudgetInv, PortInv, VecsInv, [Next]_vars
    PROVE  BudgetInv'
<1>1. CASE Next
  <2>1. UNCHANGED kind  BY <1>1, KindStays
  <2>. QED
    BY <1>1, <2>1, NeighboursBudget, ActivateKeeps, FlowBudget, IoBudget, ChatBudget, ServerBudget,
       HttpBudget, PollerBudget
    DEF Next
<1>2. CASE UNCHANGED vars  BY <1>2, BudgetStays DEF vars, nodeVars, call
<1>. QED  BY <1>1, <1>2

-----------------------------------------------------------------------------
(* The inductive invariant, and what it shows.                             *)

ComponentInv == PortInv /\ VecsInv /\ BudgetInv

\* A node starts with empty edges and no budget.
LEMMA ComponentInvInit == Init => ComponentInv
<1> SUFFICES ASSUME Init PROVE ComponentInv  OBVIOUS
<1>1. PortInv  BY DEF Init, NodeInit, DataflowInit, PortInv
<1>2. VecsInv  BY VecEmpty DEF Init, NodeInit, ServerInit, VecsInv
<1>3. BudgetInv  BY NodeBounds DEF Init, NodeInit, BudgetInv
<1>. QED  BY <1>1, <1>2, <1>3 DEF ComponentInv

\* The three parts together are inductive.
LEMMA ComponentInvHolds == Spec => []ComponentInv
<1>1. ComponentInv /\ [Next]_vars => ComponentInv'
  <2> SUFFICES ASSUME ComponentInv, [Next]_vars PROVE ComponentInv'  OBVIOUS
  <2>1. PortInv'  BY PortStep DEF ComponentInv
  <2>2. VecsInv'  BY VecsStep DEF ComponentInv, BudgetInv
  <2>3. BudgetInv'  BY BudgetStep DEF ComponentInv
  <2>. QED  BY <2>1, <2>2, <2>3 DEF ComponentInv
<1>. QED  BY <1>1, ComponentInvInit, PTL DEF Spec

\* process() never overdraws the u32 budget it shares with the scheduler, in
\* any component but Json, HTMLQuery and Delay, whose loops take units they do
\* not have.
THEOREM BudgetsNotOverdrawn == Spec => []BudgetNotOverdrawn
<1>1. ComponentInv => BudgetNotOverdrawn
  BY DEF ComponentInv, BudgetInv, BudgetNotOverdrawn, Overdrawers
<1>. QED  BY <1>1, ComponentInvHolds, PTL

-----------------------------------------------------------------------------
(* The phases of each family.  They tell whose steps a node can take.      *)

PhasesOf(family) ==
    CASE family = "connector" -> {"idle", "retired", "state", "active", "eof"}
      [] family = "session" -> {"idle", "retired", "results", "state", "submit", "end"}
      [] family = "fetcher" -> {"idle", "retired", "results", "push", "state", "end"}
      [] family = "chat" -> {"idle", "retired", "state", "prompt", "setchat", "deliver",
                             "input", "op", "end", "finished", "panicked"}

HasWorker == kind.family \in {"connector", "session", "fetcher", "chat"}

PhaseInv == HasWorker => phase \in PhasesOf(kind.family)

\* What the ends of a step do to phase and retirement.
LEMMA GotoTo ==
    ASSUME NEW next, NEW left, NEW units, Goto(next, left, units)
    PROVE  phase' = next /\ remaining_budget' = left /\ ended' = ended
BY DEF Goto

\* The end of a call that did work.
LEMMA DidWorkTo ==
    ASSUME NEW units, NEW left, NEW signalled, DidWork(units, left, signalled)
    PROVE  phase' \in {"idle", kind.first} /\ ended' = ended
BY DEF DidWork, Settle

\* The end of an activation without work.
LEMMA NoWorkTo ==
    ASSUME NEW signalled, NoWork(signalled)
    PROVE  phase' = "idle" /\ ended' = ended
BY DEF NoWork, Settle

\* Either of them.
LEMMA ResultTo ==
    ASSUME NEW units, NEW left, NEW signalled, Result(units, left, signalled)
    PROVE  phase' \in {"idle", kind.first} /\ ended' = ended
BY DidWorkTo, NoWorkTo DEF Result

\* Retirement.
LEMMA RetireTo ==
    ASSUME NEW why, Retire(why)
    PROVE  phase' = "retired" /\ ended' = why
BY DEF Retire

\* A call of a component with a worker starts in one of its own phases.
LEMMA FirstIsOwn ==
    ASSUME PortInv, HasWorker
    PROVE  kind.first \in {"state", "results"} /\ kind.first \in PhasesOf(kind.family)
           /\ (kind.family \in {"connector", "chat"} => kind.first = "state")
BY KindIs DEF PortInv, HasWorker, FlowKind, IoKind, ChatKind, ServerKind, PollerKind, PhasesOf

\* The families of this module are not the other ones.
LEMMA NotOthers ==
    ASSUME HasWorker
    PROVE  ~IsDataflow /\ ~IsServer /\ kind.family # "poller" /\ kind.family # "writer"
           /\ kind \notin PollerKinds
<1>1. kind.family # "poller"  BY DEF HasWorker
<1>2. kind \notin PollerKinds  BY <1>1, PollerKindsAre DEF PollerKind
<1>. QED  BY <1>1, <1>2 DEF HasWorker, IsDataflow, IsServer

\* A component with a worker takes its own steps only.
LEMMA OwnSteps ==
    ASSUME PhaseInv, HasWorker, Next
    PROVE  \/ Neighbours /\ UNCHANGED <<ioVars, dispatcher>>
           \/ Activate /\ UNCHANGED <<ioVars, dispatcher>>
           \/ ComponentStep /\ UNCHANGED dispatcher
           \/ WorkerStep /\ UNCHANGED dispatcher
           \/ ChatStep
<1> USE NotOthers
<1>1. phase \notin {"names", "open", "tail", "load", "run", "query", "serve", "request", "response"}
  BY DEF PhaseInv, HasWorker, PhasesOf
<1>2. ~ServerStep
  BY DEF ServerStep, Listen, FlushOutbound, Accept, Handshake, ReadClient, ReadDone,
         RouteResponse, RetryResponse, SendResponse, QueueResponse, EndServer
<1>3. ~HttpStep
  BY <1>1 DEF HttpStep, ServeClient, ServeDone, SendRequest, RequestsSent, TakeResponse,
              ResponsesTaken
<1>4. ~PollerStep
  <2>1. ~(TakeName \/ FlushPending \/ OpenFile \/ TailFile \/ EndPoll \/ LoadConfig \/ StartChild
          \/ ClientRequest)
    BY <1>1 DEF TakeName, FlushPending, OpenFile, TailFile, EndPoll, LoadConfig, StartChild,
                ClientRequest
  <2>2. ~(ReadFile \/ FinishRead \/ ChildRuns \/ WakeForLine \/ TakeLine \/ CheckChild
          \/ ResetChild \/ CmdEof \/ ClientResult)
    BY DEF ReadFile, FinishRead, ChildRuns, WakeForLine, TakeLine, CheckChild, ResetChild, CmdEof,
           ClientResult, PollerKinds
  <2>. QED  BY <2>1, <2>2 DEF PollerStep
<1>. QED  BY <1>2, <1>3, <1>4 DEF Next, IoStep

\* What a connector does.
LEMMA ConnectorSteps ==
    ASSUME PhaseInv, kind.family = "connector", ComponentStep
    PROVE  Connecting \/ Waiting \/ Retrying \/ Finished \/ ReadInput \/ ConnectorEof
<1>1. phase \in {"idle", "retired", "state", "active", "eof"}  BY DEF PhaseInv, HasWorker, PhasesOf
<1>. QED
  BY <1>1 DEF ComponentStep, TakeResult, TakeError, NoResult, PushFetched, Login, AwaitLogin,
              Poll, TakeInput, Submit, EndSession, StartWriter, WriterResults, SubmitWrite, EndWriter

\* What an IMAP session does.
LEMMA SessionSteps ==
    ASSUME PhaseInv, kind.family = "session", ComponentStep
    PROVE  \/ TakeResult \/ TakeError \/ NoResult \/ Login \/ AwaitLogin \/ TakeInput \/ Submit
           \/ EndSession
<1>1. phase # "push"  BY DEF PhaseInv, HasWorker, PhasesOf
<1>. QED
  BY <1>1 DEF ComponentStep, Connecting, Waiting, Retrying, Finished, ReadInput, ConnectorEof,
              PushFetched, Poll, StartWriter, WriterResults, SubmitWrite, EndWriter

\* What an IMAP fetcher does.
LEMMA FetcherSteps ==
    ASSUME kind.family = "fetcher", ComponentStep
    PROVE  \/ TakeResult \/ TakeError \/ NoResult \/ PushFetched \/ Login \/ AwaitLogin \/ Poll
           \/ EndSession
BY DEF ComponentStep, Connecting, Waiting, Retrying, Finished, ReadInput, ConnectorEof,
       TakeInput, Submit, StartWriter, WriterResults, SubmitWrite, EndWriter

\* A chat component takes no step of the others.
LEMMA ChatSteps == ASSUME PhaseInv, kind.family = "chat" PROVE ~ComponentStep
<1>1. phase \notin {"results", "push"}  BY DEF PhaseInv, HasWorker, PhasesOf
<1>. QED
  BY <1>1 DEF ComponentStep, Connecting, Waiting, Retrying, Finished, ReadInput, ConnectorEof,
              TakeResult, TakeError, NoResult, PushFetched, Login, AwaitLogin, Poll, TakeInput,
              Submit, EndSession, StartWriter, WriterResults, SubmitWrite, EndWriter

\* A worker thread leaves the node's place in process() alone.
LEMMA WorkerCall == ASSUME WorkerStep PROVE UNCHANGED <<kind, call>>
BY DEF WorkerStep, WorkerRecv, WorkerConnect, WorkerLoggedIn, WorkerOperate, WorkerPoll,
       WorkerShutdown, WorkerWake, nodeVars

\* So do the neighbours.
LEMMA NeighboursCall == ASSUME Neighbours PROVE UNCHANGED <<kind, call>>
BY DEF Neighbours, Feed, Close, Configure, Drain, TimerFires

\* Every family stays in its phases.
LEMMA PhaseStep == ASSUME PhaseInv, PortInv, [Next]_vars PROVE PhaseInv'
<1>1. UNCHANGED kind  BY KindStays DEF vars, nodeVars
<1> SUFFICES ASSUME HasWorker PROVE phase' \in PhasesOf(kind.family)
  BY <1>1 DEF PhaseInv, HasWorker
<1>2. phase \in PhasesOf(kind.family) /\ {"idle", "retired", "state"} \subseteq PhasesOf(kind.family)
  BY DEF PhaseInv, HasWorker, PhasesOf
<1>3. kind.first \in PhasesOf(kind.family)  BY FirstIsOwn
<1>4. ASSUME UNCHANGED phase PROVE phase' \in PhasesOf(kind.family)  BY <1>2, <1>4
<1>5. CASE kind.family = "connector" /\ ComponentStep
  <2>1. {"active", "eof"} \subseteq PhasesOf(kind.family)  BY <1>5 DEF PhasesOf
  <2>2. CASE Connecting \/ Waiting \/ Retrying \/ Finished
    BY <1>2, <1>3, <2>2, DidWorkTo, NoWorkTo, RetireTo DEF Connecting, Waiting, Retrying, Finished
  <2>3. CASE ReadInput \/ ConnectorEof
    BY <1>2, <1>3, <2>1, <2>3, GotoTo, ResultTo, RetireTo DEF ReadInput, ConnectorEof
  <2>. QED  BY <1>5, <2>2, <2>3, ConnectorSteps
<1>6. CASE kind.family = "session" /\ ComponentStep
  <2>1. {"results", "submit", "end"} \subseteq PhasesOf(kind.family)  BY <1>6 DEF PhasesOf
  <2>. QED
    BY <1>2, <1>3, <1>6, <2>1, SessionSteps, GotoTo, NoWorkTo, ResultTo, RetireTo
    DEF TakeResult, TakeError, NoResult, Login, AwaitLogin, TakeInput, Submit, EndSession, Leave,
        SettleUnconnected
<1>7. CASE kind.family = "fetcher" /\ ComponentStep
  <2>1. {"results", "push", "end"} \subseteq PhasesOf(kind.family)  BY <1>7 DEF PhasesOf
  <2>. QED
    BY <1>2, <1>3, <1>7, <2>1, FetcherSteps, GotoTo, NoWorkTo, ResultTo, RetireTo
    DEF TakeResult, TakeError, NoResult, PushFetched, Login, AwaitLogin, Poll, EndSession, Leave,
        SettleUnconnected
<1>8. CASE ChatStep
  <2>1. kind.family = "chat"
    BY <1>8 DEF ChatStep, ChatApply, ChatLogin, ChatOperate, ChatShutdown, Dispatch,
       DispatcherWake, ChatWaiting, ChatPrompt, ChatResult, ChatDeliver, ChatInput, ChatSend,
       ChatEnd, ChatDrop, IsChat
  <2>2. {"prompt", "setchat", "deliver", "input", "op", "end", "finished", "panicked"}
            \subseteq PhasesOf(kind.family)
    BY <2>1 DEF PhasesOf
  <2>3. CASE ChatApply \/ ChatLogin \/ ChatOperate \/ ChatShutdown \/ Dispatch \/ DispatcherWake
    <3>1. UNCHANGED phase
      BY <2>3 DEF ChatApply, ChatLogin, ChatOperate, ChatShutdown, Dispatch, DispatcherWake,
                  nodeVars, call
    <3>. QED  BY <1>4, <3>1
  <2>4. CASE ChatWaiting \/ ChatPrompt \/ ChatResult \/ ChatDeliver \/ ChatInput \/ ChatEnd \/ ChatDrop
    BY <1>2, <1>3, <2>2, <2>4, GotoTo, DidWorkTo, NoWorkTo, ResultTo, RetireTo
    DEF ChatWaiting, ChatPrompt, ChatResult, ChatDeliver, ChatInput, ChatEnd, ChatDrop
  <2>5. CASE ChatSend  BY <1>2, <1>3, <2>2, <2>5, GotoTo, DidWorkTo DEF ChatSend
  <2>. QED  BY <1>8, <2>3, <2>4, <2>5 DEF ChatStep
<1>9. CASE Neighbours \/ WorkerStep \/ UNCHANGED vars
  <2>1. UNCHANGED phase  BY <1>9, NeighboursCall, WorkerCall DEF vars, nodeVars, call
  <2>. QED  BY <1>4, <2>1
<1>10. CASE Activate  BY <1>3, <1>10 DEF Activate
<1>11. CASE ComponentStep  BY <1>5, <1>6, <1>7, <1>11, ChatSteps DEF HasWorker
<1>. QED  BY <1>8, <1>9, <1>10, <1>11, OwnSteps

-----------------------------------------------------------------------------
(* The load of the channels: requests queued, being served, and answered   *)
(* but not yet taken.                                                      *)

Serving == IF worker \in {"op", "poll"} THEN 1 ELSE 0
Load == Len(cmdq) + Serving + Len(resq)

\* How appending and taking change a length.
LEMMA VecLens ==
    ASSUME NEW s, IsVec(s), NEW x
    PROVE  /\ Len(s) \in Nat /\ Len(Append(s, x)) = Len(s) + 1
           /\ s = <<>> => Len(s) = 0
           /\ s # <<>> => Len(s) > 0 /\ Len(Tail(s)) = Len(s) - 1
<1>1. PICK S : s \in Seq(S)  BY DEF IsVec
<1>2. Len(s) \in Nat /\ Len(Append(s, x)) = Len(s) + 1
  <2>1. s \in Seq(S \cup {x})
    <3>1. s \in [1..Len(s) -> S] /\ Len(s) \in Nat  BY <1>1
    <3>2. s \in [1..Len(s) -> S \cup {x}]  BY <3>1
    <3>. QED  BY <3>1, <3>2
  <2>. QED  BY <2>1
<1>3. s # <<>> => Len(s) > 0 /\ Len(Tail(s)) = Len(s) - 1  BY <1>1
<1>. QED  BY <1>2, <1>3

-----------------------------------------------------------------------------
(* OpenAIChat: each request has one answer, and process() takes an answer  *)
(* before it sends a request.  So it never sends with all places taken and *)
(* the worker busy, which is what it takes to wait for each other.         *)

AnswersOnly == IsChat /\ kind.dispatches = "no"

ChatCommands == {"connect", "prompt", "op"}

\* The phases after an answer was taken, in which process() may wait.
AnswerTaken ==
    \/ phase \in {"deliver", "op", "finished", "panicked", "prompt"}
    \/ phase = "input" /\ remaining_budget > 0

ChatInv ==
    AnswersOnly =>
        /\ dispatcher = "off"
        /\ cmdq \in Seq(ChatCommands) /\ Len(cmdq) <= CmdCap
        /\ IsVec(resq) /\ Len(resq) <= ResCap
        /\ worker \in {"recv", "connect", "prompt", "op", "wake", "gone"}
        /\ phase # "setchat" /\ st \in {"waiting", "prompt", "active"}
        /\ st = "waiting" => Load = 0
        /\ st = "prompt" => Load <= 1
        /\ AnswerTaken => Load <= CmdCap + ResCap

\* The parts of it about the channels, which a step of the worker keeps if it
\* does not add to the load.
LEMMA ChatLighter ==
    ASSUME ChatInv, AnswersOnly, UNCHANGED <<kind, st, phase, remaining_budget>>,
           dispatcher' = "off",
           cmdq' \in Seq(ChatCommands), Len(cmdq') <= CmdCap, IsVec(resq'), Len(resq') <= ResCap,
           worker' \in {"recv", "connect", "prompt", "op", "wake", "gone"},
           Load' \in Nat, Load' <= Load
    PROVE  ChatInv'
<1>1. CmdCap \in Nat /\ ResCap \in Nat  BY WorkerBounds, ChatBounds
<1>2. Load \in Nat
  BY VecLen DEF ChatInv, Load, Serving
<1> HIDE DEF Load
<1>. QED  BY <1>1, <1>2 DEF ChatInv, AnswersOnly, AnswerTaken, IsChat

\* The worker's steps.
LEMMA ChatWorkerKeeps ==
    ASSUME ChatInv, AnswersOnly,
           \/ WorkerStep /\ UNCHANGED dispatcher
           \/ ChatApply \/ ChatLogin \/ ChatOperate \/ ChatShutdown \/ Dispatch \/ DispatcherWake
    PROVE  ChatInv'
<1>1. /\ dispatcher = "off" /\ cmdq \in Seq(ChatCommands) /\ IsVec(resq) /\ Len(cmdq) \in Nat
      /\ worker \in {"recv", "connect", "prompt", "op", "wake", "gone"}
      /\ Len(cmdq) <= CmdCap /\ Len(resq) <= ResCap
  BY DEF ChatInv
<1>2. Len(resq) \in Nat  BY <1>1, VecLen
<1>3. ~IsIo /\ kind.family = "chat" /\ kind.dispatches = "no"  BY DEF AnswersOnly, IsIo, IsChat
<1>4. CASE WorkerRecv /\ UNCHANGED dispatcher
  <2>1. UNCHANGED <<kind, st, phase, remaining_budget, resq>>
    BY <1>4 DEF WorkerRecv, nodeVars, call
  <2>2. CASE cmdq # <<>> /\ worker' = Head(cmdq) /\ cmdq' = Tail(cmdq)
    <3>1. cmdq' \in Seq(ChatCommands) /\ Len(cmdq') = Len(cmdq) - 1 /\ Head(cmdq) \in ChatCommands
      BY <1>1, <2>2
    <3>2. Load' \in Nat /\ Load' <= Load  BY <1>1, <1>2, <2>1, <3>1 DEF Load, Serving
    <3>3. worker' \in {"recv", "connect", "prompt", "op", "wake", "gone"}
      BY <2>2, <3>1 DEF ChatCommands
    <3>4. Len(cmdq') <= CmdCap  BY <1>1, <3>1, WorkerBounds
    <3>. QED  BY <1>1, <1>4, <2>1, <3>1, <3>2, <3>3, <3>4, ChatLighter
  <2>3. CASE worker' = "gone" /\ UNCHANGED cmdq
    <3>1. Load' \in Nat /\ Load' <= Load  BY <1>1, <1>2, <2>1, <2>3 DEF Load, Serving
    <3>. QED  BY <1>1, <1>4, <2>1, <2>3, <3>1, ChatLighter
  <2>. QED  BY <1>4, <2>2, <2>3 DEF WorkerRecv
<1>5. CASE (WorkerWake /\ UNCHANGED dispatcher) \/ ChatApply \/ ChatShutdown \/ DispatcherWake
  <2>1. UNCHANGED <<kind, st, phase, remaining_budget, cmdq, resq>>
    BY <1>5 DEF WorkerWake, ChatApply, ChatShutdown, DispatcherWake, nodeVars, call, ioVars, channels
  <2>2. dispatcher' = "off" /\ worker' \in {"recv", "gone"}
    BY <1>1, <1>5 DEF WorkerWake, ChatApply, ChatShutdown, DispatcherWake
  <2>3. Load' \in Nat /\ Load' <= Load  BY <1>1, <1>2, <2>1, <2>2 DEF Load, Serving
  <2>. QED  BY <1>1, <2>1, <2>2, <2>3, ChatLighter
<1>6. CASE ChatOperate
  <2>1. UNCHANGED <<kind, st, phase, remaining_budget, cmdq>> /\ dispatcher' = "off" /\ worker = "op"
    BY <1>1, <1>6 DEF ChatOperate, nodeVars, call
  <2>2. worker' \in {"wake", "gone"}  BY <1>6 DEF ChatOperate
  <2>3. resq' = resq \/ (Len(resq) < ResCap /\ \E x : resq' = Append(resq, x))
    BY <1>6 DEF ChatOperate, CanAnswer, SendResult
  <2>4. IsVec(resq') /\ Len(resq') \in Nat /\ Len(resq') <= ResCap /\ Len(resq') <= Len(resq) + 1
    <3>1. ResCap \in Nat  BY ChatBounds
    <3>2. CASE resq' = resq  BY <1>1, <1>2, <3>2
    <3>3. ASSUME NEW x, Len(resq) < ResCap, resq' = Append(resq, x)
          PROVE  IsVec(resq') /\ Len(resq') \in Nat /\ Len(resq') <= ResCap /\ Len(resq') <= Len(resq) + 1
      <4>1. IsVec(Append(resq, x)) /\ Len(Append(resq, x)) = Len(resq) + 1
        BY <1>1, VecAppend, VecLens
      <4>. QED  BY <1>2, <3>1, <3>3, <4>1
    <3>. QED  BY <2>3, <3>2, <3>3
  <2>5. Load' \in Nat /\ Load' <= Load
    <3>1. Serving = 1 /\ Serving' = 0  BY <2>1, <2>2 DEF Serving
    <3>2. Len(cmdq)' = Len(cmdq) /\ Len(resq)' = Len(resq')  BY <2>1
    <3>. QED  BY <1>1, <1>2, <2>4, <3>1, <3>2 DEF Load
  <2>. QED  BY <1>1, <2>1, <2>2, <2>4, <2>5, ChatLighter
<1>7. ~(ChatLogin \/ Dispatch \/ WorkerConnect \/ WorkerLoggedIn \/ WorkerOperate \/ WorkerPoll
        \/ WorkerShutdown)
  BY <1>1, <1>3 DEF ChatLogin, Dispatch, WorkerConnect, WorkerLoggedIn, WorkerOperate, WorkerPoll,
                    WorkerShutdown
<1>. QED  BY <1>4, <1>5, <1>6, <1>7 DEF WorkerStep

\* process() before the component is active: the channels are empty but for the
\* configuration.
LEMMA ChatSetupKeeps ==
    ASSUME ChatInv, PortInv, AnswersOnly, UNCHANGED kind, ChatWaiting \/ ChatPrompt
    PROVE  ChatInv'
<1>1. /\ dispatcher = "off" /\ cmdq \in Seq(ChatCommands) /\ IsVec(resq) /\ Len(cmdq) \in Nat
      /\ worker \in {"recv", "connect", "prompt", "op", "wake", "gone"}
      /\ Len(cmdq) <= CmdCap /\ Len(resq) <= ResCap
  BY DEF ChatInv
<1>2. Len(resq) \in Nat /\ Serving \in {0, 1}  BY <1>1, VecLen DEF Serving
<1>3. CmdCap \in Nat \ {0} /\ ResCap \in Nat \ {0}  BY WorkerBounds, ChatBounds
<1>4. AnswersOnly'  BY DEF AnswersOnly, IsChat
<1>5. UNCHANGED <<resq, worker, dispatcher>> /\ Serving' = Serving
  BY DEF ChatWaiting, ChatPrompt, ioVars, channels, Serving
<1>6. CASE ChatWaiting
  <2>1. Len(cmdq) = 0 /\ Len(resq) = 0 /\ Serving = 0
    BY <1>1, <1>2, <1>6 DEF ChatWaiting, ChatInv, Load
  <2>2. CASE Send("connect") /\ st' \in {"active", "prompt"} /\ phase' \in {"idle", "state"}
    <3>1. cmdq' \in Seq(ChatCommands) /\ Len(cmdq') = 1  BY <1>1, <2>1, <2>2 DEF Send, ChatCommands
    <3>2. Load' = 1  BY <1>2, <1>5, <2>1, <3>1 DEF Load
    <3>. QED  BY <1>1, <1>2, <1>3, <1>4, <1>5, <2>2, <3>1, <3>2 DEF ChatInv, AnswerTaken
  <2>3. CASE UNCHANGED <<cmdq, st>> /\ phase' \in {"idle", "panicked"}
    <3>1. Load' = 0  BY <1>2, <1>5, <2>1, <2>3 DEF Load
    <3>2. st' = "waiting"  BY <1>6, <2>3 DEF ChatWaiting
    <3>. QED  BY <1>1, <1>2, <1>3, <1>4, <1>5, <2>3, <3>1, <3>2 DEF ChatInv
  <2>4. kind.first = "state"  BY FirstIsOwn DEF AnswersOnly, IsChat, HasWorker
  <2>. QED  BY <1>6, <2>2, <2>3, <2>4, DidWorkTo, NoWorkTo, GotoTo DEF ChatWaiting
<1>7. CASE ChatPrompt
  <2>1. UNCHANGED <<cmdq, st>> /\ st = "prompt"  BY <1>7 DEF ChatPrompt, ioVars, channels
  <2>2. Load' = Load /\ Load <= 1 /\ Load \in Nat
    BY <1>1, <1>2, <1>5, <2>1 DEF Load, ChatInv
  <2>3. phase' \in {"idle", "prompt", "finished"}  BY <1>7, GotoTo, NoWorkTo DEF ChatPrompt
  <2>. QED  BY <1>1, <1>2, <1>3, <1>4, <1>5, <2>1, <2>2, <2>3 DEF ChatInv
<1>. QED  BY <1>6, <1>7

\* process() once the component is active.
LEMMA ChatActiveKeeps ==
    ASSUME ChatInv, BudgetInv, PortInv, AnswersOnly, UNCHANGED kind,
           ChatResult \/ ChatDeliver \/ ChatInput \/ ChatSend \/ ChatEnd \/ ChatDrop
    PROVE  ChatInv'
<1>1. /\ dispatcher = "off" /\ cmdq \in Seq(ChatCommands) /\ IsVec(resq) /\ Len(cmdq) \in Nat
      /\ worker \in {"recv", "connect", "prompt", "op", "wake", "gone"}
      /\ Len(cmdq) <= CmdCap /\ Len(resq) <= ResCap
      /\ phase # "setchat" /\ st \in {"waiting", "prompt", "active"}
      /\ st = "waiting" => Load = 0
      /\ st = "prompt" => Load <= 1
      /\ AnswerTaken => Load <= CmdCap + ResCap
  BY DEF ChatInv
<1>2. Len(resq) \in Nat /\ Serving \in {0, 1} /\ Load \in Nat  BY <1>1, VecLen DEF Serving, Load
<1>3. CmdCap \in Nat \ {0} /\ ResCap \in Nat \ {0}  BY WorkerBounds, ChatBounds
<1>4. AnswersOnly'  BY DEF AnswersOnly, IsChat
<1>5. kind.first = "state"  BY FirstIsOwn DEF AnswersOnly, IsChat, HasWorker
<1>6. remaining_budget \in Nat  BY DEF BudgetInv
<1>7. ASSUME UNCHANGED <<st, cmdq, resq, worker, dispatcher>>, AnswerTaken' => AnswerTaken,
             phase' # "setchat"
      PROVE  ChatInv'
  <2>1. Load' = Load  BY <1>7 DEF Load, Serving
  <2>. QED  BY <1>1, <1>2, <1>4, <1>7, <2>1 DEF ChatInv
<1>8. CASE ChatResult
  <2>1. UNCHANGED <<st, cmdq, worker, dispatcher>> /\ st = "active" /\ Serving' = Serving
    BY <1>8 DEF ChatResult, Serving
  <2>2. IsVec(resq') /\ Len(resq') \in Nat /\ Len(resq') <= ResCap
        /\ (AnswerTaken' => Len(resq') < ResCap)
    <3>1. CASE remaining_budget > 0 /\ resq # <<>>
      <4>1. resq' = Tail(resq)  BY <1>8, <3>1 DEF ChatResult
      <4>2. IsVec(Tail(resq)) /\ Len(Tail(resq)) = Len(resq) - 1 /\ Len(resq) > 0
        BY <1>1, <3>1, VecTail, VecLens
      <4>. QED  BY <1>1, <1>2, <1>3, <4>1, <4>2
    <3>2. CASE ~(remaining_budget > 0) \/ resq = <<>>
      <4>1. resq' = resq /\ Goto("input", remaining_budget, work_units)
        BY <1>8, <3>2 DEF ChatResult
      <4>2. phase' = "input" /\ remaining_budget' = remaining_budget  BY <4>1, GotoTo
      <4>3. AnswerTaken' => resq = <<>>  BY <3>2, <4>2 DEF AnswerTaken
      <4>4. resq = <<>> => Len(resq) = 0  BY <1>1, VecLens
      <4>. QED  BY <1>1, <1>2, <1>3, <4>1, <4>3, <4>4
    <3>. QED  BY <3>1, <3>2
  <2>3. Load' = Len(cmdq) + Serving + Len(resq')  BY <2>1 DEF Load
  <2>4. AnswerTaken' => Load' <= CmdCap + ResCap  BY <1>1, <1>2, <1>3, <2>2, <2>3
  <2>5. kind.name # "TelegramBot"
    BY KindIs DEF PortInv, AnswersOnly, IsChat, FlowKind, IoKind, ChatKind, ServerKind, PollerKind
  <2>6. phase' # "setchat"  BY <1>8, <2>5, GotoTo DEF ChatResult
  <2>. QED  BY <1>1, <1>4, <2>1, <2>2, <2>4, <2>6 DEF ChatInv
<1>9. CASE ChatDeliver
  <2>1. UNCHANGED <<st, cmdq, resq, worker, dispatcher>> /\ AnswerTaken
    BY <1>9 DEF ChatDeliver, AnswerTaken, channels
  <2>2. phase' # "setchat"  BY <1>9, GotoTo DEF ChatDeliver
  <2>. QED  BY <1>7, <2>1, <2>2
<1>10. CASE ChatInput
  <2>1. UNCHANGED <<st, cmdq, resq, worker, dispatcher>>
    BY <1>10 DEF ChatInput, ioVars, channels
  <2>2. AnswerTaken' => AnswerTaken
    BY <1>6, <1>10, GotoTo DEF ChatInput, AnswerTaken
  <2>3. phase' # "setchat"  BY <1>10, GotoTo DEF ChatInput
  <2>. QED  BY <1>7, <2>1, <2>2, <2>3
<1>11. CASE ChatSend
  <2>1. UNCHANGED <<resq, worker, dispatcher>> /\ AnswerTaken /\ phase \in {"prompt", "op"}
    BY <1>1, <1>11 DEF ChatSend, AnswerTaken
  <2>2. CASE Len(cmdq) < CmdCap /\ Send(phase) /\ st' = "active" /\ phase' \in {"idle", "state", "end"}
    <3>1. cmdq' \in Seq(ChatCommands) /\ Len(cmdq') = Len(cmdq) + 1
      BY <1>1, <2>1, <2>2 DEF Send, ChatCommands
    <3>2. Len(cmdq') <= CmdCap  BY <1>1, <1>3, <2>2, <3>1
    <3>. QED  BY <1>1, <1>4, <2>1, <2>2, <3>1, <3>2 DEF ChatInv, AnswerTaken
  <2>3. CASE worker = "gone" /\ UNCHANGED <<cmdq, st>> /\ phase' = "finished"
    BY <1>7, <2>1, <2>3
  <2>. QED  BY <1>5, <1>11, <2>1, <2>2, <2>3, GotoTo, DidWorkTo DEF ChatSend
<1>12. CASE ChatEnd \/ ChatDrop
  <2>1. UNCHANGED <<st, cmdq, resq, worker, dispatcher>>
    BY <1>12 DEF ChatEnd, ChatDrop, ioVars, channels, AnswersOnly
  <2>2. phase' \in {"idle", "state", "retired"}
    BY <1>5, <1>12, ResultTo, RetireTo DEF ChatEnd, ChatDrop
  <2>. QED  BY <1>7, <2>1, <2>2 DEF AnswerTaken
<1>. QED  BY <1>8, <1>9, <1>10, <1>11, <1>12

\* Every step keeps the two sides from waiting for each other.
LEMMA ChatStepKeeps ==
    ASSUME ChatInv, PhaseInv, BudgetInv, PortInv, [Next]_vars
    PROVE  ChatInv'
<1>1. UNCHANGED kind  BY KindStays DEF vars, nodeVars
<1> SUFFICES ASSUME AnswersOnly PROVE ChatInv'
  BY <1>1 DEF ChatInv, AnswersOnly, IsChat
<1>2. HasWorker /\ kind.family = "chat"  BY DEF AnswersOnly, IsChat, HasWorker
<1>3. ASSUME UNCHANGED <<ioVars, dispatcher>>, UNCHANGED call \/ phase' = "state" PROVE ChatInv'
  <2>1. UNCHANGED <<st, cmdq, resq, worker, dispatcher>>  BY <1>3 DEF ioVars, channels
  <2>2. (AnswerTaken' => AnswerTaken) /\ (phase' = "setchat" => phase = "setchat")
    BY <1>3 DEF AnswerTaken, call
  <2>3. Load' = Load  BY <2>1 DEF Load, Serving
  <2>. QED  BY <1>1, <2>1, <2>2, <2>3 DEF ChatInv, AnswersOnly, IsChat
<1>4. CASE Neighbours /\ UNCHANGED <<ioVars, dispatcher>>  BY <1>3, <1>4, NeighboursCall
<1>5. CASE Activate /\ UNCHANGED <<ioVars, dispatcher>>
  <2>1. phase' = "state"  BY <1>2, <1>5, FirstIsOwn DEF Activate
  <2>. QED  BY <1>3, <1>5, <2>1
<1>6. CASE UNCHANGED vars  BY <1>3, <1>6 DEF vars, nodeVars
<1>7. CASE ChatStep  BY <1>1, <1>7, ChatWorkerKeeps, ChatSetupKeeps, ChatActiveKeeps DEF ChatStep
<1>8. CASE WorkerStep /\ UNCHANGED dispatcher  BY <1>8, ChatWorkerKeeps
<1>. QED  BY <1>2, <1>4, <1>5, <1>6, <1>7, <1>8, OwnSteps, ChatSteps

\* At the start nothing is on its way.
LEMMA ChatInvInit == Init => ChatInv
<1> SUFFICES ASSUME Init, AnswersOnly PROVE ChatInv  BY DEF ChatInv
<1>1. cmdq = <<>> /\ resq = <<>> /\ worker = "recv" /\ st = "waiting" /\ dispatcher = "off"
      /\ phase = "idle"
  BY DEF Init, NodeInit, IoInit, ChatInit, AnswersOnly, IsChat
<1>2. Load = 0  BY <1>1 DEF Load, Serving
<1>3. CmdCap \in Nat /\ ResCap \in Nat  BY WorkerBounds, ChatBounds
<1>. QED  BY <1>1, <1>2, <1>3, VecEmpty DEF ChatInv, AnswerTaken

\* The load leaves a place for one of the two sides to go on.
LEMMA LoadIsEnough == ASSUME ChatInv, BudgetInv PROVE NoMutualBlock
<1> SUFFICES ASSUME AnswersOnly, NodeBlocked, WorkerBlocked PROVE FALSE
  BY DEF NoMutualBlock, AnswersOnly
<1>1. AnswerTaken  BY DEF ChatInv, NodeBlocked, AnswerTaken
<1>2. CmdCap \in Nat /\ ResCap \in Nat  BY WorkerBounds, ChatBounds
<1>3. Len(cmdq) \in Nat /\ Len(resq) \in Nat  BY VecLen DEF ChatInv
<1>4. Len(cmdq) >= CmdCap /\ Len(resq) >= ResCap /\ Serving = 1
  BY <1>2, <1>3 DEF NodeBlocked, WorkerBlocked, CanAnswer, Serving
<1>5. Load <= CmdCap + ResCap  BY <1>1 DEF ChatInv
<1>. QED  BY <1>2, <1>3, <1>4, <1>5 DEF Load

-----------------------------------------------------------------------------
(* Connectors, sessions and fetchers: what is in the channels, and at the  *)
(* worker, in each state of the component.                                 *)

Counted == kind.family \in {"connector", "session", "fetcher"}

\* Every element of a channel's contents is of one of the given sorts.
AllOf(s, sorts) == \A i \in 1..Len(s) : s[i][1] \in sorts

\* An appended element.
LEMMA AllOfAppend ==
    ASSUME NEW s, IsVec(s), NEW x, NEW sorts
    PROVE  AllOf(Append(s, x), sorts) <=> AllOf(s, sorts) /\ x[1] \in sorts
<1>1. PICK S : s \in Seq(S)  BY DEF IsVec
<1>2. s \in Seq(S \cup {x})
  <2>1. s \in [1..Len(s) -> S] /\ Len(s) \in Nat  BY <1>1
  <2>2. s \in [1..Len(s) -> S \cup {x}]  BY <2>1
  <2>. QED  BY <2>1, <2>2
<1>3. /\ Len(Append(s, x)) = Len(s) + 1 /\ Len(s) \in Nat
      /\ \A i \in 1..Len(s) : Append(s, x)[i] = s[i]
      /\ Append(s, x)[Len(s) + 1] = x
  BY <1>2
<1>4. ASSUME AllOf(Append(s, x), sorts) PROVE AllOf(s, sorts) /\ x[1] \in sorts
  BY <1>3, <1>4 DEF AllOf
<1>5. ASSUME AllOf(s, sorts), x[1] \in sorts PROVE AllOf(Append(s, x), sorts)
  <2>1. ASSUME NEW i \in 1..(Len(s) + 1) PROVE Append(s, x)[i][1] \in sorts
    BY <1>3, <1>5, <2>1 DEF AllOf
  <2>. QED  BY <1>3, <2>1 DEF AllOf
<1>. QED  BY <1>4, <1>5

\* The first element and the rest.
LEMMA AllOfTail ==
    ASSUME NEW s, IsVec(s), s # <<>>, NEW sorts
    PROVE  AllOf(s, sorts) <=> Head(s)[1] \in sorts /\ AllOf(Tail(s), sorts)
<1>1. PICK S : s \in Seq(S)  BY DEF IsVec
<1>2. /\ Len(Tail(s)) = Len(s) - 1 /\ Len(s) \in Nat /\ Len(s) > 0 /\ Head(s) = s[1]
      /\ \A i \in 1..(Len(s) - 1) : Tail(s)[i] = s[i + 1]
  BY <1>1
<1>3. ASSUME AllOf(s, sorts) PROVE Head(s)[1] \in sorts /\ AllOf(Tail(s), sorts)
  <2>1. ASSUME NEW i \in 1..(Len(s) - 1) PROVE Tail(s)[i][1] \in sorts
    <3>1. i + 1 \in 1..Len(s)  BY <1>2
    <3>. QED  BY <1>2, <1>3, <3>1 DEF AllOf
  <2>2. 1 \in 1..Len(s)  BY <1>2
  <2>. QED  BY <1>2, <1>3, <2>1, <2>2 DEF AllOf
<1>4. ASSUME Head(s)[1] \in sorts, AllOf(Tail(s), sorts) PROVE AllOf(s, sorts)
  <2>1. ASSUME NEW i \in 1..Len(s) PROVE s[i][1] \in sorts
    <3>1. CASE i = 1  BY <1>2, <1>4, <3>1
    <3>2. CASE i # 1
      <4>1. i - 1 \in 1..(Len(s) - 1) /\ s[i] = Tail(s)[i - 1]  BY <1>2, <3>2
      <4>. QED  BY <1>2, <1>4, <4>1 DEF AllOf
    <3>. QED  BY <3>1, <3>2
  <2>. QED  BY <2>1 DEF AllOf
<1>. QED  BY <1>3, <1>4

\* One element and none.
LEMMA VecOne ==
    ASSUME NEW x, NEW y
    PROVE  /\ IsVec(<<x>>) /\ Len(<<x>>) = 1 /\ Head(<<x>>) = x /\ Tail(<<x>>) = <<>>
           /\ Append(<<>>, x) = <<x>> /\ <<x>> # <<>>
           /\ IsVec(<<y, x>>) /\ Len(<<y, x>>) = 2 /\ Head(<<y, x>>) = y /\ Tail(<<y, x>>) = <<x>>
           /\ Append(<<y>>, x) = <<y, x>> /\ <<y, x>> # <<>>
<1>1. <<x>> \in Seq({x}) /\ <<y, x>> \in Seq({x, y})  OBVIOUS
<1>2. IsVec(<<x>>) /\ IsVec(<<y, x>>)  BY <1>1 DEF IsVec
<1>3. Len(<<x>>) = 1 /\ Head(<<x>>) = x /\ <<x>> # <<>>  OBVIOUS
<1>4. Len(<<y, x>>) = 2 /\ Head(<<y, x>>) = y /\ <<y, x>> # <<>>  OBVIOUS
<1>5. Tail(<<x>>) = <<>>  OBVIOUS
<1>6. Tail(<<y, x>>) = <<x>>  OBVIOUS
<1>7. Append(<<>>, x) = <<x>>  OBVIOUS
<1>8. Append(<<y>>, x) = <<y, x>>
  <2>1. <<y>> \in Seq({x, y})  OBVIOUS
  <2> DEFINE s == Append(<<y>>, x)
  <2>2. s \in Seq({x, y}) /\ Len(s) = 2 /\ s[1] = y /\ s[2] = x  BY <2>1
  <2> HIDE DEF s
  <2>3. s = [i \in 1..2 |-> s[i]]  BY <2>2
  <2>4. <<y, x>> = [i \in 1..2 |-> <<y, x>>[i]]  OBVIOUS
  <2>5. \A i \in 1..2 : s[i] = <<y, x>>[i]  BY <2>2
  <2>6. s = <<y, x>>  BY <2>3, <2>4, <2>5
  <2>. QED  BY <2>6 DEF s
<1>. QED  BY <1>2, <1>3, <1>4, <1>5, <1>6, <1>7, <1>8

Resting == worker \in {"recv", "wake"}

Verdicts ==
    {"connected"} \cup (IF kind.family = "connector" THEN {"transient", "permanent"} ELSE {"error"})

\* A connect is queued, being served, waiting for the rest of a fetcher's
\* login, or answered.
ConnectQueued == cmdq = <<"connect">> /\ Resting /\ resq = <<>>
ConnectServed == cmdq = <<>> /\ worker = "connect" /\ resq = <<>>
LoggingIn ==
    /\ cmdq = <<>> /\ worker = "login" /\ kind.family = "fetcher"
    /\ resq = <<>> \/ \E i : resq = <<i>> /\ i[1] = "initial"
ConnectAnswered ==
    /\ cmdq = <<>> /\ Resting
    /\ \E r : /\ r[1] \in Verdicts
              /\ \/ resq = <<r>>
                 \/ \E i : kind.family = "fetcher" /\ resq = <<i, r>> /\ i[1] = "initial"
ConnectUnderWay == ConnectQueued \/ ConnectServed \/ LoggingIn \/ ConnectAnswered

Job == IF kind.family = "fetcher" THEN "poll" ELSE "op"
Replies ==
    IF kind.family = "fetcher" THEN {"messages", "timeout", "error"} ELSE {"done", "error"}

\* Only jobs are under way, as many as inflight says; at most one poll.
JobsUnderWay ==
    /\ cmdq \in Seq({Job}) /\ worker \in {"recv", "wake", Job} /\ AllOf(resq, Replies)
    /\ inflight = Load
    /\ kind.family = "fetcher" => inflight <= 1

\* What a session submitted is confirmed, on its way, or has failed.
Confirmations ==
    IF st = "active"
    THEN AllOf(resq, {"done"}) => submitted = confirmed + Len(cmdq) + Serving
    ELSE submitted = confirmed

ChannelShape ==
    /\ IsVec(resq) /\ inflight \in Nat /\ submitted \in Nat /\ confirmed \in Nat
    /\ st \in {"waiting", "retrying", "finished", "connecting", "active"}
    /\ st = "connecting" => ConnectUnderWay
    /\ st = "active" => JobsUnderWay
    /\ st \notin {"connecting", "active"} => cmdq = <<>> /\ resq = <<>> /\ Resting
    /\ kind.family = "connector" \/ (kind.family = "session" /\ st # "active") => inflight = 0
    /\ kind.family = "session" => Confirmations
    /\ phase = "submit" => st = "active"

ChannelInv == Counted /\ ended = "no" => ChannelShape

\* Steps that leave the channels alone.
LEMMA ChannelStays ==
    ASSUME ChannelShape,
           UNCHANGED <<kind, st, cmdq, resq, worker, inflight, submitted, confirmed>>,
           phase' = "submit" => st = "active"
    PROVE  ChannelShape'
<1>1. Load' = Load /\ Serving' = Serving  BY DEF Load, Serving
<1>2. Verdicts' = Verdicts /\ Job' = Job /\ Replies' = Replies /\ (Resting' <=> Resting)
  BY DEF Verdicts, Job, Replies, Resting
<1>3. ConnectUnderWay => ConnectUnderWay'
  BY <1>2 DEF ConnectUnderWay, ConnectQueued, ConnectServed, LoggingIn, ConnectAnswered
<1>4. JobsUnderWay => JobsUnderWay'  BY <1>1, <1>2 DEF JobsUnderWay, AllOf
<1>5. Confirmations => Confirmations'  BY <1>1 DEF Confirmations, AllOf
<1>. QED  BY <1>2, <1>3, <1>4, <1>5 DEF ChannelShape

\* A counted component's record.
LEMMA CountedKind == ASSUME PortInv, Counted PROVE IoKind(kind) /\ IsIo
BY KindIs DEF PortInv, Counted, IsIo, FlowKind, ChatKind, ServerKind, PollerKind

\* Connecting and then up to the verdict: a shape that has a connect under way.
LEMMA NowConnecting ==
    ASSUME ChannelShape, UNCHANGED <<kind, submitted, confirmed>>, st' = "connecting",
           ConnectUnderWay', IsVec(resq'), inflight' \in Nat,
           kind.family = "connector" \/ kind.family = "session" => inflight' = 0,
           kind.family = "session" => submitted = confirmed,
           phase' # "submit"
    PROVE  ChannelShape'
BY DEF ChannelShape, Confirmations

\* Nothing on its way.
LEMMA NowQuiet ==
    ASSUME ChannelShape, UNCHANGED <<kind, submitted, confirmed>>,
           st' \in {"waiting", "retrying", "finished"}, cmdq' = <<>>, resq' = <<>>, Resting',
           inflight' \in Nat,
           kind.family = "connector" \/ kind.family = "session" => inflight' = 0,
           kind.family = "session" => submitted = confirmed,
           phase' # "submit"
    PROVE  ChannelShape'
BY VecEmpty DEF ChannelShape, Confirmations

\* A worker that answers.
LEMMA Answers ==
    ASSUME ChannelShape, Counted, NEW r, Answer(r)
    PROVE  /\ worker' = "wake" /\ resq' = Append(resq, r) /\ IsVec(resq')
           /\ Len(resq') = Len(resq) + 1 /\ Len(resq) \in Nat
<1>1. IsVec(resq)  BY DEF ChannelShape
<1>2. worker' = "wake" /\ resq' = Append(resq, r)  BY DEF Answer, Counted
<1>3. IsVec(Append(resq, r)) /\ Len(Append(resq, r)) = Len(resq) + 1 /\ Len(resq) \in Nat
  BY <1>1, VecAppend, VecLens
<1>. QED  BY <1>2, <1>3

\* The worker serves a connect.
LEMMA ServesConnect ==
    ASSUME ChannelShape, Counted, PortInv, worker \in {"connect", "login"},
           WorkerConnect \/ WorkerLoggedIn
    PROVE  ChannelShape'
<1>1. st = "connecting" /\ (ConnectServed \/ LoggingIn)
  BY DEF ChannelShape, JobsUnderWay, Job, ConnectUnderWay, ConnectQueued, ConnectAnswered, Resting
<1>2. UNCHANGED <<kind, st, cmdq, inflight, submitted, confirmed, phase>> /\ cmdq = <<>>
  BY <1>1 DEF WorkerConnect, WorkerLoggedIn, nodeVars, call, history, ConnectServed, LoggingIn
<1>3. ASSUME ConnectUnderWay', IsVec(resq') PROVE ChannelShape'
  <2>1. /\ inflight \in Nat /\ phase # "submit"
        /\ (kind.family = "connector" \/ kind.family = "session" => inflight = 0)
        /\ (kind.family = "session" => submitted = confirmed)
    BY <1>1 DEF ChannelShape, Confirmations
  <2>. QED  BY <1>1, <1>2, <1>3, <2>1, NowConnecting
<1>4. Verdicts' = Verdicts  BY <1>2 DEF Verdicts
<1>5. ASSUME NEW r, r[1] \in Verdicts, Answer(r) PROVE ChannelShape'
  <2>1. worker' = "wake" /\ resq' = Append(resq, r) /\ IsVec(resq')  BY <1>5, Answers
  <2>2. resq' = <<r>> \/ \E i : kind.family = "fetcher" /\ resq' = <<i, r>> /\ i[1] = "initial"
    BY <1>1, <2>1, VecOne DEF ConnectServed, LoggingIn
  <2>3. ConnectAnswered'
    BY <1>2, <1>4, <1>5, <2>1, <2>2 DEF ConnectAnswered, Resting
  <2>. QED  BY <1>3, <2>1, <2>3 DEF ConnectUnderWay
<1>6. CASE WorkerLoggedIn
  <2>1. <<"connected", <<>>>>[1] \in Verdicts  BY DEF Verdicts
  <2>. QED  BY <1>5, <1>6, <2>1 DEF WorkerLoggedIn
<1>7. CASE WorkerConnect
  <2>1. <<"connected", <<>>>>[1] \in Verdicts  BY DEF Verdicts
  <2>2. ASSUME NEW e \in kind.errors, Answer(<<e, <<>>>>) PROVE ChannelShape'
    <3>1. e \in Verdicts  BY <2>2, CountedKind DEF IoKind, Verdicts
    <3>2. <<e, <<>>>>[1] \in Verdicts  BY <3>1
    <3>. QED  BY <1>5, <2>2, <3>2
  <2>3. ASSUME NEW n, kind.family = "fetcher", resq' = Append(resq, <<"initial", NewMail(n)>>),
               worker' = "login"
        PROVE  ChannelShape'
    <3> DEFINE i == <<"initial", NewMail(n)>>
    <3>1. i[1] = "initial"  OBVIOUS
    <3>2. resq' = <<i>> /\ IsVec(resq')
      <4>1. resq = <<>>  BY <1>1, <1>7 DEF WorkerConnect, ConnectServed, LoggingIn
      <4>. QED  BY <2>3, <4>1, VecOne
    <3> HIDE DEF i
    <3>3. LoggingIn'  BY <1>2, <2>3, <3>1, <3>2 DEF LoggingIn
    <3>. QED  BY <1>3, <3>2, <3>3 DEF ConnectUnderWay
  <2>. QED  BY <1>5, <1>7, <2>1, <2>2, <2>3 DEF WorkerConnect
<1>. QED  BY <1>6, <1>7

\* The worker serves a job.
LEMMA ServesJob ==
    ASSUME ChannelShape, Counted, WorkerOperate \/ WorkerPoll
    PROVE  ChannelShape'
<1>1. worker \in {"op", "poll"}  BY DEF WorkerOperate, WorkerPoll
<1>2. st = "active" /\ JobsUnderWay /\ worker = Job
  BY <1>1 DEF ChannelShape, JobsUnderWay, ConnectUnderWay, ConnectQueued, ConnectServed, LoggingIn,
              ConnectAnswered, Resting
<1>3. UNCHANGED <<kind, st, cmdq, inflight, submitted, phase>>
  BY DEF WorkerOperate, WorkerPoll, nodeVars, call
<1>4. PICK r : Answer(r) /\ r[1] \in Replies
               /\ (kind.family = "session" =>
                     confirmed' = IF r[1] = "done" THEN confirmed + 1 ELSE confirmed)
               /\ confirmed' \in {confirmed, confirmed + 1}
  <2>1. CASE WorkerOperate
    <3>1. kind.family # "fetcher"  BY <1>2, <2>1 DEF WorkerOperate, Job
    <3>2. {"done", "error"} = Replies  BY <3>1 DEF Replies
    <3>3. <<"done", <<>>>>[1] = "done" /\ <<"error", <<>>>>[1] = "error"  OBVIOUS
    <3>. QED  BY <2>1, <3>2, <3>3 DEF WorkerOperate
  <2>2. CASE WorkerPoll
    <3>1. kind.family = "fetcher"  BY <1>2, <2>2 DEF WorkerPoll, Job
    <3>2. {"messages", "timeout", "error"} = Replies  BY <3>1 DEF Replies
    <3>3. confirmed' = confirmed  BY <2>2 DEF WorkerPoll
    <3>4. \E r : Answer(r) /\ r[1] \in Replies
      <4>1. \A n : <<"messages", NewMail(n)>>[1] \in Replies  BY <3>2
      <4>2. \A e \in {"timeout", "error"} : <<e, <<>>>>[1] \in Replies  BY <3>2
      <4>. QED  BY <2>2, <4>1, <4>2 DEF WorkerPoll
    <3>. QED  BY <3>1, <3>3, <3>4
  <2>. QED  BY <2>1, <2>2
<1>5. /\ worker' = "wake" /\ resq' = Append(resq, r) /\ IsVec(resq')
      /\ Len(resq') = Len(resq) + 1 /\ Len(resq) \in Nat
  BY <1>4, Answers
<1>6. IsVec(resq) /\ Len(cmdq) \in Nat /\ submitted \in Nat /\ confirmed \in Nat
  BY <1>2 DEF ChannelShape, JobsUnderWay
<1>7. Serving = 1 /\ Serving' = 0  BY <1>1, <1>5 DEF Serving
<1>8. Load' = Load  BY <1>3, <1>5, <1>6, <1>7 DEF Load
<1>9. JobsUnderWay'
  <2>1. Job' = Job /\ Replies' = Replies  BY <1>3 DEF Job, Replies
  <2>2. AllOf(resq', Replies)  BY <1>2, <1>4, <1>5, <1>6, AllOfAppend DEF JobsUnderWay
  <2>. QED  BY <1>2, <1>3, <1>5, <1>8, <2>1, <2>2 DEF JobsUnderWay
<1>10. kind.family = "session" => Confirmations'
  <2> SUFFICES ASSUME kind.family = "session", AllOf(resq', {"done"})
               PROVE  submitted' = confirmed' + Len(cmdq') + Serving'
    BY <1>2, <1>3 DEF Confirmations
  <2>1. AllOf(resq, {"done"}) /\ r[1] = "done"  BY <1>5, <1>6, AllOfAppend
  <2>2. submitted = confirmed + Len(cmdq) + Serving
    BY <1>2, <2>1 DEF ChannelShape, Confirmations
  <2>3. confirmed' = confirmed + 1  BY <1>4, <2>1
  <2>. QED  BY <1>3, <1>6, <1>7, <2>2, <2>3
<1>. QED  BY <1>2, <1>3, <1>4, <1>5, <1>6, <1>9, <1>10 DEF ChannelShape

\* The worker's steps.
LEMMA WorkerShape ==
    ASSUME ChannelShape, Counted, PortInv, ended = "no", WorkerStep
    PROVE  ChannelShape'
<1>1. CASE WorkerConnect \/ WorkerLoggedIn
  BY <1>1, ServesConnect DEF WorkerConnect, WorkerLoggedIn
<1>2. CASE WorkerOperate \/ WorkerPoll  BY <1>2, ServesJob
<1>3. CASE WorkerShutdown
  BY <1>3 DEF WorkerShutdown, ChannelShape, JobsUnderWay, Job, ConnectUnderWay, ConnectQueued,
     ConnectServed, LoggingIn, ConnectAnswered, Resting
<1>4. CASE WorkerRecv
  <2>1. UNCHANGED <<kind, st, resq, inflight, submitted, confirmed, phase>>
        /\ cmdq # <<>> /\ worker = "recv" /\ worker' = Head(cmdq) /\ cmdq' = Tail(cmdq)
    BY <1>4 DEF WorkerRecv, nodeVars, call, history
  <2>2. CASE st = "connecting"
    <3>1. ConnectQueued
      BY <2>1, <2>2 DEF ChannelShape, ConnectUnderWay, ConnectServed, LoggingIn, ConnectAnswered
    <3>2. worker' = "connect" /\ cmdq' = <<>>  BY <2>1, <3>1, VecOne DEF ConnectQueued
    <3>3. ConnectUnderWay'  BY <2>1, <3>1, <3>2 DEF ConnectQueued, ConnectServed, ConnectUnderWay
    <3>. QED  BY <2>1, <2>2, <3>3, NowConnecting DEF ChannelShape, Confirmations
  <2>3. CASE st = "active"
    <3>1. JobsUnderWay  BY <2>3 DEF ChannelShape
    <3>2. cmdq' \in Seq({Job}) /\ worker' = Job /\ Len(cmdq') = Len(cmdq) - 1 /\ Len(cmdq) \in Nat
      BY <2>1, <3>1 DEF JobsUnderWay
    <3>3. Len(resq) \in Nat  BY VecLen DEF ChannelShape
    <3>4. Serving = 0 /\ Serving' = 1  BY <2>1, <3>2 DEF Serving, Job
    <3>5. Load' = Load  BY <2>1, <3>2, <3>3, <3>4 DEF Load
    <3>6. Job' = Job /\ Replies' = Replies  BY <2>1 DEF Job, Replies
    <3>7. JobsUnderWay'  BY <2>1, <3>1, <3>2, <3>5, <3>6 DEF JobsUnderWay, AllOf
    <3>8. kind.family = "session" => Confirmations'
      BY <2>1, <2>3, <3>2, <3>4 DEF ChannelShape, Confirmations, AllOf
    <3>. QED  BY <2>1, <2>3, <3>7, <3>8 DEF ChannelShape
  <2>. QED  BY <2>1, <2>2, <2>3 DEF ChannelShape
<1>5. CASE WorkerWake
  <2>1. UNCHANGED <<kind, st, cmdq, resq, inflight, submitted, confirmed, phase>>
    BY <1>5 DEF WorkerWake, call, history
  <2>2. worker = "wake" /\ worker' = "recv"
    BY <1>5 DEF WorkerWake, ChannelShape, JobsUnderWay, Job, ConnectUnderWay, ConnectQueued,
       ConnectServed, LoggingIn, ConnectAnswered, Resting
  <2>3. Resting' /\ Serving' = Serving /\ Load' = Load  BY <2>1, <2>2 DEF Resting, Serving, Load
  <2>4. ConnectUnderWay => ConnectUnderWay'
    BY <2>1, <2>2, <2>3 DEF ConnectUnderWay, ConnectQueued, ConnectServed, LoggingIn,
       ConnectAnswered, Verdicts
  <2>5. JobsUnderWay => JobsUnderWay'
    BY <2>1, <2>2, <2>3 DEF JobsUnderWay, Job, Replies, AllOf
  <2>6. Confirmations => Confirmations'  BY <2>1, <2>3 DEF Confirmations, AllOf
  <2>. QED  BY <2>1, <2>3, <2>4, <2>5, <2>6 DEF ChannelShape
<1>. QED  BY <1>1, <1>2, <1>3, <1>4, <1>5 DEF WorkerStep

\* Connected, with nothing on its way.
LEMMA NowActive ==
    ASSUME ChannelShape, UNCHANGED <<kind, submitted, confirmed>>, st' = "active",
           cmdq' = <<>>, resq' = <<>>, Resting', inflight' = 0,
           kind.family = "session" => submitted = confirmed
    PROVE  ChannelShape'
<1>1. Serving' = 0 /\ Len(<<>>) = 0  BY DEF Resting, Serving
<1>2. Load' = 0  BY <1>1 DEF Load
<1>3. <<>> \in Seq({Job'}) /\ AllOf(<<>>, Replies')  BY DEF AllOf
<1>4. JobsUnderWay'  BY <1>2, <1>3 DEF JobsUnderWay, Resting
<1>5. kind.family = "session" => Confirmations'  BY <1>1 DEF ChannelShape, Confirmations
<1>. QED  BY <1>4, <1>5, VecEmpty DEF ChannelShape

\* A connect is sent with nothing on its way.
LEMMA NowQueued ==
    ASSUME ChannelShape, UNCHANGED <<kind, resq, worker, submitted, confirmed>>,
           st \notin {"connecting", "active"}, st' = "connecting", Send("connect"),
           inflight' \in Nat,
           kind.family = "connector" \/ kind.family = "session" => inflight' = 0,
           phase' # "submit"
    PROVE  ChannelShape'
<1>1. cmdq = <<>> /\ resq = <<>> /\ Resting /\ IsVec(resq)  BY DEF ChannelShape
<1>2. cmdq' = <<"connect">>  BY <1>1, VecOne DEF Send
<1>3. ConnectUnderWay'  BY <1>1, <1>2 DEF ConnectUnderWay, ConnectQueued, Resting
<1>. QED  BY <1>1, <1>3, NowConnecting DEF ChannelShape, Confirmations

\* Connectors.
LEMMA ConnectorShape ==
    ASSUME ChannelShape, PhaseInv, PortInv, kind.family = "connector", UNCHANGED kind,
           ComponentStep, ended' = "no"
    PROVE  ChannelShape'
<1>1. Counted /\ HasWorker  BY DEF Counted, HasWorker
<1>2. kind.first = "state"  BY <1>1, FirstIsOwn
<1>3. inflight = 0 /\ kind.family # "session" /\ kind.family # "fetcher"  BY DEF ChannelShape
<1>4. CASE Connecting
  <2>1. UNCHANGED <<cmdq, worker, inflight, submitted, confirmed>> /\ st = "connecting"
    BY <1>4 DEF Connecting, history
  <2>2. phase' \in {"idle", "state", "retired"}
    BY <1>2, <1>4, DidWorkTo, NoWorkTo, RetireTo DEF Connecting
  <2>3. CASE resq = <<>>
    <3>1. UNCHANGED <<st, resq>>  BY <1>4, <2>3 DEF Connecting
    <3>. QED  BY <2>1, <2>2, <3>1, ChannelStays
  <2>4. CASE resq # <<>>
    <3>1. ConnectAnswered
      BY <1>3, <2>1, <2>4 DEF ChannelShape, ConnectUnderWay, ConnectQueued, ConnectServed, LoggingIn
    <3>2. PICK r : resq = <<r>> /\ r[1] \in Verdicts  BY <1>3, <3>1 DEF ConnectAnswered
    <3>3. resq' = <<>> /\ cmdq = <<>> /\ Resting
      BY <1>4, <2>4, <3>1, <3>2, VecOne DEF Connecting, ConnectAnswered
    <3>4. Resting'  BY <2>1, <3>3 DEF Resting
    <3>5. st' \in {"active", "retrying", "finished"}  BY <1>4, <2>4 DEF Connecting
    <3>6. CASE st' = "active"  BY <1>3, <2>1, <3>3, <3>4, <3>6, NowActive
    <3>7. CASE st' # "active"  BY <1>3, <2>1, <2>2, <3>3, <3>4, <3>5, <3>7, NowQuiet
    <3>. QED  BY <3>6, <3>7
  <2>. QED  BY <2>3, <2>4
<1>5. CASE Waiting \/ Retrying
  <2>1. UNCHANGED <<resq, worker, inflight, submitted, confirmed>> /\ st \in {"waiting", "retrying"}
    BY <1>5 DEF Waiting, Retrying, history
  <2>2. phase' \in {"idle", "state", "retired"}
    BY <1>2, <1>5, DidWorkTo, NoWorkTo, RetireTo DEF Waiting, Retrying
  <2>3. CASE Send("connect") /\ st' = "connecting"  BY <1>3, <2>1, <2>2, <2>3, NowQueued
  <2>4. CASE UNCHANGED cmdq /\ st' \in {"waiting", "retrying", "finished"}
    <3>1. cmdq = <<>> /\ resq = <<>> /\ Resting  BY <2>1 DEF ChannelShape
    <3>2. Resting'  BY <2>1, <3>1 DEF Resting
    <3>. QED  BY <1>3, <2>1, <2>2, <2>4, <3>1, <3>2, NowQuiet
  <2>. QED  BY <1>5, <2>1, <2>3, <2>4 DEF Waiting, Retrying
<1>6. CASE Finished \/ ReadInput \/ ConnectorEof
  <2>1. UNCHANGED <<st, cmdq, resq, worker, inflight, submitted, confirmed>>
    BY <1>6 DEF Finished, ReadInput, ConnectorEof, ioVars, channels, history
  <2>2. phase' # "submit"
    BY <1>2, <1>6, GotoTo, ResultTo, RetireTo DEF Finished, ReadInput, ConnectorEof
  <2>. QED  BY <2>1, <2>2, ChannelStays
<1>. QED  BY <1>4, <1>5, <1>6, ConnectorSteps

\* A result that is not an error is taken.
LEMMA TakesResult ==
    ASSUME ChannelShape, kind.family \in {"session", "fetcher"}, UNCHANGED kind, TakeResult
    PROVE  ChannelShape'
<1>1. /\ resq # <<>> /\ Head(resq)[1] # "error" /\ resq' = Tail(resq) /\ phase' = "results"
      /\ UNCHANGED <<cmdq, worker, submitted, confirmed>>
      /\ st' = IF Head(resq)[1] = "connected" THEN "active" ELSE st
      /\ inflight' = IF kind.family = "fetcher" THEN 0 ELSE
                     IF Head(resq)[1] = "done" THEN Max2(inflight - 1, 0) ELSE inflight
  BY GotoTo DEF TakeResult, history
<1>2. st \in {"connecting", "active"}  BY <1>1 DEF ChannelShape
<1>3. IsVec(resq) /\ inflight \in Nat  BY DEF ChannelShape
<1>4. Len(resq) \in Nat /\ Len(resq) > 0 /\ IsVec(resq') /\ Len(resq') = Len(resq) - 1
  BY <1>1, <1>3, VecLens, VecTail
<1>5. CASE st = "connecting"
  <2>1. /\ kind.family = "session" => inflight = 0 /\ submitted = confirmed
        /\ ConnectUnderWay
    BY <1>5 DEF ChannelShape, Confirmations
  <2>2. kind.family = "session" => inflight' = 0
    BY <1>1, <2>1 DEF Max2
  <2>3. inflight' \in Nat  BY <1>1, <2>2
  <2>4. CASE LoggingIn
    <3>1. PICK i : resq = <<i>> /\ i[1] = "initial"  BY <1>1, <2>4 DEF LoggingIn
    <3>2. resq' = <<>> /\ st' = "connecting"  BY <1>1, <1>5, <3>1, VecOne
    <3>3. ConnectUnderWay'  BY <1>1, <2>4, <3>2 DEF LoggingIn, ConnectUnderWay
    <3>. QED  BY <1>1, <1>4, <2>1, <2>2, <2>3, <3>2, <3>3, NowConnecting
  <2>5. CASE ConnectAnswered
    <3>1. PICK r : /\ r[1] \in Verdicts
                   /\ \/ resq = <<r>>
                      \/ \E i : kind.family = "fetcher" /\ resq = <<i, r>> /\ i[1] = "initial"
      BY <2>5 DEF ConnectAnswered
    <3>2. cmdq = <<>> /\ Resting /\ Resting'  BY <1>1, <2>5 DEF ConnectAnswered, Resting
    <3>3. CASE resq = <<r>>
      <4>1. Head(resq) = r /\ resq' = <<>>  BY <1>1, <3>3, VecOne
      <4>2. r[1] = "connected"  BY <1>1, <3>1, <4>1 DEF Verdicts
      <4>3. st' = "active" /\ inflight' = 0  BY <1>1, <2>2, <4>1, <4>2
      <4>. QED  BY <1>1, <2>1, <3>2, <4>1, <4>3, NowActive
    <3>4. ASSUME NEW i, kind.family = "fetcher", resq = <<i, r>>, i[1] = "initial"
          PROVE  ChannelShape'
      <4>1. Head(resq) = i /\ resq' = <<r>>  BY <1>1, <3>4, VecOne
      <4>2. st' = "connecting"  BY <1>1, <1>5, <3>4, <4>1
      <4>3. Verdicts' = Verdicts  BY DEF Verdicts
      <4>4. ConnectUnderWay'  BY <1>1, <3>1, <3>2, <4>1, <4>3 DEF ConnectUnderWay, ConnectAnswered
      <4>. QED  BY <1>1, <1>4, <2>1, <2>2, <2>3, <3>4, <4>2, <4>4, NowConnecting
    <3>. QED  BY <3>1, <3>3, <3>4
  <2>. QED  BY <1>1, <2>1, <2>4, <2>5 DEF ConnectUnderWay, ConnectQueued, ConnectServed
<1>6. CASE st = "active"
  <2>1. JobsUnderWay  BY <1>6 DEF ChannelShape
  <2>2. AllOf(resq', Replies) /\ Head(resq)[1] \in Replies
    BY <1>1, <1>3, <2>1, AllOfTail DEF JobsUnderWay
  <2>3. Len(cmdq) \in Nat /\ Serving \in {0, 1} /\ Serving' = Serving
    BY <1>1, <2>1 DEF JobsUnderWay, Serving
  <2>4. Load' = Load - 1 /\ Load \in Nat /\ Load > 0 /\ inflight = Load
    BY <1>1, <1>4, <2>1, <2>3 DEF Load, JobsUnderWay
  <2>5. inflight' = Load'
    <3>1. CASE kind.family = "fetcher"
      <4>1. inflight <= 1  BY <2>1, <3>1 DEF JobsUnderWay
      <4>2. Load' = 0  BY <2>4, <4>1
      <4>. QED  BY <1>1, <3>1, <4>2
    <3>2. CASE kind.family = "session"
      <4>1. Head(resq)[1] = "done"  BY <1>1, <2>2, <3>2 DEF Replies
      <4>2. inflight' = Max2(inflight - 1, 0)  BY <1>1, <3>2, <4>1
      <4>3. inflight - 1 >= 0  BY <2>4
      <4>4. inflight' = inflight - 1  BY <2>4, <4>2, <4>3 DEF Max2
      <4>. QED  BY <2>4, <4>4
    <3>. QED  BY <3>1, <3>2
  <2>6. st' = "active"  BY <1>1, <1>6
  <2>7. Job' = Job /\ Replies' = Replies  BY DEF Job, Replies
  <2>8. JobsUnderWay'
    <3>1. kind.family = "fetcher" => inflight' <= 1  BY <1>1
    <3>. QED  BY <1>1, <2>1, <2>2, <2>5, <2>7, <3>1 DEF JobsUnderWay
  <2>9. kind.family = "session" => Confirmations'
    <3> SUFFICES ASSUME kind.family = "session", AllOf(resq', {"done"})
                 PROVE  submitted' = confirmed' + Len(cmdq') + Serving'
      BY <2>6 DEF Confirmations
    <3>1. Head(resq)[1] = "done"  BY <1>1, <2>2 DEF Replies
    <3>2. AllOf(resq, {"done"})  BY <1>1, <1>3, <3>1, AllOfTail
    <3>3. submitted = confirmed + Len(cmdq) + Serving
      BY <1>6, <3>2 DEF ChannelShape, Confirmations
    <3>. QED  BY <1>1, <2>3, <3>3
  <2>10. inflight' \in Nat  BY <2>4, <2>5
  <2>. QED  BY <1>1, <1>4, <2>6, <2>8, <2>9, <2>10 DEF ChannelShape
<1>. QED  BY <1>2, <1>5, <1>6

\* A job is sent: the number in flight goes up with the load.
LEMMA JobSent ==
    ASSUME ChannelShape, st = "active", kind.family \in {"session", "fetcher"},
           UNCHANGED <<kind, st, resq, worker, confirmed>>, Send(Job), inflight' = inflight + 1,
           kind.family = "fetcher" => inflight = 0 /\ UNCHANGED submitted,
           kind.family = "session" => submitted' = submitted + 1
    PROVE  ChannelShape'
<1>1. JobsUnderWay  BY DEF ChannelShape
<1>2. cmdq \in Seq({Job}) /\ Len(cmdq) \in Nat /\ IsVec(resq) /\ inflight \in Nat
      /\ submitted \in Nat /\ confirmed \in Nat
  BY <1>1 DEF JobsUnderWay, ChannelShape
<1>3. cmdq' \in Seq({Job}) /\ Len(cmdq') = Len(cmdq) + 1  BY <1>2 DEF Send
<1>4. Serving \in {0, 1} /\ Serving' = Serving /\ Len(resq) \in Nat  BY <1>2, VecLen DEF Serving
<1>5. Load' = Load + 1 /\ Load \in Nat  BY <1>2, <1>3, <1>4 DEF Load
<1>6. Job' = Job /\ Replies' = Replies  BY DEF Job, Replies
<1>7. JobsUnderWay'
  <2>1. inflight' = Load'  BY <1>1, <1>5 DEF JobsUnderWay
  <2>2. kind.family = "fetcher" => inflight' <= 1  OBVIOUS
  <2>. QED  BY <1>1, <1>3, <1>6, <2>1, <2>2 DEF JobsUnderWay, AllOf
<1>8. kind.family = "session" => Confirmations'
  BY <1>2, <1>3, <1>4 DEF ChannelShape, Confirmations, AllOf
<1>. QED  BY <1>2, <1>7, <1>8 DEF ChannelShape

\* Sessions and fetchers.
LEMMA SessionShape ==
    ASSUME ChannelShape, PhaseInv, PortInv, kind.family \in {"session", "fetcher"},
           UNCHANGED kind, ComponentStep, ended' = "no"
    PROVE  ChannelShape'
<1>1. Counted /\ HasWorker  BY DEF Counted, HasWorker
<1>2. kind.first # "submit"  BY <1>1, FirstIsOwn
<1>3. IoKind(kind)  BY <1>1, CountedKind
<1>4. CASE TakeResult  BY <1>4, TakesResult
<1>5. CASE TakeError
  BY <1>5, RetireTo DEF TakeError, Leave
<1>6. CASE NoResult \/ PushFetched \/ AwaitLogin
  <2>1. UNCHANGED <<st, cmdq, resq, worker, inflight, submitted, confirmed>>
    BY <1>6 DEF NoResult, PushFetched, AwaitLogin, ioVars, channels, history
  <2>2. phase' # "submit"
    BY <1>6, GotoTo, NoWorkTo DEF NoResult, PushFetched, AwaitLogin, SettleUnconnected
  <2>. QED  BY <2>1, <2>2, ChannelStays
<1>7. CASE Login
  <2>1. UNCHANGED <<resq, worker, submitted, confirmed>> /\ st = "waiting"
    BY <1>7 DEF Login, history
  <2>2. CASE Send("connect") /\ st' = "connecting" /\ phase' = "end"
             /\ inflight' = IF kind.connectcounts THEN 1 ELSE 0
    <3>1. kind.family = "session" => ~kind.connectcounts  BY <1>3 DEF IoKind
    <3>2. inflight' \in Nat /\ (kind.family = "session" => inflight' = 0)  BY <2>2, <3>1
    <3>. QED  BY <2>1, <2>2, <3>2, NowQueued
  <2>3. CASE SettleUnconnected /\ UNCHANGED <<cmdq, st, inflight>>
    <3>1. phase' # "submit"  BY <2>3, GotoTo, NoWorkTo DEF SettleUnconnected
    <3>. QED  BY <2>1, <2>3, <3>1, ChannelStays
  <2>4. ASSUME NEW why \in kind.refuses, Leave(why, <<>>) PROVE FALSE
    <3>1. ended' = why  BY <2>4, RetireTo DEF Leave
    <3>2. why # "no"  BY <1>3, <2>4 DEF IoKind
    <3>. QED  BY <3>1, <3>2
  <2>. QED  BY <1>7, <2>2, <2>3, <2>4, GotoTo DEF Login
<1>8. CASE Poll /\ kind.family = "fetcher"
  <2>1. UNCHANGED <<st, resq, worker, submitted, confirmed>> /\ st = "active" /\ phase' = "end"
    BY <1>8, GotoTo DEF Poll, history
  <2>2. CASE MayPoll
    <3>1. Send(Job) /\ inflight = 0 /\ inflight' = inflight + 1
      BY <1>8, <2>2 DEF Poll, MayPoll, Job
    <3>. QED  BY <1>8, <2>1, <3>1, JobSent
  <2>3. CASE ~MayPoll
    <3>1. UNCHANGED <<cmdq, inflight>>  BY <1>8, <2>3 DEF Poll
    <3>. QED  BY <2>1, <3>1, ChannelStays
  <2>. QED  BY <2>2, <2>3
<1>9. CASE TakeInput
  <2>1. UNCHANGED <<st, cmdq, resq, worker, inflight, submitted, confirmed>> /\ st = "active"
    BY <1>9 DEF TakeInput, channels, history
  <2>. QED  BY <2>1, ChannelStays
<1>10. CASE Submit
  <2>1. UNCHANGED <<st, resq, worker, confirmed>> /\ st = "active" /\ kind.family = "session"
    BY <1>10 DEF Submit, ChannelShape
  <2>2. CASE Send("op") /\ inflight' = inflight + 1 /\ submitted' = submitted + 1
    <3>1. Send(Job)  BY <2>1, <2>2 DEF Job
    <3>. QED  BY <2>1, <2>2, <3>1, JobSent
  <2>3. CASE UNCHANGED <<cmdq, inflight, submitted>>  BY <2>1, <2>3, ChannelStays
  <2>. QED  BY <1>10, <2>2, <2>3 DEF Submit
<1>11. CASE EndSession
  <2>1. ~SessionOver  BY <1>11, RetireTo DEF EndSession, Leave
  <2>2. UNCHANGED <<st, cmdq, resq, worker, inflight, submitted, confirmed>>
    BY <1>11, <2>1 DEF EndSession, history
  <2>3. phase' # "submit"  BY <1>2, <1>11, <2>1, ResultTo DEF EndSession
  <2>. QED  BY <2>2, <2>3, ChannelStays
<1>. QED
  BY <1>4, <1>5, <1>6, <1>7, <1>8, <1>9, <1>10, <1>11, SessionSteps, FetcherSteps

\* A retired node stays retired.
LEMMA StillRuns ==
    ASSUME PhaseInv, PortInv, Counted, Next, ended' = "no"
    PROVE  ended = "no"
<1>1. HasWorker /\ IoKind(kind)  BY CountedKind DEF Counted, HasWorker
<1>2. ASSUME NEW why \in kind.refuses PROVE why # "no"  BY <1>1, <1>2 DEF IoKind
<1>3. CASE Neighbours \/ WorkerStep  BY <1>3, NeighboursCall, WorkerCall DEF call
<1>4. CASE Activate  BY <1>4 DEF Activate
<1>5. CASE ComponentStep /\ kind.family = "connector"
  <2>1. CASE Connecting \/ Waiting \/ Retrying \/ Finished
    BY <1>2, <2>1, DidWorkTo, NoWorkTo, RetireTo DEF Connecting, Waiting, Retrying, Finished
  <2>2. CASE ReadInput \/ ConnectorEof
    BY <2>2, GotoTo, ResultTo, RetireTo DEF ReadInput, ConnectorEof
  <2>. QED  BY <1>5, <2>1, <2>2, ConnectorSteps
<1>6. CASE ComponentStep /\ kind.family # "connector"
  <2>1. CASE TakeResult \/ TakeError \/ NoResult \/ PushFetched \/ Poll \/ TakeInput \/ Submit
    BY <2>1, GotoTo, RetireTo DEF TakeResult, TakeError, NoResult, PushFetched, Poll, TakeInput,
       Submit, Leave
  <2>2. CASE Login \/ AwaitLogin \/ EndSession
    BY <1>2, <2>2, GotoTo, NoWorkTo, ResultTo, RetireTo DEF Login, AwaitLogin, EndSession, Leave,
       SettleUnconnected
  <2>. QED  BY <1>6, <2>1, <2>2, SessionSteps, FetcherSteps DEF Counted
<1>7. ~ChatStep
  BY DEF ChatStep, ChatApply, ChatLogin, ChatOperate, ChatShutdown, Dispatch, DispatcherWake,
     ChatWaiting, ChatPrompt, ChatResult, ChatDeliver, ChatInput, ChatSend, ChatEnd, ChatDrop,
     IsChat, Counted
<1>. QED  BY <1>1, <1>3, <1>4, <1>5, <1>6, <1>7, OwnSteps

\* Every step keeps the shape of the channels.
LEMMA ChannelStep ==
    ASSUME ChannelInv, PhaseInv, PortInv, [Next]_vars
    PROVE  ChannelInv'
<1>1. UNCHANGED kind  BY KindStays DEF vars, nodeVars
<1> SUFFICES ASSUME Counted, ended' = "no" PROVE ChannelShape'
  BY <1>1 DEF ChannelInv, Counted
<1>2. HasWorker  BY DEF Counted, HasWorker
<1>3. ended = "no"  BY StillRuns DEF vars, nodeVars, call
<1>4. ChannelShape  BY <1>3 DEF ChannelInv
<1>5. CASE (Neighbours /\ UNCHANGED ioVars) \/ UNCHANGED vars
  <2>1. UNCHANGED <<st, cmdq, resq, worker, inflight, submitted, confirmed, phase>>
    BY <1>5, NeighboursCall DEF vars, nodeVars, ioVars, channels, history, call
  <2>. QED  BY <1>1, <1>4, <2>1, ChannelStays DEF ChannelShape
<1>6. CASE Activate /\ UNCHANGED ioVars
  <2>1. UNCHANGED <<st, cmdq, resq, worker, inflight, submitted, confirmed>>
    BY <1>6 DEF ioVars, channels, history
  <2>2. phase' # "submit"  BY <1>2, <1>6, FirstIsOwn DEF Activate
  <2>. QED  BY <1>1, <1>4, <2>1, <2>2, ChannelStays
<1>7. CASE WorkerStep  BY <1>3, <1>4, <1>7, WorkerShape
<1>8. CASE ComponentStep  BY <1>1, <1>4, <1>8, ConnectorShape, SessionShape DEF Counted
<1>9. ~ChatStep
  BY DEF ChatStep, ChatApply, ChatLogin, ChatOperate, ChatShutdown, Dispatch, DispatcherWake,
     ChatWaiting, ChatPrompt, ChatResult, ChatDeliver, ChatInput, ChatSend, ChatEnd, ChatDrop,
     IsChat, Counted
<1>. QED  BY <1>2, <1>5, <1>6, <1>7, <1>8, <1>9, OwnSteps

\* At the start the channels are empty.
LEMMA ChannelInvInit == Init => ChannelInv
<1> SUFFICES ASSUME Init, Counted PROVE ChannelShape  BY DEF ChannelInv
<1>1. /\ st = "waiting" /\ cmdq = <<>> /\ resq = <<>> /\ worker = "recv" /\ inflight = 0
      /\ submitted = 0 /\ confirmed = 0 /\ phase = "idle"
  BY DEF Init, NodeInit, IoInit, Counted
<1>. QED  BY <1>1, VecEmpty DEF ChannelShape, Confirmations, Resting

-----------------------------------------------------------------------------
(* The invariant, and that chat and worker never wait for each other.      *)

\* A component that has ended is out of process() for good.
EndedInv == Counted /\ ended # "no" => phase = "retired"

WorkerInv == PhaseInv /\ ChatInv /\ ChannelInv /\ EndedInv

\* Only a retirement ends a component, and nothing runs it again.
LEMMA EndedStep == ASSUME EndedInv, PhaseInv, PortInv, [Next]_vars PROVE EndedInv'
<1>1. UNCHANGED kind  BY KindStays DEF vars, nodeVars
<1> SUFFICES ASSUME Counted, ended' # "no" PROVE phase' = "retired"
  BY <1>1 DEF EndedInv, Counted
<1>2. HasWorker /\ kind.family \in {"connector", "session", "fetcher"}  BY DEF Counted, HasWorker
<1>3. ASSUME UNCHANGED <<phase, ended>> PROVE phase' = "retired"  BY <1>3 DEF EndedInv
<1>4. CASE Neighbours \/ WorkerStep \/ UNCHANGED vars
  <2>1. UNCHANGED <<phase, ended>>  BY <1>4, NeighboursCall, WorkerCall DEF vars, nodeVars, call
  <2>. QED  BY <1>3, <2>1
<1>5. CASE Activate  BY <1>5 DEF Activate, EndedInv
<1>6. ASSUME ComponentStep PROVE phase # "retired"
  BY <1>2, <1>6 DEF ComponentStep, Connecting, Waiting, Retrying, Finished, ReadInput,
     ConnectorEof, TakeResult, TakeError, NoResult, PushFetched, Login, AwaitLogin, Poll,
     TakeInput, Submit, EndSession, StartWriter, WriterResults, SubmitWrite, EndWriter
<1>7. CASE ComponentStep
  <2>1. ended = "no"  BY <1>6, <1>7 DEF EndedInv
  <2>2. CASE kind.family = "connector"
    <3>1. CASE Connecting \/ Waiting \/ Retrying \/ Finished
      BY <2>1, <3>1, DidWorkTo, NoWorkTo, RetireTo DEF Connecting, Waiting, Retrying, Finished
    <3>2. CASE ReadInput \/ ConnectorEof
      BY <2>1, <3>2, GotoTo, ResultTo, RetireTo DEF ReadInput, ConnectorEof
    <3>. QED  BY <1>7, <2>2, <3>1, <3>2, ConnectorSteps
  <2>3. CASE kind.family # "connector"
    <3>1. CASE TakeResult \/ TakeError \/ NoResult \/ PushFetched \/ Poll \/ TakeInput \/ Submit
      BY <2>1, <3>1, GotoTo, RetireTo DEF TakeResult, TakeError, NoResult, PushFetched, Poll,
         TakeInput, Submit, Leave
    <3>2. CASE Login \/ AwaitLogin \/ EndSession
      BY <2>1, <3>2, GotoTo, NoWorkTo, ResultTo, RetireTo DEF Login, AwaitLogin, EndSession,
         Leave, SettleUnconnected
    <3>. QED  BY <1>2, <1>7, <2>3, <3>1, <3>2, SessionSteps, FetcherSteps
  <2>. QED  BY <2>2, <2>3
<1>8. ~ChatStep
  BY DEF ChatStep, ChatApply, ChatLogin, ChatOperate, ChatShutdown, Dispatch, DispatcherWake,
     ChatWaiting, ChatPrompt, ChatResult, ChatDeliver, ChatInput, ChatSend, ChatEnd, ChatDrop,
     IsChat, Counted
<1>. QED  BY <1>2, <1>4, <1>5, <1>7, <1>8, OwnSteps

\* The invariant holds throughout.
LEMMA WorkerInvHolds == Spec => []WorkerInv
<1>1. Init => WorkerInv
  <2>1. Init => PhaseInv  BY DEF Init, NodeInit, PhaseInv, HasWorker, PhasesOf
  <2>2. Init => EndedInv  BY DEF Init, NodeInit, EndedInv
  <2>. QED  BY <2>1, <2>2, ChatInvInit, ChannelInvInit DEF WorkerInv
<1>2. ComponentInv /\ WorkerInv /\ [Next]_vars => WorkerInv'
  <2> SUFFICES ASSUME ComponentInv, WorkerInv, [Next]_vars PROVE WorkerInv'  OBVIOUS
  <2>1. PortInv /\ BudgetInv /\ PhaseInv /\ ChatInv /\ ChannelInv /\ EndedInv
    BY DEF ComponentInv, WorkerInv
  <2>2. PhaseInv'  BY <2>1, PhaseStep
  <2>3. ChatInv'  BY <2>1, ChatStepKeeps
  <2>4. ChannelInv'  BY <2>1, ChannelStep
  <2>5. EndedInv'  BY <2>1, EndedStep
  <2>. QED  BY <2>2, <2>3, <2>4, <2>5 DEF WorkerInv
<1>. QED  BY <1>1, <1>2, ComponentInvHolds, PTL DEF Spec

\* OpenAIChat's process() blocks in send() on a full command channel, its
\* worker in send() on a full result channel; they are never both blocked.
THEOREM NeverMutuallyBlocked == Spec => []NoMutualBlock
<1>1. ComponentInv /\ WorkerInv => NoMutualBlock  BY LoadIsEnough DEF ComponentInv, WorkerInv
<1>. QED  BY <1>1, ComponentInvHolds, WorkerInvHolds, PTL

-----------------------------------------------------------------------------
(* Counting what is in the channels.                                       *)

\* The numbers up to n are n.
LEMMA IntervalSize == ASSUME NEW n \in Nat PROVE IsFiniteSet(1..n) /\ Cardinality(1..n) = n
<1>1. 1 \in Int /\ n \in Int  OBVIOUS
<1>2. IsFiniteSet(1..n) /\ Cardinality(1..n) = IF 1 > n THEN 0 ELSE n - 1 + 1
  BY <1>1, FS_Interval
<1>3. (IF 1 > n THEN 0 ELSE n - 1 + 1) = n  OBVIOUS
<1>. QED  BY <1>2, <1>3

\* A channel filled with x, and one without.
LEMMA CountOfSame ==
    ASSUME NEW s, IsVec(s), NEW x, NEW y, x # y, \A i \in 1..Len(s) : s[i] = x
    PROVE  CountOf(s, x) = Len(s) /\ CountOf(s, y) = 0
<1>1. Len(s) \in Nat  BY VecLens
<1>2. {i \in 1..Len(s) : s[i] = x} = 1..Len(s) /\ {i \in 1..Len(s) : s[i] = y} = {}  OBVIOUS
<1>3. Cardinality(1..Len(s)) = Len(s)  BY <1>1, IntervalSize
<1>. QED  BY <1>2, <1>3, FS_EmptySet DEF CountOf

\* An empty channel.
LEMMA CountOfNone == ASSUME NEW x PROVE CountOf(<<>>, x) = 0
<1>1. {i \in 1..Len(<<>>) : <<>>[i] = x} = {}  OBVIOUS
<1>. QED  BY <1>1, FS_EmptySet DEF CountOf

\* Results of two disjoint groups of sorts that are all there are, and of a
\* third group there are none of.
LEMMA ResultsSplit ==
    ASSUME IsVec(resq), NEW A, NEW B, NEW C, AllOf(resq, A \cup B),
           A \cap B = {}, C \cap (A \cup B) = {}
    PROVE  Results(A) + Results(B) = Len(resq) /\ Results(C) = 0
<1> DEFINE At(S) == {i \in 1..Len(resq) : resq[i][1] \in S}
<1>1. Len(resq) \in Nat  BY VecLens
<1>2. IsFiniteSet(1..Len(resq)) /\ Cardinality(1..Len(resq)) = Len(resq)  BY <1>1, IntervalSize
<1>3. At(A) \cup At(B) = 1..Len(resq) /\ At(A) \cap At(B) = {} /\ At(C) = {}
  BY DEF AllOf
<1>4. /\ IsFiniteSet(At(A)) /\ IsFiniteSet(At(B))
  <2>1. At(A) \in SUBSET (1..Len(resq)) /\ At(B) \in SUBSET (1..Len(resq))  OBVIOUS
  <2> HIDE DEF At
  <2>. QED  BY <1>2, <2>1, FS_Subset
<1>5. Results(A) = Cardinality(At(A)) /\ Results(B) = Cardinality(At(B))
      /\ Results(C) = Cardinality(At(C))
  BY DEF Results
<1>6. Cardinality(At(A)) \in Nat /\ Cardinality(At(B)) \in Nat  BY <1>4, FS_CardinalityType
<1> HIDE DEF At
<1>7. Cardinality(1..Len(resq)) = Cardinality(At(A)) + Cardinality(At(B)) - Cardinality({})
  BY <1>3, <1>4, FS_Union
<1>. QED  BY <1>1, <1>2, <1>3, <1>5, <1>6, <1>7, FS_EmptySet

\* No results.
LEMMA ResultsNone == ASSUME resq = <<>>, NEW A PROVE Results(A) = 0
<1>1. {i \in 1..Len(resq) : resq[i][1] \in A} = {}  OBVIOUS
<1>. QED  BY <1>1, FS_EmptySet DEF Results

\* One result, and one after the unseen messages of a login.
LEMMA ResultsOne ==
    ASSUME NEW r, NEW A, NEW i, i[1] \notin A
    PROVE  /\ resq = <<r>> => Results(A) = IF r[1] \in A THEN 1 ELSE 0
           /\ resq = <<i>> => Results(A) = 0
           /\ resq = <<i, r>> => Results(A) = IF r[1] \in A THEN 1 ELSE 0
<1> DEFINE At == {k \in 1..Len(resq) : resq[k][1] \in A}
<1>1. ASSUME NEW x, resq = <<x>> PROVE At = IF x[1] \in A THEN {1} ELSE {}
  <2>1. Len(resq) = 1 /\ resq[1] = x  BY <1>1
  <2>2. 1..Len(resq) = {1}  BY <2>1
  <2>. QED  BY <2>1, <2>2
<1>2. ASSUME resq = <<i, r>> PROVE At = IF r[1] \in A THEN {2} ELSE {}
  <2>1. Len(resq) = 2 /\ resq[1] = i /\ resq[2] = r  BY <1>2
  <2>2. 1..Len(resq) = {1, 2}  BY <2>1
  <2>. QED  BY <2>1, <2>2
<1>3. Cardinality({1}) = 1 /\ Cardinality({2}) = 1 /\ Cardinality({}) = 0
  BY FS_Singleton, FS_EmptySet
<1>4. Results(A) = Cardinality(At)  BY DEF Results
<1> HIDE DEF At
<1>. QED  BY <1>1, <1>2, <1>3, <1>4

\* The counts are natural numbers.
LEMMA ResultsNat == ASSUME IsVec(resq), NEW A PROVE Results(A) \in Nat
<1>1. Len(resq) \in Nat  BY VecLens
<1>2. IsFiniteSet(1..Len(resq))  BY <1>1, IntervalSize
<1>3. {i \in 1..Len(resq) : resq[i][1] \in A} \in SUBSET (1..Len(resq))  OBVIOUS
<1>4. IsFiniteSet({i \in 1..Len(resq) : resq[i][1] \in A})  BY <1>2, <1>3, FS_Subset
<1>. QED  BY <1>4, FS_CardinalityType DEF Results

\* Nothing on its way: nothing is counted.
LEMMA QuietAccounted ==
    ASSUME ChannelShape, st \notin {"connecting", "active"}
    PROVE  Connects = 0
<1>1. cmdq = <<>> /\ resq = <<>> /\ worker \notin {"connect", "login"}
  BY DEF ChannelShape, Resting
<1>. QED  BY <1>1, CountOfNone, ResultsNone DEF Connects, InWorker

\* A connect on its way is counted once, wherever it is.
LEMMA ConnectAccounted ==
    ASSUME ChannelShape, Counted, st = "connecting"
    PROVE  Connects + Errors = 1
<1> DEFINE V == {"connected", "transient", "permanent"}
           E == {"error"}
<1>1. CASE ConnectQueued
  <2>1. cmdq = <<"connect">> /\ resq = <<>> /\ worker \notin {"connect", "login"}
    BY <1>1 DEF ConnectQueued, Resting
  <2>2. IsVec(cmdq) /\ Len(cmdq) = 1  BY <2>1, VecOne
  <2>3. \A i \in 1..Len(cmdq) : cmdq[i] = "connect"  BY <2>1
  <2>4. CountOf(cmdq, "connect") = 1
    <3>1. "connect" # "op"  OBVIOUS
    <3>. QED  BY <2>2, <2>3, <3>1, CountOfSame
  <2>. QED  BY <2>1, <2>4, ResultsNone DEF Connects, Errors, InWorker
<1>2. CASE ConnectServed
  BY <1>2, CountOfNone, ResultsNone DEF ConnectServed, Connects, Errors, InWorker
<1>3. CASE LoggingIn
  <2>1. Results(V) = 0 /\ Results(E) = 0
    <3>1. CASE resq = <<>>  BY <3>1, ResultsNone
    <3>2. ASSUME NEW i, resq = <<i>>, i[1] = "initial" PROVE Results(V) = 0 /\ Results(E) = 0
      <4>1. i[1] \notin V /\ i[1] \notin E  BY <3>2
      <4> HIDE DEF V, E
      <4>. QED  BY <3>2, <4>1, ResultsOne
    <3>. QED  BY <1>3, <3>1, <3>2 DEF LoggingIn
  <2>. QED  BY <1>3, <2>1, CountOfNone DEF LoggingIn, Connects, Errors, InWorker
<1>4. CASE ConnectAnswered
  <2>1. cmdq = <<>> /\ worker \notin {"connect", "login"}  BY <1>4 DEF ConnectAnswered, Resting
  <2>2. PICK r : /\ r[1] \in Verdicts
                 /\ \/ resq = <<r>>
                    \/ \E i : kind.family = "fetcher" /\ resq = <<i, r>> /\ i[1] = "initial"
    BY <1>4 DEF ConnectAnswered
  <2>3. r[1] \in V \cup E /\ V \cap E = {}  BY <2>2 DEF Verdicts
  <2>4. ASSUME NEW A, "initial" \notin A PROVE Results(A) = IF r[1] \in A THEN 1 ELSE 0
    <3>1. CASE resq = <<r>>
      <4>1. <<"initial">>[1] \notin A  BY <2>4
      <4>. QED  BY <3>1, <4>1, ResultsOne
    <3>2. ASSUME NEW i, resq = <<i, r>>, i[1] = "initial"
          PROVE  Results(A) = IF r[1] \in A THEN 1 ELSE 0
      BY <2>4, <3>2, ResultsOne
    <3>. QED  BY <2>2, <3>1, <3>2
  <2>5. Results(V) = (IF r[1] \in V THEN 1 ELSE 0) /\ Results(E) = IF r[1] \in E THEN 1 ELSE 0
    <3>1. "initial" \notin V /\ "initial" \notin E  OBVIOUS
    <3> HIDE DEF V, E
    <3>. QED  BY <2>4, <3>1
  <2>6. Results(V) + Results(E) = 1 /\ Results(V) \in Nat
    <3> HIDE DEF V, E
    <3>. QED  BY <2>3, <2>5
  <2>7. CountOf(cmdq, "connect") = 0 /\ InWorker({"connect", "login"}) = 0
    BY <2>1, CountOfNone DEF InWorker
  <2>8. Connects = Results(V)  BY <2>6, <2>7 DEF Connects
  <2>9. Errors = Results(E)  BY DEF Errors
  <2> HIDE DEF V, E
  <2>. QED  BY <2>6, <2>8, <2>9
<1>. QED  BY <1>1, <1>2, <1>3, <1>4 DEF ChannelShape, ConnectUnderWay

\* With the connection up only jobs are counted, and inflight is their number.
LEMMA JobsAccounted ==
    ASSUME ChannelShape, Counted, st = "active"
    PROVE  Connects = 0 /\ Jobs + Errors = inflight
<1> DEFINE D == {"done", "messages", "timeout"}
           E == {"error"}
           V == {"connected", "transient", "permanent"}
<1>1. JobsUnderWay /\ IsVec(resq) /\ Job \in {"op", "poll"}  BY DEF ChannelShape, Job
<1>2. /\ cmdq \in Seq({Job}) /\ worker \in {"recv", "wake", Job} /\ AllOf(resq, Replies)
      /\ inflight = Load
  BY <1>1 DEF JobsUnderWay
<1>3. IsVec(cmdq) /\ \A i \in 1..Len(cmdq) : cmdq[i] = Job  BY <1>2 DEF IsVec
<1>4. CountOf(cmdq, "connect") = 0
  <2>1. Job # "connect"  BY <1>1
  <2>. QED  BY <1>3, <2>1, CountOfSame
<1>5. CountOf(cmdq, "op") + CountOf(cmdq, "poll") = Len(cmdq) /\ Len(cmdq) \in Nat
  <2>1. Len(cmdq) \in Nat  BY <1>3, VecLens
  <2>2. CASE Job = "op"
    <3>1. CountOf(cmdq, "op") = Len(cmdq) /\ CountOf(cmdq, "poll") = 0
      BY <1>3, <2>2, CountOfSame
    <3>. QED  BY <2>1, <3>1
  <2>3. CASE Job = "poll"
    <3>1. CountOf(cmdq, "poll") = Len(cmdq) /\ CountOf(cmdq, "op") = 0
      BY <1>3, <2>3, CountOfSame
    <3>. QED  BY <2>1, <3>1
  <2>. QED  BY <1>1, <2>1, <2>2, <2>3
<1>6. Results(D) + Results(E) = Len(resq) /\ Results(V) = 0 /\ Len(resq) \in Nat
  <2>1. Replies \subseteq D \cup E  BY DEF Replies
  <2>2. AllOf(resq, D \cup E) /\ D \cap E = {} /\ V \cap (D \cup E) = {}
    BY <1>2, <2>1 DEF AllOf
  <2>3. Len(resq) \in Nat  BY <1>1, VecLens
  <2> HIDE DEF D, E, V
  <2>. QED  BY <1>1, <2>2, <2>3, ResultsSplit
<1>7. InWorker({"op", "poll"}) = Serving /\ InWorker({"connect", "login"}) = 0 /\ Serving \in Nat
  BY <1>1, <1>2 DEF InWorker, Serving
<1>8. Results(D) \in Nat /\ Results(E) \in Nat
  <2>1. \A A : Results(A) \in Nat  BY <1>1, ResultsNat
  <2>. QED  BY <2>1
<1>9. Connects = 0  BY <1>4, <1>6, <1>7 DEF Connects
<1>10. Jobs + Errors = inflight
  <2>1. Jobs = CountOf(cmdq, "op") + CountOf(cmdq, "poll") + InWorker({"op", "poll"}) + Results(D)
    BY DEF Jobs
  <2>2. Errors = Results(E)  BY DEF Errors
  <2>3. inflight = Len(cmdq) + Serving + Len(resq)  BY <1>2 DEF Load
  <2>4. Jobs = Len(cmdq) + Serving + Results(D)  BY <1>5, <1>7, <2>1
  <2> HIDE DEF D, E, V
  <2>. QED  BY <1>5, <1>6, <1>7, <1>8, <2>2, <2>3, <2>4
<1>. QED  BY <1>9, <1>10

\* The counters of connectors, sessions and fetchers match what is in the
\* channels: one connect on its way while connecting and none otherwise, and
\* inflight_appends, inflight_operations or poll_inflight jobs while active.
THEOREM RequestsAreAccounted == Spec => []RequestsAccounted
<1>1. WorkerInv => RequestsAccounted
  <2> SUFFICES ASSUME WorkerInv, Counted, ended = "no"
               PROVE  /\ Connects + (IF st = "connecting" THEN Errors ELSE 0)
                             = IF st = "connecting" THEN 1 ELSE 0
                      /\ st = "active" => Jobs + Errors = inflight
    BY DEF RequestsAccounted, Counted
  <2>1. ChannelShape  BY DEF WorkerInv, ChannelInv
  <2>2. CASE st = "connecting"  BY <2>1, <2>2, ConnectAccounted
  <2>3. CASE st = "active"  BY <2>1, <2>3, JobsAccounted
  <2>4. CASE st \notin {"connecting", "active"}  BY <2>1, <2>4, QuietAccounted
  <2>. QED  BY <2>2, <2>3, <2>4
<1>. QED  BY <1>1, WorkerInvHolds, PTL

\* The IMAP components' shutdown at the end of input: when process() reaches
\* it, the server has confirmed every submitted operation and no message is
\* held back.
THEOREM ShutdownsConfirmed == Spec => ShutdownConfirmed
<1> DEFINE Confirmed ==
        kind.family = "session" /\ phase = "end" /\ phase' = "retired" =>
            confirmed = submitted /\ held = <<>>
<1>1. ComponentInv /\ WorkerInv /\ [Next]_vars => [Confirmed]_<<nodeVars, ioVars>>
  <2> SUFFICES ASSUME ComponentInv, WorkerInv, [Next]_vars, kind.family = "session",
                      phase = "end", phase' = "retired"
               PROVE  confirmed = submitted /\ held = <<>>
    OBVIOUS
  <2>1. PhaseInv /\ HasWorker /\ Counted  BY DEF WorkerInv, HasWorker, Counted
  <2>2. ended = "no"  BY <2>1 DEF WorkerInv, EndedInv
  <2>3. ChannelShape  BY <2>1, <2>2 DEF WorkerInv, ChannelInv
  <2>4. phase' # phase  OBVIOUS
  <2>5. ~(Neighbours \/ WorkerStep \/ UNCHANGED vars)
    BY <2>4, NeighboursCall, WorkerCall DEF vars, nodeVars, call
  <2>6. ~Activate  BY DEF Activate
  <2>7. ~ChatStep
    BY DEF ChatStep, ChatApply, ChatLogin, ChatOperate, ChatShutdown, Dispatch, DispatcherWake,
       ChatWaiting, ChatPrompt, ChatResult, ChatDeliver, ChatInput, ChatSend, ChatEnd, ChatDrop,
       IsChat
  <2>8. ComponentStep  BY <2>1, <2>5, <2>6, <2>7, OwnSteps
  <2>9. EndSession
    BY <2>1, <2>8, SessionSteps DEF TakeResult, TakeError, NoResult, Login, AwaitLogin, TakeInput,
       Submit
  <2>10. SessionOver
    <3>1. PortInv  BY DEF ComponentInv
    <3>2. kind.first # "retired"  BY <2>1, <3>1, FirstIsOwn
    <3>. QED  BY <2>9, <3>2, ResultTo DEF EndSession
  <2>11. st = "active" /\ held = <<>> /\ inflight = 0  BY <2>10 DEF SessionOver
  <2>12. Load = 0 /\ IsVec(resq) /\ cmdq \in Seq({Job}) /\ submitted \in Nat /\ confirmed \in Nat
    BY <2>3, <2>11 DEF ChannelShape, JobsUnderWay
  <2>13. Len(cmdq) = 0 /\ Len(resq) = 0 /\ Serving = 0
    <3>1. Len(cmdq) \in Nat /\ Len(resq) \in Nat /\ Serving \in Nat
      BY <2>12, VecLens DEF Serving
    <3>. QED  BY <2>12, <3>1 DEF Load
  <2>14. AllOf(resq, {"done"})  BY <2>13 DEF AllOf
  <2>15. submitted = confirmed + Len(cmdq) + Serving
    BY <2>3, <2>11, <2>14 DEF ChannelShape, Confirmations
  <2>. QED  BY <2>11, <2>12, <2>13, <2>15
<1>. QED  BY <1>1, ComponentInvHolds, WorkerInvHolds, PTL DEF Spec, ShutdownConfirmed
=============================================================================
