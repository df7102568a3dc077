---------------------------- MODULE WakeProofs ----------------------------
(***************************************************************************)
(* Proof that a result in a component's channel is going to be read        *)
(* (ResultsWakeNode of Components).                                        *)
(*                                                                         *)
(* The argument: a result is sent before its wakeup, so until the wakeup   *)
(* has come the sender still has to give it; from then on the ready flag   *)
(* is set, until an activation clears it; and an activation looks at the   *)
(* channel after it cleared the flag.  A call that looked and left results *)
(* behind has counted work, for which the node runs again.                 *)
(*                                                                         *)
(* The second half proves that no component falls asleep with work at hand *)
(* (KeepsGoing): what a call leaves undone it left for want of budget,     *)
(* having counted work for which the node runs again, or to a signal of    *)
(* its own, a timer it has armed, or a worker that is busy.                *)
(***************************************************************************)
EXTENDS FlowProofs

\* Components whose process() may leave results in the channel; they count
\* the one they took.
Counts == IsChat \/ kind = FileReader

\* The node is going to run again.
Due == ready \/ (phase # "idle" /\ (did_work \/ (Counts /\ work_units > 0)))

\* Somebody is about to wake it.
Signalling == worker \in {"wake", "lastwake", "login"} \/ dispatcher = "wake"

\* The phases from the start of a call to the look at the channel, and those
\* in which a result in hand is still to be counted or the node is to end.
Looking ==
    CASE kind.family = "connector" -> {"state"}
      [] kind.family \in {"session", "fetcher"} -> {"results"}
      [] kind.family = "writer" -> {"state", "results"}
      [] kind.family = "chat" -> {"state", "setchat", "deliver", "finished", "panicked"}
      [] kind.family = "poller" -> {"names", "flush", "read", "load", "run", "exit"}
      [] OTHER -> {}

Awaited == Due \/ Signalling \/ phase \in Looking \/ (kind = Cmd /\ wake)

WakeInv == ended = "no" /\ st # "waiting" /\ resq # <<>> /\ kind # HTTPClient => Awaited

-----------------------------------------------------------------------------
(* What the ends of a step leave due.                                      *)

\* A step inside process().
LEMMA GotoDue ==
    ASSUME UNCHANGED kind, NEW next, NEW left, NEW units, Goto(next, left, units), next # "idle",
           work_units > 0 => units > 0
    PROVE  /\ Due => Due'
           /\ Counts /\ units > 0 => Due'
BY DEF Goto, Due, Counts, IsChat

\* A call that did work.
LEMMA DidWorkDue ==
    ASSUME UNCHANGED kind, kind.first # "idle", NEW units, NEW left, NEW signalled,
           DidWork(units, left, signalled)
    PROVE  Due'
BY DEF DidWork, Settle, Due

\* An activation without work.
LEMMA NoWorkDue ==
    ASSUME NEW signalled, NoWork(signalled), ready => signalled,
           phase # "idle", ready \/ did_work
    PROVE  Due'
BY DEF NoWork, Settle, Due

\* Either of them, by the work counted.
LEMMA ResultDue ==
    ASSUME UNCHANGED kind, kind.first # "idle", NEW left, NEW signalled,
           Result(work_units, left, signalled), ready => signalled, phase # "idle", Due
    PROVE  Due'
<1>1. CASE work_units > 0  BY <1>1, DidWorkDue DEF Result
<1>2. CASE ~(work_units > 0)
  <2>1. NoWork(signalled) /\ (ready \/ did_work)  BY <1>2 DEF Result, Due
  <2>. QED  BY <2>1, NoWorkDue
<1>. QED  BY <1>1, <1>2

\* No call starts in the phase of a node at rest.
LEMMA FirstNotIdle == ASSUME PortInv PROVE kind.first \notin {"idle", "retired"}
BY KindIs DEF PortInv, FlowKind, IoKind, ChatKind, ServerKind, PollerKind

\* The workers of all families: a result is followed by its wakeup.
LEMMA WorkerAwaits == ASSUME WakeInv, WorkerStep, UNCHANGED dispatcher PROVE WakeInv'
<1> SUFFICES ASSUME ended' = "no", st' # "waiting", resq' # <<>>, kind' # HTTPClient PROVE Awaited'
  BY DEF WakeInv
<1>1. UNCHANGED <<kind, phase, ended, did_work, work_units, st, wake>>
  BY DEF WorkerStep, WorkerRecv, WorkerConnect, WorkerLoggedIn, WorkerOperate, WorkerPoll,
     WorkerShutdown, WorkerWake, nodeVars, timing, call
<1>2. CASE WorkerWake  BY <1>1, <1>2 DEF WorkerWake, Awaited, Due
<1>3. ASSUME UNCHANGED <<resq, ready>>, worker \notin {"wake", "lastwake", "login"}
      PROVE  Awaited'
  BY <1>1, <1>3 DEF WakeInv, Awaited, Due, Signalling, Looking, Counts, IsChat
<1>4. ASSUME worker' \in {"wake", "lastwake", "login"} PROVE Awaited'
  BY <1>4 DEF Awaited, Signalling
<1>5. CASE WorkerRecv \/ WorkerShutdown
  BY <1>3, <1>5 DEF WorkerRecv, WorkerShutdown, nodeVars, timing
<1>6. CASE WorkerConnect \/ WorkerLoggedIn \/ WorkerOperate \/ WorkerPoll
  BY <1>4, <1>6 DEF WorkerConnect, WorkerLoggedIn, WorkerOperate, WorkerPoll, Answer
<1>. QED  BY <1>2, <1>5, <1>6 DEF WorkerStep

\* The neighbours: what they do may make the node ready, never the reverse.
LEMMA NeighboursAwait ==
    ASSUME WakeInv, Neighbours, UNCHANGED <<ioVars, dispatcher>>
    PROVE  WakeInv'
<1> SUFFICES ASSUME ended' = "no", st' # "waiting", resq' # <<>>, kind' # HTTPClient PROVE Awaited'
  BY DEF WakeInv
<1>1. UNCHANGED <<kind, phase, ended, did_work, work_units, st, resq, worker, dispatcher>>
  BY NeighboursCall DEF call, ioVars, channels
<1>2. CASE Feed \/ Configure \/ TimerFires
  BY <1>1, <1>2 DEF Feed, Configure, TimerFires, Awaited, Due
<1>3. CASE Close \/ Drain
  <2>1. UNCHANGED <<ready, wake>>  BY <1>3 DEF Close, Drain, timing
  <2>. QED  BY <1>1, <2>1 DEF WakeInv, Awaited, Due, Signalling, Looking, Counts, IsChat
<1>. QED  BY <1>2, <1>3 DEF Neighbours

-----------------------------------------------------------------------------
(* What else the argument needs.                                           *)

\* The phases of FileWriter, FileReader and Cmd.
PollPhases ==
    /\ kind.family = "writer" =>
           phase \in {"idle", "retired", "state", "results", "submit", "end"}
    /\ kind = FileReader => phase \in {"idle", "retired", "names", "flush", "read", "end"}
    /\ kind = Cmd => phase \in {"idle", "retired", "load", "run", "exit", "eof"}

\* Components without a channel of results.
NoResults ==
    kind.family \in {"dataflow", "server"} \/ kind = FileTailer =>
        resq = <<>> /\ worker \in {"none", "op"}

\* FileReader has one read under way at most, and comes to the look at the
\* channel with budget left or with work counted.
ReaderInv ==
    kind = FileReader =>
        /\ worker = "op" => inflight # 0 /\ resq = <<>>
        /\ resq # <<>> => inflight # 0
        /\ phase \in {"names", "flush", "read"} => remaining_budget > 0 \/ work_units > 0

\* Cmd has lines only while its child runs, which it does with a configuration.
CmdInv ==
    kind = Cmd =>
        /\ st # "active" => resq = <<>>
        /\ st = "active" \/ phase = "run" => conf = "got"

\* Chat components: a call comes to the look at the channel with budget left,
\* Shutdown is sent only as the component is dropped, and nobody answers
\* before the initial prompt.
ChatSide ==
    IsChat =>
        /\ phase = "state" => remaining_budget > 0
        /\ ended = "no" => worker # "shutdown" /\ cmdq \in Seq({"connect", "prompt", "op", "setchat"})
        /\ kind.dispatches # "no" => st # "prompt"
        /\ st = "prompt" => resq = <<>> /\ worker # "op" /\ cmdq \in Seq({"connect"})

\* The four components of Pollers.
LEMMA PollerNames ==
    /\ FileReader.family = "poller" /\ FileReader.name = "FileReader" /\ FileReader.first = "names"
    /\ FileTailer.family = "poller" /\ FileTailer.name = "FileTailer"
    /\ Cmd.family = "poller" /\ Cmd.name = "Cmd" /\ Cmd.first = "load"
    /\ HTTPClient.family = "poller" /\ HTTPClient.name = "HTTPClient"
BY DEF FileReader, FileTailer, Cmd, HTTPClient, Poller

\* What of the channels a component without results could touch.
LEMMA NoResultsStep == ASSUME NoResults, [Next]_vars PROVE NoResults'
<1>1. UNCHANGED kind  BY KindStays DEF vars, nodeVars
<1> SUFFICES ASSUME kind.family \in {"dataflow", "server"} \/ kind = FileTailer
             PROVE  resq' = <<>> /\ worker' \in {"none", "op"}
  BY <1>1 DEF NoResults
<1>2. /\ resq = <<>> /\ worker \in {"none", "op"} /\ ~IsIo /\ ~IsChat
      /\ kind # FileReader /\ kind # Cmd /\ kind # HTTPClient
      /\ kind.family \in {"dataflow", "server", "poller"}
  BY PollerNames DEF NoResults, IsIo, IsChat
<1>3. ASSUME UNCHANGED channels PROVE resq' = <<>> /\ worker' \in {"none", "op"}
  BY <1>2, <1>3 DEF channels
<1>4. CASE UNCHANGED ioVars  BY <1>3, <1>4 DEF ioVars
<1>5. CASE UNCHANGED vars  BY <1>4, <1>5 DEF vars
<1>6. CASE ComponentStep
  <2>1. NoResult \/ PushFetched
    BY <1>2, <1>6 DEF ComponentStep, Connecting, Waiting, Retrying, Finished, ReadInput,
       ConnectorEof, TakeResult, TakeError, Login, AwaitLogin, Poll, TakeInput, Submit,
       EndSession, StartWriter, WriterResults, SubmitWrite, EndWriter
  <2>. QED  BY <1>3, <1>4, <2>1 DEF NoResult, PushFetched
<1>7. ~WorkerStep
  BY <1>2 DEF WorkerStep, WorkerRecv, WorkerConnect, WorkerLoggedIn, WorkerOperate, WorkerPoll,
     WorkerShutdown, WorkerWake
<1>8. ~ChatStep
  BY <1>2 DEF ChatStep, ChatApply, ChatLogin, ChatOperate, ChatShutdown, Dispatch, DispatcherWake,
     ChatWaiting, ChatPrompt, ChatResult, ChatDeliver, ChatInput, ChatSend, ChatEnd, ChatDrop
<1>9. CASE ServerStep
  BY <1>3, <1>9 DEF ServerStep, Listen, FlushOutbound, Accept, Handshake, ReadClient, ReadDone,
     RouteResponse, RetryResponse, SendResponse, QueueResponse, EndServer, ioRest, ioVars
<1>10. CASE HttpStep
  BY <1>3, <1>10 DEF HttpStep, ServeClient, ServeDone, SendRequest, RequestsSent, TakeResponse,
     ResponsesTaken, ioRest, ioVars
<1>11. CASE PollerStep
  <2>1. ~(ReadFile \/ FinishRead \/ ChildRuns \/ WakeForLine \/ TakeLine \/ CheckChild
          \/ ResetChild \/ CmdEof \/ ClientResult)
    BY <1>2 DEF ReadFile, FinishRead, ChildRuns, WakeForLine, TakeLine, CheckChild, ResetChild,
       CmdEof, ClientResult
  <2>2. CASE OpenFile \/ TailFile \/ EndPoll \/ LoadConfig
    BY <1>3, <2>2 DEF OpenFile, TailFile, EndPoll, LoadConfig, ioVars
  <2>3. CASE TakeName \/ FlushPending \/ StartChild \/ ClientRequest
    BY <1>2, <2>3 DEF TakeName, FlushPending, StartChild, ClientRequest
  <2>. QED  BY <1>11, <2>1, <2>2, <2>3 DEF PollerStep
<1>. QED  BY <1>4, <1>5, <1>6, <1>7, <1>8, <1>9, <1>10, <1>11 DEF Next, IoStep

\* FileWriter takes its own steps only.
LEMMA WriterSteps ==
    ASSUME PollPhases, kind.family = "writer", Next
    PROVE  \/ Neighbours /\ UNCHANGED <<ioVars, dispatcher>>
           \/ Activate /\ UNCHANGED <<ioVars, dispatcher>>
           \/ WorkerStep /\ UNCHANGED dispatcher
           \/ (StartWriter \/ WriterResults \/ SubmitWrite \/ EndWriter) /\ UNCHANGED dispatcher
<1>1. phase \in {"idle", "retired", "state", "results", "submit", "end"}  BY DEF PollPhases
<1>2. /\ ~IsDataflow /\ ~IsServer /\ ~IsChat
      /\ kind # FileReader /\ kind # Cmd /\ kind # HTTPClient /\ kind # FileTailer
  BY PollerNames DEF IsDataflow, IsServer, IsChat
<1>3. ~ChatStep
  BY <1>2 DEF ChatStep, ChatApply, ChatLogin, ChatOperate, ChatShutdown, Dispatch, DispatcherWake,
     ChatWaiting, ChatPrompt, ChatResult, ChatDeliver, ChatInput, ChatSend, ChatEnd, ChatDrop
<1>4. ~ServerStep /\ ~HttpStep
  BY <1>1, <1>2 DEF ServerStep, Listen, FlushOutbound, Accept, Handshake, ReadClient, ReadDone,
     RouteResponse, RetryResponse, SendResponse, QueueResponse, EndServer,
     HttpStep, ServeClient, ServeDone, SendRequest, RequestsSent, TakeResponse, ResponsesTaken
<1>5. ~PollerStep
  BY <1>1, <1>2 DEF PollerStep, TakeName, FlushPending, ReadFile, FinishRead, OpenFile, TailFile,
     EndPoll, LoadConfig, StartChild, ChildRuns, WakeForLine, TakeLine, CheckChild, ResetChild,
     CmdEof, ClientRequest, ClientResult, PollerKinds
<1>6. ComponentStep => StartWriter \/ WriterResults \/ SubmitWrite \/ EndWriter
  BY <1>1 DEF ComponentStep, Connecting, Waiting, Retrying, Finished, ReadInput, ConnectorEof,
     TakeResult, TakeError, NoResult, PushFetched, Login, AwaitLogin, Poll, TakeInput, Submit,
     EndSession
<1>. QED  BY <1>2, <1>3, <1>4, <1>5, <1>6 DEF Next, IoStep

\* So do FileReader and Cmd.
LEMMA PollSteps ==
    ASSUME PollPhases, kind = FileReader \/ kind = Cmd, Next
    PROVE  /\ UNCHANGED dispatcher
           /\ \/ Neighbours /\ UNCHANGED ioVars
              \/ Activate /\ UNCHANGED ioVars
              \/ WakeForLine
              \/ kind = FileReader /\ (TakeName \/ FlushPending \/ ReadFile \/ FinishRead \/ EndPoll)
              \/ kind = Cmd /\ (LoadConfig \/ StartChild \/ ChildRuns \/ TakeLine \/ CheckChild
                                \/ ResetChild \/ CmdEof)
<1>1. phase \in IF kind = FileReader THEN {"idle", "retired", "names", "flush", "read", "end"}
                ELSE {"idle", "retired", "load", "run", "exit", "eof"}
  BY DEF PollPhases
<1>2. /\ ~IsDataflow /\ ~IsServer /\ ~IsChat /\ kind.family = "poller"
      /\ kind # HTTPClient /\ kind # FileTailer /\ FileReader # Cmd
  BY PollerNames DEF IsDataflow, IsServer, IsChat
<1>3. ~ChatStep
  BY <1>2 DEF ChatStep, ChatApply, ChatLogin, ChatOperate, ChatShutdown, Dispatch, DispatcherWake,
     ChatWaiting, ChatPrompt, ChatResult, ChatDeliver, ChatInput, ChatSend, ChatEnd, ChatDrop
<1>4. ~ServerStep /\ ~HttpStep
  BY <1>1, <1>2 DEF ServerStep, Listen, FlushOutbound, Accept, Handshake, ReadClient, ReadDone,
     RouteResponse, RetryResponse, SendResponse, QueueResponse, EndServer,
     HttpStep, ServeClient, ServeDone, SendRequest, RequestsSent, TakeResponse, ResponsesTaken
<1>5. ASSUME PollerStep
      PROVE  \/ WakeForLine
             \/ kind = FileReader /\ (TakeName \/ FlushPending \/ ReadFile \/ FinishRead \/ EndPoll)
             \/ kind = Cmd /\ (LoadConfig \/ StartChild \/ ChildRuns \/ TakeLine \/ CheckChild
                               \/ ResetChild \/ CmdEof)
  <2>1. ~(OpenFile \/ TailFile \/ ClientRequest \/ ClientResult)
    BY <1>1, <1>2 DEF OpenFile, TailFile, ClientRequest, ClientResult
  <2>2. CASE kind = FileReader
    BY <1>1, <1>2, <1>5, <2>1, <2>2 DEF PollerStep, LoadConfig, StartChild, ChildRuns, TakeLine,
       CheckChild, ResetChild, CmdEof
  <2>3. CASE kind = Cmd
    BY <1>1, <1>2, <1>5, <2>1, <2>3 DEF PollerStep, TakeName, FlushPending, ReadFile, FinishRead,
       EndPoll
  <2>. QED  BY <2>2, <2>3
<1>. QED  BY <1>2, <1>3, <1>4, <1>5 DEF Next

\* Another call starts with budget left, and so does an activation.
LEMMA StartsFresh ==
    ASSUME BudgetInv', Activate \/ \E units, left, signalled : DidWork(units, left, signalled)
    PROVE  phase' = "idle" \/ remaining_budget' > 0
<1>1. CASE Activate  BY <1>1, NodeBounds DEF Activate
<1>2. ASSUME NEW units, NEW left, NEW signalled, DidWork(units, left, signalled)
      PROVE  phase' = "idle" \/ remaining_budget' > 0
  <2>1. phase' = "idle" \/ remaining_budget' # 0  BY <1>2 DEF DidWork, Settle
  <2>2. remaining_budget' \in Nat  BY DEF BudgetInv
  <2>. QED  BY <2>1, <2>2
<1>. QED  BY <1>1, <1>2

\* FileReader keeps to its phases, its one read and its budget.
LEMMA ReaderStep ==
    ASSUME PollPhases, ReaderInv, PortInv, BudgetInv, BudgetInv', kind = FileReader, [Next]_vars
    PROVE  PollPhases' /\ ReaderInv'
<1>1. UNCHANGED kind  BY KindStays DEF vars, nodeVars
<1>2. kind.family = "poller" /\ kind.first = "names" /\ kind # Cmd  BY PollerNames
<1>3. phase \in {"idle", "retired", "names", "flush", "read", "end"}  BY DEF PollPhases
<1>4. work_units \in Nat /\ remaining_budget \in Nat  BY DEF BudgetInv
<1>5. ASSUME phase' \in {"idle", "retired", "names", "flush", "read", "end"},
             worker' = "op" => inflight' # 0 /\ resq' = <<>>,
             resq' # <<>> => inflight' # 0,
             phase' \in {"names", "flush", "read"} => remaining_budget' > 0 \/ work_units' > 0
      PROVE  PollPhases' /\ ReaderInv'
  BY <1>1, <1>2, <1>5 DEF PollPhases, ReaderInv
<1>6. ASSUME UNCHANGED call,
             worker' = "op" => inflight' # 0 /\ resq' = <<>>, resq' # <<>> => inflight' # 0
      PROVE  PollPhases' /\ ReaderInv'
  BY <1>3, <1>5, <1>6 DEF ReaderInv, call
<1>7. CASE (Neighbours /\ UNCHANGED ioVars) \/ UNCHANGED vars
  <2>1. UNCHANGED <<call, worker, resq, inflight>>
    BY <1>7, NeighboursCall DEF vars, nodeVars, ioVars, channels
  <2>. QED  BY <1>6, <2>1 DEF ReaderInv
<1>8. CASE Activate /\ UNCHANGED ioVars
  <2>1. UNCHANGED <<worker, resq, inflight>> /\ phase' = "names"
    BY <1>2, <1>8 DEF Activate, ioVars, channels
  <2>2. remaining_budget' > 0  BY <1>8, <2>1, StartsFresh
  <2>. QED  BY <1>5, <2>1, <2>2 DEF ReaderInv
<1>9. CASE WakeForLine
  <2>1. UNCHANGED <<call, resq, inflight>> /\ worker' = "none"
    BY <1>2, <1>9 DEF WakeForLine
  <2>. QED  BY <1>6, <2>1 DEF ReaderInv
<1>10. CASE ReadFile
  <2>1. UNCHANGED <<call, inflight>> /\ worker' = "wake" /\ worker = "op"
    BY <1>10 DEF ReadFile, nodeVars
  <2>. QED  BY <1>6, <2>1 DEF ReaderInv
<1>11. CASE TakeName
  <2>1. UNCHANGED <<worker, resq, inflight, remaining_budget, work_units>> /\ phase' = "flush"
        /\ phase = "names"
    BY <1>11 DEF TakeName, Goto
  <2>. QED  BY <1>5, <2>1 DEF ReaderInv
<1>12. CASE FlushPending
  <2>1. phase = "flush"  BY <1>12 DEF FlushPending
  <2>2. CASE phase' = "flush"
    <3>1. UNCHANGED <<worker, resq, inflight>> /\ work_units' = work_units + 1
      BY <1>2, <1>12, <2>2 DEF FlushPending, Goto
    <3>2. work_units' > 0  BY <1>4, <3>1
    <3>. QED  BY <1>5, <2>2, <3>1, <3>2 DEF ReaderInv
  <2>3. CASE phase' # "flush"
    <3>1. UNCHANGED <<resq, remaining_budget, work_units>> /\ phase' = "read"
      BY <1>12, <2>3 DEF FlushPending, Goto
    <3>2. (inflight = 0 /\ worker' = "op" /\ inflight' = 1) \/ UNCHANGED <<worker, inflight>>
      BY <1>12, <2>3 DEF FlushPending, Goto
    <3>. QED  BY <1>5, <2>1, <3>1, <3>2 DEF ReaderInv
  <2>. QED  BY <2>2, <2>3
<1>13. CASE FinishRead
  <2>1. phase' = "end" /\ UNCHANGED worker
    BY <1>13, GotoTo DEF FinishRead
  <2>2. resq # <<>> \/ UNCHANGED <<resq, inflight>>  BY <1>13 DEF FinishRead
  <2>3. resq' = <<>> \/ UNCHANGED <<resq, inflight>>  BY <1>13 DEF FinishRead
  <2>. QED  BY <1>5, <2>1, <2>2, <2>3 DEF ReaderInv
<1>14. CASE EndPoll
  <2>1. UNCHANGED <<worker, resq, inflight>>  BY <1>14 DEF EndPoll, ioVars, channels
  <2>2. phase' \in {"idle", "names", "retired"}
    BY <1>2, <1>14, DidWorkTo, NoWorkTo, RetireTo DEF EndPoll
  <2>3. phase' = "names" => remaining_budget' > 0
    <3>1. CASE DidWork(work_units, remaining_budget, ready)  BY <3>1, StartsFresh
    <3>2. CASE phase' # "names"  BY <3>2
    <3>. QED  BY <1>14, <3>1, <3>2, NoWorkTo, RetireTo DEF EndPoll
  <2>. QED  BY <1>5, <2>1, <2>2, <2>3 DEF ReaderInv
<1>. QED  BY <1>2, <1>7, <1>8, <1>9, <1>10, <1>11, <1>12, <1>13, <1>14, PollSteps

\* Cmd keeps to its phases, and forgets the lines with the child.
LEMMA CmdStep ==
    ASSUME PollPhases, CmdInv, PortInv, kind = Cmd, [Next]_vars
    PROVE  PollPhases' /\ CmdInv'
<1>1. UNCHANGED kind  BY KindStays DEF vars, nodeVars
<1>2. kind.family = "poller" /\ kind.first = "load" /\ kind # FileReader  BY PollerNames
<1>3. phase \in {"idle", "retired", "load", "run", "exit", "eof"}  BY DEF PollPhases
<1>4. ASSUME phase' \in {"idle", "retired", "load", "run", "exit", "eof"},
             st' # "active" => resq' = <<>>, st' = "active" \/ phase' = "run" => conf' = "got"
      PROVE  PollPhases' /\ CmdInv'
  BY <1>1, <1>2, <1>4 DEF PollPhases, CmdInv
<1>5. CASE (Neighbours /\ UNCHANGED ioVars) \/ UNCHANGED vars
  <2>1. UNCHANGED <<phase, st, resq>>
    BY <1>5, NeighboursCall DEF vars, nodeVars, ioVars, channels, call
  <2>2. conf = "got" => conf' = "got"
    BY <1>5 DEF vars, nodeVars, edges, Neighbours, Feed, Close, Configure, Drain, TimerFires
  <2>. QED  BY <1>3, <1>4, <2>1, <2>2 DEF CmdInv
<1>6. CASE Activate /\ UNCHANGED ioVars
  <2>1. UNCHANGED <<st, resq, conf>> /\ phase' = "load"
    BY <1>2, <1>6 DEF Activate, ioVars, channels, edges
  <2>. QED  BY <1>4, <2>1 DEF CmdInv
<1>7. CASE WakeForLine
  <2>1. UNCHANGED <<phase, st, resq, conf>>  BY <1>7 DEF WakeForLine, call, edges
  <2>. QED  BY <1>3, <1>4, <2>1 DEF CmdInv
<1>8. CASE LoadConfig
  <2>1. UNCHANGED resq /\ phase = "load" /\ phase' \in {"run", "idle", "retired"}
    BY <1>8, GotoTo, NoWorkTo, RetireTo DEF LoadConfig, channels
  <2>2. conf = "queued" => st # "active"  BY DEF CmdInv
  <2>3. phase' = "run" => conf' = "got"  BY <1>8, NoWorkTo, RetireTo DEF LoadConfig
  <2>4. (st' = st \/ (conf = "queued" /\ st' = "unconfigured")) /\ (conf = "got" => conf' = "got")
    BY <1>8 DEF LoadConfig
  <2>. QED  BY <1>4, <2>1, <2>2, <2>3, <2>4 DEF CmdInv
<1>9. CASE StartChild
  <2>1. UNCHANGED <<resq, conf>> /\ phase = "run" /\ st = "waiting"  BY <1>9 DEF StartChild
  <2>2. phase' \in {"eof", "idle", "load", "retired"}
    BY <1>2, <1>9, GotoTo, DidWorkTo, RetireTo DEF StartChild
  <2>. QED  BY <1>4, <2>1, <2>2 DEF CmdInv
<1>10. CASE ChildRuns
  <2>1. UNCHANGED <<phase, conf, st>> /\ (st # "active" => UNCHANGED resq)
    BY <1>10 DEF ChildRuns, nodeVars, call, edges
  <2>. QED  BY <1>3, <1>4, <2>1 DEF CmdInv
<1>11. CASE TakeLine
  <2>1. UNCHANGED <<conf, st>> /\ st = "active" /\ phase' = "exit"
    BY <1>11, GotoTo DEF TakeLine
  <2>. QED  BY <1>4, <2>1 DEF CmdInv
<1>12. CASE CheckChild
  <2>1. UNCHANGED conf /\ (UNCHANGED <<st, resq>> \/ (st' = "finished" /\ resq' = <<>>))
    BY <1>12 DEF CheckChild, edges
  <2>2. phase' \in {"eof", "idle", "load"}  BY <1>2, <1>12, DidWorkTo DEF CheckChild
  <2>. QED  BY <1>4, <2>1, <2>2 DEF CmdInv
<1>13. CASE ResetChild
  <2>1. UNCHANGED <<conf, resq>> /\ st' = "waiting" /\ st = "finished" /\ phase' = "eof"
    BY <1>13 DEF ResetChild, edges
  <2>. QED  BY <1>4, <2>1 DEF CmdInv
<1>14. CASE CmdEof
  <2>1. UNCHANGED <<conf, st, resq>> /\ phase' \in {"idle", "retired"}
    BY <1>14, NoWorkTo, RetireTo DEF CmdEof, edges, ioVars, channels
  <2>. QED  BY <1>4, <2>1 DEF CmdInv
<1>. QED
  BY <1>2, <1>5, <1>6, <1>7, <1>8, <1>9, <1>10, <1>11, <1>12, <1>13, <1>14, PollSteps

\* FileWriter keeps to its phases.
LEMMA WriterStep ==
    ASSUME PollPhases, PortInv, kind.family = "writer", [Next]_vars
    PROVE  PollPhases'
<1>1. UNCHANGED kind  BY KindStays DEF vars, nodeVars
<1>2. kind # FileReader /\ kind # Cmd  BY PollerNames
<1>3. kind.first = "state"
  BY KindIs DEF PortInv, FlowKind, IoKind, ChatKind, ServerKind, PollerKind
<1> SUFFICES phase' \in {"idle", "retired", "state", "results", "submit", "end"}
  BY <1>1, <1>2 DEF PollPhases
<1>4. phase \in {"idle", "retired", "state", "results", "submit", "end"}  BY DEF PollPhases
<1>5. CASE Neighbours \/ WorkerStep \/ UNCHANGED vars
  BY <1>4, <1>5, NeighboursCall, WorkerCall DEF vars, nodeVars, call
<1>6. CASE Activate  BY <1>3, <1>6 DEF Activate
<1>7. CASE StartWriter \/ WriterResults \/ SubmitWrite \/ EndWriter
  BY <1>3, <1>7, GotoTo, NoWorkTo, ResultTo, RetireTo
  DEF StartWriter, WriterResults, SubmitWrite, EndWriter
<1>. QED  BY <1>5, <1>6, <1>7, WriterSteps

\* The chat components: only OpenAIChat waits for a prompt.
LEMMA ChatIs ==
    ASSUME PortInv, IsChat
    PROVE  /\ kind.first = "state"
           /\ kind.dispatches \in {"no", "beside", "within"}
           /\ kind.dispatches # "no" => kind.name # "OpenAIChat"
           /\ kind.breaks => kind.dispatches \in {"no", "within"}
<1>1. kind \in ChatKinds
  BY KindsAssumption, FlowKinds, IoKindsAre, ServerKindsAre, PollerKindsAre
  DEF PortInv, IsChat, AllKinds, FlowKind, IoKind, ServerKind, PollerKind
<1>. QED  BY <1>1 DEF ChatKinds, OpenAIChat, TelegramBot, MatrixClient, Chat

\* The commands of a running chat component.
ChatSent == {"connect", "prompt", "op", "setchat"}

\* The worker, the dispatcher, and what the channels hold before the prompt.
LEMMA ChatWorkerSide ==
    ASSUME ChatSide, ChatInv, IsChat,
           \/ WorkerStep /\ UNCHANGED dispatcher
           \/ ChatApply \/ ChatLogin \/ ChatOperate \/ ChatShutdown \/ Dispatch \/ DispatcherWake
    PROVE  ChatSide'
<1>1. /\ phase = "state" => remaining_budget > 0
      /\ ended = "no" => worker # "shutdown" /\ cmdq \in Seq(ChatSent)
      /\ kind.dispatches # "no" => st # "prompt"
      /\ st = "prompt" => resq = <<>> /\ worker # "op" /\ cmdq \in Seq({"connect"})
  BY DEF ChatSide, ChatSent
<1>2. UNCHANGED <<kind, call, st>>
  BY WorkerCall DEF WorkerStep, WorkerRecv, WorkerConnect, WorkerLoggedIn, WorkerOperate,
     WorkerPoll, WorkerShutdown, WorkerWake, ChatApply, ChatLogin, ChatOperate, ChatShutdown,
     Dispatch, DispatcherWake, nodeVars, ioVars
<1>3. ~IsIo /\ kind.family = "chat"  BY DEF IsChat, IsIo
<1>4. st = "prompt" => kind.dispatches = "no" /\ dispatcher = "off" /\ worker \notin {"poll", "login"}
  BY <1>1 DEF ChatInv, AnswersOnly
<1>5. ASSUME ended = "no" => worker' # "shutdown" /\ cmdq' \in Seq(ChatSent),
             st = "prompt" => resq' = <<>> /\ worker' # "op" /\ cmdq' \in Seq({"connect"})
      PROVE  ChatSide'
  BY <1>1, <1>2, <1>5 DEF ChatSide, ChatSent, call, IsChat
<1>6. CASE WorkerRecv
  <2>1. CASE cmdq # <<>> /\ worker' = Head(cmdq) /\ cmdq' = Tail(cmdq)
    <3>1. ASSUME NEW S, cmdq \in Seq(S) PROVE worker' \in S /\ cmdq' \in Seq(S)
      BY <2>1, <3>1
    <3>2. ended = "no" => worker' \in ChatSent /\ cmdq' \in Seq(ChatSent)  BY <1>1, <3>1
    <3>3. st = "prompt" => worker' \in {"connect"} /\ cmdq' \in Seq({"connect"})  BY <1>1, <3>1
    <3>. QED  BY <1>1, <1>5, <1>6, <3>2, <3>3 DEF WorkerRecv, ChatSent
  <2>2. CASE worker' = "gone" /\ UNCHANGED cmdq  BY <1>1, <1>5, <1>6, <2>2 DEF WorkerRecv
  <2>. QED  BY <1>6, <2>1, <2>2 DEF WorkerRecv
<1>7. CASE WorkerWake  BY <1>1, <1>5, <1>7 DEF WorkerWake
<1>8. CASE WorkerLoggedIn \/ WorkerPoll
  <2>1. st # "prompt"  BY <1>4, <1>8 DEF WorkerLoggedIn, WorkerPoll
  <2>2. UNCHANGED cmdq /\ worker' = "wake"
    BY <1>3, <1>8 DEF WorkerLoggedIn, WorkerPoll, Answer
  <2>. QED  BY <1>1, <1>5, <2>1, <2>2
<1>9. CASE ChatApply  BY <1>1, <1>5, <1>9 DEF ChatApply
<1>10. CASE ChatLogin  BY <1>1, <1>4, <1>5, <1>10 DEF ChatLogin
<1>11. CASE ChatOperate  BY <1>1, <1>5, <1>11 DEF ChatOperate
<1>12. CASE ChatShutdown  BY <1>1, <1>5, <1>12 DEF ChatShutdown
<1>13. CASE Dispatch  BY <1>1, <1>4, <1>5, <1>13 DEF Dispatch
<1>14. CASE DispatcherWake  BY <1>1, <1>5, <1>14 DEF DispatcherWake, ioVars, channels
<1>15. ~(WorkerConnect \/ WorkerOperate \/ WorkerShutdown)
  BY <1>3 DEF WorkerConnect, WorkerOperate, WorkerShutdown
<1>. QED
  BY <1>6, <1>7, <1>8, <1>9, <1>10, <1>11, <1>12, <1>13, <1>14, <1>15 DEF WorkerStep

\* process() of a chat component.
LEMMA ChatProcessSide ==
    ASSUME ChatSide, ChatInv, PortInv, BudgetInv', IsChat, UNCHANGED kind,
           \/ ChatWaiting \/ ChatPrompt \/ ChatResult \/ ChatDeliver \/ ChatInput \/ ChatSend
           \/ ChatEnd \/ ChatDrop
    PROVE  ChatSide'
<1>1. /\ ended = "no" => worker # "shutdown" /\ cmdq \in Seq(ChatSent)
      /\ kind.dispatches # "no" => st # "prompt"
      /\ st = "prompt" => resq = <<>> /\ worker # "op" /\ cmdq \in Seq({"connect"})
  BY DEF ChatSide, ChatSent
<1>2. UNCHANGED worker
  BY DEF ChatWaiting, ChatPrompt, ChatResult, ChatDeliver, ChatInput, ChatSend, ChatEnd, ChatDrop,
     ioVars, channels
<1>3. ASSUME phase' = "state" => remaining_budget' > 0,
             ended' = "no" => ended = "no" /\ cmdq' \in Seq(ChatSent),
             kind.dispatches # "no" => st' # "prompt",
             st' = "prompt" => resq' = <<>> /\ worker # "op" /\ cmdq' \in Seq({"connect"})
      PROVE  ChatSide'
  BY <1>1, <1>2, <1>3 DEF ChatSide, ChatSent, IsChat
<1>4. ASSUME UNCHANGED <<st, cmdq, resq>>, phase' = "state" => remaining_budget' > 0,
             ended' = "no" => ended = "no"
      PROVE  ChatSide'
  BY <1>1, <1>3, <1>4
<1>5. CASE ChatWaiting
  <2>1. CASE conf # "queued" \/ phase' = "panicked"
    <3>1. UNCHANGED <<st, cmdq, resq>> /\ ended' = ended /\ phase' \in {"panicked", "idle"}
      BY <1>5, <2>1, GotoTo, NoWorkTo, DidWorkTo, ChatIs DEF ChatWaiting
    <3>. QED  BY <1>4, <3>1
  <2>2. CASE /\ Send("connect") /\ DidWork(1, remaining_budget, ready)
             /\ st' \in IF kind.name = "OpenAIChat" THEN {"active", "prompt"} ELSE {"active"}
    <3>1. phase' = "state" => remaining_budget' > 0  BY <2>2, StartsFresh
    <3>2. ended' = ended  BY <2>2, DidWorkTo
    <3>3. ended = "no" => cmdq' \in Seq(ChatSent)
      BY <1>1, <2>2 DEF Send, ChatSent
    <3>4. kind.dispatches # "no" => st' # "prompt"  BY <2>2, ChatIs
    <3>5. ASSUME st' = "prompt" PROVE resq' = <<>> /\ worker # "op" /\ cmdq' \in Seq({"connect"})
      <4>1. AnswersOnly  BY <3>4, <3>5 DEF AnswersOnly
      <4>2. Load = 0 /\ cmdq \in Seq(ChatCommands) /\ IsVec(resq)
        BY <1>5, <4>1 DEF ChatWaiting, ChatInv
      <4>3. Len(cmdq) \in Nat /\ Len(resq) \in Nat /\ Serving \in {0, 1}
        BY <4>2, VecLens DEF Serving
      <4>4. Len(cmdq) = 0 /\ Len(resq) = 0 /\ Serving = 0  BY <4>2, <4>3 DEF Load
      <4>5. cmdq = <<>>  BY <4>2, <4>4
      <4>6. resq = <<>>  BY <4>2, <4>4, VecLens
      <4>7. worker # "op"  BY <4>4 DEF Serving
      <4>8. cmdq' = <<"connect">>  BY <2>2, <4>5 DEF Send
      <4>9. UNCHANGED resq  BY <1>5 DEF ChatWaiting
      <4>. QED  BY <4>6, <4>7, <4>8, <4>9
    <3>. QED  BY <1>3, <3>1, <3>2, <3>3, <3>4, <3>5
  <2>. QED  BY <1>5, <2>1, <2>2, GotoTo DEF ChatWaiting
<1>6. CASE ChatPrompt
  <2>1. UNCHANGED <<st, cmdq, resq>>  BY <1>6 DEF ChatPrompt, ioVars, channels
  <2>2. ended' = ended /\ phase' # "state"  BY <1>6, GotoTo, NoWorkTo DEF ChatPrompt
  <2>. QED  BY <1>4, <2>1, <2>2
<1>7. CASE ChatResult
  <2>1. UNCHANGED <<st, cmdq>> /\ st = "active"  BY <1>7 DEF ChatResult
  <2>2. ended' = ended /\ phase' # "state"  BY <1>7, GotoTo DEF ChatResult
  <2>. QED  BY <1>1, <1>3, <2>1, <2>2
<1>8. CASE ChatDeliver \/ ChatInput
  <2>1. UNCHANGED <<st, cmdq, resq>>  BY <1>8 DEF ChatDeliver, ChatInput, ioVars, channels
  <2>2. ended' = ended /\ phase' # "state"  BY <1>8, GotoTo DEF ChatDeliver, ChatInput
  <2>. QED  BY <1>4, <2>1, <2>2
<1>9. CASE ChatSend
  <2>1. UNCHANGED resq /\ phase \in ChatSent  BY <1>9 DEF ChatSend, ChatSent
  <2>2. CASE Send(phase) /\ st' = "active"
    <3>1. ended' = ended  BY <1>9, GotoTo, DidWorkTo DEF ChatSend
    <3>2. phase' = "state" => remaining_budget' > 0
      <4>1. CASE DidWork(1, remaining_budget, ready)  BY <4>1, StartsFresh
      <4>2. CASE phase = "prompt" /\ worker # "gone"  BY <1>9, <4>1, <4>2 DEF ChatSend
      <4>3. CASE phase = "setchat" \/ phase = "op" \/ worker = "gone"
        <5>1. phase' \in {"deliver", "end", "finished"} \/ DidWork(1, remaining_budget, ready)
          BY <1>9, <4>3, GotoTo DEF ChatSend
        <5>. QED  BY <4>1, <5>1
      <4>. QED  BY <1>9, <4>2, <4>3 DEF ChatSend
    <3>3. ended = "no" => cmdq' \in Seq(ChatSent)  BY <1>1, <2>1, <2>2 DEF Send
    <3>. QED  BY <1>3, <2>2, <3>1, <3>2, <3>3
  <2>3. CASE UNCHANGED <<cmdq, st>>
             /\ Goto(IF phase = "setchat" THEN "deliver" ELSE "finished", remaining_budget, work_units)
    BY <1>4, <2>1, <2>3, GotoTo
  <2>. QED  BY <1>9, <2>2, <2>3 DEF ChatSend
<1>10. CASE ChatEnd
  <2>1. UNCHANGED <<st, cmdq, resq>>  BY <1>10 DEF ChatEnd, ioVars, channels
  <2>2. ended' = ended  BY <1>10, ResultTo DEF ChatEnd
  <2>3. phase' = "state" => remaining_budget' > 0
    <3>1. CASE work_units > 0
      <4>1. DidWork(work_units, remaining_budget, ready \/ inq[1] # <<>>)  BY <1>10, <3>1 DEF ChatEnd, Result
      <4>. QED  BY <4>1, StartsFresh
    <3>2. CASE ~(work_units > 0)  BY <1>10, <3>2, NoWorkTo DEF ChatEnd, Result
    <3>. QED  BY <3>1, <3>2
  <2>. QED  BY <1>4, <2>1, <2>2, <2>3
<1>11. CASE ChatDrop
  <2>1. ended' = phase /\ ended' # "no" /\ phase' = "retired" /\ UNCHANGED <<st, resq>>
    BY <1>11, RetireTo DEF ChatDrop
  <2>2. kind.dispatches = "no" => UNCHANGED cmdq  BY <1>11 DEF ChatDrop
  <2>. QED  BY <1>1, <1>3, <2>1, <2>2
<1>. QED  BY <1>5, <1>6, <1>7, <1>8, <1>9, <1>10, <1>11

\* Every step of a chat component.
LEMMA ChatSideStep ==
    ASSUME ChatSide, ChatInv, PhaseInv, PortInv, BudgetInv', [Next]_vars
    PROVE  ChatSide'
<1>1. UNCHANGED kind  BY KindStays DEF vars, nodeVars
<1> SUFFICES ASSUME IsChat PROVE ChatSide'  BY <1>1 DEF ChatSide, IsChat
<1>2. HasWorker /\ kind.family = "chat" /\ ~ComponentStep  BY ChatSteps DEF IsChat, HasWorker
<1>3. CASE (Neighbours /\ UNCHANGED ioVars) \/ UNCHANGED vars
  <2>1. UNCHANGED <<phase, remaining_budget, ended, st, cmdq, resq, worker>>
    BY <1>3, NeighboursCall DEF vars, nodeVars, ioVars, channels, call
  <2>. QED  BY <1>1, <2>1 DEF ChatSide, IsChat
<1>4. CASE Activate /\ UNCHANGED ioVars
  <2>1. UNCHANGED <<ended, st, cmdq, resq, worker>>  BY <1>4 DEF Activate, ioVars, channels
  <2>2. phase' = "state" => remaining_budget' > 0  BY <1>4, StartsFresh
  <2>. QED  BY <1>1, <2>1, <2>2 DEF ChatSide, IsChat
<1>5. CASE ChatStep  BY <1>1, <1>5, ChatWorkerSide, ChatProcessSide DEF ChatStep
<1>6. CASE WorkerStep /\ UNCHANGED dispatcher  BY <1>6, ChatWorkerSide
<1>. QED  BY <1>2, <1>3, <1>4, <1>5, <1>6, OwnSteps

-----------------------------------------------------------------------------
(* How the ends of a step keep a result awaited.                           *)

\* An empty channel, or a step back before the look at it.
LEMMA LookAwaited ==
    ASSUME UNCHANGED kind, resq' = <<>> \/ st' = "waiting" \/ phase' \in Looking \/ Due' \/ Signalling'
    PROVE  WakeInv'
BY DEF WakeInv, Awaited, Looking

\* A step of somebody else that takes no wakeup away.
LEMMA StillAwaited ==
    ASSUME WakeInv, UNCHANGED <<kind, phase, ended, did_work, work_units, st, resq, ready, wake>>,
           Signalling => Signalling'
    PROVE  WakeInv'
BY DEF WakeInv, Awaited, Due, Looking, Counts, IsChat

\* A step of process() after the look at the channel.
LEMMA GotoAwaited ==
    ASSUME WakeInv, UNCHANGED <<kind, worker, dispatcher, resq>>, st' = st \/ st' = "waiting",
           kind # Cmd, NEW next, NEW left, NEW units, Goto(next, left, units), next # "idle",
           work_units > 0 => units > 0, phase \notin Looking
    PROVE  WakeInv'
<1> SUFFICES ASSUME ended' = "no", st' # "waiting", resq' # <<>>, kind' # HTTPClient PROVE Awaited'
  BY DEF WakeInv
<1>1. ended = "no"  BY GotoTo
<1>2. Due \/ Signalling  BY <1>1 DEF WakeInv, Awaited
<1>. QED  BY <1>2, GotoDue DEF Awaited, Signalling

\* An activation that ends without work.
LEMMA NoWorkAwaited ==
    ASSUME WakeInv, UNCHANGED <<kind, st, worker, dispatcher, resq>>, wake => wake',
           ~(Counts /\ work_units > 0), NEW signalled, NoWork(signalled), ready => signalled,
           phase # "idle", phase \notin Looking
    PROVE  WakeInv'
<1> SUFFICES ASSUME ended' = "no", st' # "waiting", resq' # <<>>, kind' # HTTPClient PROVE Awaited'
  BY DEF WakeInv
<1>1. ended = "no"  BY NoWorkTo
<1>2. Due \/ Signalling \/ (kind = Cmd /\ wake)  BY <1>1 DEF WakeInv, Awaited
<1>3. CASE Due
  <2>1. ready \/ did_work  BY <1>3 DEF Due
  <2>. QED  BY <2>1, NoWorkDue DEF Awaited
<1>. QED  BY <1>2, <1>3 DEF Awaited, Signalling

\* The end of process() by the work counted.
LEMMA ResultAwaited ==
    ASSUME WakeInv, UNCHANGED <<kind, st, worker, dispatcher, resq>>, kind # Cmd,
           kind.first # "idle", NEW left, NEW signalled, Result(work_units, left, signalled),
           ready => signalled, phase # "idle", phase \notin Looking
    PROVE  WakeInv'
<1> SUFFICES ASSUME ended' = "no", st' # "waiting", resq' # <<>>, kind' # HTTPClient PROVE Awaited'
  BY DEF WakeInv
<1>1. ended = "no"  BY ResultTo
<1>2. Due \/ Signalling  BY <1>1 DEF WakeInv, Awaited
<1>. QED  BY <1>2, ResultDue DEF Awaited, Signalling

\* The end of the node.
LEMMA RetireAwaited == ASSUME NEW why, Retire(why), why # "no" PROVE WakeInv'
BY RetireTo DEF WakeInv

\* The components of Pollers are known by their family.
LEMMA PollersAre == ASSUME PortInv, kind.family = "poller" PROVE kind \in PollerKinds
BY KindsAssumption, FlowKinds, IoKindsAre, ChatKindsAre, ServerKindsAre
DEF PortInv, AllKinds, FlowKind, IoKind, ChatKind, ServerKind

\* An activation clears the ready flag, and its first call looks.
LEMMA ActivateAwaits ==
    ASSUME WakeInv, PortInv, NoResults, Activate, UNCHANGED <<ioVars, dispatcher>>
    PROVE  WakeInv'
<1>1. UNCHANGED <<kind, st, resq>> /\ phase' = kind.first  BY DEF Activate, ioVars, channels
<1>2. CASE kind.family \in {"dataflow", "server"} \/ kind = FileTailer
  BY <1>1, <1>2, LookAwaited DEF NoResults
<1>3. CASE kind.family \in {"connector", "session", "fetcher", "writer", "chat"}
  <2>1. kind.first \in Looking
    BY <1>3, KindIs DEF PortInv, FlowKind, IoKind, ChatKind, ServerKind, PollerKind, Looking
  <2>. QED  BY <1>1, <2>1, LookAwaited
<1>4. CASE kind \in {FileReader, Cmd}
  <2>1. kind.first \in Looking  BY <1>4, PollerNames DEF Looking
  <2>. QED  BY <1>1, <2>1, LookAwaited
<1>5. CASE kind = HTTPClient  BY <1>1, <1>5 DEF WakeInv
<1>6. \/ kind.family \in {"dataflow", "server", "connector", "session", "fetcher", "writer", "chat"}
      \/ kind \in PollerKinds
  BY KindIs, PollersAre DEF PortInv, FlowKind, IoKind, ChatKind, ServerKind, PollerKind
<1>. QED  BY <1>2, <1>3, <1>4, <1>5, <1>6 DEF PollerKinds

-----------------------------------------------------------------------------
(* The steps of each family.                                               *)

\* A connector has a result only while it is connecting.
LEMMA ConnectorResult ==
    ASSUME ChannelInv, EndedInv, kind.family = "connector", phase # "retired", st # "connecting"
    PROVE  resq = <<>>
<1>1. ChannelShape  BY DEF ChannelInv, EndedInv, Counted
<1>2. CASE st = "active"
  <2>1. inflight = 0 /\ inflight = Load /\ cmdq \in Seq({Job}) /\ IsVec(resq)
    BY <1>1, <1>2 DEF ChannelShape, JobsUnderWay
  <2>2. Len(cmdq) \in Nat /\ Len(resq) \in Nat /\ Serving \in Nat  BY <2>1, VecLens DEF Serving
  <2>3. Len(resq) = 0  BY <2>1, <2>2 DEF Load
  <2>. QED  BY <2>1, <2>3, VecLens
<1>3. CASE st # "active"  BY <1>1, <1>3 DEF ChannelShape
<1>. QED  BY <1>2, <1>3

\* The connectors.
LEMMA ConnectorAwaits ==
    ASSUME WakeInv, ChannelInv, EndedInv, PhaseInv, PortInv, kind.family = "connector",
           ComponentStep, UNCHANGED dispatcher
    PROVE  WakeInv'
<1>1. kind.first = "state" /\ kind # Cmd /\ kind # HTTPClient /\ Looking = {"state"}
      /\ kind.refuses \subseteq {"panicked", "finished", "dead"}
  BY PollerNames, KindIs
  DEF PortInv, FlowKind, IoKind, ChatKind, ServerKind, PollerKind, Looking
<1>2. CASE Connecting
  <2>1. UNCHANGED kind  BY <1>2 DEF Connecting
  <2>2. CASE resq = <<>>  BY <1>2, <2>1, <2>2, LookAwaited DEF Connecting
  <2>3. CASE DidWork(1, remaining_budget, ready)
    BY <1>1, <2>1, <2>3, DidWorkDue, LookAwaited
  <2>4. CASE Retire("finished")  BY <2>4, RetireAwaited
  <2>. QED  BY <1>2, <2>2, <2>3, <2>4 DEF Connecting
<1>3. CASE Waiting \/ Retrying
  <2>1. UNCHANGED <<kind, resq>> /\ st # "connecting" /\ phase # "retired"
    BY <1>3 DEF Waiting, Retrying
  <2>. QED  BY <2>1, ConnectorResult, LookAwaited
<1>4. CASE Finished  BY <1>4, RetireAwaited DEF Finished
<1>5. CASE ReadInput
  <2>1. UNCHANGED <<kind, resq>> /\ st # "connecting" /\ phase # "retired"
    BY <1>5 DEF ReadInput, channels
  <2>. QED  BY <2>1, ConnectorResult, LookAwaited
<1>6. CASE ConnectorEof
  <2>1. UNCHANGED <<kind, st, worker, resq>> /\ phase = "eof"
    BY <1>6 DEF ConnectorEof, ioVars, channels
  <2>2. CASE Retire("finished")  BY <2>2, RetireAwaited
  <2>3. CASE Result(work_units, remaining_budget, ready)
    BY <1>1, <2>1, <2>3, ResultAwaited
  <2>. QED  BY <1>6, <2>2, <2>3 DEF ConnectorEof
<1>. QED  BY <1>2, <1>3, <1>4, <1>5, <1>6, ConnectorSteps

\* IMAP sessions and fetchers.
LEMMA SessionAwaits ==
    ASSUME WakeInv, ChannelInv, EndedInv, PhaseInv, PortInv, BudgetInv,
           kind.family \in {"session", "fetcher"}, ComponentStep, UNCHANGED dispatcher
    PROVE  WakeInv'
<1>1. kind.first = "results" /\ kind # Cmd /\ kind # HTTPClient /\ Looking = {"results"} /\ ~Counts
  BY PollerNames, KindIs
  DEF PortInv, FlowKind, IoKind, ChatKind, ServerKind, PollerKind, Looking, Counts, IsChat
<1>2. work_units \in Nat  BY DEF BudgetInv
<1>3. work_units > 0 => work_units + 1 > 0  BY <1>2
<1>4. CASE TakeResult
  <2>1. UNCHANGED kind /\ phase' = "results"  BY <1>4, GotoTo DEF TakeResult
  <2>. QED  BY <1>1, <2>1, LookAwaited
<1>5. CASE TakeError  BY <1>5, RetireAwaited DEF TakeError, Leave
<1>6. CASE NoResult
  <2>1. UNCHANGED kind /\ resq' = <<>>  BY <1>6 DEF NoResult, ioVars, channels
  <2>. QED  BY <2>1, LookAwaited
<1>7. CASE Login
  <2>1. UNCHANGED <<kind, resq>> /\ phase = "state" /\ st = "waiting"  BY <1>7 DEF Login
  <2>2. ChannelShape  BY <2>1 DEF ChannelInv, EndedInv, Counted
  <2>3. resq = <<>>  BY <2>1, <2>2 DEF ChannelShape
  <2>. QED  BY <2>1, <2>3, LookAwaited
<1>8. CASE AwaitLogin
  <2>1. UNCHANGED <<kind, st, worker, resq, wake>> /\ phase = "state"
    BY <1>8 DEF AwaitLogin, ioVars, channels
  <2>2. CASE NoWork(ready)  BY <1>1, <2>1, <2>2, NoWorkAwaited
  <2>3. CASE Goto("end", remaining_budget, work_units)  BY <1>1, <2>1, <2>3, GotoAwaited
  <2>. QED  BY <1>8, <2>2, <2>3 DEF AwaitLogin, SettleUnconnected
<1>9. CASE PushFetched \/ Poll \/ TakeInput \/ Submit
  <2>1. UNCHANGED <<kind, st, worker, resq>> /\ phase \in {"push", "state", "submit"}
    BY <1>9 DEF PushFetched, Poll, TakeInput, Submit, channels
  <2>2. \E next \in {"push", "state", "end", "submit"}, left \in {remaining_budget, remaining_budget - 1},
           units \in {work_units, work_units + 1} : Goto(next, left, units)
    BY <1>9 DEF PushFetched, Poll, TakeInput, Submit
  <2>3. ASSUME NEW next \in {"push", "state", "end", "submit"}, NEW left,
               NEW units \in {work_units, work_units + 1}, Goto(next, left, units)
        PROVE  WakeInv'
    BY <1>1, <1>3, <2>1, <2>3, GotoAwaited
  <2>. QED  BY <2>2, <2>3
<1>10. CASE EndSession
  <2>1. UNCHANGED <<kind, worker, resq>> /\ phase = "end"  BY <1>10 DEF EndSession
  <2>2. CASE SessionOver  BY <1>10, <2>2, RetireAwaited DEF EndSession, Leave
  <2>3. CASE ~SessionOver
    <3>1. UNCHANGED st  BY <1>10, <2>3 DEF EndSession
    <3>2. PICK signalled : Result(work_units, remaining_budget, signalled) /\ (ready => signalled)
      BY <1>10, <2>3 DEF EndSession
    <3>. QED  BY <1>1, <2>1, <3>1, <3>2, ResultAwaited
  <2>. QED  BY <2>2, <2>3
<1>. QED  BY <1>4, <1>5, <1>6, <1>7, <1>8, <1>9, <1>10, SessionSteps, FetcherSteps

\* FileWriter.
LEMMA WriterAwaits ==
    ASSUME WakeInv, PortInv, BudgetInv, kind.family = "writer",
           StartWriter \/ WriterResults \/ SubmitWrite \/ EndWriter, UNCHANGED dispatcher
    PROVE  WakeInv'
<1>1. kind.first = "state" /\ kind # Cmd /\ kind # HTTPClient /\ Looking = {"state", "results"}
  BY PollerNames, KindIs
  DEF PortInv, FlowKind, IoKind, ChatKind, ServerKind, PollerKind, Looking
<1>2. work_units \in Nat  BY DEF BudgetInv
<1>3. work_units > 0 => work_units + 1 > 0  BY <1>2
<1>4. CASE StartWriter
  <2>1. UNCHANGED kind  BY <1>4 DEF StartWriter
  <2>2. CASE phase' = "results" \/ st' = "waiting"  BY <1>1, <2>1, <2>2, LookAwaited
  <2>3. CASE Retire("panicked")  BY <2>3, RetireAwaited
  <2>. QED  BY <1>4, <2>2, <2>3, GotoTo DEF StartWriter
<1>5. CASE WriterResults
  <2>1. UNCHANGED kind  BY <1>5 DEF WriterResults
  <2>2. phase' = "results" \/ resq' = <<>>  BY <1>5, GotoTo DEF WriterResults
  <2>. QED  BY <1>1, <2>1, <2>2, LookAwaited
<1>6. CASE SubmitWrite
  <2>1. UNCHANGED <<kind, worker, resq>> /\ phase = "submit" /\ (st' = st \/ st' = "waiting")
    BY <1>6 DEF SubmitWrite
  <2>2. CASE Goto("submit", remaining_budget - 1, work_units + 1)
    BY <1>1, <1>3, <2>1, <2>2, GotoAwaited
  <2>3. CASE Goto("end", remaining_budget, work_units)  BY <1>1, <2>1, <2>3, GotoAwaited
  <2>. QED  BY <1>6, <2>2, <2>3 DEF SubmitWrite
<1>7. CASE EndWriter
  <2>1. UNCHANGED <<kind, st, worker, resq>> /\ phase = "end"
    BY <1>7 DEF EndWriter, ioVars, channels
  <2>2. CASE Retire("finished")  BY <2>2, RetireAwaited
  <2>3. CASE Result(work_units, remaining_budget, ready)  BY <1>1, <2>1, <2>3, ResultAwaited
  <2>. QED  BY <1>7, <2>2, <2>3 DEF EndWriter
<1>. QED  BY <1>4, <1>5, <1>6, <1>7

\* The worker and the dispatcher of a chat component.
LEMMA ChatWorkerAwaits ==
    ASSUME WakeInv, ChatSide, ChatInv, PortInv, IsChat,
           ChatApply \/ ChatLogin \/ ChatOperate \/ ChatShutdown \/ Dispatch \/ DispatcherWake
    PROVE  WakeInv'
<1>1. ASSUME UNCHANGED nodeVars, UNCHANGED <<st, resq>>, Signalling => Signalling' PROVE WakeInv'
  <2>1. UNCHANGED <<kind, phase, ended, did_work, work_units, ready, wake>>
    BY <1>1 DEF nodeVars, timing, call
  <2>. QED  BY <1>1, <2>1, StillAwaited
<1>2. ASSUME UNCHANGED nodeVars, Signalling' PROVE WakeInv'
  BY <1>2, LookAwaited DEF nodeVars
<1>3. CASE ChatApply  BY <1>1, <1>3 DEF ChatApply, Signalling
<1>4. CASE ChatLogin  BY <1>1, <1>2, <1>4 DEF ChatLogin, Signalling
<1>5. CASE ChatOperate
  <2>1. CASE worker' = "wake"  BY <1>2, <1>5, <2>1 DEF ChatOperate, Signalling
  <2>2. CASE worker' = "gone" /\ kind.breaks /\ UNCHANGED resq
    <3>1. kind.dispatches \in {"no", "within"}  BY <2>2, ChatIs
    <3>2. dispatcher # "wake"
      BY <1>5, <3>1 DEF ChatOperate, WorkerRuns, ChatInv, AnswersOnly
    <3>3. ~Signalling  BY <1>5, <3>2 DEF ChatOperate, Signalling
    <3>. QED  BY <1>1, <1>5, <2>2, <3>3 DEF ChatOperate
  <2>. QED  BY <1>5, <2>1, <2>2 DEF ChatOperate
<1>6. CASE ChatShutdown
  <2>1. ended # "no" /\ UNCHANGED ended
    BY <1>6 DEF ChatShutdown, ChatSide, nodeVars, call
  <2>. QED  BY <2>1 DEF WakeInv
<1>7. CASE Dispatch  BY <1>1, <1>2, <1>7 DEF Dispatch, Signalling
<1>8. CASE DispatcherWake
  BY <1>8 DEF DispatcherWake, call, WakeInv, Awaited, Due
<1>. QED  BY <1>3, <1>4, <1>5, <1>6, <1>7, <1>8

\* Its process().
LEMMA ChatAwaits ==
    ASSUME WakeInv, ChatSide, PortInv, BudgetInv, IsChat, UNCHANGED kind,
           \/ ChatWaiting \/ ChatPrompt \/ ChatResult \/ ChatDeliver \/ ChatInput \/ ChatSend
           \/ ChatEnd \/ ChatDrop
    PROVE  WakeInv'
<1>1. /\ kind.first = "state" /\ kind # Cmd /\ kind # HTTPClient /\ Counts
      /\ Looking = {"state", "setchat", "deliver", "finished", "panicked"}
  BY PollerNames, ChatIs DEF Looking, Counts, IsChat
<1>2. work_units \in Nat  BY DEF BudgetInv
<1>3. work_units + 1 > 0  BY <1>2
<1>4. ASSUME phase' \in {"setchat", "deliver", "finished", "panicked"} PROVE WakeInv'
  BY <1>1, <1>4, LookAwaited
<1>5. ASSUME NEW units, NEW left, NEW signalled, DidWork(units, left, signalled) PROVE WakeInv'
  BY <1>1, <1>5, DidWorkDue, LookAwaited
<1>6. ASSUME NEW next, NEW left, Goto(next, left, work_units + 1), next # "idle" PROVE WakeInv'
  <2>1. Due'  BY <1>1, <1>3, <1>6, GotoDue
  <2>. QED  BY <2>1, LookAwaited
<1>7. CASE ChatWaiting
  <2>1. CASE NoWork(ready) /\ UNCHANGED st  BY <1>7, <2>1, LookAwaited DEF ChatWaiting
  <2>2. CASE DidWork(1, remaining_budget, ready)  BY <1>5, <2>2
  <2>3. CASE Goto("panicked", remaining_budget, work_units)  BY <1>4, <2>3, GotoTo
  <2>. QED  BY <1>7, <2>1, <2>2, <2>3 DEF ChatWaiting
<1>8. CASE ChatPrompt
  <2>1. resq' = <<>>  BY <1>8 DEF ChatPrompt, ChatSide, ioVars, channels
  <2>. QED  BY <2>1, LookAwaited
<1>9. CASE ChatResult
  <2>1. remaining_budget > 0  BY <1>9 DEF ChatResult, ChatSide
  <2>2. CASE resq = <<>>
    <3>1. resq' = <<>>  BY <1>9, <2>2 DEF ChatResult
    <3>. QED  BY <3>1, LookAwaited
  <2>3. CASE resq # <<>>
    <3>1. CASE Goto("input", remaining_budget - 1, work_units + 1)  BY <1>6, <3>1
    <3>2. CASE Goto(IF kind.name = "TelegramBot" THEN "setchat" ELSE "deliver",
                    remaining_budget, work_units)
      BY <1>4, <3>2, GotoTo
    <3>. QED  BY <1>9, <2>1, <2>3, <3>1, <3>2 DEF ChatResult
  <2>. QED  BY <2>2, <2>3
<1>10. CASE ChatDeliver
  <2>1. CASE Goto("input", remaining_budget - 1, work_units + 1)  BY <1>6, <2>1
  <2>2. CASE Goto("finished", remaining_budget, work_units)  BY <1>4, <2>2, GotoTo
  <2>. QED  BY <1>10, <2>1, <2>2 DEF ChatDeliver
<1>11. CASE ChatInput
  <2>1. UNCHANGED <<st, worker, resq, dispatcher>> /\ phase = "input"
    BY <1>11 DEF ChatInput, ioVars, channels
  <2>2. ASSUME NEW next \in {"op", "end"}, Goto(next, remaining_budget, work_units) PROVE WakeInv'
    BY <1>1, <2>1, <2>2, GotoAwaited
  <2>3. CASE Goto("panicked", remaining_budget, work_units)  BY <1>4, <2>3, GotoTo
  <2>. QED  BY <1>11, <2>2, <2>3 DEF ChatInput
<1>12. CASE ChatSend
  <2>1. CASE phase = "prompt"
    <3>1. DidWork(1, remaining_budget, ready) \/ phase' = "finished"
      BY <1>12, <2>1, GotoTo DEF ChatSend
    <3>. QED  BY <1>4, <1>5, <3>1
  <2>2. CASE phase = "setchat"
    <3>1. phase' = "deliver"  BY <1>12, <2>2, GotoTo DEF ChatSend
    <3>. QED  BY <1>4, <3>1
  <2>3. CASE phase = "op"
    <3>1. Goto("end", remaining_budget - 1, work_units + 1) \/ phase' = "finished"
      BY <1>12, <2>3, GotoTo DEF ChatSend
    <3>. QED  BY <1>4, <1>6, <3>1
  <2>. QED  BY <1>12, <2>1, <2>2, <2>3 DEF ChatSend
<1>13. CASE ChatEnd
  <2>1. UNCHANGED <<st, worker, resq, dispatcher>> /\ phase = "end"
    BY <1>13 DEF ChatEnd, ioVars, channels
  <2>2. PICK signalled : Result(work_units, remaining_budget, signalled) /\ (ready => signalled)
    BY <1>13 DEF ChatEnd
  <2>. QED  BY <1>1, <2>1, <2>2, ResultAwaited
<1>14. CASE ChatDrop
  <2>1. Retire(phase) /\ phase # "no"  BY <1>14 DEF ChatDrop
  <2>. QED  BY <2>1, RetireAwaited
<1>. QED  BY <1>7, <1>8, <1>9, <1>10, <1>11, <1>12, <1>13, <1>14

\* FileReader: a result it has no budget for waits until the next call.
LEMMA ReaderAwaits ==
    ASSUME WakeInv, ReaderInv, PortInv, BudgetInv, kind = FileReader, UNCHANGED dispatcher,
           TakeName \/ FlushPending \/ ReadFile \/ FinishRead \/ EndPoll \/ WakeForLine
    PROVE  WakeInv'
<1>1. /\ kind.first = "names" /\ kind # Cmd /\ Counts
      /\ Looking = {"names", "flush", "read", "load", "run", "exit"}
  BY PollerNames DEF Looking, Counts
<1>2. UNCHANGED kind
  BY DEF TakeName, FlushPending, ReadFile, FinishRead, EndPoll, WakeForLine, nodeVars
<1>3. CASE TakeName \/ FlushPending
  <2>1. phase' \in {"flush", "read"}  BY <1>3, GotoTo DEF TakeName, FlushPending
  <2>. QED  BY <1>1, <1>2, <2>1, LookAwaited
<1>4. CASE ReadFile  BY <1>2, <1>4, LookAwaited DEF ReadFile, Signalling
<1>5. CASE WakeForLine
  BY <1>5 DEF WakeForLine, call, WakeInv, Awaited, Due
<1>6. CASE FinishRead
  <2>1. CASE resq' = <<>>  BY <1>2, <2>1, LookAwaited
  <2>2. CASE resq' # <<>>
    <3>1. ~(remaining_budget > 0) /\ phase = "read" /\ Goto("end", remaining_budget, work_units)
      BY <1>6, <2>2 DEF FinishRead
    <3>2. work_units > 0  BY <3>1 DEF ReaderInv
    <3>3. Due'  BY <1>1, <1>2, <3>1, <3>2, GotoDue
    <3>. QED  BY <1>2, <3>3, LookAwaited
  <2>. QED  BY <2>1, <2>2
<1>7. CASE EndPoll
  <2>1. UNCHANGED <<st, worker, resq>> /\ phase = "end"  BY <1>7 DEF EndPoll, ioVars, channels
  <2>2. CASE work_units > 0
    BY <1>1, <1>2, <1>7, <2>2, DidWorkDue, LookAwaited DEF EndPoll
  <2>3. CASE Retire("finished")  BY <2>3, RetireAwaited
  <2>4. CASE ~(work_units > 0) /\ wake' = TRUE /\ NoWork(ready)
    BY <1>1, <1>2, <2>1, <2>4, NoWorkAwaited
  <2>. QED  BY <1>7, <2>2, <2>3, <2>4 DEF EndPoll
<1>. QED  BY <1>3, <1>4, <1>5, <1>6, <1>7

\* Cmd: a call that leaves lines behind has counted work or arms the timer.
LEMMA CmdAwaits ==
    ASSUME WakeInv, CmdInv, PortInv, BudgetInv, kind = Cmd, UNCHANGED dispatcher,
           \/ LoadConfig \/ StartChild \/ ChildRuns \/ TakeLine \/ CheckChild \/ ResetChild \/ CmdEof
           \/ WakeForLine
    PROVE  WakeInv'
<1>1. /\ kind.first = "load" /\ kind # FileReader /\ ~Counts
      /\ Looking = {"names", "flush", "read", "load", "run", "exit"}
  BY PollerNames DEF Looking, Counts, IsChat
<1>2. UNCHANGED kind
  BY DEF LoadConfig, StartChild, ChildRuns, TakeLine, CheckChild, ResetChild, CmdEof, WakeForLine,
     nodeVars
<1>3. CASE LoadConfig
  <2>1. UNCHANGED resq  BY <1>3 DEF LoadConfig, channels
  <2>2. CASE phase' = "run"  BY <1>1, <1>2, <2>2, LookAwaited
  <2>3. CASE Retire("panicked")  BY <2>3, RetireAwaited
  <2>4. CASE conf # "got" \/ st = "unconfigured"
    <3>1. resq = <<>>  BY <2>4 DEF CmdInv
    <3>. QED  BY <1>2, <2>1, <3>1, LookAwaited
  <2>. QED  BY <1>3, <2>2, <2>3, <2>4, GotoTo DEF LoadConfig
<1>4. CASE StartChild
  <2>1. resq' = <<>>  BY <1>4 DEF StartChild, CmdInv
  <2>. QED  BY <1>2, <2>1, LookAwaited
<1>5. CASE ChildRuns
  <2>1. UNCHANGED <<phase, ended, did_work, work_units, ready, wake, st>>
    BY <1>5 DEF ChildRuns, nodeVars, timing, call
  <2>2. CASE worker' = "wake"  BY <1>2, <2>2, LookAwaited DEF Signalling
  <2>3. CASE worker' # "wake"
    <3>1. UNCHANGED resq /\ (Signalling => Signalling')
      BY <1>5, <2>3 DEF ChildRuns, Signalling
    <3>. QED  BY <1>2, <2>1, <3>1, StillAwaited
  <2>. QED  BY <2>2, <2>3
<1>6. CASE TakeLine
  <2>1. phase' = "exit"  BY <1>6, GotoTo DEF TakeLine
  <2>. QED  BY <1>1, <1>2, <2>1, LookAwaited
<1>7. CASE CheckChild
  <2>1. CASE work_units > 0
    <3>1. PICK signalled : DidWork(work_units, remaining_budget, signalled)
      BY <1>7, <2>1 DEF CheckChild
    <3>. QED  BY <1>1, <1>2, <3>1, DidWorkDue, LookAwaited
  <2>2. CASE ~(work_units > 0)  BY <1>2, <1>7, <2>2 DEF CheckChild, WakeInv, Awaited
  <2>. QED  BY <2>1, <2>2
<1>8. CASE ResetChild
  <2>1. resq' = <<>>  BY <1>8 DEF ResetChild, CmdInv
  <2>. QED  BY <1>2, <2>1, LookAwaited
<1>9. CASE CmdEof
  <2>1. UNCHANGED <<st, worker, resq, wake>> /\ phase = "eof"
    BY <1>9 DEF CmdEof, ioVars, channels
  <2>2. CASE Retire("finished")  BY <2>2, RetireAwaited
  <2>3. CASE NoWork(ready)  BY <1>1, <1>2, <2>1, <2>3, NoWorkAwaited
  <2>. QED  BY <1>9, <2>2, <2>3 DEF CmdEof
<1>10. CASE WakeForLine  BY <1>10 DEF WakeForLine, call, WakeInv, Awaited, Due
<1>. QED  BY <1>3, <1>4, <1>5, <1>6, <1>7, <1>8, <1>9, <1>10

-----------------------------------------------------------------------------
(* The invariant and the theorem.                                          *)

SideInv == PollPhases /\ NoResults /\ ReaderInv /\ CmdInv /\ ChatSide /\ WakeInv

\* A node at its start.
LEMMA SideInvInit == Init => SideInv
<1> SUFFICES ASSUME Init PROVE SideInv  OBVIOUS
<1>1. /\ phase = "idle" /\ st = "waiting" /\ resq = <<>> /\ cmdq = <<>> /\ ended = "no"
      /\ worker = IF kind.family \in {"writer", "dataflow", "server", "poller"} THEN "none" ELSE "recv"
  BY DEF Init, NodeInit, IoInit
<1>2. PollPhases  BY <1>1 DEF PollPhases
<1>3. NoResults  BY <1>1, PollerNames DEF NoResults
<1>4. ReaderInv  BY <1>1, PollerNames DEF ReaderInv
<1>5. CmdInv  BY <1>1 DEF CmdInv
<1>6. ChatSide  BY <1>1 DEF ChatSide, IsChat
<1>7. WakeInv  BY <1>1 DEF WakeInv
<1>. QED  BY <1>2, <1>3, <1>4, <1>5, <1>6, <1>7 DEF SideInv

\* The parts of the invariant that only some components are subject to.
LEMMA SidesStep ==
    ASSUME ComponentInv, BudgetInv', WorkerInv, SideInv, [Next]_vars
    PROVE  PollPhases' /\ NoResults' /\ ReaderInv' /\ CmdInv' /\ ChatSide'
<1>1. UNCHANGED kind  BY KindStays DEF vars, nodeVars
<1>2. NoResults'  BY NoResultsStep DEF SideInv
<1>3. ChatSide'  BY ChatSideStep DEF SideInv, ComponentInv, WorkerInv
<1>4. CASE kind = FileReader
  <2>1. PollPhases' /\ ReaderInv'  BY <1>4, ReaderStep DEF SideInv, ComponentInv
  <2>2. CmdInv'  BY <1>1, <1>4, PollerNames DEF CmdInv
  <2>. QED  BY <1>2, <1>3, <2>1, <2>2
<1>5. CASE kind = Cmd
  <2>1. PollPhases' /\ CmdInv'  BY <1>5, CmdStep DEF SideInv, ComponentInv
  <2>2. ReaderInv'  BY <1>1, <1>5, PollerNames DEF ReaderInv
  <2>. QED  BY <1>2, <1>3, <2>1, <2>2
<1>6. CASE kind # FileReader /\ kind # Cmd
  <2>1. ReaderInv' /\ CmdInv'  BY <1>1, <1>6 DEF ReaderInv, CmdInv
  <2>2. CASE kind.family = "writer"
    <3>1. PollPhases'  BY <2>2, WriterStep DEF SideInv, ComponentInv
    <3>. QED  BY <1>2, <1>3, <2>1, <3>1
  <2>3. CASE kind.family # "writer"
    <3>1. PollPhases'  BY <1>1, <1>6, <2>3 DEF PollPhases
    <3>. QED  BY <1>2, <1>3, <2>1, <3>1
  <2>. QED  BY <2>2, <2>3
<1>. QED  BY <1>4, <1>5, <1>6

\* Every step keeps the results awaited.
LEMMA WakeStep ==
    ASSUME ComponentInv, WorkerInv, SideInv, [Next]_vars
    PROVE  WakeInv'
<1>1. UNCHANGED kind  BY KindStays DEF vars, nodeVars
<1>2. /\ PortInv /\ BudgetInv /\ PhaseInv /\ ChatInv /\ ChannelInv /\ EndedInv
      /\ PollPhases /\ NoResults /\ ReaderInv /\ CmdInv /\ ChatSide /\ WakeInv
  BY DEF ComponentInv, WorkerInv, SideInv
<1>3. CASE UNCHANGED vars
  BY <1>2, <1>3, StillAwaited DEF vars, nodeVars, timing, call, ioVars, channels, Signalling
<1>4. CASE Neighbours /\ UNCHANGED <<ioVars, dispatcher>>  BY <1>2, <1>4, NeighboursAwait
<1>5. CASE Activate /\ UNCHANGED <<ioVars, dispatcher>>  BY <1>2, <1>5, ActivateAwaits
<1>6. CASE WorkerStep /\ UNCHANGED dispatcher  BY <1>2, <1>6, WorkerAwaits
<1>7. CASE HasWorker /\ Next
  <2>1. CASE ComponentStep /\ UNCHANGED dispatcher
    BY <1>2, <1>7, <2>1, ConnectorAwaits, SessionAwaits, ChatSteps DEF HasWorker
  <2>2. CASE ChatStep
    <3>1. IsChat
      BY <2>2 DEF ChatStep, ChatApply, ChatLogin, ChatOperate, ChatShutdown, Dispatch,
         DispatcherWake, ChatWaiting, ChatPrompt, ChatResult, ChatDeliver, ChatInput, ChatSend,
         ChatEnd, ChatDrop
    <3>. QED  BY <1>1, <1>2, <2>2, <3>1, ChatWorkerAwaits, ChatAwaits DEF ChatStep
  <2>. QED  BY <1>2, <1>4, <1>5, <1>6, <1>7, <2>1, <2>2, OwnSteps
<1>8. CASE kind.family = "writer" /\ Next
  BY <1>2, <1>4, <1>5, <1>6, <1>8, WriterSteps, WriterAwaits
<1>9. CASE (kind = FileReader \/ kind = Cmd) /\ Next
  <2>1. UNCHANGED dispatcher  BY <1>2, <1>9, PollSteps
  <2>2. CASE Neighbours /\ UNCHANGED ioVars  BY <1>4, <2>1, <2>2
  <2>3. CASE Activate /\ UNCHANGED ioVars  BY <1>5, <2>1, <2>3
  <2>4. CASE kind = FileReader /\ (TakeName \/ FlushPending \/ ReadFile \/ FinishRead \/ EndPoll
                                   \/ WakeForLine)
    BY <1>2, <2>1, <2>4, ReaderAwaits
  <2>5. CASE kind = Cmd /\ (LoadConfig \/ StartChild \/ ChildRuns \/ TakeLine \/ CheckChild
                            \/ ResetChild \/ CmdEof \/ WakeForLine)
    BY <1>2, <2>1, <2>5, CmdAwaits
  <2>. QED  BY <1>2, <1>9, <2>2, <2>3, <2>4, <2>5, PollSteps
<1>10. CASE kind.family \in {"dataflow", "server"} \/ kind = FileTailer
  <2>1. NoResults'  BY <1>2, NoResultsStep
  <2>2. resq' = <<>>  BY <1>1, <1>10, <2>1 DEF NoResults
  <2>. QED  BY <2>2 DEF WakeInv
<1>11. CASE kind = HTTPClient  BY <1>1, <1>11 DEF WakeInv
<1>12. HasWorker \/ kind.family \in {"dataflow", "server", "writer"} \/ kind \in PollerKinds
  BY <1>2, KindIs, PollersAre
  DEF PortInv, FlowKind, IoKind, ChatKind, ServerKind, PollerKind, HasWorker
<1>. QED
  BY <1>3, <1>7, <1>8, <1>9, <1>10, <1>11, <1>12 DEF PollerKinds

\* The invariant holds.
LEMMA SideInvHolds == Spec => []SideInv
<1>1. Init => SideInv  BY SideInvInit
<1>2. ComponentInv /\ ComponentInv' /\ WorkerInv /\ SideInv /\ [Next]_vars => SideInv'
  <2> SUFFICES ASSUME ComponentInv, ComponentInv', WorkerInv, SideInv, [Next]_vars PROVE SideInv'
    OBVIOUS
  <2>1. BudgetInv'  BY DEF ComponentInv
  <2>. QED  BY <2>1, SidesStep, WakeStep DEF SideInv
<1>. QED  BY <1>1, <1>2, ComponentInvHolds, WorkerInvHolds, PTL DEF Spec

\* A result in the channel of a component whose node sleeps, sent by a worker
\* thread, a child's reader or a dispatcher task, has its wake_scheduler() call
\* still to come, or Cmd's timer: none is left unread because its wakeup came
\* too early or was taken by a call that did not look.
THEOREM ResultsAreAwaited == Spec => []ResultsWakeNode
<1>1. SideInv => ResultsWakeNode
  <2> SUFFICES ASSUME WakeInv, Asleep, st # "waiting", resq # <<>>, kind # HTTPClient
               PROVE  \/ worker \in {"wake", "lastwake", "login"} \/ dispatcher = "wake"
                      \/ kind = Cmd /\ wake
    BY DEF SideInv, ResultsWakeNode
  <2>1. phase = "idle" /\ ~ready /\ ended = "no"  BY DEF Asleep
  <2>2. Awaited  BY <2>1 DEF WakeInv
  <2>3. ~Due  BY <2>1 DEF Due
  <2>4. phase \notin Looking  BY <2>1 DEF Looking
  <2>. QED  BY <2>2, <2>3, <2>4 DEF Awaited, Signalling
<1>. QED  BY <1>1, SideInvHolds, PTL

-----------------------------------------------------------------------------
(* No component falls asleep for good (KeepsGoing).  What an idle node is  *)
(* waiting for is fixed while its process() runs: the invariants below say *)
(* at which phases of a call what is at hand is still to be looked at, and *)
(* that a node which then comes to rest is ready or has what wakes it.     *)

\* The node is ready again when a call that did work was its last.
LEMMA DidWorkReady ==
    ASSUME NEW units, NEW left, NEW signalled, DidWork(units, left, signalled)
    PROVE  /\ (phase' = "idle" /\ ready') \/ phase' = kind.first
           /\ ended' = ended
BY DEF DidWork, Settle

\* An activation without work leaves it ready if it was signalled meanwhile.
LEMMA NoWorkReady ==
    ASSUME NEW signalled, NoWork(signalled)
    PROVE  phase' = "idle" /\ ended' = ended /\ (signalled => ready')
BY DEF NoWork, Settle

\* Either of them.
LEMMA ResultReady ==
    ASSUME NEW units, NEW left, NEW signalled, Result(units, left, signalled)
    PROVE  /\ (phase' = "idle" /\ (units > 0 \/ signalled => ready')) \/ phase' = kind.first
           /\ ended' = ended
<1>1. CASE units > 0  BY <1>1, DidWorkReady DEF Result
<1>2. CASE ~(units > 0)  BY <1>2, NoWorkReady DEF Result
<1>. QED  BY <1>1, <1>2

\* A step inside process() leaves the flag alone.
LEMMA GotoReady ==
    ASSUME NEW next, NEW left, NEW units, Goto(next, left, units)
    PROVE  /\ phase' = next /\ remaining_budget' = left /\ work_units' = units
           /\ ready' = ready /\ ended' = ended
BY DEF Goto

\* Neighbours never take the ready flag away, and a timer only for it.
LEMMA NeighboursReady ==
    ASSUME Neighbours, ended = "no"
    PROVE  /\ UNCHANGED <<kind, call>>
           /\ ready => ready'
           /\ wake => wake' \/ (ready' /\ phase = "idle")
           /\ fired => fired'
           /\ wake => wake' \/ fired'
           /\ ready' \/ UNCHANGED <<inq, conf, wake>>
           /\ conf' = conf \/ (conf = "none" /\ conf' = "queued" /\ ready')
<1>1. UNCHANGED <<kind, call>>  BY NeighboursCall
<1>2. CASE Feed
  <2>1. UNCHANGED <<conf, wake, fired>> /\ ready' = TRUE  BY <1>2 DEF Feed
  <2>. QED  BY <1>1, <2>1
<1>3. CASE Configure  BY <1>1, <1>3 DEF Configure
<1>4. CASE TimerFires  BY <1>1, <1>4 DEF TimerFires, edges
<1>5. CASE Close \/ Drain
  <2>1. UNCHANGED <<inq, conf, ready, wake, fired>>  BY <1>5 DEF Close, Drain, timing
  <2>. QED  BY <1>1, <2>1
<1>. QED  BY <1>2, <1>3, <1>4, <1>5 DEF Neighbours

-----------------------------------------------------------------------------
(* The dataflow components.                                                *)

\* A call that has used up its budget has counted work.
SpendInv ==
    IsDataflow /\ ended = "no" /\ phase # "idle" => remaining_budget > 0 \/ work_units > 0

\* A component that reads on when an out-edge is full, and has what
\* configuration it needs.
Thorough ==
    /\ kind.full \notin {"keepBreak", "dropBreak", "dropOne"}
    /\ kind.config = "none" \/ conf = "got"

\* The phases in which its input is still to be read.
Reading == {"config", "flush", "work", "emit", "release", "take"}

\* Only connected in-edges carry messages, and input that a call has not read is
\* read later in the call, or was left for want of budget, or left to a node
\* that signals itself.
ReadInv ==
    IsDataflow /\ ended = "no" =>
        /\ open \subseteq kind.inports /\ \A p \in InPorts \ kind.inports : inq[p] = <<>>
        /\ phase = "config" => kind.config # "none"
        /\ Thorough /\ inq[1] # <<>> =>
              \/ ready \/ phase \in Reading
              \/ phase \in {"report", "eof"} /\ (work_units > 0 \/ kind.repoll)

\* Delay rests with its timer armed while it holds packets, and Cron has a timer
\* or has it just fired while it has a schedule.
TimerInv ==
    IsDataflow /\ ended = "no" =>
        /\ kind = Delay /\ phase = "idle" /\ pending # <<>> => wake \/ ready
        /\ kind = Cron /\ next_fire_time => wake \/ fired
        /\ kind = Cron /\ phase = "idle" /\ conf = "got" => wake \/ ready

\* Cron has a schedule, no input, and a timer only for its next tick.
LEMMA CronIs == /\ Cron.steps = "tick" /\ Cron.full = "retry" /\ Cron.inports = {} /\ Cron.eof = "any"
                /\ Cron # Delay
BY DelayIs DEF Cron, Configured, Plain

\* A step of the component is a step of a node that runs.
LEMMA FlowRuns ==
    ASSUME IsDataflow, StepsInv, DataflowStep
    PROVE  phase \notin {"idle", "retired"} /\ ended = "no"
<1>1. phase \notin {"idle", "retired"}
  BY DEF DataflowStep, TakeConfig, Flush, EndLoop, Forward, Eof, ReadParts, EmitResult, EmitLine,
     ReadChunk, Report, CountEof, DelayLoop, Release, TakeDelayed, DelayEof, CronRetry, CronTick,
     CronIdle
<1>. QED  BY <1>1 DEF StepsInv

\* What a loop leaves behind when it ends.
LEMMA LeaveLoopGoes ==
    ASSUME NEW left, NEW units, LeaveLoop(left, units)
    PROVE  Goto("work", left, units) \/ Goto(AfterLoop, left, units)
BY DEF LeaveLoop

\* The budget goes down only for work that is counted.
LEMMA SpendStep ==
    ASSUME IsDataflow, StepsInv, SpendInv, PortInv, VecsInv, BudgetInv, BudgetInv', Next
    PROVE  SpendInv'
<1>1. UNCHANGED kind  BY KindStays
<1>2. work_units \in Nat /\ remaining_budget \in Nat /\ work_units' \in Nat  BY DEF BudgetInv
<1>3. ASSUME remaining_budget' > 0 \/ work_units' > 0 \/ phase' = "idle" \/ ended' # "no"
      PROVE  SpendInv'
  BY <1>3 DEF SpendInv
<1>4. ASSUME Neighbours PROVE SpendInv'
  BY <1>1, <1>4, NeighboursCall DEF SpendInv, IsDataflow, call
<1>5. ASSUME Activate PROVE SpendInv'  BY <1>3, <1>5, StartsFresh
<1> SUFFICES ASSUME DataflowStep PROVE SpendInv'  BY <1>4, <1>5, FlowSteps
<1>6. remaining_budget > 0 \/ work_units > 0  BY FlowRuns DEF SpendInv
<1>7. ASSUME NEW next, Goto(next, remaining_budget, work_units) PROVE SpendInv'
  BY <1>3, <1>6, <1>7, GotoReady
<1>8. ASSUME NEW next, NEW left, Goto(next, left, work_units + 1) PROVE SpendInv'
  <2>1. work_units + 1 > 0  BY <1>2
  <2>. QED  BY <1>3, <1>8, <2>1, GotoReady
<1>9. ASSUME NEW units, NEW left, NEW signalled, DidWork(units, left, signalled) PROVE SpendInv'
  BY <1>3, <1>9, StartsFresh
<1>10. ASSUME NEW signalled, NoWork(signalled) PROVE SpendInv'  BY <1>3, <1>10, NoWorkTo
<1>11. ASSUME NEW units, NEW left, NEW signalled, Result(units, left, signalled) PROVE SpendInv'
  BY <1>9, <1>10, <1>11 DEF Result
<1>12. ASSUME NEW why \in {"finished", "panicked"}, Retire(why) PROVE SpendInv'
  BY <1>3, <1>12, RetireTo
<1>13. FlowRecord(kind) /\ FlowKind(kind)  BY FlowIs
<1>14. ASSUME NEW next, NEW cost \in {0, 1},
              Goto(next, remaining_budget, work_units + cost)
              \/ Goto(next, remaining_budget - cost, work_units + cost)
       PROVE  SpendInv'
  <2>1. CASE cost = 0
    <3>1. Goto(next, remaining_budget, work_units)  BY <1>2, <1>14, <2>1
    <3>. QED  BY <1>7, <3>1
  <2>2. CASE cost = 1  BY <1>8, <1>14, <2>2
  <2>. QED  BY <2>1, <2>2
<1>15. CASE TakeConfig
  <2>1. kind.refuses \subseteq {"finished", "panicked"} /\ kind.confcost \in {0, 1}
    BY <1>13 DEF FlowRecord, FlowKind
  <2>. QED  BY <1>7, <1>9, <1>10, <1>12, <1>14, <1>15, <2>1 DEF TakeConfig
<1>16. CASE Flush  BY <1>7, <1>8, <1>16 DEF Flush
<1>17. CASE EndLoop  BY <1>7, <1>17, LeaveLoopGoes DEF EndLoop
<1>18. CASE Forward
  <2>1. kind.zerocost \in {0, 1}  BY <1>13 DEF FlowKind
  <2>2. ASSUME LeaveLoop(remaining_budget, work_units) PROVE SpendInv'
    BY <1>7, <2>2, LeaveLoopGoes
  <2>. QED  BY <1>8, <1>12, <1>14, <1>18, <2>1, <2>2 DEF Forward
<1>19. CASE Eof  BY <1>11, <1>12, <1>19 DEF Eof
<1>20. CASE ReadParts  BY <1>7, <1>20 DEF ReadParts
<1>21. CASE EmitResult  BY <1>7, <1>8, <1>12, <1>21 DEF EmitResult
<1>22. CASE EmitLine
  <2>1. ASSUME NEW left, Goto("emit", left, 1) PROVE SpendInv'  BY <1>3, <2>1, GotoReady
  <2>. QED  BY <1>7, <1>22, <2>1 DEF EmitLine
<1>23. CASE ReadChunk
  <2>1. port = 1 /\ inq[1] # <<>> /\ remaining_budget > 0
    BY <1>2, <1>23 DEF ReadChunk, InputOver, PortInv, IsDataflow
  <2>2. 1 \in InPorts /\ IsVec(inq[1])  BY DEF VecsInv, InPorts
  <2>3. Len(inq[1]) \in Nat /\ Len(inq[1]) > 0  BY <2>1, <2>2 DEF IsVec
  <2>4. ToProcess > 0 /\ ToProcess \in Nat  BY <1>2, <2>1, <2>3 DEF ToProcess, Min2
  <2>5. work_units' = work_units + ToProcess  BY <1>23, GotoReady DEF ReadChunk
  <2>. QED  BY <1>2, <1>3, <2>4, <2>5
<1>24. CASE Report  BY <1>7, <1>24 DEF Report
<1>25. CASE CountEof  BY <1>11, <1>12, <1>25 DEF CountEof
<1>26. CASE DelayLoop  BY <1>7, <1>26 DEF DelayLoop
<1>27. CASE Release  BY <1>7, <1>8, <1>12, <1>27 DEF Release
<1>28. CASE TakeDelayed  BY <1>7, <1>8, <1>12, <1>28 DEF TakeDelayed
<1>29. CASE DelayEof  BY <1>11, <1>12, <1>29 DEF DelayEof
<1>30. CASE CronRetry \/ CronTick \/ CronIdle
  BY <1>9, <1>10, <1>12, <1>30 DEF CronRetry, CronTick, CronIdle
<1>. QED
  BY <1>15, <1>16, <1>17, <1>18, <1>19, <1>20, <1>21, <1>22, <1>23, <1>24, <1>25, <1>26, <1>27,
     <1>28, <1>29, <1>30
  DEF DataflowStep

\* Input is read, or left to a later call.
LEMMA ReadStep ==
    ASSUME IsDataflow, StepsInv, SpendInv, ReadInv, InputInv, PortInv, VecsInv, BudgetInv, Next
    PROVE  ReadInv'
<1>1. UNCHANGED kind /\ IsDataflow'  BY KindStays DEF IsDataflow
<1>2. work_units \in Nat /\ remaining_budget \in Nat  BY DEF BudgetInv
<1>3. FlowRecord(kind) /\ FlowKind(kind)  BY FlowIs
<1>4. /\ kind.first \in {"config", "flush", "work"} /\ kind.refuses \subseteq {"finished", "panicked"}
      /\ kind.first = "config" => kind.config # "none"
  BY <1>3 DEF FlowRecord, FlowKind
<1>5. inq = [p \in InPorts |-> inq[p]] /\ 1 \in InPorts  BY DEF VecsInv, InPorts
<1>6. CASE ended # "no"
  <2>1. phase = "retired"  BY <1>6 DEF StepsInv
  <2>2. Neighbours  BY <1>6, <2>1, FlowSteps, FlowRuns DEF Activate
  <2>. QED  BY <1>1, <1>6, <2>2, NeighboursCall DEF ReadInv, call
<1> SUFFICES ASSUME ended = "no" PROVE ReadInv'  BY <1>6
<1>7. /\ open \subseteq kind.inports /\ \A p \in InPorts \ kind.inports : inq[p] = <<>>
      /\ phase = "config" => kind.config # "none"
  BY DEF ReadInv
<1>8. ASSUME Neighbours PROVE ReadInv'
  <2>1. UNCHANGED <<phase, ended, work_units>>  BY <1>8, NeighboursCall DEF call
  <2>2. open' \subseteq kind.inports
    BY <1>7, <1>8 DEF Neighbours, Feed, Close, Configure, Drain, TimerFires, edges
  <2>3. \A p \in InPorts \ kind.inports : inq'[p] = <<>>
    <3>1. CASE Feed  BY <1>5, <1>7, <3>1 DEF Feed
    <3>2. CASE ~Feed  BY <1>7, <1>8, <3>2 DEF Neighbours, Close, Configure, Drain, TimerFires, edges
    <3>. QED  BY <3>1, <3>2
  <2>4. CASE ready'  BY <1>1, <1>7, <2>1, <2>2, <2>3, <2>4 DEF ReadInv
  <2>5. CASE ~ready'
    <3>1. UNCHANGED <<inq, conf>> /\ ~ready  BY <1>8, <2>5, NeighboursReady
    <3>2. Thorough' => Thorough  BY <1>1, <3>1 DEF Thorough
    <3>. QED  BY <1>1, <1>7, <2>1, <2>2, <2>3, <3>1, <3>2 DEF ReadInv
  <2>. QED  BY <2>4, <2>5
<1>9. ASSUME Activate PROVE ReadInv'
  <2>1. UNCHANGED <<inq, open, conf>> /\ phase' = kind.first  BY <1>9 DEF Activate, edges
  <2>. QED  BY <1>1, <1>4, <1>7, <2>1 DEF ReadInv, Reading
<1> SUFFICES ASSUME DataflowStep PROVE ReadInv'  BY <1>8, <1>9, FlowSteps
<1>10. phase \notin {"idle", "retired"} /\ (remaining_budget > 0 \/ work_units > 0)
  BY FlowRuns DEF SpendInv
\* The in-edges that are not connected stay empty.
<1>11. open' = open /\ \A p \in InPorts \ kind.inports : inq'[p] = <<>>
  <2>1. UNCHANGED open
    BY DEF DataflowStep, TakeConfig, Flush, EndLoop, Forward, Eof, ReadParts, EmitResult, EmitLine,
       ReadChunk, Report, CountEof, DelayLoop, Release, TakeDelayed, DelayEof, CronRetry, CronTick,
       CronIdle, edges
  <2>2. \/ UNCHANGED inq
        \/ inq[port] # <<>> /\ Pop(port)
        \/ inq[1] # <<>> /\ Pop(1)
        \/ inq[1] # <<>> /\ inq' = [inq EXCEPT ![1] = SubSeq(@, ToProcess + 1, Len(@))]
    <3>1. CASE ReadParts \/ ReadChunk
      <4>1. port = 1  BY <3>1 DEF ReadParts, ReadChunk, PortInv, IsDataflow
      <4>. QED  BY <3>1, <4>1 DEF ReadParts, ReadChunk, InputOver
    <3>2. CASE Forward  BY <3>2 DEF Forward, InputOver
    <3>3. CASE ~(ReadParts \/ ReadChunk \/ Forward)
      BY <3>3 DEF DataflowStep, TakeConfig, Flush, EndLoop, Eof, EmitResult, EmitLine,
         Report, CountEof, DelayLoop, Release, TakeDelayed, DelayEof, CronRetry, CronTick,
         CronIdle, edges
    <3>. QED  BY <3>1, <3>2, <3>3
  <2>. QED  BY <1>5, <1>7, <2>1, <2>2 DEF Pop
\* What is left to show of a step.
<1>12. ASSUME phase' = "config" => kind.config # "none",
              Thorough' /\ inq'[1] # <<>> /\ ended' = "no" =>
                 \/ ready' \/ phase' \in Reading
                 \/ phase' \in {"report", "eof"} /\ (work_units' > 0 \/ kind.repoll)
       PROVE  ReadInv'
  BY <1>1, <1>7, <1>11, <1>12 DEF ReadInv
<1>13. ASSUME phase' \in Reading \ {"config"} PROVE ReadInv'  BY <1>12, <1>13
<1>14. ASSUME ended' # "no", phase' = "retired" PROVE ReadInv'  BY <1>12, <1>14
<1>15. ASSUME NEW units, NEW left, NEW signalled, DidWork(units, left, signalled) PROVE ReadInv'
  BY <1>4, <1>12, <1>15, DidWorkReady DEF Reading
<1>16. ASSUME inq'[1] = <<>> \/ ~Thorough', phase' # "config" PROVE ReadInv'  BY <1>12, <1>16
<1>17. ASSUME NEW next \in {"flush", "work", "emit", "release", "take"}, NEW left, NEW units,
              Goto(next, left, units)
       PROVE  ReadInv'
  BY <1>13, <1>17, GotoReady DEF Reading
<1>18. ASSUME NEW why \in {"finished", "panicked"}, Retire(why) PROVE ReadInv'
  BY <1>14, <1>18, RetireTo
<1>19. 1 \notin kind.inports => inq[1] = <<>> /\ inq'[1] = <<>>  BY <1>5, <1>7, <1>11
<1>20. ASSUME Thorough', inq[1] # <<>>, UNCHANGED conf PROVE port = 1 /\ 2 \notin kind.inports
  <2>1. 2 \notin kind.inports  BY <1>1, <1>3, <1>20 DEF Thorough, FlowRecord
  <2>2. CASE Flows
    <3>1. port = 1 \/ port \in kind.inports  BY <2>2 DEF InputInv
    <3>2. kind.inports \subseteq {1, 2}  BY <1>3 DEF FlowRecord
    <3>. QED  BY <2>1, <3>1, <3>2
  <2>3. CASE ~Flows
    <3>1. kind = Count  BY <2>3 DEF Flows
    <3>2. Count.steps # "forward"  BY DEF Count, Configured, Keeping, Plain
    <3>. QED  BY <2>1, <3>1, <3>2 DEF PortInv, IsDataflow
  <2>. QED  BY <2>2, <2>3
\* The end of a loop that has no budget left has counted work.
<1>21. ASSUME NEW next \in {"eof", AfterLoop, "work"}, Goto(next, remaining_budget, work_units),
              remaining_budget = 0
       PROVE  ReadInv'
  <2>1. work_units > 0  BY <1>2, <1>10, <1>21
  <2>2. next \in {"eof", "report", "work"}  BY <1>21 DEF AfterLoop
  <2>. QED  BY <1>12, <1>21, <2>1, <2>2, GotoReady DEF Reading
<1>22. CASE TakeConfig
  <2>1. phase = "config" /\ UNCHANGED inq  BY <1>22 DEF TakeConfig
  <2>2. ASSUME NEW left, NEW units, Goto(AfterConfig, left, units) PROVE ReadInv'
    <3>1. CASE AfterConfig \in {"flush", "work"}  BY <1>17, <2>2, <3>1
    <3>2. CASE AfterConfig = "tick"
      <4>1. kind.steps = "tick"  BY <3>2 DEF AfterConfig
      <4>2. kind = Cron  BY <1>3, <4>1 DEF FlowRecord
      <4>3. inq'[1] = <<>>  BY <1>19, <4>2, CronIs
      <4>. QED  BY <1>16, <2>2, <3>2, <4>3, GotoReady
    <3>. QED  BY <3>1, <3>2 DEF AfterConfig
  <2>3. ASSUME conf = "none", UNCHANGED conf, NoWork(ready) PROVE ReadInv'
    <3>1. ~Thorough'  BY <1>1, <1>7, <2>1, <2>3 DEF Thorough
    <3>. QED  BY <1>16, <2>3, <3>1, NoWorkTo
  <2>. QED  BY <1>4, <1>15, <1>18, <1>22, <2>2, <2>3 DEF TakeConfig
<1>23. CASE Flush  BY <1>17, <1>23 DEF Flush
<1>24. CASE EndLoop
  <2>1. UNCHANGED <<inq, conf>> /\ InputOver  BY <1>24 DEF EndLoop, edges
  <2>2. CASE Thorough' /\ inq[1] # <<>>
    <3>1. remaining_budget = 0  BY <1>20, <2>1, <2>2 DEF InputOver
    <3>. QED  BY <1>21, <1>24, <3>1, LeaveLoopGoes DEF EndLoop
  <2>3. CASE ~(Thorough' /\ inq[1] # <<>>)
    <3>1. phase' # "config"  BY <1>24, LeaveLoopTo DEF EndLoop, AfterLoop
    <3>. QED  BY <1>16, <2>1, <2>3, <3>1
  <2>. QED  BY <2>2, <2>3
<1>25. CASE Forward
  <2>1. UNCHANGED conf /\ kind.steps = "forward"  BY <1>25 DEF Forward
  <2>2. ASSUME LeaveLoop(remaining_budget, work_units), kind.full \notin {"keep", "finish"},
               1 \in kind.parts
        PROVE  ReadInv'
    <3>1. ~Thorough'  BY <1>1, <1>3, <2>1, <2>2 DEF Thorough, FlowRecord
    <3>2. phase' # "config"  BY <2>2, LeaveLoopTo DEF AfterLoop
    <3>. QED  BY <1>16, <3>1, <3>2
  <2>. QED  BY <1>17, <1>18, <1>25, <2>2 DEF Forward
<1>26. CASE ReadParts
  <2>1. ASSUME kind.steps = "lines", Goto("eof", remaining_budget, work_units) PROVE ReadInv'
    <3>1. ~Thorough'  BY <1>1, <1>3, <2>1 DEF Thorough, FlowRecord
    <3>. QED  BY <1>16, <2>1, <3>1, GotoReady
  <2>. QED  BY <1>17, <1>26, <2>1 DEF ReadParts
<1>27. CASE EmitResult  BY <1>17, <1>18, <1>27 DEF EmitResult
<1>28. CASE EmitLine
  <2>1. ~Thorough'  BY <1>1, <1>3, <1>28 DEF EmitLine, Thorough, FlowRecord
  <2>2. phase' # "config"  BY <1>28, GotoTo DEF EmitLine
  <2>. QED  BY <1>16, <2>1, <2>2
<1>29. CASE ReadChunk  BY <1>17, <1>29 DEF ReadChunk
\* The ends of process(): input left behind was left for want of budget.
<1>30. ASSUME phase \in {"report", "eof"}, UNCHANGED conf, Thorough', inq[1] # <<>>
       PROVE  ready \/ work_units > 0 \/ kind.repoll
  <2>1. Thorough  BY <1>1, <1>30 DEF Thorough
  <2>. QED  BY <1>30, <2>1 DEF ReadInv, Reading
<1>31. ASSUME phase = "eof", UNCHANGED <<inq, conf>>, NEW signalled,
              Result(work_units, remaining_budget, signalled),
              ready \/ (kind.repoll /\ inq[1] # <<>>) => signalled
       PROVE  ReadInv'
  <2>1. ASSUME phase' = kind.first PROVE ReadInv'  BY <1>4, <1>12, <2>1 DEF Reading
  <2>2. ASSUME phase' = "idle", work_units > 0 \/ signalled => ready' PROVE ReadInv'
    <3>1. Thorough' /\ inq[1] # <<>> => ready'  BY <1>30, <1>31, <2>2
    <3>. QED  BY <1>12, <1>31, <2>2, <3>1
  <2>. QED  BY <1>31, <2>1, <2>2, ResultReady
<1>32. CASE Eof
  <2>1. phase = "eof" /\ UNCHANGED <<inq, conf>>  BY <1>32 DEF Eof, edges
  <2>. QED  BY <1>18, <1>31, <1>32, <2>1 DEF Eof
<1>33. CASE Report
  <2>1. phase = "report" /\ UNCHANGED <<inq, conf>> /\ Goto("eof", remaining_budget, work_units)
    BY <1>33 DEF Report
  <2>. QED  BY <1>12, <1>30, <2>1, GotoReady
<1>34. CASE CountEof
  <2>1. phase = "eof" /\ UNCHANGED <<inq, conf>> /\ ~kind.repoll
    BY <1>3, <1>34 DEF CountEof, FlowRecord
  <2>. QED  BY <1>18, <1>31, <1>34, <2>1 DEF CountEof
<1>35. CASE DelayLoop
  <2>1. CASE remaining_budget = 0  BY <1>21, <1>35, <2>1 DEF DelayLoop
  <2>2. CASE remaining_budget # 0
    <3>1. \E next \in {"release", "take"} : Goto(next, remaining_budget, work_units)
      BY <1>2, <1>35, <2>2 DEF DelayLoop
    <3>. QED  BY <1>17, <3>1
  <2>. QED  BY <2>1, <2>2
<1>36. CASE Release  BY <1>17, <1>18, <1>36 DEF Release
<1>37. CASE TakeDelayed
  <2>1. ASSUME inq[1] = <<>>, UNCHANGED inq, Goto("eof", remaining_budget, work_units) PROVE ReadInv'
    BY <1>16, <2>1, GotoReady
  <2>. QED  BY <1>17, <1>18, <1>37, <2>1 DEF TakeDelayed
<1>38. CASE DelayEof
  <2>1. phase = "eof" /\ UNCHANGED <<inq, conf>> /\ ~kind.repoll
    BY <1>3, <1>38 DEF DelayEof, FlowRecord, edges
  <2>. QED  BY <1>18, <1>31, <1>38, <2>1 DEF DelayEof
<1>39. CASE CronRetry \/ CronTick \/ CronIdle
  <2>1. kind.steps = "tick"  BY <1>39 DEF CronRetry, CronTick, CronIdle, StepsInv
  <2>2. inq'[1] = <<>>  BY <1>3, <1>19, <2>1, CronIs DEF FlowRecord
  <2>3. ASSUME NoWork(ready) PROVE ReadInv'  BY <1>16, <2>2, <2>3, NoWorkTo
  <2>. QED  BY <1>15, <1>18, <1>39, <2>3 DEF CronRetry, CronTick, CronIdle
<1>. QED
  BY <1>22, <1>23, <1>24, <1>25, <1>26, <1>27, <1>28, <1>29, <1>32, <1>33, <1>34, <1>35, <1>36,
     <1>37, <1>38, <1>39
  DEF DataflowStep

\* A timer that a component counts on is armed before it comes to rest.
LEMMA TimerStep ==
    ASSUME IsDataflow, StepsInv, ReadInv, TimerInv, PortInv, Next
    PROVE  TimerInv'
<1>1. UNCHANGED kind /\ IsDataflow'  BY KindStays DEF IsDataflow
<1>2. FlowRecord(kind) /\ kind.first \notin {"idle", "retired"}  BY FlowIs, FirstNotIdle
<1>3. CASE ended # "no"
  <2>1. phase = "retired"  BY <1>3 DEF StepsInv
  <2>2. Neighbours  BY <1>3, <2>1, FlowSteps, FlowRuns DEF Activate
  <2>. QED  BY <1>1, <1>3, <2>2, NeighboursCall DEF TimerInv, call
<1> SUFFICES ASSUME ended = "no" PROVE TimerInv'  BY <1>3
<1>4. ASSUME Neighbours, UNCHANGED flowVars PROVE TimerInv'
  <2>1. UNCHANGED <<phase, ended, pending, next_fire_time>>
    BY <1>4, NeighboursCall DEF call, flowVars
  <2>2. /\ (ready => ready') /\ (wake => wake' \/ ready')
        /\ (fired => fired') /\ (wake => wake' \/ fired')
    BY <1>4, NeighboursReady
  <2>3. ready' \/ conf' = conf  BY <1>4, NeighboursReady
  <2>4. kind' = Cron /\ next_fire_time' => wake' \/ fired'  BY <1>1, <2>1, <2>2 DEF TimerInv
  <2>5. CASE ready'  BY <2>4, <2>5 DEF TimerInv
  <2>6. CASE ~ready'
    <3>1. conf' = conf /\ ~ready /\ (wake => wake')  BY <2>2, <2>3, <2>6
    <3>. QED  BY <1>1, <2>1, <2>4, <3>1 DEF TimerInv
  <2>. QED  BY <2>5, <2>6
<1>5. ASSUME Activate, UNCHANGED flowVars PROVE TimerInv'
  <2>1. UNCHANGED <<wake, fired, next_fire_time>> /\ phase' # "idle"
    BY <1>2, <1>5 DEF Activate, flowVars
  <2>. QED  BY <1>1, <2>1 DEF TimerInv
<1> SUFFICES ASSUME DataflowStep PROVE TimerInv'  BY <1>4, <1>5, FlowSteps
\* A Cron's timer, then its rest, and Delay's.
<1>6. ASSUME kind = Cron => (next_fire_time' => wake' \/ fired'),
             ended' # "no" \/ phase' # "idle" \/ ready' \/ kind \notin {Cron, Delay}
      PROVE  TimerInv'
  BY <1>1, <1>6, CronIs DEF TimerInv
<1>7. kind = Cron => (next_fire_time => wake \/ fired)  BY DEF TimerInv
<1>8. ASSUME NEW next, NEW left, NEW units, Goto(next, left, units), next # "idle"
      PROVE  phase' # "idle"
  BY <1>8, GotoTo
<1>9. AfterConfig # "idle" /\ AfterLoop # "idle"  BY DEF AfterConfig, AfterLoop
<1>10. ASSUME NEW units, NEW left, NEW signalled, DidWork(units, left, signalled)
       PROVE  phase' # "idle" \/ ready'
  BY <1>2, <1>10, DidWorkReady
<1>11. CASE TakeConfig
  <2>1. UNCHANGED fired /\ (UNCHANGED <<wake, next_fire_time>> \/ (kind.steps = "tick" => wake' = TRUE))
    BY <1>11 DEF TakeConfig
  <2>2. kind = Cron => (next_fire_time' => wake' \/ fired')  BY <1>7, <2>1, CronIs
  <2>3. CASE NoWork(ready) /\ conf = "none" /\ UNCHANGED conf /\ kind.unconfigured \in {"wait", "either"}
    <3>1. kind # Delay
      <4>1. Delay.unconfigured = "default"  BY DEF Delay, Configured, Plain
      <4>. QED  BY <2>3, <4>1
    <3>. QED  BY <1>1, <2>2, <2>3, <3>1 DEF TimerInv
  <2>4. CASE ~(NoWork(ready) /\ conf = "none" /\ UNCHANGED conf /\ kind.unconfigured \in {"wait", "either"})
    <3>1. phase' # "idle" \/ ready'
      BY <1>8, <1>9, <1>10, <1>11, <2>4, RetireTo DEF TakeConfig
    <3>. QED  BY <1>6, <2>2, <3>1
  <2>. QED  BY <2>3, <2>4
<1>12. ASSUME UNCHANGED <<wake, fired, next_fire_time>>, ended' # "no" \/ phase' # "idle" \/ ready'
       PROVE  TimerInv'
  BY <1>6, <1>7, <1>12
<1>13. CASE Flush \/ EndLoop
  <2>1. phase' # "idle"  BY <1>8, <1>9, <1>13, LeaveLoopGoes DEF Flush, EndLoop
  <2>2. UNCHANGED <<wake, fired, next_fire_time>>  BY <1>13 DEF Flush, EndLoop
  <2>. QED  BY <1>12, <2>1, <2>2
<1>14. CASE Forward
  <2>1. phase' # "idle"  BY <1>8, <1>9, <1>14, LeaveLoopGoes, RetireTo DEF Forward
  <2>2. UNCHANGED <<wake, fired, next_fire_time>>  BY <1>14 DEF Forward
  <2>. QED  BY <1>12, <2>1, <2>2
<1>15. CASE Eof
  <2>1. UNCHANGED <<wake, fired, next_fire_time>> /\ kind.steps # "delay"
    BY <1>15 DEF Eof, flowVars
  <2>2. CASE kind = Cron
    <3>1. open = {}  BY <2>2, CronIs DEF ReadInv
    <3>2. EofReached  BY <2>2, <3>1, CronIs DEF EofReached
    <3>. QED  BY <1>12, <1>15, <2>1, <3>2, RetireTo DEF Eof
  <2>3. CASE kind # Cron  BY <1>6, <2>1, <2>3, DelayIs
  <2>. QED  BY <2>2, <2>3
<1>16. CASE ReadParts \/ EmitLine \/ ReadChunk \/ Report
  <2>1. phase' # "idle"  BY <1>8, <1>16 DEF ReadParts, EmitLine, ReadChunk, Report
  <2>2. UNCHANGED <<wake, fired, next_fire_time>>
    BY <1>16 DEF ReadParts, EmitLine, ReadChunk, Report, flowVars
  <2>. QED  BY <1>12, <2>1, <2>2
<1>17. CASE EmitResult
  <2>1. phase' # "idle"  BY <1>8, <1>17, RetireTo DEF EmitResult
  <2>2. UNCHANGED <<wake, fired, next_fire_time>>  BY <1>17 DEF EmitResult
  <2>. QED  BY <1>12, <2>1, <2>2
<1>18. CASE CountEof
  <2>1. kind \notin {Cron, Delay}  BY <1>18, CronIs, DelayIs DEF CountEof
  <2>. QED  BY <1>6, <2>1
<1>19. CASE DelayLoop \/ Release \/ TakeDelayed
  <2>1. kind # Cron
    BY <1>19, CronIs, DelayIs DEF DelayLoop, Release, TakeDelayed, StepsInv
  <2>2. phase' # "idle"
    <3>1. CASE DelayLoop  BY <3>1, GotoTo DEF DelayLoop
    <3>2. CASE Release \/ TakeDelayed  BY <1>8, <3>2, RetireTo DEF Release, TakeDelayed
    <3>. QED  BY <1>19, <3>1, <3>2
  <2>. QED  BY <1>6, <2>1, <2>2
<1>20. CASE DelayEof
  <2>1. kind # Cron /\ UNCHANGED pending  BY <1>20, CronIs DEF DelayEof, flowVars
  <2>2. Retire("finished") \/ wake' = (wake \/ pending # <<>>)  BY <1>20 DEF DelayEof
  <2>. QED  BY <1>1, <2>1, <2>2, RetireTo DEF TimerInv
<1>21. CASE CronRetry
  <2>1. wake' = TRUE  BY <1>21 DEF CronRetry
  <2>. QED  BY <2>1 DEF TimerInv
<1>22. CASE CronTick
  <2>1. next_fire_time' => wake'  BY <1>22 DEF CronTick
  <2>. QED  BY <1>6, <1>10, <1>22, <2>1 DEF CronTick
<1>23. CASE CronIdle
  <2>1. /\ UNCHANGED <<wake, fired, next_fire_time>> /\ ~(fired /\ next_fire_time)
        /\ next_fire_time \/ Retire("finished")
    BY <1>23 DEF CronIdle, flowVars
  <2>2. CASE Retire("finished")  BY <1>12, <2>1, <2>2, RetireTo
  <2>3. CASE next_fire_time
    <3>1. kind.steps = "tick"  BY <1>23 DEF CronIdle, StepsInv
    <3>2. kind = Cron  BY <1>2, <3>1 DEF FlowRecord
    <3>3. wake'  BY <1>7, <2>1, <2>3, <3>2
    <3>. QED  BY <3>3 DEF TimerInv
  <2>. QED  BY <2>1, <2>2, <2>3
<1>. QED
  BY <1>11, <1>13, <1>14, <1>15, <1>16, <1>17, <1>18, <1>19, <1>20, <1>21, <1>22, <1>23
  DEF DataflowStep

-----------------------------------------------------------------------------
(* The components with a worker.                                           *)

\* An active fetcher comes to the end of a call with a poll on its way or with
\* messages to push, for which it signals itself.
FetchInv ==
    kind.family = "fetcher" /\ ended = "no" /\ st = "active" =>
        /\ phase = "end" => inflight # 0 \/ held # <<>>
        /\ phase = "idle" => inflight # 0 \/ ready

\* An active session signals itself for the messages it has not submitted.
SessionInv ==
    kind.family = "session" /\ ended = "no" /\ st = "active" /\ phase = "idle" =>
        held = <<>> \/ ready

\* A chat component signals itself for the input it has not read.
ChatRests ==
    IsChat /\ ended = "no" /\ st = "active" /\ phase = "idle" => inq[1] = <<>> \/ ready

\* Steps of a worker only ever make the node ready.
LEMMA WorkerReady ==
    ASSUME WorkerStep, ended = "no"
    PROVE  /\ UNCHANGED <<kind, call, edges, wake, st, held, inflight>>
           /\ ready => ready'
<1>1. CASE WorkerWake  BY <1>1 DEF WorkerWake
<1>2. CASE ~WorkerWake
  BY <1>2 DEF WorkerStep, WorkerRecv, WorkerConnect, WorkerLoggedIn, WorkerOperate, WorkerPoll,
     WorkerShutdown, nodeVars, timing
<1>. QED  BY <1>1, <1>2

\* Fetchers and sessions.
LEMMA SessionGoes ==
    ASSUME FetchInv, SessionInv, EndedInv, PhaseInv, PortInv, kind.family \in {"session", "fetcher"},
           Next
    PROVE  FetchInv' /\ SessionInv'
<1>1. UNCHANGED kind  BY KindStays
<1>2. kind.first = "results" /\ HasWorker /\ ~IsChat
  BY KindIs DEF PortInv, FlowKind, IoKind, ChatKind, ServerKind, PollerKind, HasWorker, IsChat
<1>3. ASSUME phase' \notin {"idle", "end"} \/ ended' # "no" \/ st' # "active" PROVE FetchInv' /\ SessionInv'
  BY <1>3 DEF FetchInv, SessionInv
<1>4. ASSUME UNCHANGED <<phase, ended, st, inflight, held>>, ready => ready'
      PROVE  FetchInv' /\ SessionInv'
  BY <1>1, <1>4 DEF FetchInv, SessionInv
<1>5. CASE Neighbours /\ UNCHANGED ioVars
  <2>1. UNCHANGED <<phase, ended, st, inflight, held>>
    BY <1>5, NeighboursCall DEF call, ioVars
  <2>2. CASE ended = "no"  BY <1>4, <1>5, <2>1, <2>2, NeighboursReady
  <2>3. CASE ended # "no"  BY <1>3, <2>1, <2>3
  <2>. QED  BY <2>2, <2>3
<1>6. CASE Activate  BY <1>2, <1>3, <1>6 DEF Activate
<1>7. CASE WorkerStep
  <2>1. UNCHANGED ended  BY <1>7, WorkerCall DEF call
  <2>2. CASE ended = "no"  BY <1>4, <1>7, <2>2, WorkerReady DEF call
  <2>3. CASE ended # "no"  BY <1>3, <2>1, <2>3
  <2>. QED  BY <2>2, <2>3
<1>8. CASE TakeResult \/ NoResult  BY <1>3, <1>8, GotoTo DEF TakeResult, NoResult
<1>9. CASE TakeError  BY <1>3, <1>9 DEF TakeError, Leave
<1>10. CASE PushFetched  BY <1>3, <1>10, GotoTo DEF PushFetched
<1>11. CASE Login
  <2>1. st' # "active"  BY <1>11 DEF Login, Leave
  <2>. QED  BY <1>3, <2>1
<1>12. CASE AwaitLogin
  <2>1. st' # "active"  BY <1>12 DEF AwaitLogin, ioVars
  <2>. QED  BY <1>3, <2>1
<1>13. CASE Poll
  <2>1. phase' = "end" /\ UNCHANGED held /\ kind.family = "fetcher"  BY <1>13, GotoTo DEF Poll
  <2>2. inflight' # 0 \/ held' # <<>>  BY <1>13 DEF Poll, MayPoll
  <2>. QED  BY <1>1, <2>1, <2>2 DEF FetchInv, SessionInv
<1>14. CASE TakeInput  BY <1>3, <1>14, GotoTo DEF TakeInput
<1>15. CASE Submit
  <2>1. phase' \in {"submit", "end"} /\ kind.family = "session"  BY <1>15, GotoTo DEF Submit
  <2>. QED  BY <1>1, <2>1 DEF FetchInv, SessionInv
<1>16. CASE EndSession
  <2>1. UNCHANGED <<held, inflight>> /\ phase = "end"  BY <1>16 DEF EndSession
  <2>2. CASE SessionOver  BY <1>3, <1>16, <2>2 DEF EndSession, Leave
  <2>3. CASE ~SessionOver
    <3>1. UNCHANGED st  BY <1>16, <2>3 DEF EndSession
    <3>2. PICK signalled : /\ Result(work_units, remaining_budget, signalled)
                           /\ held # <<>> /\ st = "active" => signalled
      BY <1>16, <2>3 DEF EndSession
    <3>3. phase' # "idle" \/ (st = "active" /\ held # <<>> => ready')
      BY <1>2, <3>2, ResultReady
    <3>4. phase' \in {"idle", "results"} /\ ended' = ended  BY <1>2, <3>2, ResultTo
    <3>. QED  BY <1>1, <2>1, <3>1, <3>3, <3>4 DEF FetchInv, SessionInv
  <2>. QED  BY <2>2, <2>3
<1>17. ~ChatStep
  BY <1>2 DEF ChatStep, ChatApply, ChatLogin, ChatOperate, ChatShutdown, Dispatch, DispatcherWake,
     ChatWaiting, ChatPrompt, ChatResult, ChatDeliver, ChatInput, ChatSend, ChatEnd, ChatDrop
<1>18. CASE ComponentStep
  BY <1>8, <1>9, <1>10, <1>11, <1>12, <1>13, <1>14, <1>15, <1>16, <1>18, SessionSteps, FetcherSteps
<1>. QED  BY <1>2, <1>5, <1>6, <1>7, <1>17, <1>18, OwnSteps

\* The chat components.
LEMMA ChatGoes ==
    ASSUME ChatRests, PhaseInv, PortInv, IsChat, Next
    PROVE  ChatRests'
<1>1. UNCHANGED kind  BY KindStays
<1>2. kind.first = "state" /\ HasWorker /\ ~ComponentStep  BY ChatIs, ChatSteps DEF IsChat, HasWorker
<1>3. ASSUME phase' # "idle" \/ ended' # "no" \/ st' # "active" \/ ready' PROVE ChatRests'
  BY <1>3 DEF ChatRests
<1>4. ASSUME UNCHANGED <<phase, ended, st, inq>>, ready => ready' PROVE ChatRests'
  BY <1>1, <1>4 DEF ChatRests, IsChat
<1>5. CASE Neighbours /\ UNCHANGED ioVars
  <2>1. UNCHANGED <<phase, ended, st>>  BY <1>5, NeighboursCall DEF call, ioVars
  <2>2. CASE ended = "no"
    <3>1. (ready => ready') /\ (ready' \/ UNCHANGED inq)  BY <1>5, <2>2, NeighboursReady
    <3>. QED  BY <1>3, <1>4, <2>1, <3>1
  <2>3. CASE ended # "no"  BY <1>3, <2>1, <2>3
  <2>. QED  BY <2>2, <2>3
<1>6. CASE Activate  BY <1>2, <1>3, <1>6 DEF Activate
<1>7. CASE WorkerStep
  <2>1. UNCHANGED ended  BY <1>7, WorkerCall DEF call
  <2>2. CASE ended = "no"  BY <1>4, <1>7, <2>2, WorkerReady DEF call, edges
  <2>3. CASE ended # "no"  BY <1>3, <2>1, <2>3
  <2>. QED  BY <2>2, <2>3
<1>8. CASE ChatApply \/ ChatLogin \/ ChatOperate \/ ChatShutdown \/ Dispatch
  BY <1>4, <1>8 DEF ChatApply, ChatLogin, ChatOperate, ChatShutdown, Dispatch, nodeVars, edges,
     timing, call
<1>9. CASE DispatcherWake  BY <1>3, <1>9 DEF DispatcherWake, call
<1>10. CASE ChatWaiting
  <2>1. CASE DidWork(1, remaining_budget, ready)  BY <1>2, <1>3, <2>1, DidWorkReady
  <2>2. CASE Goto("panicked", remaining_budget, work_units)  BY <1>3, <2>2, GotoTo
  <2>3. CASE UNCHANGED st  BY <1>3, <1>10, <2>3 DEF ChatWaiting
  <2>. QED  BY <1>10, <2>1, <2>2, <2>3 DEF ChatWaiting
<1>11. CASE ChatPrompt
  <2>1. st' # "active"  BY <1>11 DEF ChatPrompt, ioVars
  <2>. QED  BY <1>3, <2>1
<1>12. CASE ChatResult \/ ChatDeliver \/ ChatInput
  <2>1. phase' # "idle"
    <3>1. CASE ChatResult  BY <3>1, GotoTo DEF ChatResult
    <3>2. CASE ChatDeliver \/ ChatInput  BY <3>2, GotoTo DEF ChatDeliver, ChatInput
    <3>. QED  BY <1>12, <3>1, <3>2
  <2>. QED  BY <1>3, <2>1
<1>13. CASE ChatSend
  <2>1. CASE DidWork(1, remaining_budget, ready)  BY <1>2, <1>3, <2>1, DidWorkReady
  <2>2. CASE ~DidWork(1, remaining_budget, ready)
    <3>1. phase' # "idle"
      <4>1. CASE worker = "gone" /\ Goto(IF phase = "setchat" THEN "deliver" ELSE "finished",
                                         remaining_budget, work_units)
        BY <4>1, GotoTo
      <4>2. CASE \E left, units : Goto("deliver", left, units) \/ Goto("end", left, units)
        BY <4>2, GotoTo
      <4>3. CASE phase = "setchat"  BY <1>13, <4>1, <4>2, <4>3 DEF ChatSend
      <4>4. CASE phase = "op"  BY <1>13, <4>1, <4>2, <4>4 DEF ChatSend
      <4>5. CASE phase = "prompt"  BY <1>13, <2>2, <4>1, <4>5 DEF ChatSend
      <4>. QED  BY <1>13, <4>3, <4>4, <4>5 DEF ChatSend
    <3>. QED  BY <1>3, <3>1
  <2>. QED  BY <2>1, <2>2
<1>14. CASE ChatEnd
  <2>1. UNCHANGED inq  BY <1>14 DEF ChatEnd, edges
  <2>2. PICK signalled : Result(work_units, remaining_budget, signalled) /\ (inq[1] # <<>> => signalled)
    BY <1>14 DEF ChatEnd
  <2>3. phase' # "idle" \/ inq[1] = <<>> \/ ready'  BY <1>2, <2>2, ResultReady
  <2>. QED  BY <2>1, <2>3 DEF ChatRests
<1>15. CASE ChatDrop  BY <1>3, <1>15, RetireTo DEF ChatDrop
<1>. QED
  BY <1>2, <1>5, <1>6, <1>7, <1>8, <1>9, <1>10, <1>11, <1>12, <1>13, <1>14, <1>15, OwnSteps
  DEF ChatStep

\* The writer's thread has something to do, after which it wakes the node.
Busy == cmdq # <<>> \/ worker \in {"connect", "op", "wake", "lastwake"}

\* FileWriter submits with budget left or work counted, and comes to rest with
\* packets only if its thread is busy: it gives up one that is gone.
WriterInv ==
    kind.family = "writer" =>
        /\ cmdq \in Seq({"op"})
        /\ worker \in {"none", "recv", "connect", "op", "wake", "lastwake", "gone"}
        /\ phase \in {"state", "results", "submit"} => remaining_budget > 0 \/ work_units > 0
        /\ ended = "no" /\ st = "active" /\ held # <<>> =>
              /\ phase = "end" => Busy \/ ready \/ work_units > 0
              /\ phase = "idle" => Busy \/ ready

\* FileWriter.
LEMMA WriterGoes ==
    ASSUME WriterInv, PollPhases, PortInv, BudgetInv, BudgetInv', kind.family = "writer", Next
    PROVE  WriterInv'
<1>1. UNCHANGED kind  BY KindStays
<1>2. kind.first = "state" /\ kind.family # "fetcher"
  BY KindIs DEF PortInv, FlowKind, IoKind, ChatKind, ServerKind, PollerKind
<1>3. work_units \in Nat /\ remaining_budget \in Nat  BY DEF BudgetInv
<1>4. /\ cmdq \in Seq({"op"})
      /\ worker \in {"none", "recv", "connect", "op", "wake", "lastwake", "gone"}
      /\ phase \in {"state", "results", "submit"} => remaining_budget > 0 \/ work_units > 0
  BY DEF WriterInv
<1>5. ASSUME cmdq' \in Seq({"op"}),
             worker' \in {"none", "recv", "connect", "op", "wake", "lastwake", "gone"},
             phase' \in {"state", "results", "submit"} => remaining_budget' > 0 \/ work_units' > 0,
             \/ phase' \notin {"end", "idle"} \/ ended' # "no" \/ st' # "active" \/ held' = <<>>
             \/ Busy' \/ ready' \/ (phase' = "end" /\ work_units' > 0)
      PROVE  WriterInv'
  BY <1>5 DEF WriterInv
<1>6. CASE Neighbours /\ UNCHANGED ioVars
  <2>1. UNCHANGED <<call, st, cmdq, worker, held>>
    BY <1>6, NeighboursCall DEF ioVars, channels
  <2>2. Busy' <=> Busy  BY <2>1 DEF Busy
  <2>3. ended = "no" => (ready => ready')  BY <1>6, NeighboursReady
  <2>. QED  BY <1>1, <2>1, <2>2, <2>3 DEF WriterInv, call
<1>7. CASE Activate /\ UNCHANGED ioVars
  <2>1. UNCHANGED <<cmdq, worker>> /\ phase' = "state"  BY <1>2, <1>7 DEF Activate, ioVars, channels
  <2>2. remaining_budget' > 0  BY <1>7, <2>1, StartsFresh
  <2>. QED  BY <1>4, <1>5, <2>1, <2>2
<1>8. CASE WorkerStep
  <2>1. UNCHANGED call  BY <1>8, WorkerCall
  <2>2. phase' \in {"state", "results", "submit"} => remaining_budget' > 0 \/ work_units' > 0
    BY <1>4, <2>1 DEF call
  <2>3. ~WorkerLoggedIn /\ ~WorkerPoll /\ ~WorkerShutdown
    BY <1>4 DEF WorkerLoggedIn, WorkerPoll, WorkerShutdown
  <2>4. CASE WorkerRecv
    <3>1. CASE cmdq # <<>> /\ worker' = Head(cmdq) /\ cmdq' = Tail(cmdq)
      <4>1. worker' = "op" /\ cmdq' \in Seq({"op"})  BY <1>4, <3>1
      <4>. QED  BY <1>5, <2>2, <4>1 DEF Busy
    <3>2. CASE ended # "no" /\ worker' = "gone" /\ UNCHANGED cmdq
      BY <1>4, <1>5, <2>1, <2>2, <3>2 DEF call
    <3>. QED  BY <2>4, <3>1, <3>2 DEF WorkerRecv
  <2>5. CASE WorkerConnect \/ WorkerOperate
    <3>1. worker' \in {"wake", "lastwake"} /\ UNCHANGED cmdq
      BY <1>2, <2>5 DEF WorkerConnect, WorkerOperate, Answer
    <3>. QED  BY <1>4, <1>5, <2>2, <3>1 DEF Busy
  <2>6. CASE WorkerWake
    <3>1. worker' \in {"recv", "gone"} /\ UNCHANGED cmdq /\ (ended = "no" => ready')
      BY <2>6 DEF WorkerWake
    <3>2. ended' = ended  BY <2>1 DEF call
    <3>. QED  BY <1>4, <1>5, <2>2, <3>1, <3>2
  <2>. QED  BY <1>8, <2>3, <2>4, <2>5, <2>6 DEF WorkerStep
<1>9. CASE StartWriter
  <2>1. UNCHANGED cmdq /\ (UNCHANGED worker \/ worker' = "connect") /\ phase = "state"
    BY <1>9 DEF StartWriter
  <2>2. ASSUME NEW units \in {work_units, work_units + 1}, Goto("results", remaining_budget, units)
        PROVE  WriterInv'
    <3>1. remaining_budget > 0 \/ units > 0  BY <1>3, <1>4, <2>1, <2>2
    <3>. QED  BY <1>4, <1>5, <2>1, <2>2, <3>1, GotoReady
  <2>3. ASSUME Retire("panicked") PROVE WriterInv'  BY <1>4, <1>5, <2>1, <2>3, RetireTo
  <2>4. ASSUME NoWork(ready), st' # "active" PROVE WriterInv'  BY <1>4, <1>5, <2>1, <2>4, NoWorkTo
  <2>. QED  BY <1>9, <2>2, <2>3, <2>4 DEF StartWriter
<1>10. CASE WriterResults
  <2>1. UNCHANGED <<cmdq, worker>> /\ phase = "results"  BY <1>10 DEF WriterResults
  <2>2. ASSUME NEW next \in {"results", "submit"}, NEW units \in {work_units, work_units + 1},
               Goto(next, remaining_budget, units)
        PROVE  WriterInv'
    <3>1. remaining_budget > 0 \/ units > 0  BY <1>3, <1>4, <2>1, <2>2
    <3>. QED  BY <1>4, <1>5, <2>1, <2>2, <3>1, GotoReady
  <2>. QED  BY <1>10, <2>2 DEF WriterResults
<1>11. CASE SubmitWrite
  <2>1. UNCHANGED worker /\ phase = "submit"  BY <1>11 DEF SubmitWrite
  <2>2. CASE remaining_budget > 0 /\ held # <<>> /\ worker # "gone" /\ Len(cmdq) < CmdCap
    <3>1. cmdq' = Append(cmdq, "op") /\ Goto("submit", remaining_budget - 1, work_units + 1)
      BY <1>11, <2>2 DEF SubmitWrite, Send
    <3>2. cmdq' \in Seq({"op"})  BY <1>4, <3>1
    <3>3. work_units + 1 > 0  BY <1>3
    <3>. QED  BY <1>4, <1>5, <2>1, <3>1, <3>2, <3>3, GotoReady
  <2>3. CASE ~(remaining_budget > 0 /\ held # <<>> /\ worker # "gone" /\ Len(cmdq) < CmdCap)
    <3>1. /\ UNCHANGED <<cmdq, held>> /\ Goto("end", remaining_budget, work_units)
          /\ remaining_budget > 0 /\ held # <<>> /\ worker = "gone" => st' = "waiting"
      BY <1>11, <2>3 DEF SubmitWrite
    <3>2. \/ st' # "active" \/ held' = <<>> \/ work_units > 0 \/ cmdq # <<>>
      <4>1. CASE ~(remaining_budget > 0)  BY <1>4, <2>1, <4>1
      <4>2. CASE held = <<>> \/ worker = "gone"  BY <2>1, <3>1, <4>1, <4>2
      <4>3. CASE ~(Len(cmdq) < CmdCap)
        <5>1. Len(<<>>) = 0 /\ CmdCap > 0  BY WorkerBounds
        <5>. QED  BY <4>3, <5>1
      <4>. QED  BY <2>3, <4>1, <4>2, <4>3
    <3>3. Busy' <=> Busy  BY <2>1, <3>1 DEF Busy
    <3>. QED  BY <1>4, <1>5, <2>1, <3>1, <3>2, <3>3, GotoReady DEF Busy
  <2>. QED  BY <2>2, <2>3
<1>12. CASE EndWriter
  <2>1. UNCHANGED <<cmdq, worker, st, held>> /\ phase = "end"
    BY <1>12 DEF EndWriter, ioVars, channels
  <2>2. CASE Retire("finished")  BY <1>4, <1>5, <2>1, <2>2, RetireTo
  <2>3. CASE Result(work_units, remaining_budget, ready)
    <3>1. Busy' <=> Busy  BY <2>1 DEF Busy
    <3>2. phase' \in {"idle", "state"} /\ ended' = ended  BY <1>2, <2>3, ResultTo
    <3>3. phase' = "state" => remaining_budget' > 0
      <4>1. CASE work_units > 0  BY <2>3, <4>1, StartsFresh DEF Result
      <4>2. CASE ~(work_units > 0)  BY <2>3, <4>2, NoWorkTo DEF Result
      <4>. QED  BY <4>1, <4>2
    <3>4. phase' = "idle" => (work_units > 0 \/ ready => ready')  BY <1>2, <2>3, ResultReady
    <3>5. ended = "no" /\ st = "active" /\ held # <<>> => Busy \/ ready \/ work_units > 0
      BY <2>1 DEF WriterInv
    <3>. QED  BY <1>4, <1>5, <2>1, <3>1, <3>2, <3>3, <3>4, <3>5
  <2>. QED  BY <1>12, <2>2, <2>3 DEF EndWriter
<1>. QED  BY <1>6, <1>7, <1>8, <1>9, <1>10, <1>11, <1>12, WriterSteps

-----------------------------------------------------------------------------
(* The servers and the pollers, which look again by timer.                 *)

\* The phases of a server: HTTPServer's visits to its connections differ, and
\* only a server whose responses name their client keeps some for later.
ServerPhases ==
    {"idle", "retired", "config", "flush", "accept", "end"} \cup
    (IF kind.visit = "serve" THEN {"serve", "parse", "request", "response"}
                             ELSE {"read", "respond"} \cup (IF kind.routed THEN {"retry"} ELSE {}))

\* The phases of the servers and of FileTailer.
RestPhases ==
    /\ IsServer => phase \in ServerPhases
    /\ kind = FileTailer => phase \in {"idle", "retired", "open", "flush", "tail", "end"}

\* A server that listens rests with its poll timer armed.
ServerRests == IsServer /\ ended = "no" /\ st = "active" /\ phase = "idle" => wake \/ ready

\* So do FileReader and FileTailer.
FileRests ==
    (kind = FileReader \/ kind = FileTailer) /\ ended = "no" /\ phase = "idle" => wake \/ ready

\* Neither a server nor FileTailer has a worker, a dispatcher or a child.
LEMMA AloneSteps ==
    ASSUME RestPhases, NoResults, IsServer \/ kind = FileTailer, Next
    PROVE  \/ Neighbours /\ UNCHANGED <<ioVars, netVars>>
           \/ Activate /\ UNCHANGED <<ioVars, netVars>>
           \/ IsServer /\ ServerStep /\ UNCHANGED httpVars
           \/ IsServer /\ HttpStep
           \/ kind = FileTailer /\ (OpenFile \/ FlushPending \/ TailFile \/ EndPoll)
<1>1. /\ kind.family \in {"server", "poller"} /\ ~IsIo /\ ~IsChat /\ ~IsDataflow
      /\ kind # FileReader /\ kind # Cmd /\ kind # HTTPClient
      /\ (IsServer => kind.family = "server" /\ kind \notin PollerKinds)
      /\ (kind = FileTailer => ~IsServer)
  BY PollerNames, PollerKindsAre DEF IsServer, IsIo, IsChat, IsDataflow, PollerKind
<1>2. resq = <<>> /\ worker \in {"none", "op"}  BY DEF NoResults, IsServer
<1>3. phase \notin {"results", "push", "names", "load", "run", "query", "eof", "exit"}
  BY DEF RestPhases, ServerPhases
<1>4. ~ComponentStep
  BY <1>1, <1>3 DEF ComponentStep, Connecting, Waiting, Retrying, Finished, ReadInput, ConnectorEof,
     TakeResult, TakeError, NoResult, PushFetched, Login, AwaitLogin, Poll, TakeInput, Submit,
     EndSession, StartWriter, WriterResults, SubmitWrite, EndWriter
<1>5. ~WorkerStep
  BY <1>1, <1>2 DEF WorkerStep, WorkerRecv, WorkerConnect, WorkerLoggedIn, WorkerOperate, WorkerPoll,
     WorkerShutdown, WorkerWake
<1>6. ~ChatStep
  BY <1>1 DEF ChatStep, ChatApply, ChatLogin, ChatOperate, ChatShutdown, Dispatch, DispatcherWake,
     ChatWaiting, ChatPrompt, ChatResult, ChatDeliver, ChatInput, ChatSend, ChatEnd, ChatDrop
<1>7. ~(ReadFile \/ FinishRead \/ ChildRuns \/ WakeForLine \/ TakeLine \/ CheckChild
        \/ ResetChild \/ CmdEof \/ ClientResult)
  BY <1>1, <1>2 DEF ReadFile, FinishRead, ChildRuns, WakeForLine, TakeLine, CheckChild, ResetChild,
     CmdEof, ClientResult
<1>8. ~(TakeName \/ LoadConfig \/ StartChild \/ ClientRequest)
  BY <1>3 DEF TakeName, LoadConfig, StartChild, ClientRequest
<1>9. ASSUME PollerStep
      PROVE  kind = FileTailer /\ (OpenFile \/ FlushPending \/ TailFile \/ EndPoll)
  <2>1. OpenFile \/ FlushPending \/ TailFile \/ EndPoll  BY <1>7, <1>8, <1>9 DEF PollerStep
  <2>2. CASE IsServer
    <3>1. phase \notin {"open", "tail"} /\ kind.family # "poller"  BY <1>1, <2>2 DEF RestPhases, ServerPhases
    <3>. QED  BY <2>1, <3>1 DEF OpenFile, FlushPending, TailFile, EndPoll
  <2>. QED  BY <2>1, <2>2
<1>10. ASSUME ServerStep \/ HttpStep PROVE IsServer
  <2>1. CASE ServerStep
    BY <2>1 DEF ServerStep, Listen, FlushOutbound, Accept, Handshake, ReadClient, ReadDone,
       RouteResponse, RetryResponse, SendResponse, QueueResponse, EndServer
  <2>2. CASE HttpStep
    <3>1. phase \in {"serve", "request", "response"}
      BY <2>2 DEF HttpStep, ServeClient, ServeDone, SendRequest, RequestsSent, TakeResponse,
         ResponsesTaken
    <3>. QED  BY <3>1 DEF RestPhases
  <2>. QED  BY <1>10, <2>1, <2>2
<1>. QED  BY <1>1, <1>4, <1>5, <1>6, <1>9, <1>10 DEF Next, IoStep

\* One connection of an HTTP server keeps the call going.
LEMMA ServeGoes ==
    ASSUME ServeClient PROVE phase = "serve" /\ phase' \in {"serve", "parse"}
<1>1. PICK id : ReadRequest(id) \/ AwaitResponse(id) \/ WriteResponse(id) \/ KeepAlive(id)
  BY DEF ServeClient
<1>2. phase = "serve"  BY DEF ServeClient
<1>3. CASE ReadRequest(id)
  BY <1>2, <1>3, GotoTo DEF ReadRequest, NoRequest, ParserLoops, MalformedRequest, RequestParsed
<1>4. CASE AwaitResponse(id)  BY <1>2, <1>4, GotoTo DEF AwaitResponse
<1>5. CASE WriteResponse(id)  BY <1>2, <1>5, GotoTo DEF WriteResponse
<1>6. CASE KeepAlive(id)  BY <1>2, <1>6, GotoTo DEF KeepAlive
<1>. QED  BY <1>1, <1>3, <1>4, <1>5, <1>6

\* The servers.
LEMMA ServerGoes ==
    ASSUME RestPhases, ServerRests, NoResults, PortInv, IsServer, Next
    PROVE  RestPhases' /\ ServerRests'
<1>1. UNCHANGED kind  BY KindStays
<1>2. kind.first = "config" /\ kind.visit \in {"read", "serve"} /\ kind # FileTailer
  BY KindIs, PollerNames DEF PortInv, IsServer, FlowKind, IoKind, ChatKind, ServerKind, PollerKind
<1>3. /\ phase \in ServerPhases /\ (phase' \in ServerPhases <=> phase' \in ServerPhases')
      /\ {"idle", "retired", "config", "flush", "accept", "end", kind.visit} \subseteq ServerPhases
      /\ phase \in {"read", "respond", "retry"} => {"read", "respond"} \subseteq ServerPhases
      /\ phase = "retry" \/ (phase = "respond" /\ kind.routed) => "retry" \in ServerPhases
      /\ phase \in {"serve", "request", "response"} =>
            {"serve", "parse", "request", "response"} \subseteq ServerPhases
  BY <1>1, <1>2 DEF RestPhases, ServerPhases
<1>4. ASSUME phase' \in ServerPhases, phase' # "idle" \/ ended' # "no" \/ st' # "active" \/ wake' \/ ready'
      PROVE  RestPhases' /\ ServerRests'
  BY <1>1, <1>2, <1>3, <1>4 DEF RestPhases, ServerRests, IsServer
<1>5. ASSUME \/ phase' \in {"retired", "config", "flush", "accept", "end", kind.visit}
             \/ phase \in {"read", "respond", "retry"} /\ phase' \in {"read", "respond"}
             \/ (phase = "retry" \/ (phase = "respond" /\ kind.routed)) /\ phase' = "retry"
             \/ /\ phase \in {"serve", "request", "response"}
                /\ phase' \in {"serve", "parse", "request", "response"}
      PROVE  RestPhases' /\ ServerRests'
  <2>1. phase' \in ServerPhases /\ phase' # "idle"  BY <1>2, <1>3, <1>5
  <2>. QED  BY <1>4, <2>1
<1>6. CASE Neighbours /\ UNCHANGED ioVars
  <2>1. UNCHANGED <<phase, ended, st>>  BY <1>6, NeighboursCall DEF call, ioVars
  <2>2. ended = "no" => (wake \/ ready => wake' \/ ready')  BY <1>6, NeighboursReady
  <2>. QED  BY <1>3, <1>4, <2>1, <2>2 DEF ServerRests
<1>7. CASE Activate  BY <1>2, <1>5, <1>7 DEF Activate
<1>8. CASE Listen
  <2>1. CASE NoWork(ready) /\ UNCHANGED st /\ st = "waiting"  BY <1>3, <1>4, <2>1, NoWorkTo
  <2>2. CASE DidWork(1, remaining_budget, ready)  BY <1>2, <1>3, <1>4, <2>2, DidWorkReady
  <2>3. CASE \E why : Retire(why)  BY <1>5, <2>3, RetireTo
  <2>4. CASE \E left, units : Goto("flush", left, units)  BY <1>5, <2>4, GotoTo
  <2>. QED  BY <1>8, <2>1, <2>2, <2>3, <2>4 DEF Listen
<1>9. CASE FlushOutbound  BY <1>5, <1>9, GotoTo DEF FlushOutbound
<1>10. CASE Accept
  <2>1. phase' \in {kind.visit, "accept", "retired"}  BY <1>2, <1>10, GotoTo, RetireTo DEF Accept
  <2>. QED  BY <1>5, <2>1
<1>11. CASE Handshake
  <2>1. UNCHANGED phase /\ ready'  BY <1>11 DEF Handshake, call
  <2>. QED  BY <1>3, <1>4, <2>1
<1>12. CASE ReadClient
  <2>1. phase' = "read" /\ phase = "read"
    <3>1. \E left, units : Goto("read", left, units)  BY <1>12 DEF ReadClient
    <3>. QED  BY <1>12, <3>1, GotoTo DEF ReadClient
  <2>. QED  BY <1>5, <2>1
<1>13. CASE ReadDone  BY <1>5, <1>13, GotoTo DEF ReadDone
<1>14. CASE RouteResponse
  <2>1. phase' = "retry" /\ phase = "respond" /\ kind.routed
    <3>1. \E left, units : Goto("retry", left, units)  BY <1>14 DEF RouteResponse
    <3>. QED  BY <1>14, <3>1, GotoTo DEF RouteResponse
  <2>. QED  BY <1>5, <2>1
<1>15. CASE RetryResponse
  <2>1. phase' \in {"retry", "end"} /\ phase = "retry"
    <3>1. \E left, units : Goto("retry", left, units) \/ Goto("end", left, units)
      BY <1>15 DEF RetryResponse
    <3>. QED  BY <1>15, <3>1, GotoTo DEF RetryResponse
  <2>. QED  BY <1>5, <2>1
<1>16. CASE SendResponse
  <2>1. phase' \in {"respond", "end"} /\ phase = "respond"  BY <1>16, GotoTo DEF SendResponse
  <2>. QED  BY <1>5, <2>1
<1>17. CASE QueueResponse
  <2>1. phase' = "end"  BY <1>17, GotoTo DEF QueueResponse
  <2>. QED  BY <1>5, <2>1
<1>18. CASE EndServer
  <2>1. CASE Retire("finished")  BY <1>5, <2>1, RetireTo
  <2>2. CASE \E units : DidWork(units, remaining_budget, ready)
    BY <1>2, <1>3, <1>4, <2>2, DidWorkReady
  <2>3. CASE wake' = TRUE /\ NoWork(ready)  BY <1>3, <1>4, <2>3, NoWorkTo
  <2>. QED  BY <1>18, <2>1, <2>2, <2>3 DEF EndServer
<1>19. CASE HttpStep
  <2>1. CASE ServeClient  BY <1>5, <2>1, ServeGoes
  <2>2. CASE ServeDone \/ RequestsSent \/ ResponsesTaken
    BY <1>5, <2>2, GotoTo DEF ServeDone, RequestsSent, ResponsesTaken
  <2>3. CASE SendRequest
    <3>1. phase' = "request" /\ phase = "request"  BY <2>3, GotoTo DEF SendRequest
    <3>. QED  BY <1>5, <3>1
  <2>4. CASE TakeResponse
    <3>1. phase' \in {"response", "end"} /\ phase = "response"  BY <2>4, GotoTo DEF TakeResponse
    <3>. QED  BY <1>5, <3>1
  <2>. QED  BY <1>19, <2>1, <2>2, <2>3, <2>4 DEF HttpStep
<1>. QED
  BY <1>2, <1>6, <1>7, <1>8, <1>9, <1>10, <1>11, <1>12, <1>13, <1>14, <1>15, <1>16, <1>17, <1>18,
     <1>19, AloneSteps
  DEF ServerStep

\* FileTailer.
LEMMA TailerGoes ==
    ASSUME RestPhases, FileRests, NoResults, kind = FileTailer, Next
    PROVE  RestPhases' /\ FileRests'
<1>1. UNCHANGED kind  BY KindStays
<1>2. kind.first = "open" /\ ~IsServer /\ kind # FileReader
  BY PollerNames DEF IsServer, FileTailer, Poller
<1>3. phase \in {"idle", "retired", "open", "flush", "tail", "end"}  BY DEF RestPhases
<1>4. ASSUME phase' \in {"idle", "retired", "open", "flush", "tail", "end"},
             phase' # "idle" \/ ended' # "no" \/ wake' \/ ready'
      PROVE  RestPhases' /\ FileRests'
  BY <1>1, <1>2, <1>4 DEF RestPhases, FileRests, IsServer
<1>5. CASE Neighbours /\ UNCHANGED ioVars
  <2>1. UNCHANGED <<phase, ended>>  BY <1>5, NeighboursCall DEF call
  <2>2. ended = "no" => (wake \/ ready => wake' \/ ready')  BY <1>5, NeighboursReady
  <2>. QED  BY <1>3, <1>4, <2>1, <2>2 DEF FileRests
<1>6. CASE Activate  BY <1>2, <1>4, <1>6 DEF Activate
<1>7. CASE OpenFile
  <2>1. CASE wake' = TRUE /\ NoWork(ready)  BY <1>4, <2>1, NoWorkTo
  <2>2. CASE Retire("panicked")  BY <1>4, <2>2, RetireTo
  <2>3. CASE Goto("flush", remaining_budget, work_units)  BY <1>4, <2>3, GotoTo
  <2>. QED  BY <1>7, <2>1, <2>2, <2>3 DEF OpenFile
<1>8. CASE FlushPending
  <2>1. phase' \in {"flush", "tail"}  BY <1>2, <1>8, GotoTo DEF FlushPending
  <2>. QED  BY <1>4, <2>1
<1>9. CASE TailFile
  <2>1. phase' \in {"tail", "end"}  BY <1>9, GotoTo DEF TailFile
  <2>. QED  BY <1>4, <2>1
<1>10. CASE EndPoll
  <2>1. CASE DidWork(work_units, remaining_budget, ready)  BY <1>2, <1>4, <2>1, DidWorkReady
  <2>2. CASE wake' = TRUE /\ NoWork(ready)  BY <1>4, <2>2, NoWorkTo
  <2>. QED  BY <1>2, <1>10, <2>1, <2>2 DEF EndPoll
<1>. QED  BY <1>2, <1>5, <1>6, <1>7, <1>8, <1>9, <1>10, AloneSteps

\* FileReader.
LEMMA ReaderGoes ==
    ASSUME FileRests, PollPhases, kind = FileReader, Next
    PROVE  FileRests'
<1>1. UNCHANGED kind  BY KindStays
<1>2. kind.first = "names" /\ kind # Cmd  BY PollerNames
<1>3. ASSUME phase' # "idle" \/ ended' # "no" \/ wake' \/ ready' PROVE FileRests'
  BY <1>3 DEF FileRests
<1>4. CASE Neighbours /\ UNCHANGED ioVars
  <2>1. UNCHANGED <<phase, ended>>  BY <1>4, NeighboursCall DEF call
  <2>2. ended = "no" => (wake \/ ready => wake' \/ ready')  BY <1>4, NeighboursReady
  <2>. QED  BY <1>3, <2>1, <2>2 DEF FileRests
<1>5. CASE Activate  BY <1>2, <1>3, <1>5 DEF Activate
<1>6. CASE WakeForLine
  <2>1. UNCHANGED ended /\ (ended = "no" => ready')  BY <1>6 DEF WakeForLine, call
  <2>. QED  BY <1>3, <2>1
<1>7. CASE ReadFile
  <2>1. UNCHANGED <<phase, ended, wake, ready>>  BY <1>7 DEF ReadFile, nodeVars, call, timing
  <2>. QED  BY <1>3, <2>1 DEF FileRests
<1>8. CASE TakeName \/ FlushPending \/ FinishRead
  <2>1. phase' \in {"flush", "read", "tail", "end"}
    BY <1>8, GotoTo DEF TakeName, FlushPending, FinishRead
  <2>. QED  BY <1>3, <2>1
<1>9. CASE EndPoll
  <2>1. CASE DidWork(work_units, remaining_budget, ready)  BY <1>2, <1>3, <2>1, DidWorkReady
  <2>2. CASE wake' = TRUE /\ NoWork(ready)  BY <1>3, <2>2
  <2>3. CASE Retire("finished")  BY <1>3, <2>3, RetireTo
  <2>. QED  BY <1>9, <2>1, <2>2, <2>3 DEF EndPoll
<1>. QED  BY <1>2, <1>4, <1>5, <1>6, <1>7, <1>8, <1>9, PollSteps

\* Cmd looks at its input with budget left.  It rests with a timer armed while
\* its child runs, is ready again once the child has exited, and otherwise has
\* no input or is ready for it.
CmdGoes ==
    kind = Cmd /\ ended = "no" =>
        /\ phase \in {"load", "run"} => remaining_budget > 0
        /\ conf # "got" => st = "waiting"
        /\ phase = "exit" => st = "active"
        /\ phase = "eof" /\ st = "active" => wake
        /\ phase = "idle" /\ st = "active" => wake \/ ready
        /\ phase \in {"eof", "idle"} /\ st = "finished" => ready
        /\ phase \in {"eof", "idle"} /\ st = "waiting" /\ conf = "got" /\ inq[1] # <<>> => ready

\* Cmd.
LEMMA CmdGoesOn ==
    ASSUME CmdGoes, CmdInv, PollPhases, BudgetInv, BudgetInv', kind = Cmd, Next
    PROVE  CmdGoes'
<1>1. UNCHANGED kind  BY KindStays
<1>2. kind.first = "load" /\ kind # FileReader  BY PollerNames
<1>3. remaining_budget \in Nat  BY DEF BudgetInv
<1>4. ASSUME ended' # "no" PROVE CmdGoes'  BY <1>4 DEF CmdGoes
<1>5. ASSUME phase' \in {"idle", "load"}, phase' = "load" => remaining_budget' > 0,
             phase' = "idle" => ready', conf' # "got" => st' = "waiting"
      PROVE  CmdGoes'
  BY <1>5 DEF CmdGoes
<1>6. CASE ended # "no"
  <2>1. ended' # "no"
    <3>1. CASE Neighbours  BY <1>6, <3>1, NeighboursCall DEF call
    <3>2. CASE WakeForLine \/ ChildRuns
      BY <1>6, <3>2 DEF WakeForLine, ChildRuns, nodeVars, call
    <3>3. CASE Activate  BY <1>6, <3>3 DEF Activate
    <3>4. CASE LoadConfig
      BY <1>6, <3>4, GotoTo, NoWorkTo, RetireTo DEF LoadConfig
    <3>5. CASE StartChild  BY <1>6, <3>5, GotoTo, DidWorkTo, RetireTo DEF StartChild
    <3>6. CASE TakeLine  BY <1>6, <3>6, GotoTo DEF TakeLine
    <3>7. CASE CheckChild  BY <1>6, <3>7, DidWorkTo DEF CheckChild
    <3>8. CASE ResetChild  BY <1>6, <3>8 DEF ResetChild
    <3>9. CASE CmdEof  BY <1>6, <3>9, NoWorkTo, RetireTo DEF CmdEof
    <3>. QED  BY <1>2, <3>1, <3>2, <3>3, <3>4, <3>5, <3>6, <3>7, <3>8, <3>9, PollSteps
  <2>. QED  BY <1>4, <2>1
<1> SUFFICES ASSUME ended = "no" PROVE CmdGoes'  BY <1>6
<1>7. /\ phase \in {"load", "run"} => remaining_budget > 0
      /\ conf # "got" => st = "waiting"
      /\ phase = "exit" => st = "active"
      /\ phase = "eof" /\ st = "active" => wake
      /\ phase = "idle" /\ st = "active" => wake \/ ready
      /\ phase \in {"eof", "idle"} /\ st = "finished" => ready
      /\ phase \in {"eof", "idle"} /\ st = "waiting" /\ conf = "got" /\ inq[1] # <<>> => ready
  BY DEF CmdGoes
<1>8. CASE Neighbours /\ UNCHANGED ioVars
  <2>1. UNCHANGED <<phase, remaining_budget, ended, st>>  BY <1>8, NeighboursCall DEF call, ioVars
  <2>2. /\ ready => ready'
        /\ wake => wake' \/ (ready' /\ phase = "idle")
        /\ ready' \/ UNCHANGED <<inq, conf, wake>>
        /\ conf' = conf \/ (conf = "none" /\ ready')
    BY <1>8, NeighboursReady
  <2>3. CASE ready'
    <3>1. phase = "eof" => (wake => wake')  BY <2>2
    <3>2. conf' # "got" => conf # "got"  BY <2>2
    <3>. QED  BY <1>7, <2>1, <2>3, <3>1, <3>2 DEF CmdGoes
  <2>4. CASE ~ready'  BY <1>7, <2>1, <2>2, <2>4 DEF CmdGoes
  <2>. QED  BY <2>3, <2>4
<1>9. CASE Activate /\ UNCHANGED ioVars
  <2>1. phase' = "load" /\ UNCHANGED <<st, conf>>  BY <1>2, <1>9 DEF Activate, ioVars, edges
  <2>2. remaining_budget' > 0  BY <1>9, <2>1, StartsFresh
  <2>. QED  BY <1>5, <1>7, <2>1, <2>2
<1>10. CASE WakeForLine
  <2>1. UNCHANGED <<phase, remaining_budget, ended, st, wake, conf, inq>> /\ ready'
    BY <1>10 DEF WakeForLine, call, edges
  <2>. QED  BY <1>7, <2>1 DEF CmdGoes
<1>11. CASE ChildRuns
  <2>1. UNCHANGED <<phase, remaining_budget, ended, st, wake, ready, conf, inq>>
    BY <1>11 DEF ChildRuns, nodeVars, call, edges, timing
  <2>. QED  BY <1>7, <2>1 DEF CmdGoes
<1>12. CASE LoadConfig
  <2>1. phase = "load" /\ UNCHANGED <<inq, wake>>  BY <1>12 DEF LoadConfig
  <2>2. ASSUME Goto("run", remaining_budget, work_units), conf' = "got" PROVE CmdGoes'
    <3>1. phase' = "run" /\ remaining_budget' > 0  BY <1>7, <2>1, <2>2, GotoTo
    <3>. QED  BY <2>2, <3>1 DEF CmdGoes
  <2>3. ASSUME NoWork(ready), st' = "unconfigured", conf' = "got" PROVE CmdGoes'
    BY <2>3, NoWorkTo DEF CmdGoes
  <2>4. ASSUME Retire("panicked") PROVE CmdGoes'  BY <1>4, <2>4, RetireTo
  <2>5. ASSUME NoWork(ready), conf = "none" \/ st = "unconfigured", UNCHANGED <<conf, st>>
        PROVE  CmdGoes'
    <3>1. conf' # "got" => st' = "waiting"  BY <1>7, <2>5
    <3>2. phase' = "idle"  BY <2>5, NoWorkTo
    <3>3. st' = "unconfigured" \/ (conf' # "got" /\ st' = "waiting")  BY <1>7, <2>5
    <3>. QED  BY <3>1, <3>2, <3>3 DEF CmdGoes
  <2>. QED  BY <1>12, <2>2, <2>3, <2>4, <2>5 DEF LoadConfig
<1>13. CASE StartChild
  <2>1. phase = "run" /\ UNCHANGED conf /\ conf = "got"  BY <1>13 DEF StartChild, CmdInv
  <2>2. ASSUME DidWork(1, remaining_budget - 1, ready) PROVE CmdGoes'
    <3>1. (phase' = "idle" /\ ready') \/ phase' = "load"  BY <1>2, <2>2, DidWorkReady
    <3>2. phase' = "load" => remaining_budget' > 0  BY <2>2, StartsFresh
    <3>. QED  BY <1>5, <2>1, <3>1, <3>2
  <2>3. ASSUME Retire("panicked") PROVE CmdGoes'  BY <1>4, <2>3, RetireTo
  <2>4. ASSUME remaining_budget = 0 \/ inq[1] = <<>>, Goto("eof", remaining_budget, work_units),
               UNCHANGED <<inq, st>>
        PROVE  CmdGoes'
    <3>1. inq'[1] = <<>> /\ st' = "waiting"  BY <1>3, <1>7, <1>13, <2>1, <2>4 DEF StartChild
    <3>2. phase' = "eof"  BY <2>4, GotoTo
    <3>. QED  BY <2>1, <3>1, <3>2 DEF CmdGoes
  <2>. QED  BY <1>13, <2>2, <2>3, <2>4 DEF StartChild
<1>14. CASE TakeLine
  <2>1. phase' = "exit" /\ UNCHANGED <<st, conf>> /\ st = "active"  BY <1>14, GotoTo DEF TakeLine
  <2>. QED  BY <1>7, <2>1 DEF CmdGoes
<1>15. CASE CheckChild
  <2>1. UNCHANGED <<conf, inq>> /\ phase = "exit" /\ st = "active" /\ conf = "got"
    BY <1>7, <1>15 DEF CheckChild, edges, CmdInv
  <2>2. CASE work_units > 0
    <3>1. PICK signalled : DidWork(work_units, remaining_budget, signalled)
      BY <1>15, <2>2 DEF CheckChild
    <3>2. (phase' = "idle" /\ ready') \/ phase' = "load"  BY <1>2, <3>1, DidWorkReady
    <3>3. phase' = "load" => remaining_budget' > 0  BY <3>1, StartsFresh
    <3>. QED  BY <1>5, <2>1, <3>2, <3>3
  <2>3. CASE ~(work_units > 0)
    <3>1. /\ wake' /\ phase' = "eof"
          /\ \/ inflight = 0 /\ st' = "finished" /\ ready'
             \/ st' = st
      BY <1>15, <2>3 DEF CheckChild
    <3>. QED  BY <2>1, <3>1 DEF CmdGoes
  <2>. QED  BY <2>2, <2>3
<1>16. CASE ResetChild
  <2>1. phase' = "eof" /\ st' = "waiting" /\ ready' /\ UNCHANGED conf  BY <1>16 DEF ResetChild, edges
  <2>. QED  BY <2>1 DEF CmdGoes
<1>17. CASE CmdEof
  <2>1. phase = "eof" /\ UNCHANGED <<inq, conf, wake, st>>  BY <1>17 DEF CmdEof, edges, ioVars
  <2>2. CASE Retire("finished")  BY <1>4, <2>2, RetireTo
  <2>3. CASE NoWork(ready)
    <3>1. phase' = "idle" /\ (ready => ready')  BY <2>3, NoWorkReady
    <3>. QED  BY <1>7, <2>1, <3>1 DEF CmdGoes
  <2>. QED  BY <1>17, <2>2, <2>3 DEF CmdEof
<1>. QED
  BY <1>2, <1>8, <1>9, <1>10, <1>11, <1>12, <1>13, <1>14, <1>15, <1>16, <1>17, PollSteps

-----------------------------------------------------------------------------
(* The invariant and the theorem.                                          *)

FlowGoes == SpendInv /\ ReadInv /\ TimerInv
WorkersGo == FetchInv /\ SessionInv /\ ChatRests /\ WriterInv
PollersGo == RestPhases /\ ServerRests /\ FileRests /\ CmdGoes

GoesInv == FlowGoes /\ WorkersGo /\ PollersGo

\* A node starts at rest and ready, with no file, connection or child.
LEMMA GoesInit == ASSUME Init PROVE GoesInv
<1>1. /\ phase = "idle" /\ ready /\ st = "waiting" /\ cmdq = <<>> /\ kind \in Kinds
      /\ open = kind.inports /\ inq = [p \in InPorts |-> <<>>] /\ next_fire_time = FALSE
      /\ worker = IF kind.family \in {"writer", "dataflow", "server", "poller"} THEN "none" ELSE "recv"
  BY DEF Init, NodeInit, IoInit, DataflowInit
<1>2. SpendInv /\ TimerInv  BY <1>1 DEF SpendInv, TimerInv
<1>3. ReadInv  BY <1>1 DEF ReadInv
<1>4. FetchInv /\ SessionInv /\ ChatRests  BY <1>1 DEF FetchInv, SessionInv, ChatRests
<1>5. WriterInv  BY <1>1 DEF WriterInv
<1>6. RestPhases /\ ServerRests /\ FileRests  BY <1>1 DEF RestPhases, ServerPhases, ServerRests, FileRests
<1>7. CmdGoes  BY <1>1 DEF CmdGoes
<1>. QED  BY <1>2, <1>3, <1>4, <1>5, <1>6, <1>7 DEF GoesInv, FlowGoes, WorkersGo, PollersGo

\* Each part is about components of its own, and a stutter changes nothing.
LEMMA GoesStep ==
    ASSUME ComponentInv, BudgetInv', WorkerInv, SideInv, MessagesInv, GoesInv, [Next]_vars
    PROVE  GoesInv'
<1>1. UNCHANGED kind  BY KindStays DEF vars, nodeVars
<1>2. /\ PortInv /\ VecsInv /\ BudgetInv /\ PhaseInv /\ EndedInv /\ PollPhases /\ NoResults /\ CmdInv
      /\ StepsInv /\ InputInv
  BY DEF ComponentInv, WorkerInv, SideInv, MessagesInv
<1>3. /\ SpendInv /\ ReadInv /\ TimerInv /\ FetchInv /\ SessionInv /\ ChatRests /\ WriterInv
      /\ RestPhases /\ ServerRests /\ FileRests /\ CmdGoes
  BY DEF GoesInv, FlowGoes, WorkersGo, PollersGo
<1>4. CASE UNCHANGED vars
  <2>1. UNCHANGED <<kind, phase, ended, open, inq, conf, ready, wake, fired, remaining_budget, work_units,
                    pending, next_fire_time, st, held, inflight, cmdq, worker>>
    BY <1>4 DEF vars, nodeVars, edges, timing, call, flowVars, ioVars, channels
  <2>2. SpendInv' /\ ReadInv' /\ TimerInv'
    BY <1>3, <2>1 DEF SpendInv, ReadInv, TimerInv, Thorough, IsDataflow
  <2>3. FetchInv' /\ SessionInv' /\ ChatRests' /\ WriterInv'
    BY <1>3, <2>1 DEF FetchInv, SessionInv, ChatRests, WriterInv, Busy, IsChat
  <2>4. RestPhases' /\ ServerRests' /\ FileRests' /\ CmdGoes'
    BY <1>3, <2>1 DEF RestPhases, ServerPhases, ServerRests, FileRests, CmdGoes, IsServer
  <2>. QED  BY <2>2, <2>3, <2>4 DEF GoesInv, FlowGoes, WorkersGo, PollersGo
<1> SUFFICES ASSUME Next PROVE GoesInv'  BY <1>4
<1>5. FlowGoes'
  <2>1. CASE IsDataflow  BY <1>2, <1>3, <2>1, SpendStep, ReadStep, TimerStep DEF FlowGoes
  <2>2. CASE ~IsDataflow
    BY <1>1, <2>2 DEF FlowGoes, SpendInv, ReadInv, TimerInv, IsDataflow
  <2>. QED  BY <2>1, <2>2
<1>6. FetchInv' /\ SessionInv'
  <2>1. CASE kind.family \in {"session", "fetcher"}  BY <1>2, <1>3, <2>1, SessionGoes
  <2>2. CASE kind.family \notin {"session", "fetcher"}  BY <1>1, <2>2 DEF FetchInv, SessionInv
  <2>. QED  BY <2>1, <2>2
<1>7. ChatRests'
  <2>1. CASE IsChat  BY <1>2, <1>3, <2>1, ChatGoes
  <2>2. CASE ~IsChat  BY <1>1, <2>2 DEF ChatRests, IsChat
  <2>. QED  BY <2>1, <2>2
<1>8. WriterInv'
  <2>1. CASE kind.family = "writer"  BY <1>2, <1>3, <2>1, WriterGoes
  <2>2. CASE kind.family # "writer"  BY <1>1, <2>2 DEF WriterInv
  <2>. QED  BY <2>1, <2>2
<1>9. RestPhases' /\ ServerRests' /\ FileRests'
  <2>1. FileTailer # FileReader /\ (IsServer => kind # FileTailer /\ kind # FileReader)
    BY PollerNames DEF IsServer
  <2>2. CASE IsServer
    <3>1. FileRests'  BY <1>1, <2>1, <2>2 DEF FileRests
    <3>. QED  BY <1>2, <1>3, <2>2, <3>1, ServerGoes
  <2>3. CASE kind = FileTailer
    <3>1. ServerRests'  BY <1>1, <2>1, <2>3 DEF ServerRests, IsServer
    <3>. QED  BY <1>2, <1>3, <2>3, <3>1, TailerGoes
  <2>4. CASE ~IsServer /\ kind # FileTailer
    <3>1. RestPhases' /\ ServerRests'  BY <1>1, <2>4 DEF RestPhases, ServerRests, IsServer
    <3>2. CASE kind = FileReader  BY <1>2, <1>3, <3>1, <3>2, ReaderGoes
    <3>3. CASE kind # FileReader  BY <1>1, <2>4, <3>1, <3>3 DEF FileRests
    <3>. QED  BY <3>2, <3>3
  <2>. QED  BY <2>2, <2>3, <2>4
<1>10. CmdGoes'
  <2>1. CASE kind = Cmd  BY <1>2, <1>3, <2>1, CmdGoesOn
  <2>2. CASE kind # Cmd  BY <1>1, <2>2 DEF CmdGoes
  <2>. QED  BY <2>1, <2>2
<1>. QED  BY <1>5, <1>6, <1>7, <1>8, <1>9, <1>10 DEF GoesInv, WorkersGo, PollersGo

\* The invariant holds.
LEMMA GoesInvHolds == Spec => []GoesInv
<1>1. Init => GoesInv  BY GoesInit
<1>2. ComponentInv /\ ComponentInv' /\ WorkerInv /\ SideInv /\ MessagesInv /\ GoesInv /\ [Next]_vars
          => GoesInv'
  <2> SUFFICES ASSUME ComponentInv, ComponentInv', WorkerInv, SideInv, MessagesInv, GoesInv, [Next]_vars
               PROVE  GoesInv'
    OBVIOUS
  <2>1. BudgetInv'  BY DEF ComponentInv
  <2>. QED  BY <2>1, GoesStep
<1>. QED  BY <1>1, <1>2, ComponentInvHolds, WorkerInvHolds, SideInvHolds, MessagesHold, PTL DEF Spec

\* What the invariants say of a node asleep.
LEMMA AsleepGoes ==
    ASSUME ComponentInv, WorkerInv, GoesInv, Asleep
    PROVE  /\ IsDataflow => ReadsItsInput /\ HasTimer
           /\ IsIo /\ st = "active" => WorkerGoesOn
           /\ IsChat /\ st = "active" => inq[1] = <<>>
           /\ IsServer /\ st = "active" => wake
           /\ kind \in {FileReader, FileTailer} => wake
           /\ kind = Cmd => (st = "active" => wake) /\ st # "finished"
           /\ kind = Cmd /\ conf = "got" /\ st = "waiting" => inq[1] = <<>>
<1>1. phase = "idle" /\ ~ready /\ ended = "no" /\ PortInv /\ ChannelInv
  BY DEF Asleep, ComponentInv, WorkerInv
<1>2. /\ ReadInv /\ TimerInv /\ FetchInv /\ SessionInv /\ ChatRests /\ WriterInv
      /\ ServerRests /\ FileRests /\ CmdGoes
  BY DEF GoesInv, FlowGoes, WorkersGo, PollersGo
<1>3. ASSUME IsDataflow PROVE ReadsItsInput /\ HasTimer
  <2>1. HasTimer  BY <1>1, <1>2, <1>3 DEF TimerInv, HasTimer
  <2>2. ASSUME Thorough, NEW p \in InPorts PROVE inq[p] = <<>>
    <3>1. 2 \notin kind.inports  BY <1>1, <1>3, <2>2, FlowIs DEF FlowRecord, Thorough
    <3>2. inq[1] = <<>>  BY <1>1, <1>2, <1>3, <2>2 DEF ReadInv, Reading
    <3>3. CASE p = 1  BY <3>2, <3>3
    <3>4. CASE p # 1
      <4>1. p \in InPorts \ kind.inports  BY <3>1, <3>4 DEF InPorts
      <4>. QED  BY <1>1, <1>2, <1>3, <4>1 DEF ReadInv
    <3>. QED  BY <3>3, <3>4
  <2>3. ReadsItsInput  BY <2>2 DEF ReadsItsInput, Thorough
  <2>. QED  BY <2>1, <2>3
<1>4. ASSUME IsIo, st = "active" PROVE WorkerGoesOn
  <2>1. ASSUME kind.family = "fetcher" PROVE Jobs + Errors > 0
    <3>1. Counted  BY <2>1 DEF Counted
    <3>2. ChannelShape  BY <1>1, <3>1 DEF ChannelInv
    <3>3. inflight \in Nat /\ inflight # 0  BY <1>1, <1>2, <1>4, <2>1, <3>2 DEF ChannelShape, FetchInv
    <3>4. Jobs + Errors = inflight  BY <1>4, <3>1, <3>2, JobsAccounted
    <3>. QED  BY <3>3, <3>4
  <2>2. kind.family = "session" => held = <<>>  BY <1>1, <1>2, <1>4 DEF SessionInv
  <2>3. kind.family = "writer" /\ held # <<>> => Busy  BY <1>1, <1>2, <1>4 DEF WriterInv
  <2>. QED  BY <2>1, <2>2, <2>3 DEF WorkerGoesOn, Busy
<1>5. IsChat /\ st = "active" => inq[1] = <<>>  BY <1>1, <1>2 DEF ChatRests
<1>6. IsServer /\ st = "active" => wake  BY <1>1, <1>2 DEF ServerRests
<1>7. kind \in {FileReader, FileTailer} => wake  BY <1>1, <1>2 DEF FileRests
<1>8. kind = Cmd => (st = "active" => wake) /\ st # "finished"  BY <1>1, <1>2 DEF CmdGoes
<1>9. kind = Cmd /\ conf = "got" /\ st = "waiting" => inq[1] = <<>>  BY <1>1, <1>2 DEF CmdGoes
<1>. QED  BY <1>3, <1>4, <1>5, <1>6, <1>7, <1>8, <1>9

\* No component's process() lets its node fall asleep with work at hand and
\* nothing that will wake it: input it could read, packets a Delay or a writer
\* holds, an IMAP session without a request, a listening socket, a file or a
\* child to look at again.
THEOREM NoComponentStalls == Spec => []KeepsGoing
<1>1. ComponentInv /\ WorkerInv /\ GoesInv => KeepsGoing  BY AsleepGoes DEF KeepsGoing
<1>. QED  BY <1>1, ComponentInvHolds, WorkerInvHolds, GoesInvHolds, PTL
=============================================================================
