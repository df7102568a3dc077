----------------------------- MODULE ChatWorker -----------------------------
(****************************************************************************)
(* The chat components (OpenAIChat, TelegramBot, MatrixClient).  They share *)
(* the worker thread of IoWorker, but both of its channels are bounded and  *)
(* every send on them blocks: process() on the scheduler's thread waits for *)
(* room in the command channel, the worker for room in the result channel.  *)
(* Telegram and Matrix also have a dispatcher task, which sends the         *)
(* messages the chat server delivers into the same result channel: beside   *)
(* the worker for Telegram (multi-threaded runtime), only while the worker  *)
(* awaits the server for Matrix (current-thread runtime).                   *)
(****************************************************************************)
EXTENDS IoWorker

CONSTANT ResCap     \* bound: places of the result channel (DEFAULT_MAX_PENDING)

ASSUME ChatBounds == ResCap \in Nat \ {0}

VARIABLE dispatcher     \* "off", "on", "send" a message, then "wake" the node

(* dispatches: which runtime its dispatcher has; breaks: the worker may     *)
(* panic on an answer or an input; strict: process() may panic on an input. *)
Chat ==
    [name |-> "", family |-> "chat", first |-> "state", config |-> "return",
     phases |-> {"state", "prompt", "setchat", "deliver", "input", "op", "end",
                 "finished", "panicked"},
     inports |-> {1}, dispatches |-> "no", breaks |-> FALSE, strict |-> FALSE,
     full |-> "finish", eof |-> "never", errors |-> {"error"}]

OpenAIChat == [Chat EXCEPT !.name = "OpenAIChat", !.breaks = TRUE]
TelegramBot ==
    [Chat EXCEPT !.name = "TelegramBot", !.dispatches = "beside", !.strict = TRUE]
MatrixClient ==
    [Chat EXCEPT !.name = "MatrixClient", !.dispatches = "within", !.breaks = TRUE]

ChatKinds == {OpenAIChat, TelegramBot, MatrixClient}
IsChat == kind.family = "chat"

ChatTypeOK ==
    /\ dispatcher \in {"off", "on", "send", "wake"}
    /\ IsChat => Len(cmdq) <= CmdCap /\ Len(resq) <= ResCap

ChatInit == dispatcher = "off"

(* --------------------------------------------------- worker, dispatcher -- *)
(* A result channel has room, or its receiver was dropped with the node.    *)
CanAnswer == ended # "no" \/ Len(resq) < ResCap
SendResult(result) == resq' = IF ended = "no" THEN Append(resq, result) ELSE resq

(* A current-thread runtime runs the worker only between dispatcher steps.  *)
WorkerRuns == kind.dispatches = "within" => dispatcher \in {"off", "on"}

(* SetConfig, SetInitialPrompt and SetChatId are applied without an answer. *)
ChatApply ==
    /\ IsChat
    /\ worker \in {"prompt", "setchat"} \/ (worker = "connect" /\ kind.dispatches = "no")
    /\ worker' = "recv"
    /\ UNCHANGED <<nodeVars, st, cmdq, resq, held, inflight, retry_state, history, dispatcher>>

(* InitBot, InitClient: the dispatcher starts before the answer is sent.    *)
ChatLogin ==
    /\ worker = "connect" /\ IsChat /\ kind.dispatches # "no"
    /\ \/ /\ CanAnswer /\ SendResult(<<"connected", <<>>>>)
          /\ worker' = "wake" /\ dispatcher' = "on"
       \/ /\ kind.breaks /\ CanAnswer /\ SendResult(<<"error", <<>>>>)
          /\ worker' = "wake" /\ UNCHANGED dispatcher
       \/ /\ kind.breaks /\ worker' = "gone" /\ UNCHANGED <<resq, dispatcher>>
    /\ UNCHANGED <<nodeVars, st, cmdq, held, inflight, retry_state, history>>

(* ChatCompletion, SendMessage: one request to the server.  OpenAI's answer *)
(* carries a message for the node.  A panic ends the thread without an      *)
(* answer and without a wakeup.                                             *)
ChatOperate ==
    /\ worker = "op" /\ IsChat /\ WorkerRuns
    /\ \/ /\ CanAnswer /\ worker' = "wake"
          /\ \/ /\ SendResult(<<"done", NewMail(IF kind.dispatches = "no" THEN 1 ELSE 0)>>)
                /\ fetched' = IF kind.dispatches = "no" /\ ended = "no"
                              THEN fetched + 1 ELSE fetched
             \/ SendResult(<<"error", <<>>>>) /\ UNCHANGED fetched
          /\ UNCHANGED dispatcher
       \/ /\ kind.breaks /\ worker' = "gone" /\ dispatcher' = "off"
          /\ UNCHANGED <<resq, fetched>>
    /\ UNCHANGED <<nodeVars, st, cmdq, held, inflight, retry_state,
                   failures, submitted, confirmed, lost>>

(* Shutdown aborts the dispatcher and ends the thread.                      *)
ChatShutdown ==
    /\ worker = "shutdown" /\ IsChat /\ WorkerRuns
    /\ worker' = "gone" /\ dispatcher' = "off"
    /\ UNCHANGED <<nodeVars, st, cmdq, resq, held, inflight, retry_state, history>>

(* A message arrives from the chat server and the dispatcher sends it on.   *)
Dispatch ==
    /\ IsChat /\ ended = "no"
    /\ \/ /\ dispatcher = "on" /\ fetched < MaxMsgs
          /\ kind.dispatches = "within" => worker = "op"
          /\ dispatcher' = "send" /\ UNCHANGED <<resq, fetched>>
       \/ /\ dispatcher = "send" /\ CanAnswer
          /\ SendResult(<<"message", NewMail(1)>>) /\ fetched' = fetched + 1
          /\ dispatcher' = "wake"
    /\ UNCHANGED <<nodeVars, st, cmdq, worker, held, inflight, retry_state,
                   failures, submitted, confirmed, lost>>

DispatcherWake ==
    /\ IsChat /\ dispatcher = "wake"
    /\ dispatcher' = "on" /\ ready' = (ended = "no")
    /\ UNCHANGED <<kind, edges, wake, fired, call, ioVars>>

(* ---------------------------------------------------------- process() -- *)
(* WaitingForConfig.  The command channel is still empty.                   *)
ChatWaiting ==
    /\ phase = "state" /\ IsChat /\ st = "waiting"
    /\ \/ /\ conf = "queued" /\ conf' = "got" /\ Send("connect")
          /\ st' \in (IF kind.name = "OpenAIChat" THEN {"active", "prompt"} ELSE {"active"})
          /\ DidWork(1, remaining_budget, ready)
       \/ /\ conf = "queued" /\ conf' = "got"
          /\ Goto("panicked", remaining_budget, work_units)
          /\ UNCHANGED <<cmdq, st>>
       \/ conf # "queued" /\ NoWork(ready) /\ UNCHANGED <<conf, cmdq, st>>
    /\ UNCHANGED <<kind, inq, sent, open, outq, delivered, wake, fired, resq, worker,
                   held, inflight, retry_state, history, dispatcher>>

(* WaitingForInitialPrompt of OpenAIChat: the first input is the prompt.    *)
ChatPrompt ==
    /\ phase = "state" /\ IsChat /\ st = "prompt"
    /\ \/ /\ inq[1] # <<>> /\ Pop(1)
          /\ \E next \in {"prompt", "finished"} : Goto(next, remaining_budget, work_units)
       \/ /\ inq[1] = <<>>
          /\ IF open = {} THEN Goto("finished", remaining_budget, work_units) ELSE NoWork(ready)
          /\ UNCHANGED inq
    /\ UNCHANGED <<kind, sent, open, conf, outq, delivered, wake, fired, ioVars, dispatcher>>

ChatResultMutant ==
    /\ phase = "state" /\ IsChat /\ st = "active"
    /\ IF inq[1] = <<>> /\ remaining_budget > 0 /\ resq # <<>>
       THEN /\ resq' = Tail(resq) /\ held' = Head(resq)[2]
            /\ IF Head(resq)[2] = <<>>
               THEN Goto("input", remaining_budget - 1, work_units + 1)
               ELSE Goto(IF kind.name = "TelegramBot" THEN "setchat" ELSE "deliver",
                         remaining_budget, work_units)
       ELSE Goto("input", remaining_budget, work_units) /\ UNCHANGED <<resq, held>>
    /\ UNCHANGED <<kind, edges, wake, fired, st, cmdq, worker, inflight, retry_state,
                   history, dispatcher>>

(* Active: take one result; a message is to be pushed, by Telegram only     *)
(* after its chat id went to the worker.                                    *)
ChatResult ==
    /\ phase = "state" /\ IsChat /\ st = "active"
    /\ IF remaining_budget > 0 /\ resq # <<>>
       THEN /\ resq' = Tail(resq) /\ held' = Head(resq)[2]
            /\ IF Head(resq)[2] = <<>>
               THEN Goto("input", remaining_budget - 1, work_units + 1)
               ELSE Goto(IF kind.name = "TelegramBot" THEN "setchat" ELSE "deliver",
                         remaining_budget, work_units)
       ELSE Goto("input", remaining_budget, work_units) /\ UNCHANGED <<resq, held>>
    /\ UNCHANGED <<kind, edges, wake, fired, st, cmdq, worker, inflight, retry_state,
                   history, dispatcher>>

(* Push the message; a full edge finishes the node.                         *)
ChatDeliver ==
    /\ phase = "deliver" /\ IsChat
    /\ IF Room(1)
       THEN /\ Push(1, Head(held)) /\ held' = <<>>
            /\ Goto("input", remaining_budget - 1, work_units + 1)
       ELSE Goto("finished", remaining_budget, work_units) /\ UNCHANGED <<outq, held>>
    /\ UNCHANGED <<kind, inq, sent, open, conf, delivered, wake, fired, st, channels,
                   inflight, retry_state, history, dispatcher>>

(* Then take one input and hand it to the worker.                           *)
ChatInput ==
    /\ phase = "input" /\ IsChat
    /\ IF remaining_budget > 0 /\ inq[1] # <<>>
       THEN /\ Pop(1)
            /\ \/ Goto("op", remaining_budget, work_units)
               \/ kind.strict /\ Goto("panicked", remaining_budget, work_units)
       ELSE Goto("end", remaining_budget, work_units) /\ UNCHANGED inq
    /\ UNCHANGED <<kind, sent, open, conf, outq, delivered, wake, fired, ioVars, dispatcher>>

(* A blocking send of the command the phase is named for.  A worker that    *)
(* is gone fails it, which finishes the node except for SetChatId.          *)
ChatSend ==
    /\ phase \in {"prompt", "setchat", "op"} /\ IsChat
    /\ \/ /\ worker # "gone" /\ Len(cmdq) < CmdCap
          /\ Send(phase)
          /\ submitted' = IF phase = "op" THEN submitted + 1 ELSE submitted
          /\ st' = "active"
          /\ CASE phase = "prompt" -> DidWork(1, remaining_budget, ready)
               [] phase = "setchat" -> Goto("deliver", remaining_budget, work_units)
               [] phase = "op" -> Goto("end", remaining_budget - 1, work_units + 1)
       \/ /\ worker = "gone"
          /\ Goto(IF phase = "setchat" THEN "deliver" ELSE "finished",
                  remaining_budget, work_units)
          /\ UNCHANGED <<cmdq, submitted, st>>
    /\ UNCHANGED <<kind, edges, wake, fired, resq, worker, held, inflight, retry_state,
                   failures, confirmed, fetched, lost, dispatcher>>

ChatEnd ==
    /\ phase = "end" /\ IsChat
    /\ Result(work_units, remaining_budget, ready \/ inq[1] # <<>>)
    /\ UNCHANGED <<kind, edges, wake, fired, ioVars, dispatcher>>

(* The scheduler drops the component: Drop sends Shutdown, blocking too;    *)
(* OpenAIChat has only its ends of the channels to drop.                    *)
ChatDrop ==
    /\ phase \in {"finished", "panicked"} /\ IsChat
    /\ \/ /\ kind.dispatches # "no" /\ worker # "gone" /\ Len(cmdq) < CmdCap
          /\ Send("shutdown")
       \/ /\ kind.dispatches = "no" \/ worker = "gone"
          /\ UNCHANGED cmdq
    /\ Retire(phase)
    /\ UNCHANGED <<kind, edges, wake, fired, st, resq, worker, held, inflight,
                   retry_state, history, dispatcher>>

ChatStep ==
    \/ ChatApply \/ ChatLogin \/ ChatOperate \/ ChatShutdown \/ Dispatch \/ DispatcherWake
    \/ ChatWaiting \/ ChatPrompt \/ ChatResult \/ ChatDeliver \/ ChatInput \/ ChatSend
    \/ ChatEnd \/ ChatDrop

(* ---------------------------------------------------------- properties -- *)
NodeBlocked ==
    phase \in {"prompt", "setchat", "op", "finished", "panicked"}
        /\ worker # "gone" /\ Len(cmdq) >= CmdCap
WorkerBlocked == worker = "op" /\ ~CanAnswer

(* The scheduler's thread and the worker never wait for each other: with a   *)
(* request and an answer per input, OpenAIChat cannot fill both channels,    *)
(* since it takes an answer before each request.  Telegram and Matrix, whose *)
(* dispatcher fills the same channel unasked, can (telegram.rs:315,          *)
(* matrix.rs:500).                                                           *)
NoMutualBlock == IsChat /\ kind.dispatches = "no" => ~(NodeBlocked /\ WorkerBlocked)
=============================================================================
