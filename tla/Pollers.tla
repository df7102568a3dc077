------------------------------ MODULE Pollers ------------------------------
(****************************************************************************)
(* The components that look after a file or a process by timer: FileReader, *)
(* FileTailer and Cmd, and HTTPClient, which shares their worker thread     *)
(* only.  They have no configured state machine: each call of process()     *)
(* passes through all its phases.                                           *)
(*                                                                          *)
(* In-edge 1 is NAMES of FileReader, IN of Cmd and REQ of HTTPClient;       *)
(* out-edge 1 is OUT.  FileReader: st says whether it has a file name,      *)
(* inflight is pending_read, held is pending_files.  FileTailer: st says    *)
(* whether it has a file, held is pending_lines.  Cmd: st is Idle           *)
(* ("waiting"), Running ("active") or Completed ("finished"), inflight      *)
(* tells whether the child runs, worker is the thread that reads its        *)
(* output.  What they read is numbered by fetched.                          *)
(****************************************************************************)
EXTENDS IoWorker

Poller ==
    [name |-> "", family |-> "poller", first |-> "names", config |-> "none",
     phases |-> {"names", "flush", "read", "end"}, inports |-> {1}]
FileReader == [Poller EXCEPT !.name = "FileReader"]
FileTailer ==
    [Poller EXCEPT !.name = "FileTailer", !.first = "open", !.config = "return",
                   !.phases = {"open", "flush", "tail", "end"}, !.inports = {}]
Cmd ==
    [Poller EXCEPT !.name = "Cmd", !.first = "load", !.config = "return",
                   !.phases = {"load", "run", "exit", "eof"}]
HTTPClient ==
    [Poller EXCEPT !.name = "HTTPClient", !.first = "query", !.phases = {"query"}]

PollerKinds == {FileReader, FileTailer, Cmd, HTTPClient}

pollRest == <<cmdq, retry_state, failures, submitted, confirmed, lost>>
Next1 == <<1, fetched + 1, 1>>

(* ---------------------------------------------------------- FileReader -- *)
(* Take a file name if there is none.                                       *)
TakeName ==
    /\ phase = "names"
    /\ IF st = "waiting" /\ inq[1] # <<>>
       THEN Pop(1) /\ st' = "active"
       ELSE UNCHANGED <<inq, st>>
    /\ Goto("flush", remaining_budget, work_units)
    /\ UNCHANGED <<kind, sent, open, conf, outq, delivered, wake, fired, resq, worker, held,
                   inflight, fetched, pollRest>>

(* Send what a full edge refused earlier (FileReader and FileTailer), and   *)
(* with a name but no read under way start one on a thread of its own.      *)
FlushPending ==
    /\ phase = "flush" /\ kind.family = "poller"
    /\ IF remaining_budget > 0 /\ held # <<>> /\ Room(1)
       THEN /\ Push(1, Head(held)) /\ held' = Tail(held)
            /\ Goto("flush", remaining_budget - 1, work_units + 1)
            /\ UNCHANGED <<worker, inflight>>
       ELSE /\ IF kind = FileReader /\ inflight = 0 /\ st = "active"
               THEN worker' = "op" /\ inflight' = 1
               ELSE UNCHANGED <<worker, inflight>>
            /\ Goto(IF kind = FileReader THEN "read" ELSE "tail", remaining_budget, work_units)
            /\ UNCHANGED <<outq, held>>
    /\ UNCHANGED <<kind, inq, sent, open, conf, delivered, wake, fired, st, resq, fetched,
                   pollRest>>

(* The thread reads the file and sends the result, then wakes the node.  (A  *)
(* node that takes the result first may start the next read before that.)   *)
ReadFile ==
    /\ worker = "op" /\ kind = FileReader
    /\ \/ /\ fetched < MaxMsgs /\ fetched' = fetched + 1
          /\ resq' = <<<<"done", <<Next1>>>>>>
       \/ resq' = <<<<"error", <<>>>>>> /\ UNCHANGED fetched
    /\ worker' = "wake"
    /\ UNCHANGED <<nodeVars, st, held, inflight, pollRest>>

(* Push the contents, or keep them for later; a failed read is skipped.     *)
FinishRead ==
    /\ phase = "read" /\ kind = FileReader
    /\ IF remaining_budget > 0 /\ resq # <<>>
       THEN /\ LET content == Head(resq)[2] IN
               IF content # <<>> /\ Room(1)
               THEN Push(1, Head(content)) /\ UNCHANGED held
               ELSE held' = held \o content /\ UNCHANGED outq
            /\ resq' = <<>> /\ inflight' = 0 /\ st' = "waiting"
            /\ Goto("end", remaining_budget - 1, work_units + 1)
       ELSE /\ Goto("end", remaining_budget, work_units)
            /\ UNCHANGED <<outq, held, resq, inflight, st>>
    /\ UNCHANGED <<kind, inq, sent, open, conf, delivered, wake, fired, worker, fetched,
                   pollRest>>

(* ---------------------------------------------------------- FileTailer -- *)
(* Open the file; one that cannot be opened is never tried again.           *)
OpenFile ==
    /\ phase = "open"
    /\ \/ /\ conf = "queued" /\ conf' = "got" /\ st' = "active"
          /\ Goto("flush", remaining_budget, work_units)
          /\ UNCHANGED wake
       \/ /\ conf = "queued" /\ conf' = "got" /\ UNCHANGED st
          /\ wake' = TRUE /\ NoWork(ready)
       \/ /\ conf = "queued" /\ conf' = "got" /\ UNCHANGED st
          /\ Retire("panicked") /\ UNCHANGED wake
       \/ /\ conf = "none" /\ wake' = TRUE /\ NoWork(ready)
          /\ UNCHANGED <<conf, st>>
       \/ /\ conf = "got"
          /\ Goto("flush", remaining_budget, work_units)
          /\ UNCHANGED <<conf, st, wake>>
    /\ UNCHANGED <<kind, inq, sent, open, outq, delivered, fired, channels, held, inflight,
                   retry_state, history>>

(* Read new lines until there are none; the edge may be full.               *)
TailFile ==
    /\ phase = "tail"
    /\ \/ /\ remaining_budget > 0 /\ st = "active" /\ fetched < MaxMsgs
          /\ fetched' = fetched + 1
          /\ IF Room(1) THEN Push(1, Next1) /\ UNCHANGED held
             ELSE held' = Append(held, Next1) /\ UNCHANGED outq
          /\ Goto("tail", remaining_budget - 1, work_units + 1)
       \/ /\ Goto("end", remaining_budget, work_units)
          /\ UNCHANGED <<outq, held, fetched>>
    /\ UNCHANGED <<kind, inq, sent, open, conf, delivered, wake, fired, st, channels, inflight,
                   retry_state, failures, submitted, confirmed, lost>>

(* Without work FileReader ends when there is nothing left to do; otherwise *)
(* both look again after the poll interval.                                 *)
EndPoll ==
    /\ phase = "end" /\ kind.family = "poller"
    /\ IF work_units > 0
       THEN DidWork(work_units, remaining_budget, ready) /\ UNCHANGED wake
       ELSE IF kind = FileReader /\ st = "waiting" /\ open = {} /\ held = <<>> /\ inflight = 0
            THEN Retire("finished") /\ UNCHANGED wake
            ELSE wake' = TRUE /\ NoWork(ready)
    /\ UNCHANGED <<kind, edges, fired, ioVars>>

(* ----------------------------------------------------------------- Cmd -- *)
(* CMD and CONF are taken together; process() does nothing until then.  If  *)
(* CONF is late the CMD taken is lost and the node waits for another.       *)
LoadConfig ==
    /\ phase = "load"
    /\ \/ /\ conf = "queued" /\ conf' = "got"
          /\ Goto("run", remaining_budget, work_units)
          /\ UNCHANGED st
       \/ /\ conf = "queued" /\ conf' = "got"
          /\ \/ st' = "unconfigured" /\ NoWork(ready)
             \/ Retire("panicked") /\ UNCHANGED st
       \/ /\ conf = "none" \/ st = "unconfigured"
          /\ NoWork(ready)
          /\ UNCHANGED <<conf, st>>
       \/ /\ conf = "got" /\ st # "unconfigured"
          /\ Goto("run", remaining_budget, work_units)
          /\ UNCHANGED <<conf, st>>
    /\ UNCHANGED <<kind, inq, sent, open, outq, delivered, wake, fired, channels, held,
                   inflight, retry_state, history>>

(* Idle: start a child for the next packet, with a thread for its output.   *)
StartChild ==
    /\ phase = "run" /\ st = "waiting"
    /\ \/ /\ remaining_budget > 0 /\ inq[1] # <<>> /\ Pop(1)
          /\ \/ /\ st' = "active" /\ inflight' = 1 /\ worker' = "op"
                /\ DidWork(1, remaining_budget - 1, ready)
             \/ /\ Retire("panicked")    \* the program cannot be started, or mode "one"
                /\ UNCHANGED <<st, inflight, worker>>
       \/ /\ remaining_budget = 0 \/ inq[1] = <<>>
          /\ Goto("eof", remaining_budget, work_units)
          /\ UNCHANGED <<inq, st, inflight, worker>>
    /\ UNCHANGED <<kind, sent, open, conf, outq, delivered, wake, fired, resq, held, fetched,
                   pollRest>>

(* The child prints a line, which its thread sends and wakes the node for,   *)
(* closes its output, or exits.  A thread whose node no longer listens ends; *)
(* that of an earlier child is not kept apart, it can only wake the node.   *)
ChildRuns ==
    /\ kind = Cmd
    /\ \/ /\ worker = "op" /\ st = "active" /\ ended = "no" /\ fetched < MaxMsgs
          /\ fetched' = fetched + 1
          /\ resq' = Append(resq, <<"done", <<Next1>>>>)
          /\ worker' = "wake" /\ UNCHANGED inflight
       \/ /\ worker = "op" /\ worker' = "gone"
          /\ UNCHANGED <<resq, inflight, fetched>>
       \/ /\ inflight = 1 /\ inflight' = 0
          /\ UNCHANGED <<resq, worker, fetched>>
    /\ UNCHANGED <<nodeVars, st, held, pollRest>>

WakeForLine ==
    /\ worker = "wake" /\ kind \in PollerKinds
    /\ worker' = IF kind = Cmd THEN "op" ELSE "none"
    /\ ready' = (ended = "no")
    /\ UNCHANGED <<kind, edges, wake, fired, call, st, resq, held, inflight, fetched, pollRest>>

(* Running: take one line.  A line the edge refuses is gone.                *)
TakeLine ==
    /\ phase = "run" /\ st = "active" /\ kind = Cmd
    /\ IF remaining_budget > 0 /\ resq # <<>>
       THEN /\ resq' = Tail(resq)
            /\ IF Room(1)
               THEN /\ Push(1, Head(resq)[2][1])
                    /\ Goto("exit", remaining_budget - 1, work_units + 1)
               ELSE Goto("exit", remaining_budget, work_units) /\ UNCHANGED outq
       ELSE Goto("exit", remaining_budget, work_units) /\ UNCHANGED <<outq, resq>>
    /\ UNCHANGED <<kind, inq, sent, open, conf, delivered, wake, fired, st, worker, held,
                   inflight, fetched, pollRest>>

(* A child that has exited is forgotten, with the lines not yet taken.      *)
CheckChild ==
    /\ phase = "exit" /\ kind = Cmd
    /\ LET exited == inflight = 0 IN
       /\ st' = IF exited THEN "finished" ELSE st
       /\ resq' = IF exited THEN <<>> ELSE resq
       /\ IF work_units > 0
          THEN DidWork(work_units, remaining_budget, ready \/ exited) /\ UNCHANGED wake
          ELSE /\ wake' = TRUE /\ phase' = "eof" /\ ready' = (ready \/ exited)
               /\ UNCHANGED <<remaining_budget, work_units, budget_before, did_work, ended>>
    /\ UNCHANGED <<kind, edges, fired, worker, held, inflight, fetched, pollRest>>

(* Completed: back to Idle, and wake up for the next packet.                *)
ResetChild ==
    /\ phase = "run" /\ st = "finished" /\ kind = Cmd
    /\ st' = "waiting"
    /\ phase' = "eof" /\ ready' = TRUE
    /\ UNCHANGED <<kind, edges, wake, fired, remaining_budget, work_units, budget_before,
                   did_work, ended, resq, worker, held, inflight, fetched, pollRest>>

CmdEof ==
    /\ phase = "eof" /\ kind = Cmd
    /\ IF open = {} THEN Retire("finished") ELSE NoWork(ready)
    /\ UNCHANGED <<kind, edges, wake, fired, ioVars>>

(* ---------------------------------------------------------- HTTPClient -- *)
(* The state was replaced by Finished before the match: a request takes it  *)
(* to Processing, which finishes the node at the next call, and a call that *)
(* finds no request leaves it Finished.  No result is ever read.            *)
ClientRequest ==
    /\ phase = "query"
    /\ \/ st = "finished" /\ Retire("finished") /\ UNCHANGED <<inq, st, worker>>
       \/ /\ st = "waiting" /\ inq[1] # <<>> /\ Pop(1)
          /\ st' = "finished"
          /\ \/ worker' = "op" /\ DidWork(1, remaining_budget, ready)
             \/ Retire("panicked") /\ UNCHANGED worker
       \/ /\ st = "waiting" /\ inq[1] = <<>> /\ st' = "finished"
          /\ NoWork(ready)
          /\ UNCHANGED <<inq, worker>>
    /\ UNCHANGED <<kind, sent, open, conf, outq, delivered, wake, fired, resq, held, inflight,
                   fetched, pollRest>>

(* The worker makes the request, with its own retries, and wakes the node.  *)
ClientResult ==
    /\ worker = "op" /\ kind = HTTPClient
    /\ resq' = <<<<"done", <<>>>>>> /\ worker' = "wake"
    /\ UNCHANGED <<nodeVars, st, held, inflight, fetched, pollRest>>

PollerStep ==
    \/ TakeName \/ FlushPending \/ ReadFile \/ FinishRead \/ OpenFile \/ TailFile \/ EndPoll
    \/ LoadConfig \/ StartChild \/ ChildRuns \/ WakeForLine \/ TakeLine \/ CheckChild
    \/ ResetChild \/ CmdEof \/ ClientRequest \/ ClientResult
=============================================================================
