------------------------------ MODULE Dataflow ------------------------------
(****************************************************************************)
(* The process() functions of the dataflow components (src/components/).    *)
(* They share one shape: take the configuration, flush what an earlier call *)
(* could not send, forward input while budget lasts, then decide between    *)
(* Finished, DidWork and NoWork.  A component is a record of what it does   *)
(* at each of those points; the actions below read the record.  Drop, Count, *)
(* Splitlines, Json, Delay and Cron have steps of their own.                *)
(*                                                                          *)
(* One iteration of a loop is one step, and so is the end-of-input test, so *)
(* neighbours act between any two of them.                                  *)
(****************************************************************************)
EXTENDS NodeRun

VARIABLES
    pending,        \* pending_out, pending_packets: <<out-edge, item>>
    port,           \* the in-edge the loop is at (Muxer has several)
    line_iter,      \* an iterator of outputs: <<>> for None, <<items>> for Some
    branch,         \* Demux3.branch, and how many ticks Cron has sent
    next_fire_time  \* Cron.next_fire_time is set

flowVars == <<pending, port, line_iter, branch, next_fire_time>>

(* ------------------------------------------------------- the components -- *)
(* config: how the CONF packet is taken ("none", "inline", "return" after   *)
(*   it); confcost: the work it counts; refuses: how a bad one ends the     *)
(*   node; unconfigured: "wait" for it, use a "default", or "either".       *)
(* steps: whose loop it runs; parts: outputs per input; zerocost: work      *)
(*   counted for an input without output; strict: an input may panic it.    *)
(* route: "one" out-edge, "any" by content, by "turn".                      *)
(* full: what a full out-edge does to the message and the loop.             *)
(* eof: when a closed input finishes it.  repoll: it signals itself.        *)
Plain ==
    [name |-> "", family |-> "dataflow", first |-> "work", phases |-> {"work", "eof"},
     config |-> "none", confcost |-> 0, refuses |-> {}, unconfigured |-> "wait",
     steps |-> "forward", inports |-> {1}, parts |-> {1}, zerocost |-> 0,
     strict |-> FALSE, route |-> "one", full |-> "dropBreak", eof |-> "any",
     repoll |-> FALSE]

Keeping ==
    [Plain EXCEPT !.first = "flush", !.phases = @ \cup {"flush"},
                  !.full = "keep", !.eof = "clean"]

Configured(k, style, ends) ==
    [k EXCEPT !.first = "config", !.phases = @ \cup {"config"},
              !.config = style, !.refuses = ends]

Repeat == [Keeping EXCEPT !.name = "Repeat", !.full = "keepBreak"]
Trim == [Keeping EXCEPT !.name = "Trim", !.full = "keepBreak", !.strict = TRUE]
XzCompress == [Keeping EXCEPT !.name = "XzCompress"]
XzDecompress == [Keeping EXCEPT !.name = "XzDecompress", !.strict = TRUE]
BrotliCompress == [Keeping EXCEPT !.name = "BrotliCompress", !.eof = "any"]
BrotliDecompress ==
    [Keeping EXCEPT !.name = "BrotliDecompress", !.eof = "any", !.strict = TRUE]
Output == [Keeping EXCEPT !.name = "Output", !.eof = "idle"]
Equals ==
    [Configured(Keeping, "inline", {}) EXCEPT
        !.name = "Equals", !.eof = "any", !.route = "any"]
Text ==
    [Configured(Keeping, "inline", {"panicked"}) EXCEPT
        !.name = "Text", !.eof = "any", !.strict = TRUE, !.unconfigured = "either"]

Hasher == [Plain EXCEPT !.name = "Hasher"]
HTMLStrip == [Plain EXCEPT !.name = "HTMLStrip"]
Muxer == [Plain EXCEPT !.name = "Muxer", !.inports = InPorts]
Demux3 == [Plain EXCEPT !.name = "Demux3", !.route = "turn"]
Regexp ==
    [Configured(Plain, "return", {"finished", "panicked"}) EXCEPT !.name = "Regexp"]
Template ==
    [Configured(Plain, "return", {"finished", "panicked"}) EXCEPT
        !.name = "Template", !.parts = {0, 1}, !.strict = TRUE]
Router ==
    [Configured(Plain, "inline", {"finished", "panicked"}) EXCEPT
        !.name = "Router", !.confcost = 1, !.parts = {0, 1}, !.route = "any"]
Email ==
    [Configured(Plain, "inline", {"finished", "panicked"}) EXCEPT
        !.name = "Email", !.confcost = 1, !.parts = {0, 1}]

Several(k, name) ==
    [Configured(k, "return", {"finished", "panicked"}) EXCEPT
        !.name = name, !.phases = @ \cup {"emit"}, !.steps = "several",
        !.parts = 0..2, !.full = "dropRest"]
Json == Several(Plain, "Json")
HTMLQuery == Several(Plain, "HTMLQuery")
Splitlines ==
    [Plain EXCEPT !.name = "Splitlines", !.phases = @ \cup {"emit"},
        !.steps = "lines", !.parts = 0..2, !.full = "dropOne"]

LibComponent ==
    [Plain EXCEPT !.name = "LibComponent", !.full = "finish", !.repoll = TRUE,
                  !.strict = TRUE]
Sexp == [Plain EXCEPT !.name = "Sexp", !.full = "finish", !.repoll = TRUE]

Vis ==
    [Plain EXCEPT !.name = "Vis", !.parts = {0}, !.zerocost = 1, !.full = "none",
                  !.repoll = TRUE]
Panic == [Plain EXCEPT !.name = "Panic", !.parts = {}, !.strict = TRUE, !.full = "none"]
Drop == [Plain EXCEPT !.name = "Drop", !.steps = "chunk", !.eof = "idle", !.full = "none"]
Count ==
    [Configured(Keeping, "inline", {"finished", "panicked"}) EXCEPT
        !.name = "Count", !.phases = @ \cup {"report"}, !.steps = "chunk",
        !.full = "report"]
Delay ==
    [Configured(Plain, "inline", {"panicked"}) EXCEPT
        !.name = "Delay", !.phases = @ \cup {"release", "take"}, !.steps = "delay",
        !.unconfigured = "default", !.full = "delay", !.eof = "clean"]
Cron ==
    [Configured(Plain, "return", {"finished", "panicked"}) EXCEPT
        !.name = "Cron", !.phases = {"config", "tick"}, !.steps = "tick",
        !.inports = {}, !.full = "retry"]

DataflowKinds ==
    {Repeat, Trim, XzCompress, XzDecompress, BrotliCompress, BrotliDecompress,
     Output, Equals, Text, Hasher, HTMLStrip, Muxer, Demux3, Regexp, Template,
     Router, Email, Json, HTMLQuery, Splitlines, LibComponent, Sexp, Vis, Panic,
     Drop, Count, Delay, Cron}

Keepers == {k \in DataflowKinds : k.full \in {"keep", "keepBreak"}}

DataflowInit ==
    pending = <<>> /\ port = 1 /\ line_iter = <<>> /\ branch = 0 /\ next_fire_time = FALSE

DataflowTypeOK ==
    /\ pending \in Seq(OutPorts \X Item)
    /\ port \in InPorts
    /\ Len(line_iter) <= 1 /\ \A i \in 1..Len(line_iter) : line_iter[i] \in Seq(Item)
    /\ branch \in Nat /\ next_fire_time \in BOOLEAN

(* ------------------------------------------------------- configuration -- *)
AfterConfig ==
    CASE "flush" \in kind.phases -> "flush"
      [] kind.steps = "tick" -> "tick"
      [] OTHER -> "work"

(* The first lines of process(): go on when configured; otherwise take the  *)
(* packet, end the node on a bad one, or return NoWork until it is there.   *)
TakeConfig ==
    /\ phase = "config"
    /\ \/ /\ conf = "got"
          /\ Goto(AfterConfig, remaining_budget, work_units)
          /\ UNCHANGED <<conf, wake, next_fire_time>>
       \/ /\ conf = "none" /\ kind.unconfigured \in {"wait", "either"}
          /\ NoWork(ready)
          /\ UNCHANGED <<conf, wake, next_fire_time>>
       \/ /\ conf = "none" /\ kind.unconfigured \in {"default", "either"}
          /\ conf' = "got"
          /\ Goto(AfterConfig, remaining_budget, work_units)
          /\ UNCHANGED <<wake, next_fire_time>>
       \/ /\ conf = "queued" /\ conf' = "got"
          /\ IF kind.config = "inline"
             THEN Goto(AfterConfig, remaining_budget, work_units + kind.confcost)
             ELSE DidWork(1, remaining_budget, ready)
          /\ next_fire_time' = (kind.steps = "tick")
          /\ wake' = (wake \/ kind.steps = "tick")
       \/ \E why \in kind.refuses :
          /\ conf = "queued" /\ conf' = "got"
          /\ Retire(why)
          /\ UNCHANGED <<wake, next_fire_time>>
    /\ UNCHANGED <<kind, inq, sent, open, outq, delivered, fired,
                   pending, port, line_iter, branch>>

(* ---------------------------------------------- the common forward loop -- *)
FlushMutant ==
    /\ phase = "flush"
    /\ IF remaining_budget > 0 /\ pending # <<>> /\ Room(pending[1][1])
       THEN /\ Push(pending[1][1], pending[1][2])
            /\ Goto("work", remaining_budget - 1, work_units + 1)
            /\ UNCHANGED pending
       ELSE Goto("work", remaining_budget, work_units) /\ UNCHANGED <<outq, pending>>
    /\ UNCHANGED <<kind, inq, sent, open, conf, delivered, wake, fired,
                   port, line_iter, branch, next_fire_time>>

(* Send what earlier calls could not, oldest first, until an edge is full.  *)
Flush ==
    /\ phase = "flush"
    /\ IF remaining_budget > 0 /\ pending # <<>> /\ Room(pending[1][1])
       THEN /\ Push(pending[1][1], pending[1][2])
            /\ pending' = Tail(pending)
            /\ Goto("flush", remaining_budget - 1, work_units + 1)
       ELSE Goto("work", remaining_budget, work_units) /\ UNCHANGED <<outq, pending>>
    /\ UNCHANGED <<kind, inq, sent, open, conf, delivered, wake, fired,
                   port, line_iter, branch, next_fire_time>>

AfterLoop == IF kind.full = "report" THEN "report" ELSE "eof"

(* The loop over the current in-edge ends; Muxer goes on with the next one. *)
LeaveLoop(left, units) ==
    IF port + 1 \in kind.inports /\ left > 0
    THEN port' = port + 1 /\ Goto("work", left, units)
    ELSE port' = 1 /\ Goto(AfterLoop, left, units)

InputOver == remaining_budget = 0 \/ inq[port] = <<>>

EndLoop ==
    /\ phase = "work" /\ kind.steps \in {"forward", "several", "chunk"}
    /\ InputOver
    /\ LeaveLoop(remaining_budget, work_units)
    /\ UNCHANGED <<kind, edges, wake, fired, pending, line_iter, branch, next_fire_time>>

Dest ==
    CASE kind.route = "one" -> {1}
      [] kind.route = "any" -> {1, 2}
      [] kind.route = "turn" -> {(branch % 3) + 1}

(* One iteration: pop a message, compute its output, push it.               *)
Forward ==
    /\ phase = "work" /\ kind.steps = "forward" /\ ~InputOver
    /\ Pop(port)
    /\ LET item == <<port, Head(inq[port]), 1>>
       IN \/ /\ kind.strict
             /\ Retire("panicked")
             /\ UNCHANGED <<outq, pending, port, branch>>
          \/ /\ 0 \in kind.parts
             /\ Goto("work", remaining_budget - kind.zerocost, work_units + kind.zerocost)
             /\ UNCHANGED <<outq, pending, port, branch>>
          \/ \E q \in Dest :
             /\ 1 \in kind.parts /\ Room(q)
             /\ Push(q, item)
             /\ branch' = IF kind.route = "turn" THEN branch + 1 ELSE branch
             /\ Goto("work", remaining_budget - 1, work_units + 1)
             /\ UNCHANGED <<pending, port>>
          \/ \E q \in Dest :
             /\ 1 \in kind.parts /\ ~Room(q)
             /\ pending' = IF kind \in Keepers THEN Append(pending, <<q, item>>) ELSE pending
             /\ CASE kind.full = "keep" ->
                       /\ Goto("work", remaining_budget - 1, work_units + 1)
                       /\ UNCHANGED port
                  [] kind.full = "finish" -> Retire("finished") /\ UNCHANGED port
                  [] OTHER -> LeaveLoop(remaining_budget, work_units)
             /\ UNCHANGED <<outq, branch>>
    /\ UNCHANGED <<kind, sent, open, conf, delivered, wake, fired, line_iter, next_fire_time>>

(* A closed input finishes the node, whatever is left on the edge.          *)
EofReachedMutant == open = {}

EofReached ==
    /\ open = {}
    /\ kind.eof = "clean" => pending = <<>>
    /\ kind.eof = "idle" => work_units = 0

(* The end of process(): Finished, or the work counted decides.             *)
Eof ==
    /\ phase = "eof" /\ kind.steps # "delay" /\ kind.full # "report"
    /\ IF EofReached
       THEN Retire("finished")
       ELSE Result(work_units, remaining_budget,
                   ready \/ (kind.repoll /\ inq[1] # <<>>))
    /\ UNCHANGED <<kind, edges, wake, fired, flowVars>>

(* -------------------------------------------- Json, HTMLQuery, Splitlines -- *)
Outputs(m) == {[i \in 1..n |-> <<1, m, i>>] : n \in kind.parts}

(* Json and HTMLQuery read a message and iterate over its results, which    *)
(* are a local of the loop body; Splitlines keeps the iterator of the last  *)
(* message between calls and reads a new message only without one.          *)
ReadParts ==
    /\ phase = "work" /\ kind.steps \in {"several", "lines"}
    /\ \/ /\ line_iter = <<>> /\ ~InputOver
          /\ Pop(1)
          /\ \E items \in Outputs(Head(inq[1])) : line_iter' = <<items>>
          /\ Goto("emit", remaining_budget, work_units)
       \/ /\ kind.steps = "lines" /\ line_iter # <<>>
          /\ Goto("emit", remaining_budget, work_units)
          /\ UNCHANGED <<inq, line_iter>>
       \/ /\ kind.steps = "lines" /\ line_iter = <<>> /\ InputOver
          /\ Goto("eof", remaining_budget, work_units)
          /\ UNCHANGED <<inq, line_iter>>
    /\ UNCHANGED <<kind, sent, open, conf, outq, delivered, wake, fired,
                   pending, port, branch, next_fire_time>>

(* The result loop of Json and HTMLQuery never looks at the budget; a full  *)
(* edge drops the rest of this message's results.                           *)
EmitResult ==
    /\ phase = "emit" /\ kind.steps = "several"
    /\ LET items == line_iter[1]
       IN \/ /\ items = <<>> \/ ~Room(1)
             /\ line_iter' = <<>>
             /\ Goto("work", remaining_budget, work_units)
             /\ UNCHANGED outq
          \/ /\ items # <<>> /\ Room(1)
             /\ Push(1, Head(items))
             /\ line_iter' = <<Tail(items)>>
             /\ \/ Goto("emit", Dec(remaining_budget), work_units + 1)
                \/ Underflows(remaining_budget) /\ Retire("panicked")
    /\ UNCHANGED <<kind, inq, sent, open, conf, delivered, wake, fired,
                   pending, port, branch, next_fire_time>>

(* The line loop of Splitlines: all lines of one call are one work unit; a  *)
(* full edge drops the line and ends the call; out of lines, the iterator   *)
(* is dropped, unless the budget ended first.                               *)
EmitLine ==
    /\ phase = "emit" /\ kind.steps = "lines"
    /\ LET items == line_iter[1]
       IN \/ /\ remaining_budget = 0
             /\ Goto("eof", remaining_budget, work_units)
             /\ UNCHANGED <<outq, line_iter>>
          \/ /\ remaining_budget > 0 /\ items = <<>>
             /\ line_iter' = <<>>
             /\ Goto("eof", remaining_budget, work_units)
             /\ UNCHANGED outq
          \/ /\ remaining_budget > 0 /\ items # <<>>
             /\ line_iter' = <<Tail(items)>>
             /\ IF Room(1)
                THEN /\ Push(1, Head(items))
                     /\ Goto("emit", remaining_budget - 1, 1)
                ELSE Goto("eof", remaining_budget, work_units) /\ UNCHANGED outq
    /\ UNCHANGED <<kind, inq, sent, open, conf, delivered, wake, fired,
                   pending, port, branch, next_fire_time>>

(* --------------------------------------------------------- Drop, Count -- *)
ToProcessMutant == Len(inq[1])

(* inn.slots() limited to the budget.                                       *)
ToProcess == Min2(Len(inq[1]), remaining_budget)

ReadChunk ==
    /\ phase = "work" /\ kind.steps = "chunk" /\ ~InputOver
    /\ inq' = [inq EXCEPT ![1] = SubSeq(@, ToProcess + 1, Len(@))]
    /\ Goto("work", (remaining_budget - ToProcess) % BudgetWrap, work_units + ToProcess)
    /\ UNCHANGED <<kind, sent, open, conf, outq, delivered, wake, fired, flowVars>>

(* emit_final_count: what was counted so far goes out, or waits in          *)
(* pending_reports behind a full edge.                                      *)
emit_final_count ==
    LET report == <<1, sent[1] - Len(inq[1]), 1>>
    IN IF Room(1)
       THEN Push(1, report) /\ UNCHANGED pending
       ELSE pending' = Append(pending, <<1, report>>) /\ UNCHANGED outq

(* After the loop Count reports when it did work and caught up with an open *)
(* input, and once more when the input is closed and no report waits.       *)
Report ==
    /\ phase = "report"
    /\ IF work_units > 0 /\ inq[1] = <<>> /\ open # {}
       THEN emit_final_count
       ELSE UNCHANGED <<outq, pending>>
    /\ Goto("eof", remaining_budget, work_units)
    /\ UNCHANGED <<kind, inq, sent, open, conf, delivered, wake, fired,
                   port, line_iter, branch, next_fire_time>>

CountEof ==
    /\ phase = "eof" /\ kind.full = "report"
    /\ IF EofReached
       THEN emit_final_count /\ Retire("finished")
       ELSE Result(work_units, remaining_budget, ready) /\ UNCHANGED <<outq, pending>>
    /\ UNCHANGED <<kind, inq, sent, open, conf, delivered, wake, fired,
                   port, line_iter, branch, next_fire_time>>

(* --------------------------------------------------------------- Delay -- *)
(* The loop head: a fired timer releases packets before input is taken.     *)
DelayLoop ==
    /\ phase = "work" /\ kind.steps = "delay"
    /\ fired' = (fired /\ remaining_budget = 0)
    /\ Goto(CASE remaining_budget = 0 -> "eof" [] remaining_budget > 0 /\ fired -> "release"
              [] OTHER -> "take",
            remaining_budget, work_units)
    /\ UNCHANGED <<kind, edges, wake, flowVars>>

ReleaseMutant ==
    /\ phase = "release"
    /\ \/ /\ Goto("take", remaining_budget, work_units)
          /\ UNCHANGED <<outq, pending, wake>>
       \/ /\ pending # <<>> /\ Room(1)
          /\ Push(1, pending[1][2])
          /\ pending' = Tail(pending)
          /\ Goto("release", Dec(remaining_budget), work_units + 1)
          /\ UNCHANGED wake
       \/ /\ pending # <<>> /\ ~Room(1)
          /\ wake' = TRUE
          /\ pending' = Append(Tail(pending), Head(pending))
          /\ Goto("take", remaining_budget, work_units)
          /\ UNCHANGED outq
    /\ UNCHANGED <<kind, inq, sent, open, conf, delivered, fired,
                   port, line_iter, branch, next_fire_time>>

(* Release the packets whose time has come, oldest first; which ones are    *)
(* due is up to the clock.  A packet a full edge refuses goes back to the   *)
(* front and the node asks to be woken.                                     *)
Release ==
    /\ phase = "release"
    /\ \/ /\ Goto("take", remaining_budget, work_units)
          /\ UNCHANGED <<outq, pending, wake>>
       \/ /\ pending # <<>> /\ Room(1)
          /\ Push(1, pending[1][2])
          /\ pending' = Tail(pending)
          /\ \/ Goto("release", Dec(remaining_budget), work_units + 1)
             \/ Underflows(remaining_budget) /\ Retire("panicked")
          /\ UNCHANGED wake
       \/ /\ pending # <<>> /\ ~Room(1)
          /\ wake' = TRUE
          /\ Goto("take", remaining_budget, work_units)
          /\ UNCHANGED <<outq, pending>>
    /\ UNCHANGED <<kind, inq, sent, open, conf, delivered, fired,
                   port, line_iter, branch, next_fire_time>>

(* Take one input packet and hold it; the budget is not looked at again.    *)
TakeDelayed ==
    /\ phase = "take"
    /\ IF inq[1] = <<>>
       THEN Goto("eof", remaining_budget, work_units) /\ UNCHANGED <<inq, pending>>
       ELSE /\ Pop(1)
            /\ pending' = Append(pending, <<1, <<1, Head(inq[1]), 1>>>>)
            /\ \/ Goto("work", Dec(remaining_budget), work_units + 1)
               \/ Underflows(remaining_budget) /\ Retire("panicked")
    /\ UNCHANGED <<kind, sent, open, conf, outq, delivered, wake, fired,
                   port, line_iter, branch, next_fire_time>>

DelayEof ==
    /\ phase = "eof" /\ kind.steps = "delay"
    /\ IF EofReached
       THEN Retire("finished") /\ UNCHANGED wake
       ELSE /\ wake' = (wake \/ pending # <<>>)
            /\ Result(work_units, remaining_budget, ready)
    /\ UNCHANGED <<kind, edges, fired, flowVars>>

(* ---------------------------------------------------------------- Cron -- *)
(* The timer of the next tick fired but the edge is full: ask to be woken.  *)
CronRetry ==
    /\ phase = "tick" /\ fired /\ next_fire_time /\ ~Room(1)
    /\ fired' = FALSE /\ wake' = TRUE /\ NoWork(ready)
    /\ UNCHANGED <<kind, edges, flowVars>>

(* Send the tick and arm the timer of the next one (arm_next_timer), unless *)
(* the schedule has ended.                                                  *)
CronTick ==
    /\ phase = "tick" /\ fired /\ next_fire_time /\ Room(1)
    /\ fired' = FALSE
    /\ Push(1, <<1, branch, 1>>) /\ branch' = branch + 1
    /\ next_fire_time' \in (IF branch + 1 < MaxMsgs THEN BOOLEAN ELSE {FALSE})
    /\ wake' = (wake \/ next_fire_time')
    /\ DidWork(1, remaining_budget, ready)
    /\ UNCHANGED <<kind, inq, sent, open, conf, delivered, pending, port, line_iter>>

(* No tick is due: wait for the timer, or finish after the last tick.       *)
CronIdle ==
    /\ phase = "tick" /\ ~(fired /\ next_fire_time)
    /\ IF next_fire_time THEN NoWork(ready) ELSE Retire("finished")
    /\ UNCHANGED <<kind, edges, wake, fired, flowVars>>

DataflowStep ==
    \/ TakeConfig \/ Flush \/ EndLoop \/ Forward \/ Eof
    \/ ReadParts \/ EmitResult \/ EmitLine
    \/ ReadChunk \/ Report \/ CountEof
    \/ DelayLoop \/ Release \/ TakeDelayed \/ DelayEof
    \/ CronRetry \/ CronTick \/ CronIdle

(* ---------------------------------------------------------- properties -- *)
OutOf(q) == delivered[q] \o outq[q]
AllOut == OutOf(1) \o OutOf(2) \o OutOf(3)
Items(s) == {s[i] : i \in 1..Len(s)}
HeldItems == IF ended = "no" THEN {pending[i][2] : i \in 1..Len(pending)} ELSE {}

IsDataflow == kind.family = "dataflow"

(* No message leaves a component twice: a retry of a refused push removes    *)
(* it from the pending queue, and nothing is both sent and kept.  Count is   *)
(* left out: it may well report the same number twice.                       *)
NoDuplicates ==
    IsDataflow /\ kind # Count =>
        /\ \A i, j \in 1..Len(AllOut) : i # j => AllOut[i] # AllOut[j]
        /\ Items(AllOut) \cap HeldItems = {}

(* The components that keep a refused message lose nothing they took off     *)
(* the input: it is sent or held, and those that test the pending queue at   *)
(* the end of input finish only once everything is sent.  Brotli, Equals,    *)
(* Text and Output finish without that test, so for them it holds while      *)
(* they run.                                                                 *)
AcceptedIsKept ==
    kind \in Keepers \cup {Delay} /\ ended # "panicked"
      /\ (ended = "finished" => kind.eof = "clean") =>
        \A m \in 1..(sent[1] - Len(inq[1])) :
            <<1, m, 1>> \in Items(AllOut) \cup HeldItems

(* On each out-edge the messages of one in-edge keep their order, parts of   *)
(* one message too, however pushes fail and are retried.  The components     *)
(* with a pending queue of their own are left out: their loop lets a new     *)
(* message overtake the queue when the edge is drained in between.           *)
OrderKept ==
    IsDataflow /\ kind \notin Keepers \cup {Count} =>
        \A q \in OutPorts : \A i, j \in 1..Len(OutOf(q)) :
            LET x == OutOf(q)[i]
                y == OutOf(q)[j]
            IN i < j /\ x[1] = y[1] => x[2] < y[2] \/ (x[2] = y[2] /\ x[3] < y[3])

(* An idle component has read the input it was signalled for.  (The ones     *)
(* that leave their loop at a full edge, and Splitlines, may not have.)      *)
ReadsItsInput ==
    kind.full \notin {"keepBreak", "dropBreak", "dropOne"}
      /\ (kind.config = "none" \/ conf = "got") => \A p \in InPorts : inq[p] = <<>>

(* What waits for the clock has a timer: a Delay that holds packets, and a   *)
(* Cron with a schedule, also after a full edge refused them.                *)
HasTimer ==
    /\ kind = Delay /\ pending # <<>> => wake
    /\ kind = Cron /\ conf = "got" => wake

(* process() never overdraws the u32 budget it shares with the scheduler.    *)
(* Json, HTMLQuery and Delay do (json.rs:151, html.rs:305, delay.rs:178).    *)
BudgetNotOverdrawn ==
    kind \notin {Json, HTMLQuery, Delay} => remaining_budget <= budget_before

(* "Messages are never lost": a node that finishes because its input ended   *)
(* has read all of it.                                                       *)
ReadsInputBeforeEnd ==
    ended = "finished" /\ open = {} => \A p \in InPorts : inq[p] = <<>>
=============================================================================
