---------------------------- MODULE NodeLifecycle ----------------------------
(****************************************************************************)
(* What the scheduler promises about each node of a graph, without queue,    *)
(* timers, mutex or budget: a signal to an idle node queues it, a signal to  *)
(* a running node makes it run again, at most one node runs at a time, and   *)
(* a retired node stays retired.                                             *)
(****************************************************************************)

CONSTANT Nodes
VARIABLE status

Statuses == {"absent", "idle", "queued", "running", "rerun", "retired"}
Active == {n \in Nodes : status[n] \in {"running", "rerun"}}

Move(n, to) == status' = [status EXCEPT ![n] = to]

Init == status = [n \in Nodes |-> "absent"]

Register(n) == status[n] = "absent" /\ Move(n, "idle")

Signal(n) ==
    \/ status[n] = "idle" /\ Move(n, "queued")
    \/ status[n] = "running" /\ Move(n, "rerun")

Activate(n) == Active = {} /\ status[n] = "queued" /\ Move(n, "running")

Yield(n) ==
    \/ status[n] = "running" /\ Move(n, "idle")
    \/ status[n] \in {"running", "rerun"} /\ Move(n, "queued")

Retire(n) == status[n] \in {"running", "rerun"} /\ Move(n, "retired")

Next == \E n \in Nodes : Register(n) \/ Signal(n) \/ Activate(n) \/ Yield(n) \/ Retire(n)

Spec == Init /\ [][Next]_status
=============================================================================
