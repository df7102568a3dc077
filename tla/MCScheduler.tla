----------------------------- MODULE MCScheduler -----------------------------
(* Small instances of Scheduler: two nodes of different budget classes, fed   *)
(* by an outside thread and by each other.                                    *)
EXTENDS Scheduler

CONSTANTS a, b

MCNodes == {a, b}
MCBudget == [n \in MCNodes |-> IF n = a THEN 1 ELSE 2]
MCBudgetOne == [n \in MCNodes |-> 1]
=============================================================================
