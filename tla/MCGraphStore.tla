---------------------------- MODULE MCGraphStore ----------------------------
(* A small instance of GraphStore: two graph names, two nodes and a library  *)
(* of a component with both ports and one with an array inport only.         *)
EXTENDS GraphStore, TLC

CONSTANTS n1, n2, pipe, sink, other

MCChain == <<n1, n2>>
MCLibrary ==
    pipe :> [ins |-> TRUE, outs |-> TRUE, array |-> FALSE] @@
    sink :> [ins |-> TRUE, outs |-> FALSE, array |-> TRUE]
=============================================================================
