------------------------------ MODULE MCNetwork ------------------------------
(* Small instances of Network: up to two graphs, two clients and two starts.  *)
EXTENDS Network, TLC

CONSTANTS g1, g2, c1, c2

ClientSymmetry == Permutations(Clients)
=============================================================================
