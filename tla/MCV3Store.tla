------------------------------ MODULE MCV3Store ------------------------------
(* Instances of V3Store for TLC: every object falls into one shard, where the *)
(* failed sync of one publication can matter to the next.                     *)
EXTENDS V3Store, TLC

CONSTANTS n1, n2, s1, r1

OneShard == [o \in 1 .. MaxObj |-> s1]

\* The two nodes are interchangeable.
Nodes == Permutations(Node)
=============================================================================
