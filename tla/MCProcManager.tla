---------------------------- MODULE MCProcManager ----------------------------
(* Model values, symmetry and bounds for ProcManager. *)
EXTENDS ProcManager, TLC

CONSTANTS c1, c2, w1, w2, w3, w4, queryworker, delete

OneEach   == [j \in Jobs |-> 1]
TwoEach   == [j \in Jobs |-> 2]
TwoAndOne == [j \in Jobs |-> IF j = QueryWorker THEN 2 ELSE 1]
Interchangeable == Permutations(Clients)
================================================================================
