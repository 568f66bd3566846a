------------------------------ MODULE MCReplication ------------------------------
(* Model values and clusters for Replication. *)
EXTENDS Replication, TLC

CONSTANTS d1, d2, d3, r1, r2

\* Two devices on one host, one on another; and three hosts.
TwoHosts   == d1 :> "h1" @@ d2 :> "h1" @@ d3 :> "h2"

Alike == Permutations(Replicators)
================================================================================
