--------------------------------- MODULE MCFsck ---------------------------------
(* Model values and clusters for Fsck. *)
EXTENDS Fsck, TLC

CONSTANTS d1, d2, d3, r1, r2

\* Two devices on one host, one on another.
TwoHosts == d1 :> "h1" @@ d2 :> "h1" @@ d3 :> "h2"

Alike == Permutations(Replicators)
================================================================================
