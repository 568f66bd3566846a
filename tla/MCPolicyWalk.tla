------------------------------ MODULE MCPolicyWalk ------------------------------
(* Model values and symmetry for PolicyWalk. *)
EXTENDS PolicyWalk, TLC

Alike == Permutations(Devs) \cup Permutations(Hosts)
================================================================================
