------------------------------ MODULE MCFileLife ------------------------------
(* Model values and symmetry for FileLife. *)
EXTENDS FileLife, TLC

CONSTANTS k1, k2, d1, d2, q1, q2, x1, x2

Alike == Permutations(Keys) \cup Permutations(Devs) \cup Permutations(Queryworkers)
           \cup Permutations(Deleters)
================================================================================
