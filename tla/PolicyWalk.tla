------------------------------- MODULE PolicyWalk -------------------------------
(***************************************************************************)
(* The loop that replicate() (Worker/Replicate.pm) runs over MultipleHosts  *)
(* for one file, alone: the policy is asked, one suggested device is       *)
(* copied to or fails, and the policy is asked again, until it is happy or *)
(* has nothing to suggest.  Where the loop starts is any cluster and any   *)
(* placement, because devices were added, marked and lost before.          *)
(***************************************************************************)
EXTENDS MultipleHosts

CONSTANTS
  Devs, Hosts,
  Conditions,     \* the device states in the cluster
  Mindevcounts    \* the mindevcounts of the classes

ASSUME PolicyWalkAssumption ==
  /\ IsFiniteSet(Devs) /\ IsFiniteSet(Hosts)
  /\ Conditions \subseteq States
  /\ Mindevcounts \subseteq Nat \ {0}

VARIABLES world, min, on, failed

vars == <<world, min, on, failed>>

Answer == ReplicateTo(world, on, failed, min)

\* on is what the policy is told: replicate() leaves out dead and draining devices.
Init ==
  /\ \E host \in [Devs -> Hosts], state \in [Devs -> Conditions] :
       \E open \in SUBSET {d \in Devs : ShouldGetReplFiles(state[d])} :
         world = [host |-> host, state |-> state, open |-> open]
  /\ min \in Mindevcounts
  /\ on \in SUBSET TotalDisks(world) \ {{}}
  /\ failed = {}

\* An ideal device if there is one, else a desperate one.
Destinations(a) == IF a.ideal # {} THEN a.ideal ELSE a.desperate

Copy(d) == on' = on \cup {d} /\ UNCHANGED <<world, min, failed>>
DestError(d) == failed' = failed \cup {d} /\ UNCHANGED <<world, min, on>>

Next ==
  /\ ~Answer.good
  /\ \E d \in Destinations(Answer) : Copy(d) \/ DestError(d)

Spec == Init /\ [][Next]_vars

--------------------------------------------------------------------------------
\* When the policy is satisfied the file is spread as its RULES say: over
\* mindevcount hosts, or over every host there is, with mindevcount copies or
\* one on every disk (MultipleHosts.pm 126-136).  So it is while every device that
\* keeps its files takes new ones too: the policy compares the number of hosts
\* the file is on with that of those that take replicas (line 71).
Spread ==
  (Answer.good /\ \A d \in TotalDisks(world) : ShouldGetReplFiles(world.state[d])) =>
    /\ Cardinality(on) >= min \/ on = TotalDisks(world)
    /\ \/ Cardinality(HostsOf(world, on)) >= min
       \/ HostsOf(world, TotalDisks(world)) \subseteq HostsOf(world, on)

\* When the policy gives up no device is left that would have helped: none that
\* can take another needed copy, none on a host the file is not on
\* (MultipleHosts.pm 73-93).
NothingBetter ==
  (~Answer.good /\ Destinations(Answer) = {}) =>
    \A d \in (world.open \ on) \ failed :
      Cardinality(on) >= min /\ world.host[d] \in HostsOf(world, on)
================================================================================
