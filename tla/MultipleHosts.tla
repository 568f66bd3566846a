----------------------------- MODULE MultipleHosts -----------------------------
(***************************************************************************)
(* The default replication policy, MogileFS::ReplicationPolicy::           *)
(* MultipleHosts, and the device states it is decided by                   *)
(* (MogileFS::DeviceState).  The policy is a function: from where a file   *)
(* is, it answers that enough has been done or where one more copy may go. *)
(*                                                                         *)
(* A world is [host, state, open]: the host of each device, its state, and *)
(* the devices that should_get_replicated_files (alive, seen writeable by  *)
(* the monitor, with free space).                                          *)
(***************************************************************************)
EXTENDS Integers, FiniteSets

States == {"alive", "dead", "down", "readonly", "drain"}

ShouldHaveFiles(s)    == s \notin {"drain", "dead"}
ShouldGetReplFiles(s) == s = "alive"
CanReadFrom(s)        == s \in {"alive", "readonly", "drain"}
CanDeleteFrom(s)      == s \in {"alive", "drain"}

HostsOf(W, D) == {W.host[d] : d \in D}
DevsOf(W)     == DOMAIN W.state

\* Hosts with a device that takes replicas, full or not.
TotalHosts(W) == HostsOf(W, {d \in DevsOf(W) : ShouldGetReplFiles(W.state[d])})
TotalDisks(W) == {d \in DevsOf(W) : ShouldHaveFiles(W.state[d])}

AllGood == [good |-> TRUE, too_good |-> FALSE, ideal |-> {}, desperate |-> {}]
TooGood == [AllGood EXCEPT !.too_good = TRUE]
\* TEMP_NO_ANSWER is the answer without a suggestion.
Suggest(I, D) == [good |-> FALSE, too_good |-> FALSE, ideal |-> I, desperate |-> D]

\* %skip_host: the hosts the file is on, as long as there are others.
SkipHosts(W, on) ==
  IF Cardinality(HostsOf(W, on)) < Cardinality(TotalHosts(W)) THEN HostsOf(W, on) ELSE {}

\* "Covered": all the hosts there are, or none of them twice.
EnoughCopies(W, on, min) == Cardinality(on) >= min                       \* mutant
Covered(W, on, min) ==
  \/ Cardinality(HostsOf(W, on)) = min
  \/ /\ Cardinality(HostsOf(W, on)) >= Cardinality(TotalHosts(W))
     /\ Cardinality(on) >= min

\* @all_dests: where a copy may go.
AllDests(W, on, failed)   == (W.open \ on) \ failed

\* With mindevcount copies a place that is not ideal is not worth a copy.
GivesUpEarly(on, ideal, min) == ideal = {}                               \* mutant
GivesUp(on, ideal, min)      == Cardinality(on) >= min /\ ideal = {}

\* Happy without looking at hosts: one copy is all that is asked for, or all there can be.
IsSimple(W, on, min) ==
  \/ min = 1 /\ on # {}
  \/ Cardinality(on) >= 2 /\ Cardinality(on) = Cardinality(TotalDisks(W))

TooMany(W, on, min) ==
  LET hosts == Cardinality(HostsOf(W, on))
  IN  hosts > min \/ (hosts = min /\ Cardinality(on) > min)

ReplicateTo(W, on, failed, min) ==
  LET dests == AllDests(W, on, failed)
      ideal == {d \in dests : W.host[d] \notin SkipHosts(W, on)}
  IN  IF IsSimple(W, on, min) THEN AllGood
      ELSE IF TooMany(W, on, min) THEN TooGood
      ELSE IF Covered(W, on, min) THEN AllGood
      ELSE IF GivesUp(on, ideal, min) THEN Suggest({}, {})
      ELSE Suggest(ideal, dests \ ideal)
================================================================================
