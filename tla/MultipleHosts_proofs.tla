-------------------------- MODULE MultipleHosts_proofs --------------------------
(***************************************************************************)
(* What the policy MultipleHosts answers, for every cluster of finitely    *)
(* many devices, every placement and every mindevcount.                    *)
(***************************************************************************)
EXTENDS MultipleHosts, FiniteSetTheorems, TLAPS

\* A placement has at most as many hosts as devices.
LEMMA HostsBounded ==
  ASSUME NEW W, NEW D, IsFiniteSet(D)
  PROVE  /\ IsFiniteSet(HostsOf(W, D))
         /\ Cardinality(HostsOf(W, D)) \in Nat
         /\ Cardinality(D) \in Nat
         /\ Cardinality(HostsOf(W, D)) <= Cardinality(D)
<1> DEFINE f == [d \in D |-> W.host[d]]
<1>1. f \in Surjection(D, HostsOf(W, D))
  BY DEF Surjection, HostsOf
<1>2. IsFiniteSet(HostsOf(W, D)) /\ Cardinality(HostsOf(W, D)) <= Cardinality(D)
  BY <1>1, FS_Surjection
<1> QED BY <1>2, FS_CardinalityType

\* More devices, more hosts.
LEMMA HostsMonotone ==
  ASSUME NEW W, NEW D, IsFiniteSet(D), NEW C \in SUBSET D
  PROVE  /\ HostsOf(W, C) \subseteq HostsOf(W, D)
         /\ Cardinality(HostsOf(W, C)) <= Cardinality(HostsOf(W, D))
         /\ Cardinality(HostsOf(W, C)) = Cardinality(HostsOf(W, D))
              => HostsOf(W, C) = HostsOf(W, D)
<1>1. HostsOf(W, C) \in SUBSET HostsOf(W, D)
  BY DEF HostsOf
<1> QED BY <1>1, HostsBounded, FS_Subset

\* What the policy is satisfied by (MultipleHosts.pm 47-71).
HasEnough(W, on, min) == IsSimple(W, on, min) \/ TooMany(W, on, min) \/ Covered(W, on, min)

LEMMA GoodMeansEnough ==
  ASSUME NEW W, NEW on, NEW failed, NEW min
  PROVE  ReplicateTo(W, on, failed, min).good <=> HasEnough(W, on, min)
<1>1. AllGood.good /\ TooGood.good
  BY DEF AllGood, TooGood
<1>2. \A I, D : ~Suggest(I, D).good
  BY DEF Suggest
<1> QED BY <1>1, <1>2 DEF ReplicateTo, HasEnough

\* Whether the policy is satisfied does not depend on what failed.
LEMMA GoodIgnoresFailed ==
  ASSUME NEW W, NEW on, NEW failed, NEW failed2, NEW min
  PROVE  ReplicateTo(W, on, failed, min).good <=> ReplicateTo(W, on, failed2, min).good
BY GoodMeansEnough

--------------------------------------------------------------------------------

\* A file that is satisfied stays so with more copies: replicators that add copies behind
\* each other's back never make the policy ask for another one.
LEMMA GoodIsMonotone ==
  ASSUME NEW W, IsFiniteSet(DevsOf(W)), NEW min \in Nat \ {0},
         NEW on \in SUBSET TotalDisks(W), NEW C \in SUBSET on,
         HasEnough(W, C, min)
  PROVE  HasEnough(W, on, min)
<1> DEFINE T == TotalDisks(W)
<1>1. IsFiniteSet(T) /\ IsFiniteSet(on) /\ IsFiniteSet(C)
  <2>1. T \in SUBSET DevsOf(W)
    BY DEF TotalDisks
  <2>2. IsFiniteSet(T)
    BY <2>1, FS_Subset
  <2>3. IsFiniteSet(on)
    BY <2>2, FS_Subset
  <2> QED BY <2>2, <2>3, FS_Subset
<1>2. /\ Cardinality(C) <= Cardinality(on) /\ Cardinality(on) <= Cardinality(T)
      /\ Cardinality(C) = Cardinality(T) => C = on
  <2>1. Cardinality(on) <= Cardinality(T)
    BY <1>1, FS_Subset
  <2>2. Cardinality(C) <= Cardinality(on) /\ (Cardinality(C) = Cardinality(on) => C = on)
    BY <1>1, FS_Subset
  <2>3. /\ Cardinality(C) \in Nat /\ Cardinality(on) \in Nat /\ Cardinality(T) \in Nat
    BY <1>1, FS_CardinalityType
  <2> QED BY <2>1, <2>2, <2>3
<1>3. /\ Cardinality(C) \in Nat /\ Cardinality(on) \in Nat
      /\ Cardinality(HostsOf(W, C)) \in Nat /\ Cardinality(HostsOf(W, on)) \in Nat
      /\ Cardinality(HostsOf(W, C)) <= Cardinality(HostsOf(W, on))
  BY <1>1, HostsBounded, HostsMonotone
<1>4. IsFiniteSet(TotalHosts(W)) /\ Cardinality(TotalHosts(W)) \in Nat
  <2> DEFINE D == {d \in DevsOf(W) : ShouldGetReplFiles(W.state[d])}
  <2>1. IsFiniteSet(D)
    BY FS_Subset
  <2> QED BY <2>1, HostsBounded DEF TotalHosts
<1>5. CASE IsSimple(W, C, min)
  <2>1. CASE min = 1 /\ C # {}
    BY <2>1 DEF HasEnough, IsSimple
  <2>2. CASE Cardinality(C) >= 2 /\ Cardinality(C) = Cardinality(T)
    BY <1>2, <2>2 DEF HasEnough, IsSimple
  <2> QED BY <1>5, <2>1, <2>2 DEF IsSimple
<1>6. CASE TooMany(W, C, min)
  BY <1>2, <1>3, <1>6 DEF HasEnough, TooMany
<1>7. CASE Covered(W, C, min)
  <2>1. CASE Cardinality(HostsOf(W, C)) = min
    BY <1>3, <2>1 DEF HasEnough, TooMany, Covered
  <2>2. CASE /\ Cardinality(HostsOf(W, C)) >= Cardinality(TotalHosts(W))
             /\ Cardinality(C) >= min
    BY <1>2, <1>3, <1>4, <2>2 DEF HasEnough, Covered
  <2> QED BY <1>7, <2>1, <2>2 DEF Covered
<1> QED BY <1>5, <1>6, <1>7 DEF HasEnough

\* The policy suggests only devices that take replicas, do not have the file and have not
\* failed; an ideal one is on another host as long as there are hosts without the file.
LEMMA SuggestionsAreNew ==
  ASSUME NEW W, NEW on, NEW failed, NEW min
  PROVE  LET a == ReplicateTo(W, on, failed, min)
         IN  /\ a.ideal \cup a.desperate \subseteq (W.open \ on) \ failed
             /\ \A d \in a.ideal : W.host[d] \notin SkipHosts(W, on)
<1> DEFINE dests == AllDests(W, on, failed)
           ideal == {d \in dests : W.host[d] \notin SkipHosts(W, on)}
<1>1. AllGood.ideal = {} /\ AllGood.desperate = {} /\ TooGood.ideal = {} /\ TooGood.desperate = {}
  BY DEF AllGood, TooGood
<1>2. \A I, D : Suggest(I, D).ideal = I /\ Suggest(I, D).desperate = D
  BY DEF Suggest
<1>3. ReplicateTo(W, on, failed, min)
        \in {AllGood, TooGood, Suggest({}, {}), Suggest(ideal, dests \ ideal)}
  BY DEF ReplicateTo
<1> QED BY <1>1, <1>2, <1>3 DEF AllDests

================================================================================
