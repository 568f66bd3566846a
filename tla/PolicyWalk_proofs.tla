---------------------------- MODULE PolicyWalk_proofs ----------------------------
(***************************************************************************)
(* Proofs about PolicyWalk: whatever the cluster, the placement and the    *)
(* copies that fail, the policy stops only when the file is spread.        *)
(***************************************************************************)
EXTENDS PolicyWalk, MultipleHosts_proofs

\* The cluster is one, and the file is on devices that should have files.
WalkInv ==
  /\ DevsOf(world) = Devs
  /\ world.open \subseteq {d \in Devs : ShouldGetReplFiles(world.state[d])}
  /\ min \in Nat \ {0}
  /\ on \subseteq TotalDisks(world)

LEMMA InitWalk == Init => WalkInv
<1> SUFFICES ASSUME Init PROVE WalkInv
  OBVIOUS
<1>1. PICK host \in [Devs -> Hosts], state \in [Devs -> Conditions] :
        \E open \in SUBSET {d \in Devs : ShouldGetReplFiles(state[d])} :
          world = [host |-> host, state |-> state, open |-> open]
  BY DEF Init
<1>a. PICK open \in SUBSET {d \in Devs : ShouldGetReplFiles(state[d])} :
        world = [host |-> host, state |-> state, open |-> open]
  BY <1>1
<1>2. DevsOf(world) = Devs /\ world.open = open /\ world.state = state
  BY <1>a DEF DevsOf
<1> QED BY <1>2, PolicyWalkAssumption DEF Init, WalkInv

\* What the policy suggests should have files: what takes new files keeps those it has.
LEMMA NextWalk == WalkInv /\ [Next]_vars => WalkInv'
<1> SUFFICES ASSUME WalkInv, [Next]_vars PROVE WalkInv'
  OBVIOUS
<1>1. CASE UNCHANGED vars
  BY <1>1 DEF vars, WalkInv, DevsOf, TotalDisks
<1>2. ASSUME NEW d \in Destinations(Answer), Copy(d) PROVE WalkInv'
  <2>1. d \in world.open
    BY SuggestionsAreNew DEF Answer, Destinations
  <2>2. d \in TotalDisks(world)
    BY <2>1 DEF WalkInv, TotalDisks, ShouldGetReplFiles, ShouldHaveFiles
  <2> QED BY <1>2, <2>2 DEF Copy, WalkInv, DevsOf, TotalDisks
<1>3. ASSUME NEW d, DestError(d) PROVE WalkInv'
  BY <1>3 DEF DestError, WalkInv, DevsOf, TotalDisks
<1> QED BY <1>1, <1>2, <1>3 DEF Next

LEMMA WalkSizes ==
  ASSUME WalkInv
  PROVE  /\ IsFiniteSet(TotalDisks(world)) /\ IsFiniteSet(on)
         /\ Cardinality(on) \in Nat
<1>1. TotalDisks(world) \in SUBSET Devs
  BY DEF TotalDisks, WalkInv
<1>2. IsFiniteSet(TotalDisks(world))
  BY <1>1, PolicyWalkAssumption, FS_Subset
<1>3. IsFiniteSet(on)
  BY <1>2, FS_Subset DEF WalkInv
<1> QED BY <1>2, <1>3, FS_CardinalityType

LEMMA EnoughIsSpread == WalkInv => Spread
<1> SUFFICES ASSUME WalkInv, Answer.good,
                    \A d \in TotalDisks(world) : ShouldGetReplFiles(world.state[d])
             PROVE  /\ Cardinality(on) >= min \/ on = TotalDisks(world)
                    /\ \/ Cardinality(HostsOf(world, on)) >= min
                       \/ HostsOf(world, TotalDisks(world)) \subseteq HostsOf(world, on)
  BY DEF Spread
<1> DEFINE T == TotalDisks(world)
<1>1. HasEnough(world, on, min)
  BY GoodMeansEnough DEF Answer
<1>2. /\ IsFiniteSet(T) /\ IsFiniteSet(on) /\ Cardinality(on) \in Nat /\ min \in Nat \ {0}
      /\ IsFiniteSet(HostsOf(world, on)) /\ Cardinality(HostsOf(world, on)) \in Nat
      /\ Cardinality(HostsOf(world, on)) <= Cardinality(on)
      /\ on \in SUBSET T
  BY WalkSizes, HostsBounded DEF WalkInv
<1>3. CASE min = 1 /\ on # {}
  <2>1. HostsOf(world, on) # {}
    BY <1>3 DEF HostsOf
  <2>2. Cardinality(HostsOf(world, on)) # 0
    BY <1>2, <2>1, FS_EmptySet
  <2> QED BY <1>2, <1>3, <2>2
<1>4. CASE Cardinality(on) = Cardinality(T)
  BY <1>2, <1>4, FS_Subset
<1>5. CASE TooMany(world, on, min)
  BY <1>2, <1>5 DEF TooMany
<1>6. CASE Covered(world, on, min)
  <2>1. CASE Cardinality(HostsOf(world, on)) = min
    BY <1>2, <2>1
  <2>2. CASE /\ Cardinality(HostsOf(world, on)) >= Cardinality(TotalHosts(world))
             /\ Cardinality(on) >= min
    <3>1. TotalHosts(world) = HostsOf(world, T)
      <4>1. {d \in DevsOf(world) : ShouldGetReplFiles(world.state[d])} = T
        BY DEF TotalDisks, ShouldGetReplFiles, ShouldHaveFiles
      <4> QED BY <4>1 DEF TotalHosts
    <3>2. Cardinality(HostsOf(world, T)) \in Nat
      BY <1>2, HostsBounded
    <3>3. /\ Cardinality(HostsOf(world, on)) <= Cardinality(HostsOf(world, T))
          /\ Cardinality(HostsOf(world, on)) = Cardinality(HostsOf(world, T))
               => HostsOf(world, on) = HostsOf(world, T)
      BY <1>2, HostsMonotone
    <3> QED BY <1>2, <2>2, <3>1, <3>2, <3>3
  <2> QED BY <1>6, <2>1, <2>2 DEF Covered
<1> QED BY <1>1, <1>3, <1>4, <1>5, <1>6 DEF HasEnough, IsSimple

LEMMA GivingUpIsRight == WalkInv => NothingBetter
<1> SUFFICES ASSUME WalkInv, ~Answer.good, Destinations(Answer) = {},
                    NEW d \in (world.open \ on) \ failed
             PROVE  Cardinality(on) >= min /\ world.host[d] \in HostsOf(world, on)
  BY DEF NothingBetter
<1> DEFINE dests == AllDests(world, on, failed)
           ideal == {e \in dests : world.host[e] \notin SkipHosts(world, on)}
<1>1. Answer.ideal = {} /\ Answer.desperate = {}
  BY DEF Destinations
<1>2. AllGood.good /\ TooGood.good
  BY DEF AllGood, TooGood
<1>3. Answer \in {Suggest(ideal, dests \ ideal)} \/ GivesUp(on, ideal, min)
  BY <1>2 DEF Answer, ReplicateTo
<1>4. d \in dests
  BY DEF AllDests
<1>5. CASE GivesUp(on, ideal, min)
  <2>1. Cardinality(on) >= min /\ ideal = {}
    BY <1>5 DEF GivesUp
  <2>2. world.host[d] \in SkipHosts(world, on)
    BY <1>4, <2>1
  <2> QED BY <2>1, <2>2 DEF SkipHosts
<1>6. CASE Answer = Suggest(ideal, dests \ ideal)
  BY <1>1, <1>4, <1>6 DEF Suggest
<1> QED BY <1>3, <1>5, <1>6

\* In every cluster in which the devices that keep files take new ones, the policy is
\* satisfied only with a file on mindevcount hosts, or on all there are
\* (MultipleHosts.pm 126-136).
THEOREM SatisfiedIsSpread == Spec => []Spread
BY InitWalk, NextWalk, EnoughIsSpread, PTL DEF Spec

\* In every cluster the policy gives up only when no device is left that would have helped
\* (MultipleHosts.pm 73-93).
THEOREM GivesUpOnlyInVain == Spec => []NothingBetter
BY InitWalk, NextWalk, GivingUpIsRight, PTL DEF Spec
================================================================================
