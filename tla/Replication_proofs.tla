--------------------------- MODULE Replication_proofs ---------------------------
(***************************************************************************)
(* Proofs about Replication, for every finite set of devices, any hosts,   *)
(* any set of replicators and any bounds: the last copy survives, no copy  *)
(* is wasted, and whatever needs copies is queued.  Then about Fsck beside *)
(* replicators that copy files but move none, for any disagreement of rows *)
(* and disks to start from.                                                *)
(***************************************************************************)
EXTENDS Fsck, MultipleHosts_proofs

UnderLock == {"exists", "read", "policy", "copy", "add", "finish", "destroy", "unrow", "unlock"}
Place == {"idle", "picked", "lock"} \cup UnderLock

Job == [kind : {"none", "table", "rebalance"}, mask : SUBSET Devs, avoid : SUBSET Devs,
        from : Devs \cup {NoDev}, on : SUBSET Devs, told : SUBSET Devs, up : SUBSET Devs,
        destFailed : SUBSET Devs, srcFailed : SUBSET Devs, got : BOOLEAN,
        ddev : Devs \cup {NoDev}, sdev : Devs \cup {NoDev}, result : Results]

\* The parts of TypeOK that stand by themselves, and the types of the replicators' locals.
StateType ==
  /\ file \in {"live", "doomed", "gone"}
  /\ on \in SUBSET Devs /\ disk \in SUBSET Devs
  /\ status \in [Devs -> States] /\ view \in [Replicators -> [Devs -> States]]
  /\ lock \in SUBSET Replicators
  /\ at \in [Replicators -> Place] /\ job \in [Replicators -> Job]
  /\ reaping \in Devs \cup {NoDev} /\ allEmpty \in SUBSET Devs

RowType ==
  /\ row \in [next : {"none", "now", "backoff", "delayed", "never"}, from : Devs \cup {NoDev}]
  /\ row.next = "none" => row = NoRow

\* Whoever works on the file holds its lock, and nobody else does.
Exclusive ==
  /\ \A r \in Replicators : r \in lock <=> at[r] \in UnderLock
  /\ \A r, s \in lock : r = s

\* One copy is moved at a time, from whatever source there is, to a device.
MovesOne ==
  \A r \in Replicators :
    /\ job[r].kind = "rebalance" => job[r].from = NoDev /\ \E d \in Devs : job[r].mask = {d}
    /\ at[r] \in {"destroy", "unrow"} => job[r].kind = "rebalance"
    /\ at[r] \in {"copy", "add"} => job[r].ddev \in Devs /\ job[r].sdev \in Devs

LockInv == StateType /\ RowType /\ Exclusive /\ MovesOne

\* The reaper is only ever at a dead device.
ReapsDead == reaping # NoDev => status[reaping] = "dead"

NoneDead == \A d \in Devs : status[d] # "dead"

\* There is a recorded copy besides the one that is moved.
Kept(r) == (on \cap disk) \ job[r].mask # {}

Enough(r) == HasEnough(World(view[r]), job[r].told, MinDevcount)

\* What a replicator knows of the file while it holds the lock and no device is lost.
Knows(r) ==
  /\ at[r] \in {"policy", "copy", "add"} =>
       /\ {d \in on : ShouldHaveFiles(view[r][d])} \ job[r].mask \subseteq job[r].told
       /\ job[r].up \subseteq job[r].on
       /\ file = "live" => job[r].on \subseteq on
  /\ at[r] \in {"copy", "add"} => ~Enough(r) /\ job[r].ddev \notin job[r].on
  /\ at[r] = "copy" /\ job[r].from = NoDev => job[r].sdev \in job[r].up
  /\ at[r] \in {"picked", "lock", "exists", "read"} => ~job[r].got

\* What has been done of a move: the copy that makes the policy content is there.
Moved(r) ==
  /\ at[r] = "policy" /\ job[r].got => Kept(r) \/ ~Enough(r)
  /\ at[r] = "add" => Kept(r) \/ job[r].ddev \in disk \ job[r].mask
  /\ at[r] = "finish" /\ job[r].result = "ok" => Kept(r)
  /\ at[r] \in {"destroy", "unrow"} => Kept(r)

CopyInv ==
  /\ LockInv /\ ReapsDead
  /\ NoneDead => \A r \in Replicators :
       /\ Knows(r)
       /\ file = "live" /\ job[r].kind = "rebalance" => Moved(r)
  /\ CopyRemains

--------------------------------------------------------------------------------

\* What the policy leaves to choose from are devices that take replicas and have no copy
\* that the policy was told of, unless all that is left is not ideal.
LEMMA ChoicesAreDevices ==
  ASSUME NEW r \in Replicators
  PROVE  Choices(r) \subseteq Devs /\ \A d \in Choices(r) : ShouldGetReplFiles(view[r][d])
<1>1. Choices(r) \subseteq World(view[r]).open
  BY SuggestionsAreNew DEF Choices, Suggestion
<1> QED BY <1>1 DEF World

LEMMA SourcesAreDevices ==
  ASSUME NEW j \in Job
  PROVE  Sources(j) \subseteq Devs
BY DEF Sources, Job

\* Writing one local of a replicator.
LEMMA JobFields ==
  ASSUME NEW j \in Job, NEW D \in SUBSET Devs, NEW d \in Devs \cup {NoDev},
         NEW res \in Results, NEW b \in BOOLEAN
  PROVE  /\ [j EXCEPT !.on = D] \in Job /\ [j EXCEPT !.told = D] \in Job
         /\ [j EXCEPT !.up = D] \in Job
         /\ [j EXCEPT !.destFailed = D] \in Job /\ [j EXCEPT !.srcFailed = D] \in Job
         /\ [j EXCEPT !.got = b] \in Job
         /\ [j EXCEPT !.ddev = d] \in Job /\ [j EXCEPT !.sdev = d] \in Job
         /\ [j EXCEPT !.result = res] \in Job
BY DEF Job

LEMMA NoJobIsJob == NoJob \in Job
BY DEF NoJob, Job, Results

LEMMA InitLock == Init => LockInv
<1> SUFFICES ASSUME Init PROVE LockInv
  OBVIOUS
<1>1. PICK d \in Devs : on = {d} /\ disk = {d} /\ row = [next |-> "now", from |-> d]
  BY DEF Init
<1>2. StateType
  BY <1>1, NoJobIsJob DEF Init, StateType, Place, States
<1>3. RowType /\ Exclusive /\ MovesOne
  BY <1>1 DEF Init, RowType, NoRow, Exclusive, UnderLock, MovesOne, NoJob
<1> QED BY <1>2, <1>3 DEF LockInv

\* A replicator that goes on, writing its locals and whatever else.
LEMMA LocalStep ==
  ASSUME LockInv, NEW r \in Replicators, NEW j \in Job, NEW place \in Place,
         at' = [at EXCEPT ![r] = place], job' = [job EXCEPT ![r] = j],
         UNCHANGED <<world, view, reaper>>,
         on' \in SUBSET Devs, disk' \in SUBSET Devs, RowType',
         \/ lock' = lock /\ (place \in UnderLock <=> at[r] \in UnderLock)
         \/ lock' = lock \cup {r} /\ lock = {} /\ place \in UnderLock
         \/ lock' = lock \ {r} /\ place \notin UnderLock,
         j.kind = "rebalance" => j.from = NoDev /\ \E d \in Devs : j.mask = {d},
         place \in {"destroy", "unrow"} => j.kind = "rebalance",
         place \in {"copy", "add"} => j.ddev \in Devs /\ j.sdev \in Devs
  PROVE  LockInv'
<1>1. StateType'
  BY DEF LockInv, StateType, world, reaper
<1>2. Exclusive'
  BY DEF LockInv, StateType, Exclusive
<1>3. MovesOne'
  BY DEF LockInv, StateType, MovesOne
<1> QED BY <1>1, <1>2, <1>3 DEF LockInv

\* A replicator that goes on with its locals as they are.
LEMMA GotoStep ==
  ASSUME LockInv, NEW r \in Replicators, NEW place \in Place,
         Goto(r, place), UNCHANGED <<job, world, view, reaper>>,
         on' \in SUBSET Devs, disk' \in SUBSET Devs, RowType',
         \/ lock' = lock /\ (place \in UnderLock <=> at[r] \in UnderLock)
         \/ lock' = lock \cup {r} /\ lock = {} /\ place \in UnderLock
         \/ lock' = lock \ {r} /\ place \notin UnderLock,
         place \in {"destroy", "unrow"} => job[r].kind = "rebalance",
         place \in {"copy", "add"} => at[r] \in {"copy", "add"}
  PROVE  LockInv'
<1>1. job[r] \in Job /\ job' = [job EXCEPT ![r] = job[r]]
  BY DEF LockInv, StateType
<1>2. /\ job[r].kind = "rebalance" => job[r].from = NoDev /\ \E d \in Devs : job[r].mask = {d}
      /\ place \in {"copy", "add"} => job[r].ddev \in Devs /\ job[r].sdev \in Devs
  BY DEF LockInv, MovesOne
<1> QED BY <1>1, <1>2, LocalStep DEF Goto

\* replicate() returns.
LEMMA ReturnStep ==
  ASSUME LockInv, NEW r \in Replicators, NEW j \in Job, NEW res \in Results, Return(r, j, res),
         at[r] \in UnderLock, j.kind = job[r].kind, j.mask = job[r].mask, j.from = job[r].from,
         UNCHANGED <<world, on, disk, row, view, lock, reaper>>
  PROVE  LockInv'
<1> DEFINE k == [j EXCEPT !.result = res]
<1>1. k \in Job /\ k.kind = j.kind /\ k.mask = j.mask /\ k.from = j.from
  BY JobFields DEF Job
<1>2. /\ at' = [at EXCEPT ![r] = "finish"] /\ job' = [job EXCEPT ![r] = k]
      /\ "finish" \in Place /\ "finish" \in UnderLock
  BY DEF Return, Goto, Place, UnderLock
<1>3. /\ k.kind = "rebalance" => k.from = NoDev /\ \E d \in Devs : k.mask = {d}
      /\ on' \in SUBSET Devs /\ disk' \in SUBSET Devs /\ RowType' /\ lock' = lock
  BY <1>1 DEF LockInv, StateType, RowType, MovesOne
<1> QED BY <1>1, <1>2, <1>3, LocalStep

\* The rest of a replicator's steps.
LEMMA FrameType ==
  ASSUME LockInv, UNCHANGED <<on, disk, row, lock>>
  PROVE  /\ on' \in SUBSET Devs /\ disk' \in SUBSET Devs /\ RowType' /\ lock' = lock
         /\ \A r \in Replicators : job[r] \in Job
BY DEF LockInv, StateType, RowType

LEMMA PickStep ==
  ASSUME LockInv, NEW r \in Replicators, Fetch(r) \/ PickToRebalance(r)
  PROVE  LockInv'
<1>1. CASE Fetch(r)
  <2> DEFINE j == [NoJob EXCEPT !.kind = "table", !.from = row.from]
  <2>1. j \in Job /\ j.kind = "table"
    BY DEF LockInv, RowType, NoJob, Job, Results
  <2>2. /\ at' = [at EXCEPT ![r] = "lock"] /\ job' = [job EXCEPT ![r] = j]
        /\ "lock" \in Place /\ "lock" \notin UnderLock /\ at[r] \notin UnderLock
        /\ "lock" \notin {"destroy", "unrow"} /\ "lock" \notin {"copy", "add"}
    BY <1>1 DEF Fetch, Goto, Place, UnderLock
  <2>3. UNCHANGED <<on, disk, row, lock>> /\ UNCHANGED <<world, view, reaper>>
    BY <1>1 DEF Fetch
  <2> HIDE DEF j
  <2> QED BY <2>1, <2>2, <2>3, FrameType, LocalStep
<1>2. CASE PickToRebalance(r)
  <2>1. PICK d \in on, avoid \in {{}, RebalanceAvoid} :
          job' = [job EXCEPT ![r] = [NoJob EXCEPT !.kind = "rebalance", !.mask = {d}, !.avoid = avoid]]
    BY <1>2 DEF PickToRebalance
  <2> DEFINE j == [NoJob EXCEPT !.kind = "rebalance", !.mask = {d}, !.avoid = avoid]
  <2>2. d \in Devs /\ avoid \in SUBSET Devs
    BY ReplicationAssumption DEF LockInv, StateType
  <2>3. j \in Job /\ j.from = NoDev /\ j.mask = {d}
    BY <2>2 DEF NoJob, Job, Results
  <2>4. /\ at' = [at EXCEPT ![r] = "picked"] /\ job' = [job EXCEPT ![r] = j]
        /\ "picked" \in Place /\ "picked" \notin UnderLock /\ at[r] \notin UnderLock
        /\ "picked" \notin {"destroy", "unrow"} /\ "picked" \notin {"copy", "add"}
    BY <1>2, <2>1 DEF PickToRebalance, Goto, Place, UnderLock
  <2>5. UNCHANGED <<on, disk, row, lock>> /\ UNCHANGED <<world, view, reaper>>
    BY <1>2 DEF PickToRebalance
  <2> HIDE DEF j
  <2> QED BY <2>2, <2>3, <2>4, <2>5, FrameType, LocalStep
<1> QED BY <1>1, <1>2

LEMMA LockStep ==
  ASSUME LockInv, NEW r \in Replicators,
         CheckPicked(r) \/ Lock(r) \/ GiveUpLock(r) \/ Unlock(r) \/ Crash(r)
  PROVE  LockInv'
<1> USE DEF Place, UnderLock
<1>0. on \in SUBSET Devs /\ disk \in SUBSET Devs
  BY DEF LockInv, StateType
<1>1. CASE CheckPicked(r)
  <2>1. \E place \in {"lock", "idle"} : Goto(r, place)
    BY <1>1 DEF CheckPicked
  <2>2. at[r] = "picked" /\ UNCHANGED <<on, disk, row, lock>> /\ UNCHANGED <<job, world, view, reaper>>
    BY <1>1 DEF CheckPicked
  <2> QED BY <2>1, <2>2, FrameType, GotoStep
<1>2. CASE Lock(r)
  <2>1. \E place \in {"exists", "read"} : Goto(r, place)
    BY <1>2 DEF Lock
  <2>2. /\ lock = {} /\ lock' = lock \cup {r}
        /\ UNCHANGED <<on, disk, row>> /\ UNCHANGED <<job, world, view, reaper>>
    BY <1>2 DEF Lock, LockFree
  <2>3. RowType'
    BY <2>2 DEF LockInv, RowType
  <2> QED BY <1>0, <2>1, <2>2, <2>3, GotoStep
<1>3. CASE GiveUpLock(r)
  <2>1. /\ at[r] = "lock" /\ Goto(r, "idle")
        /\ UNCHANGED <<on, disk, row, lock>> /\ UNCHANGED <<job, world, view, reaper>>
    BY <1>3 DEF GiveUpLock
  <2> QED BY <2>1, FrameType, GotoStep
<1>4. CASE Unlock(r) \/ Crash(r)
  <2>1. /\ at' = [at EXCEPT ![r] = "idle"] /\ job' = [job EXCEPT ![r] = NoJob]
        /\ lock' = lock \ {r} /\ UNCHANGED <<on, disk, row>> /\ UNCHANGED <<world, view, reaper>>
    BY <1>4 DEF Unlock, Crash, Goto, ReleaseLock
  <2>2. RowType'
    BY <2>1 DEF LockInv, RowType
  <2>3. NoJob.kind = "none"
    BY DEF NoJob
  <2> QED BY <1>0, <2>1, <2>2, <2>3, NoJobIsJob, LocalStep
<1> QED BY <1>1, <1>2, <1>3, <1>4

LEMMA ReplicateStep ==
  ASSUME LockInv, NEW r \in Replicators,
         CheckExists(r) \/ ReadOn(r) \/ AskPolicy(r) \/ SrcError(r) \/ DestError(r)
  PROVE  LockInv'
<1> USE DEF Place, UnderLock, Results
<1>0. /\ on \in SUBSET Devs /\ disk \in SUBSET Devs /\ job[r] \in Job
      /\ view[r] \in [Devs -> States]
      /\ job[r].kind = "rebalance" => job[r].from = NoDev /\ \E d \in Devs : job[r].mask = {d}
      /\ at[r] \in {"copy", "add"} => job[r].ddev \in Devs /\ job[r].sdev \in Devs
  BY DEF LockInv, StateType, MovesOne
<1>1. CASE CheckExists(r)
  <2>1. at[r] = "exists" /\ UNCHANGED <<world, on, disk, row, view, lock, reaper>>
    BY <1>1 DEF CheckExists
  <2>2. CASE Goto(r, "read") /\ job' = job
    BY <2>1, <2>2, FrameType, GotoStep
  <2>3. CASE Return(r, job[r], "nofid")
    BY <1>0, <2>1, <2>3, ReturnStep
  <2> QED BY <1>1, <2>2, <2>3 DEF CheckExists
<1>2. CASE ReadOn(r)
  <2> DEFINE told == Tell(view[r], job[r].mask)
             up == {d \in on : CanReadFrom(view[r][d])}
             j == [job[r] EXCEPT !.on = on, !.told = told, !.up = up]
  <2>1. at[r] = "read" /\ UNCHANGED <<world, on, disk, row, view, lock, reaper>>
    BY <1>2 DEF ReadOn
  <2>2. told \in SUBSET Devs /\ up \in SUBSET Devs
    BY <1>0 DEF Tell
  <2>3. /\ j \in Job /\ j.kind = job[r].kind /\ j.mask = job[r].mask /\ j.from = job[r].from
    BY <1>0, <2>2 DEF Job
  <2>4. \/ \E res \in {"no_source", "source_down"} : Return(r, j, res)
        \/ job' = [job EXCEPT ![r] = j] /\ Goto(r, "policy")
    BY <1>2 DEF ReadOn
  <2> HIDE DEF j
  <2>5. CASE \E res \in {"no_source", "source_down"} : Return(r, j, res)
    BY <2>1, <2>3, <2>5, ReturnStep
  <2>6. CASE job' = [job EXCEPT ![r] = j] /\ Goto(r, "policy")
    BY <1>0, <2>1, <2>3, <2>6, FrameType, LocalStep DEF Goto
  <2> QED BY <2>4, <2>5, <2>6
<1>3. CASE AskPolicy(r)
  <2>1. at[r] = "policy" /\ UNCHANGED <<world, on, disk, row, view, lock, reaper>>
    BY <1>3 DEF AskPolicy
  <2>2. CASE \E res \in {"ok", "lost_race", "policy_no_suggestions"} : Return(r, job[r], res)
    BY <1>0, <2>1, <2>2, ReturnStep
  <2>3. ASSUME NEW d \in Choices(r),
               LET j == [job[r] EXCEPT !.got = TRUE, !.ddev = d]
               IN  \/ \E res \in {"policy_error_already_there", "source_down"} : Return(r, j, res)
                   \/ \E s \in Sources(j) : /\ job' = [job EXCEPT ![r] = [j EXCEPT !.sdev = s]]
                                            /\ Goto(r, "copy")
        PROVE  LockInv'
    <3> DEFINE j == [job[r] EXCEPT !.got = TRUE, !.ddev = d]
    <3>1. d \in Devs
      BY ChoicesAreDevices
    <3>2. /\ j \in Job /\ j.kind = job[r].kind /\ j.mask = job[r].mask /\ j.from = job[r].from
          /\ j.ddev = d
      BY <1>0, <3>1 DEF Job
    <3>3. \/ \E res \in {"policy_error_already_there", "source_down"} : Return(r, j, res)
          \/ \E s \in Sources(j) : /\ job' = [job EXCEPT ![r] = [j EXCEPT !.sdev = s]]
                                   /\ Goto(r, "copy")
      BY <2>3
    <3> HIDE DEF j
    <3>4. CASE \E res \in {"policy_error_already_there", "source_down"} : Return(r, j, res)
      BY <2>1, <3>2, <3>4, ReturnStep
    <3>5. ASSUME NEW s \in Sources(j), job' = [job EXCEPT ![r] = [j EXCEPT !.sdev = s]],
                 Goto(r, "copy")
          PROVE  LockInv'
      <4> DEFINE k == [j EXCEPT !.sdev = s]
      <4>1. s \in Devs
        BY <3>2, SourcesAreDevices
      <4>2. /\ k \in Job /\ k.kind = job[r].kind /\ k.mask = job[r].mask /\ k.from = job[r].from
            /\ k.ddev = d /\ k.sdev = s
        BY <3>2, <4>1 DEF Job
      <4>3. at' = [at EXCEPT ![r] = "copy"] /\ job' = [job EXCEPT ![r] = k]
        BY <3>5 DEF Goto
      <4> HIDE DEF k
      <4> QED BY <1>0, <2>1, <3>1, <4>1, <4>2, <4>3, FrameType, LocalStep
    <3> QED BY <3>3, <3>4, <3>5
  <2>4. \/ \E res \in {"ok", "lost_race", "policy_no_suggestions"} : Return(r, job[r], res)
        \/ \E d \in Choices(r) :
             LET j == [job[r] EXCEPT !.got = TRUE, !.ddev = d]
             IN  \/ \E res \in {"policy_error_already_there", "source_down"} : Return(r, j, res)
                 \/ \E s \in Sources(j) : /\ job' = [job EXCEPT ![r] = [j EXCEPT !.sdev = s]]
                                          /\ Goto(r, "copy")
    BY <1>3 DEF AskPolicy
  <2> QED BY <2>2, <2>3, <2>4
<1>4. CASE SrcError(r)
  <2> DEFINE F == job[r].srcFailed \cup {job[r].sdev}
             j == [job[r] EXCEPT !.srcFailed = F]
  <2>1. at[r] = "copy" /\ UNCHANGED <<world, on, disk, row, view, lock, reaper>>
    BY <1>4 DEF SrcError
  <2>2. F \in SUBSET Devs
    BY <1>0, <2>1 DEF Job
  <2>3. /\ j \in Job /\ j.kind = job[r].kind /\ j.mask = job[r].mask /\ j.from = job[r].from
    BY <1>0, <2>2 DEF Job
  <2>4. Return(r, j, "copy_error") \/ (job' = [job EXCEPT ![r] = j] /\ Goto(r, "policy"))
    BY <1>4 DEF SrcError
  <2> HIDE DEF j
  <2>5. CASE Return(r, j, "copy_error")
    BY <2>1, <2>3, <2>5, ReturnStep
  <2>6. CASE job' = [job EXCEPT ![r] = j] /\ Goto(r, "policy")
    BY <1>0, <2>1, <2>3, <2>6, FrameType, LocalStep DEF Goto
  <2> QED BY <2>4, <2>5, <2>6
<1>5. CASE DestError(r)
  <2> DEFINE F == job[r].destFailed \cup {job[r].ddev}
             j == [job[r] EXCEPT !.destFailed = F]
  <2>1. at[r] = "copy" /\ UNCHANGED <<world, on, disk, row, view, lock, reaper>>
    BY <1>5 DEF DestError
  <2>2. F \in SUBSET Devs
    BY <1>0, <2>1 DEF Job
  <2>3. /\ j \in Job /\ j.kind = job[r].kind /\ j.mask = job[r].mask /\ j.from = job[r].from
    BY <1>0, <2>2 DEF Job
  <2>4. job' = [job EXCEPT ![r] = j] /\ Goto(r, "policy")
    BY <1>5 DEF DestError
  <2> HIDE DEF j
  <2> QED BY <1>0, <2>1, <2>3, <2>4, FrameType, LocalStep DEF Goto
<1> QED BY <1>1, <1>2, <1>3, <1>4, <1>5

LEMMA CopyStep ==
  ASSUME LockInv, NEW r \in Replicators,
         CopyOk(r) \/ AddToDb(r) \/ Destroy(r) \/ DestroyRow(r) \/ DestroyFails(r)
  PROVE  LockInv'
<1> USE DEF Place, UnderLock
<1>0. /\ on \in SUBSET Devs /\ disk \in SUBSET Devs /\ job[r] \in Job
      /\ job[r].kind = "rebalance" => job[r].from = NoDev /\ \E d \in Devs : job[r].mask = {d}
      /\ at[r] \in {"destroy", "unrow"} => job[r].kind = "rebalance"
      /\ at[r] \in {"copy", "add"} => job[r].ddev \in Devs /\ job[r].sdev \in Devs
      /\ UNCHANGED row => RowType'
  BY DEF LockInv, StateType, MovesOne, RowType
<1>1. CASE CopyOk(r)
  <2>1. /\ at[r] = "copy" /\ disk' = disk \cup {job[r].ddev} /\ Goto(r, "add")
        /\ UNCHANGED <<on, row, lock>> /\ UNCHANGED <<job, world, view, reaper>>
    BY <1>1 DEF CopyOk
  <2> QED BY <1>0, <2>1, GotoStep
<1>2. CASE AddToDb(r)
  <2> DEFINE O == job[r].on \cup {job[r].ddev}
             T == job[r].told \cup {job[r].ddev}
             j == [job[r] EXCEPT !.on = O, !.told = T]
  <2>1. /\ at[r] = "add" /\ on' = on \cup {job[r].ddev} /\ Goto(r, "policy")
        /\ UNCHANGED <<disk, row, lock>> /\ UNCHANGED <<world, view, reaper>>
    BY <1>2 DEF AddToDb, Record
  <2>2. O \in SUBSET Devs /\ T \in SUBSET Devs
    BY <1>0, <2>1 DEF Job
  <2>3. /\ j \in Job /\ j.kind = job[r].kind /\ j.mask = job[r].mask /\ j.from = job[r].from
    BY <1>0, <2>2 DEF Job
  <2>4. job' = [job EXCEPT ![r] = j]
    BY <1>0, <1>2 DEF AddToDb, Job, LockInv, StateType
  <2> HIDE DEF j
  <2> QED BY <1>0, <2>1, <2>3, <2>4, LocalStep DEF Goto
<1>3. CASE Destroy(r)
  <2>1. /\ at[r] = "destroy" /\ disk' = disk \ job[r].mask /\ Goto(r, "unrow")
        /\ UNCHANGED <<on, row, lock>> /\ UNCHANGED <<job, world, view, reaper>>
    BY <1>3 DEF Destroy
  <2> QED BY <1>0, <2>1, GotoStep
<1>4. CASE DestroyRow(r)
  <2>1. /\ at[r] = "unrow" /\ on' = on \ job[r].mask /\ Goto(r, "unlock")
        /\ UNCHANGED <<disk, row, lock>> /\ UNCHANGED <<job, world, view, reaper>>
    BY <1>4 DEF DestroyRow
  <2> QED BY <1>0, <2>1, GotoStep
<1>5. CASE DestroyFails(r)
  <2>1. /\ at[r] = "destroy" /\ disk' \in {disk, disk \ job[r].mask} /\ Goto(r, "unlock")
        /\ UNCHANGED <<on, row, lock>> /\ UNCHANGED <<job, world, view, reaper>>
    BY <1>5 DEF DestroyFails
  <2> QED BY <1>0, <2>1, GotoStep
<1> QED BY <1>1, <1>2, <1>3, <1>4, <1>5

LEMMA FinishStep ==
  ASSUME LockInv, NEW r \in Replicators, FinishTable(r) \/ FinishRebalance(r)
  PROVE  LockInv'
<1> USE DEF Place, UnderLock
<1>0. on \in SUBSET Devs /\ disk \in SUBSET Devs
  BY DEF LockInv, StateType
<1>1. CASE FinishTable(r)
  <2>1. /\ at[r] = "finish" /\ Goto(r, "unlock")
        /\ UNCHANGED <<on, disk, lock>> /\ UNCHANGED <<job, world, view, reaper>>
    BY <1>1 DEF FinishTable
  <2>2. row' = NoRow \/ row' = row \/ (row # NoRow /\ \E n \in {"never", "backoff"} : row' = [row EXCEPT !.next = n])
    BY <1>1 DEF FinishTable, Reschedule
  <2>3. RowType'
    BY <2>2 DEF LockInv, RowType, NoRow
  <2> QED BY <1>0, <2>1, <2>3, GotoStep
<1>2. CASE FinishRebalance(r)
  <2>1. /\ at[r] = "finish" /\ job[r].kind = "rebalance"
        /\ \E place \in {"destroy", "unlock"} : Goto(r, place)
        /\ UNCHANGED <<on, disk, row, lock>> /\ UNCHANGED <<job, world, view, reaper>>
    BY <1>2 DEF FinishRebalance
  <2> QED BY <2>1, FrameType, GotoStep
<1> QED BY <1>1, <1>2

\* What happens around the replicators leaves them as they are.
LEMMA OutsideStep ==
  ASSUME LockInv, UNCHANGED <<lock, at, job>>, StateType', RowType'
  PROVE  LockInv'
BY DEF LockInv, Exclusive, MovesOne

LEMMA EnvironmentStep ==
  ASSUME LockInv,
         \/ \E r \in Replicators : Refresh(r)
         \/ Reap \/ ReaperCrash \/ BackoffPasses \/ DelayPasses
         \/ \E d \in Devs, s \in Changes : SetState(d, s)
         \/ DeleteFile \/ Purge
  PROVE  LockInv'
<1> USE DEF LockInv
<1>1. ASSUME NEW r \in Replicators, Refresh(r) PROVE LockInv'
  <2>1. StateType' /\ RowType'
    BY <1>1 DEF Refresh, StateType, RowType, world, reaper
  <2> QED BY <1>1, <2>1, OutsideStep DEF Refresh
<1>2. CASE Reap
  <2>1. StateType'
    BY <1>2 DEF Reap, ReapFile, ForgetAbout, NoteEmpty, StateType, world
  <2>2. RowType'
    BY <1>2 DEF Reap, ReapFile, EnqueueForReplication, Enqueue, ForgetAbout, NoteEmpty, RowType, NoRow
  <2> QED BY <1>2, <2>1, <2>2, OutsideStep DEF Reap, ReapFile, ForgetAbout, NoteEmpty
<1>3. CASE ReaperCrash
  <2>1. StateType' /\ RowType'
    BY <1>3 DEF ReaperCrash, StateType, RowType, world
  <2> QED BY <1>3, <2>1, OutsideStep DEF ReaperCrash
<1>4. CASE BackoffPasses \/ DelayPasses
  <2>1. StateType' /\ RowType'
    BY <1>4 DEF BackoffPasses, DelayPasses, StateType, RowType, NoRow, world, reaper
  <2> QED BY <1>4, <2>1, OutsideStep DEF BackoffPasses, DelayPasses
<1>5. ASSUME NEW d \in Devs, NEW s \in Changes, SetState(d, s) PROVE LockInv'
  <2>1. s \in States
    BY ReplicationAssumption
  <2>2. StateType' /\ RowType'
    BY <1>5, <2>1 DEF SetState, StateType, RowType, reaper
  <2> QED BY <1>5, <2>2, OutsideStep DEF SetState
<1>6. CASE DeleteFile \/ Purge
  <2>1. StateType' /\ RowType'
    BY <1>6 DEF DeleteFile, Purge, PurgeCopy, PurgeDone, StateType, RowType, world, reaper
  <2> QED BY <1>6, <2>1, OutsideStep DEF DeleteFile, Purge, PurgeCopy, PurgeDone
<1> QED BY <1>1, <1>2, <1>3, <1>4, <1>5, <1>6

LEMMA NextLock == LockInv /\ [Next]_vars => LockInv'
<1> SUFFICES ASSUME LockInv, [Next]_vars PROVE LockInv'
  OBVIOUS
<1>1. ASSUME NEW r \in Replicators, Work(r) \/ Crash(r) PROVE LockInv'
  BY <1>1, PickStep, LockStep, ReplicateStep, CopyStep, FinishStep DEF Work
<1>2. CASE \/ \E r \in Replicators : Refresh(r)
           \/ Reap \/ ReaperCrash \/ BackoffPasses \/ DelayPasses
           \/ \E d \in Devs, s \in Changes : SetState(d, s)
           \/ DeleteFile \/ Purge
  BY <1>2, EnvironmentStep
<1>3. CASE UNCHANGED vars
  <2>1. StateType' /\ RowType'
    BY <1>3 DEF vars, world, reaper, LockInv, StateType, RowType
  <2> QED BY <1>3, <2>1, OutsideStep DEF vars
<1> QED BY <1>1, <1>2, <1>3 DEF Next

\* The replicators keep their types, and exactly the one that is between getting the named
\* lock and note_done_replicating holds it, whatever crashes (Replicate.pm 517-559,
\* MySQL.pm 281-292): what the proofs below rest on.
THEOREM LockedWork == Spec => []LockInv
BY InitLock, NextLock, PTL DEF Spec

\* Type correctness: what the rows, the device table, the caches and the replicators' locals
\* can hold; and no lock is left behind.
THEOREM ReplicationTyped == Spec => []TypeOK
<1>1. LockInv => TypeOK
  BY DEF LockInv, StateType, RowType, Exclusive, TypeOK, Job, UnderLock
<1> QED BY <1>1, LockedWork, PTL

--------------------------------------------------------------------------------
(* While no device is lost.                                                  *)

\* Dead devices stay dead.
LEMMA NextReapsDead ==
  ASSUME LockInv, ReapsDead, [Next]_vars
  PROVE  ReapsDead' /\ (NoneDead' => NoneDead)
<1> USE DEF ReapsDead, NoneDead
<1>0. /\ status \in [Devs -> States] /\ reaping \in Devs \cup {NoDev} /\ on \in SUBSET Devs
  BY DEF LockInv, StateType
<1>1. CASE UNCHANGED <<status, reaping>>
  BY <1>1
<1>2. CASE ReapFile
  BY <1>0, <1>2 DEF ReapFile, world
<1>3. CASE ForgetAbout \/ ReaperCrash
  BY <1>0, <1>3 DEF ForgetAbout, ReaperCrash, world
<1>4. ASSUME NEW d \in Devs, NEW s \in Changes, SetState(d, s)
      PROVE  ReapsDead' /\ (NoneDead' => NoneDead)
  BY <1>0, <1>4 DEF SetState, reaper
<1>5. ASSUME NEW r \in Replicators, Work(r) \/ Crash(r) \/ Refresh(r)
      PROVE  UNCHANGED <<status, reaping>>
  BY <1>5 DEF Work, Fetch, PickToRebalance, CheckPicked, Lock, GiveUpLock, CheckExists, ReadOn, AskPolicy,
    CopyOk, SrcError, DestError, AddToDb, FinishTable, FinishRebalance,
    Destroy, DestroyRow, DestroyFails, Unlock, Crash, Refresh, world, reaper
<1>6. NoteEmpty \/ BackoffPasses \/ DelayPasses \/ DeleteFile \/ Purge \/ UNCHANGED vars
        => UNCHANGED <<status, reaping>>
  BY DEF NoteEmpty, BackoffPasses, DelayPasses, DeleteFile, Purge, PurgeCopy, PurgeDone, vars, world, reaper
<1> QED BY <1>1, <1>2, <1>3, <1>4, <1>5, <1>6 DEF Next, Reap

\* The part of CopyInv that is about one replicator.
Copies(r) == Knows(r) /\ (file = "live" /\ job[r].kind = "rebalance" => Moved(r))

\* A replicator that has not got the lock knows nothing yet.
LEMMA OutOfLock ==
  ASSUME NEW r \in Replicators, at'[r] \notin UnderLock,
         at'[r] \in {"picked", "lock"} => ~job'[r].got
  PROVE  Copies(r)'
BY DEF Copies, Knows, Moved, UnderLock

\* What the others do does not matter to a replicator as long as the copies stay.
LEMMA CopiesFrame ==
  ASSUME NEW r \in Replicators, Copies(r),
         at'[r] = at[r], job'[r] = job[r], disk' = disk,
         view'[r] = view[r] \/ at[r] \notin UnderLock,
         on' = on \/ (on' \subseteq on /\ file' # "live"),
         file' = "live" => file = "live"
  PROVE  Copies(r)'
<1>1. CASE at[r] \notin UnderLock
  BY <1>1, OutOfLock DEF Copies, Knows
<1>2. CASE at[r] \in UnderLock
  BY <1>2 DEF Copies, Knows, Moved, Kept, Enough
<1> QED BY <1>1, <1>2

\* Only one replicator's step needs a look: the others are out of the lock, or nothing
\* that they know of changes.
LEMMA Others ==
  ASSUME LockInv, LockInv', NEW r \in Replicators, NEW j, NEW place,
         at' = [at EXCEPT ![r] = place], job' = [job EXCEPT ![r] = j],
         UNCHANGED <<file, view>>,
         UNCHANGED <<on, disk>> \/ at[r] \in UnderLock,
         \A q \in Replicators : Copies(q)
  PROVE  \A q \in Replicators \ {r} : Copies(q)'
<1> SUFFICES ASSUME NEW q \in Replicators, q # r PROVE Copies(q)'
  OBVIOUS
<1>1. at'[q] = at[q] /\ job'[q] = job[q]
  BY DEF LockInv, StateType
<1>2. CASE UNCHANGED <<on, disk>>
  BY <1>1, <1>2, CopiesFrame
<1>3. CASE at[r] \in UnderLock
  <2>1. at[q] \notin UnderLock
    BY <1>3 DEF LockInv, Exclusive
  <2>2. at'[q] \in {"picked", "lock"} => ~job'[q].got
    BY <1>1 DEF Copies, Knows
  <2> QED BY <1>1, <2>1, <2>2, OutOfLock
<1> QED BY <1>2, <1>3

\* While no device is lost and LockInv is kept, CopyInv is this.
Quiet == LockInv /\ ReapsDead /\ NoneDead /\ CopyRemains /\ \A r \in Replicators : Copies(r)

\* A step of a replicator that leaves the copies alone.
LEMMA QuietStep ==
  ASSUME Quiet, LockInv', NEW r \in Replicators, NEW j \in Job, NEW place \in Place,
         at' = [at EXCEPT ![r] = place], job' = [job EXCEPT ![r] = j],
         UNCHANGED <<world, on, disk, view>>,
         at'[r] = place /\ job'[r] = j => Copies(r)'
  PROVE  CopyRemains' /\ \A q \in Replicators : Copies(q)'
<1>1. at'[r] = place /\ job'[r] = j
  BY DEF Quiet, LockInv, StateType
<1>2. \A q \in Replicators \ {r} : Copies(q)'
  BY Others DEF Quiet, world
<1>3. CopyRemains'
  BY DEF Quiet, CopyRemains, world
<1> QED BY <1>1, <1>2, <1>3

LEMMA PickCopies ==
  ASSUME Quiet, LockInv', NEW r \in Replicators,
         \/ Fetch(r) \/ PickToRebalance(r) \/ CheckPicked(r) \/ Lock(r) \/ GiveUpLock(r)
         \/ Unlock(r) \/ Crash(r)
  PROVE  CopyRemains' /\ \A q \in Replicators : Copies(q)'
<1>1. /\ Copies(r) /\ job[r] \in Job /\ job \in [Replicators -> Job] /\ at \in [Replicators -> Place]
      /\ job = [job EXCEPT ![r] = job[r]]
  BY DEF Quiet, LockInv, StateType
<1>2. /\ UNCHANGED <<world, on, disk, view>>
      /\ \E j \in {job[r], job'[r]}, place \in {"lock", "picked", "idle", "exists", "read"} :
           /\ at' = [at EXCEPT ![r] = place] /\ job' = [job EXCEPT ![r] = j]
           /\ ~j.got \/ (place = "idle" /\ j = job[r])
           /\ place \in {"exists", "read"} => at[r] = "lock"
  <2> USE <1>1 DEF Goto, NoJob, Job
  <2>1. CASE Fetch(r)
    BY <2>1 DEF Fetch
  <2>2. CASE PickToRebalance(r)
    <3>1. PICK d \in on, avoid \in {{}, RebalanceAvoid} :
            job' = [job EXCEPT ![r] = [NoJob EXCEPT !.kind = "rebalance", !.mask = {d}, !.avoid = avoid]]
      BY <2>2 DEF PickToRebalance
    <3> DEFINE j == [NoJob EXCEPT !.kind = "rebalance", !.mask = {d}, !.avoid = avoid]
    <3>2. ~j.got
      OBVIOUS
    <3>3. job' = [job EXCEPT ![r] = j] /\ job'[r] = j
      BY <3>1
    <3> HIDE DEF j
    <3> QED BY <2>2, <3>2, <3>3 DEF PickToRebalance
  <2>3. CASE CheckPicked(r) \/ Lock(r) \/ GiveUpLock(r)
    BY <2>3 DEF CheckPicked, Lock, GiveUpLock, Copies, Knows
  <2>4. CASE Unlock(r) \/ Crash(r)
    BY <2>4 DEF Unlock, Crash
  <2> QED BY <2>1, <2>2, <2>3, <2>4
<1>3. job'[r] \in Job
  BY DEF LockInv, StateType
<1>4. PICK j \in Job, place \in Place :
        /\ at' = [at EXCEPT ![r] = place] /\ job' = [job EXCEPT ![r] = j]
        /\ place \in {"lock", "picked", "idle", "exists", "read"}
        /\ ~j.got \/ (place = "idle" /\ j = job[r])
  BY <1>1, <1>2, <1>3 DEF Place, UnderLock
<1>5. at'[r] = place /\ job'[r] = j => Copies(r)'
  BY <1>4 DEF Copies, Knows, Moved
<1> QED BY <1>2, <1>4, <1>5, QuietStep

LEMMA ReadCopies ==
  ASSUME Quiet, LockInv', NEW r \in Replicators, CheckExists(r) \/ ReadOn(r)
  PROVE  CopyRemains' /\ \A q \in Replicators : Copies(q)'
<1>1. /\ Copies(r) /\ job[r] \in Job /\ job \in [Replicators -> Job] /\ at \in [Replicators -> Place]
      /\ job = [job EXCEPT ![r] = job[r]] /\ on \in SUBSET Devs /\ job'[r] \in Job
  BY DEF Quiet, LockInv, StateType
<1>2. CASE CheckExists(r)
  <2>1. UNCHANGED <<world, on, disk, view>> /\ at[r] = "exists"
    BY <1>2 DEF CheckExists
  <2>2. CASE Goto(r, "read") /\ job' = job
    <3>1. at'[r] = "read" /\ job'[r] = job[r] => Copies(r)'
      BY <1>1, <2>1 DEF Copies, Knows, Moved
    <3> QED BY <1>1, <2>1, <2>2, <3>1, QuietStep DEF Goto, Place, UnderLock
  <2>3. CASE Return(r, job[r], "nofid")
    <3> DEFINE j == [job[r] EXCEPT !.result = "nofid"]
    <3>1. j \in Job /\ j.result = "nofid" /\ at' = [at EXCEPT ![r] = "finish"] /\ job' = [job EXCEPT ![r] = j]
      BY <1>1, <2>3 DEF Return, Goto, Job, Results
    <3>2. at'[r] = "finish" /\ job'[r] = j => Copies(r)'
      BY <3>1 DEF Copies, Knows, Moved
    <3> HIDE DEF j
    <3> QED BY <2>1, <3>1, <3>2, QuietStep DEF Place, UnderLock
  <2> QED BY <1>2, <2>2, <2>3 DEF CheckExists
<1>3. CASE ReadOn(r)
  <2> DEFINE told == Tell(view[r], job[r].mask)
             up == {d \in on : CanReadFrom(view[r][d])}
             j == [job[r] EXCEPT !.on = on, !.told = told, !.up = up]
  <2>1. UNCHANGED <<world, on, disk, view>> /\ at[r] = "read"
    BY <1>3 DEF ReadOn
  <2>2. told = {d \in on : ShouldHaveFiles(view[r][d])} \ job[r].mask /\ up \subseteq on
    BY DEF Tell
  <2>3. told \in SUBSET Devs /\ up \in SUBSET Devs
    BY <1>1, <2>2
  <2>4. /\ j \in Job /\ j.mask = job[r].mask /\ j.on = on /\ j.told = told /\ j.up = up
        /\ j.got = job[r].got
    BY <1>1, <2>3 DEF Job
  <2>5. \/ \E res \in {"no_source", "source_down"} : Return(r, j, res)
        \/ job' = [job EXCEPT ![r] = j] /\ Goto(r, "policy")
    BY <1>3 DEF ReadOn
  <2>6. ~job[r].got
    BY <1>1, <2>1 DEF Copies, Knows
  <2> HIDE DEF j, told, up
  <2>7. CASE job' = [job EXCEPT ![r] = j] /\ Goto(r, "policy")
    <3>1. at'[r] = "policy" /\ job'[r] = j => Copies(r)'
      BY <2>1, <2>2, <2>4, <2>6 DEF Copies, Knows, Moved
    <3> QED BY <2>1, <2>4, <2>7, <3>1, QuietStep DEF Goto, Place, UnderLock
  <2>8. ASSUME NEW res \in {"no_source", "source_down"}, Return(r, j, res)
        PROVE  CopyRemains' /\ \A q \in Replicators : Copies(q)'
    <3> DEFINE k == [j EXCEPT !.result = res]
    <3>1. /\ k \in Job /\ k.result = res
          /\ at' = [at EXCEPT ![r] = "finish"] /\ job' = [job EXCEPT ![r] = k]
      BY <2>4, <2>8 DEF Return, Goto, Job, Results
    <3>2. at'[r] = "finish" /\ job'[r] = k => Copies(r)'
      BY <3>1 DEF Copies, Knows, Moved
    <3> HIDE DEF k
    <3> QED BY <2>1, <3>1, <3>2, QuietStep DEF Place, UnderLock
  <2> QED BY <2>5, <2>7, <2>8
<1> QED BY <1>2, <1>3

LEMMA PolicyCopies ==
  ASSUME Quiet, LockInv', NEW r \in Replicators, AskPolicy(r)
  PROVE  CopyRemains' /\ \A q \in Replicators : Copies(q)'
<1>1. /\ Copies(r) /\ job[r] \in Job /\ at[r] = "policy"
      /\ UNCHANGED <<world, on, disk, view>>
  BY DEF Quiet, LockInv, StateType, AskPolicy
<1>2. Suggestion(r).good <=> Enough(r)
  BY GoodMeansEnough DEF Suggestion, Enough
<1>3. ASSUME NEW j \in Job, NEW res \in Results, Return(r, j, res),
             j.kind = job[r].kind, j.mask = job[r].mask,
             res = "ok" => j = job[r] /\ job[r].got /\ Suggestion(r).good
      PROVE  CopyRemains' /\ \A q \in Replicators : Copies(q)'
  <2> DEFINE k == [j EXCEPT !.result = res]
  <2>1. /\ k \in Job /\ k.result = res /\ k.kind = j.kind /\ k.mask = j.mask
        /\ at' = [at EXCEPT ![r] = "finish"] /\ job' = [job EXCEPT ![r] = k]
    BY <1>3 DEF Return, Goto, Job
  <2> HIDE DEF k
  <2>2. res = "ok" /\ file = "live" /\ j.kind = "rebalance" => Kept(r)
    BY <1>1, <1>2, <1>3 DEF Copies, Moved
  <2>3. at'[r] = "finish" /\ job'[r] = k => Copies(r)'
    BY <1>1, <1>3, <2>1, <2>2 DEF Copies, Knows, Moved, Kept, world
  <2> QED BY <1>1, <2>1, <2>3, QuietStep DEF Place, UnderLock
<1>4. ASSUME NEW d \in Choices(r), ~Suggestion(r).good,
             LET j == [job[r] EXCEPT !.got = TRUE, !.ddev = d]
             IN  \/ \E res \in {"policy_error_already_there", "source_down"} : Return(r, j, res)
                 \/ \E s \in Sources(j) : /\ d \notin job[r].on
                                          /\ job' = [job EXCEPT ![r] = [j EXCEPT !.sdev = s]]
                                          /\ Goto(r, "copy")
      PROVE  CopyRemains' /\ \A q \in Replicators : Copies(q)'
  <2> DEFINE j == [job[r] EXCEPT !.got = TRUE, !.ddev = d]
  <2>1. d \in Devs
    BY ChoicesAreDevices
  <2>2. /\ j \in Job /\ j.kind = job[r].kind /\ j.mask = job[r].mask /\ j.from = job[r].from
        /\ j.on = job[r].on /\ j.told = job[r].told /\ j.up = job[r].up /\ j.ddev = d
    BY <1>1, <2>1 DEF Job
  <2>3. \/ \E res \in {"policy_error_already_there", "source_down"} : Return(r, j, res)
        \/ \E s \in Sources(j) : /\ d \notin job[r].on
                                 /\ job' = [job EXCEPT ![r] = [j EXCEPT !.sdev = s]]
                                 /\ Goto(r, "copy")
    BY <1>4
  <2> HIDE DEF j
  <2>4. CASE \E res \in {"policy_error_already_there", "source_down"} : Return(r, j, res)
    BY <1>3, <2>2, <2>4 DEF Results
  <2>5. ASSUME NEW s \in Sources(j), d \notin job[r].on,
               job' = [job EXCEPT ![r] = [j EXCEPT !.sdev = s]], Goto(r, "copy")
        PROVE  CopyRemains' /\ \A q \in Replicators : Copies(q)'
    <3> DEFINE k == [j EXCEPT !.sdev = s]
    <3>1. s \in Devs /\ (j.from = NoDev => s \in j.up)
      BY <2>2, SourcesAreDevices DEF Sources
    <3>2. /\ k \in Job /\ k.kind = job[r].kind /\ k.mask = job[r].mask /\ k.from = job[r].from
          /\ k.on = job[r].on /\ k.told = job[r].told /\ k.up = job[r].up /\ k.ddev = d /\ k.sdev = s
      BY <2>2, <3>1 DEF Job
    <3>3. job' = [job EXCEPT ![r] = k] /\ at' = [at EXCEPT ![r] = "copy"]
      BY <2>5 DEF Goto
    <3> HIDE DEF k
    <3>4. at'[r] = "copy" /\ job'[r] = k => Copies(r)'
      <4>1. ~HasEnough(World(view[r]), job[r].told, MinDevcount)
        BY <1>2, <1>4 DEF Enough
      <4> QED BY <1>1, <2>2, <2>5, <3>1, <3>2, <4>1 DEF Copies, Knows, Moved, Enough, world
    <3> QED BY <1>1, <3>2, <3>3, <3>4, QuietStep DEF Place, UnderLock
  <2> QED BY <2>3, <2>4, <2>5
<1>5. \/ Suggestion(r).good /\ Return(r, job[r], IF job[r].got THEN "ok" ELSE "lost_race")
      \/ \E res \in {"lost_race", "policy_no_suggestions"} : Return(r, job[r], res)
      \/ \E d \in Choices(r) :
           /\ ~Suggestion(r).good
           /\ LET j == [job[r] EXCEPT !.got = TRUE, !.ddev = d]
              IN  \/ \E res \in {"policy_error_already_there", "source_down"} : Return(r, j, res)
                  \/ \E s \in Sources(j) : /\ d \notin job[r].on
                                           /\ job' = [job EXCEPT ![r] = [j EXCEPT !.sdev = s]]
                                           /\ Goto(r, "copy")
  BY DEF AskPolicy
<1>6. CASE Suggestion(r).good /\ Return(r, job[r], IF job[r].got THEN "ok" ELSE "lost_race")
  BY <1>1, <1>3, <1>6 DEF Results
<1>7. CASE \E res \in {"lost_race", "policy_no_suggestions"} : Return(r, job[r], res)
  BY <1>1, <1>3, <1>7 DEF Results
<1> QED BY <1>4, <1>5, <1>6, <1>7

\* A replicator under the lock that changes what is recorded or stored.
LEMMA WriteStep ==
  ASSUME Quiet, LockInv', NEW r \in Replicators, NEW j \in Job, NEW place \in Place,
         at' = [at EXCEPT ![r] = place], job' = [job EXCEPT ![r] = j],
         UNCHANGED <<world, view>>, at[r] \in UnderLock,
         file = "live" => on' \cap disk' # {},
         at'[r] = place /\ job'[r] = j => Copies(r)'
  PROVE  CopyRemains' /\ \A q \in Replicators : Copies(q)'
<1>1. at'[r] = place /\ job'[r] = j
  BY DEF Quiet, LockInv, StateType
<1>2. \A q \in Replicators \ {r} : Copies(q)'
  BY Others DEF Quiet, world
<1> QED BY <1>1, <1>2 DEF CopyRemains, world

LEMMA CopyOkCopies ==
  ASSUME Quiet, LockInv', NEW r \in Replicators, CopyOk(r)
  PROVE  CopyRemains' /\ \A q \in Replicators : Copies(q)'
<1>1. /\ Copies(r) /\ job[r] \in Job /\ job = [job EXCEPT ![r] = job[r]]
      /\ job[r].kind = "rebalance" => job[r].from = NoDev /\ \E d \in Devs : job[r].mask = {d}
      /\ file = "live" => on \cap disk # {}
  BY DEF Quiet, LockInv, StateType, MovesOne, CopyRemains, NoneDead
<1>2. /\ at[r] = "copy" /\ job[r].sdev \in disk /\ disk' = disk \cup {job[r].ddev}
      /\ at' = [at EXCEPT ![r] = "add"] /\ job' = [job EXCEPT ![r] = job[r]]
      /\ UNCHANGED <<world, on, view>>
  BY <1>1 DEF CopyOk, Goto
<1>3. ASSUME file = "live", job[r].kind = "rebalance"
      PROVE  (on \cap disk') \ job[r].mask # {} \/ job[r].ddev \in disk' \ job[r].mask
  <2>1. job[r].sdev \in on /\ job[r].sdev # job[r].ddev
    BY <1>1, <1>2, <1>3 DEF Copies, Knows
  <2>2. CASE job[r].ddev \in job[r].mask
    BY <1>1, <1>2, <1>3, <2>1, <2>2
  <2> QED BY <1>2, <2>2
<1>4. at'[r] = "add" /\ job'[r] = job[r] => Copies(r)'
  BY <1>1, <1>2, <1>3 DEF Copies, Knows, Moved, Enough, Kept, world
<1> QED BY <1>1, <1>2, <1>4, WriteStep DEF Place, UnderLock

LEMMA CopyErrorCopies ==
  ASSUME Quiet, LockInv', NEW r \in Replicators, SrcError(r) \/ DestError(r)
  PROVE  CopyRemains' /\ \A q \in Replicators : Copies(q)'
<1>1. /\ Copies(r) /\ job[r] \in Job /\ job[r].ddev \in Devs /\ job[r].sdev \in Devs /\ at[r] = "copy"
      /\ UNCHANGED <<world, on, disk, view>>
  BY DEF Quiet, LockInv, StateType, MovesOne, SrcError, DestError
<1>2. ASSUME NEW j \in Job, j.kind = job[r].kind, j.mask = job[r].mask, j.told = job[r].told,
             j.up = job[r].up, j.on = job[r].on, j.result = job[r].result,
             job' = [job EXCEPT ![r] = j], Goto(r, "policy")
      PROVE  CopyRemains' /\ \A q \in Replicators : Copies(q)'
  <2>1. at'[r] = "policy" /\ job'[r] = j => Copies(r)'
    BY <1>1, <1>2 DEF Copies, Knows, Moved, Enough, world
  <2> QED BY <1>1, <1>2, <2>1, QuietStep DEF Goto, Place, UnderLock
<1>3. CASE SrcError(r)
  <2> DEFINE F == job[r].srcFailed \cup {job[r].sdev}
             j == [job[r] EXCEPT !.srcFailed = F]
  <2>1. F \in SUBSET Devs
    BY <1>1 DEF Job
  <2>2. /\ j \in Job /\ j.kind = job[r].kind /\ j.mask = job[r].mask /\ j.told = job[r].told
        /\ j.up = job[r].up /\ j.on = job[r].on /\ j.result = job[r].result
    BY <1>1, <2>1 DEF Job
  <2>3. Return(r, j, "copy_error") \/ (job' = [job EXCEPT ![r] = j] /\ Goto(r, "policy"))
    BY <1>3 DEF SrcError
  <2> HIDE DEF j
  <2>4. CASE Return(r, j, "copy_error")
    <3> DEFINE k == [j EXCEPT !.result = "copy_error"]
    <3>1. /\ k \in Job /\ k.result = "copy_error"
          /\ at' = [at EXCEPT ![r] = "finish"] /\ job' = [job EXCEPT ![r] = k]
      BY <2>2, <2>4 DEF Return, Goto, Job, Results
    <3>2. at'[r] = "finish" /\ job'[r] = k => Copies(r)'
      BY <3>1 DEF Copies, Knows, Moved
    <3> HIDE DEF k
    <3> QED BY <1>1, <3>1, <3>2, QuietStep DEF Place, UnderLock
  <2> QED BY <1>2, <2>2, <2>3, <2>4
<1>4. CASE DestError(r)
  <2> DEFINE F == job[r].destFailed \cup {job[r].ddev}
             j == [job[r] EXCEPT !.destFailed = F]
  <2>1. F \in SUBSET Devs
    BY <1>1 DEF Job
  <2>2. /\ j \in Job /\ j.kind = job[r].kind /\ j.mask = job[r].mask /\ j.told = job[r].told
        /\ j.up = job[r].up /\ j.on = job[r].on /\ j.result = job[r].result
    BY <1>1, <2>1 DEF Job
  <2>3. job' = [job EXCEPT ![r] = j] /\ Goto(r, "policy")
    BY <1>4 DEF DestError
  <2> HIDE DEF j
  <2> QED BY <1>2, <2>2, <2>3
<1> QED BY <1>3, <1>4

LEMMA AddCopies ==
  ASSUME Quiet, LockInv', NEW r \in Replicators, AddToDb(r)
  PROVE  CopyRemains' /\ \A q \in Replicators : Copies(q)'
<1> DEFINE O == job[r].on \cup {job[r].ddev}
           T == job[r].told \cup {job[r].ddev}
           j == [job[r] EXCEPT !.on = O, !.told = T]
<1>1. /\ Copies(r) /\ job[r] \in Job /\ job[r].ddev \in Devs /\ at[r] = "add"
      /\ file = "live" => on \cap disk # {}
      /\ on' = on \cup {job[r].ddev} /\ UNCHANGED <<world, disk, view>>
  BY DEF Quiet, LockInv, StateType, MovesOne, AddToDb, CopyRemains, NoneDead, Record
<1>2. O \in SUBSET Devs /\ T \in SUBSET Devs
  BY <1>1 DEF Job
<1>3. /\ j \in Job /\ j.kind = job[r].kind /\ j.mask = job[r].mask /\ j.up = job[r].up
      /\ j.on = O /\ j.told = T /\ j.result = job[r].result
  BY <1>1, <1>2 DEF Job
<1>4. job' = [job EXCEPT ![r] = j] /\ at' = [at EXCEPT ![r] = "policy"]
  BY <1>1 DEF AddToDb, Goto, Job, Quiet, LockInv, StateType
<1> HIDE DEF j
<1>5. at'[r] = "policy" /\ job'[r] = j => Copies(r)'
  <2> SUFFICES ASSUME at'[r] = "policy", job'[r] = j PROVE Copies(r)'
    OBVIOUS
  <2>1. Knows(r)'
    BY <1>1, <1>3 DEF Copies, Knows, world
  <2>2. file = "live" /\ job[r].kind = "rebalance" => ((on \cap disk) \ job[r].mask)' # {}
    <3>1. (on \cap disk') \ j.mask = (on \cap disk) \ job[r].mask
      BY <1>1, <1>3
    <3> QED BY <1>1, <1>3 DEF Copies, Moved, Kept
  <2> QED BY <1>1, <1>3, <2>1, <2>2 DEF Copies, Moved, Kept, world
<1> QED BY <1>1, <1>3, <1>4, <1>5, WriteStep DEF Place, UnderLock

\* The end of a move: the copy is deleted only when another one is kept.
LEMMA MoveCopies ==
  ASSUME Quiet, LockInv', NEW r \in Replicators,
         FinishTable(r) \/ FinishRebalance(r) \/ Destroy(r) \/ DestroyRow(r) \/ DestroyFails(r)
  PROVE  CopyRemains' /\ \A q \in Replicators : Copies(q)'
<1>1. /\ Copies(r) /\ job[r] \in Job /\ job = [job EXCEPT ![r] = job[r]]
      /\ job[r].kind = "rebalance" => \E d \in Devs : job[r].mask = {d}
      /\ at[r] \in {"destroy", "unrow"} => job[r].kind = "rebalance"
      /\ file = "live" => on \cap disk # {}
  BY DEF Quiet, LockInv, StateType, MovesOne, CopyRemains, NoneDead
<1>2. at[r] \in {"destroy", "unrow"} /\ file = "live" => (on \cap disk) \ job[r].mask # {}
  BY <1>1 DEF Copies, Moved, Kept
<1>3. ASSUME NEW place \in {"unlock", "unrow", "destroy"}, Goto(r, place), at[r] \in UnderLock,
             UNCHANGED <<world, view, job>>,
             on' \in {on, on \ job[r].mask}, disk' \in {disk, disk \ job[r].mask},
             (on' = on /\ disk' = disk) \/ at[r] \in {"destroy", "unrow"},
             place \in {"destroy", "unrow"} /\ file = "live" => (on \cap disk) \ job[r].mask # {}
      PROVE  CopyRemains' /\ \A q \in Replicators : Copies(q)'
  <2>1. at'[r] = place /\ job'[r] = job[r] => Copies(r)'
    BY <1>3 DEF Copies, Knows, Moved, Kept, world
  <2>2. file = "live" => on' \cap disk' # {}
    BY <1>1, <1>2, <1>3
  <2>3. at' = [at EXCEPT ![r] = place] /\ job' = [job EXCEPT ![r] = job[r]] /\ place \in Place
    BY <1>1, <1>3 DEF Goto, Place, UnderLock
  <2> QED BY <1>1, <1>3, <2>1, <2>2, <2>3, WriteStep
<1>4. CASE FinishTable(r)
  BY <1>3, <1>4 DEF FinishTable, UnderLock
<1>5. CASE FinishRebalance(r)
  <2>1. /\ at[r] = "finish" /\ job[r].kind = "rebalance" /\ UNCHANGED <<world, on, disk, view, job>>
    BY <1>5 DEF FinishRebalance
  <2>2. PICK d \in job[r].mask : Goto(r, IF ShouldDelete(job[r], d) THEN "destroy" ELSE "unlock")
    BY <1>5 DEF FinishRebalance
  <2>3. job[r].mask = {d}
    BY <1>1, <2>1, <2>2
  <2>4. CASE ShouldDelete(job[r], d)
    <3>1. file = "live" => (on \cap disk) \ job[r].mask # {}
      BY <1>1, <2>1, <2>3, <2>4 DEF ShouldDelete, OverReplicated, AnotherIsWhole, Copies, Moved, Kept
    <3> QED BY <1>3, <2>1, <2>2, <2>4, <3>1 DEF UnderLock
  <2>5. CASE ~ShouldDelete(job[r], d)
    BY <1>3, <2>1, <2>2, <2>5 DEF UnderLock
  <2> QED BY <2>4, <2>5
<1>6. CASE Destroy(r)
  BY <1>2, <1>3, <1>6 DEF Destroy, UnderLock
<1>7. CASE DestroyRow(r)
  BY <1>2, <1>3, <1>7 DEF DestroyRow, UnderLock
<1>8. CASE DestroyFails(r)
  <2>1. /\ at[r] = "destroy" /\ disk' \in {disk, disk \ job[r].mask} /\ Goto(r, "unlock")
        /\ UNCHANGED <<world, on, view, job>>
    BY <1>8 DEF DestroyFails
  <2> QED BY <1>2, <1>3, <2>1 DEF UnderLock
<1> QED BY <1>4, <1>5, <1>6, <1>7, <1>8

\* Around the replicators: the reaper has nothing to do while no device is lost, a file that
\* loses copies to the deleter is not live, and caches are reloaded out of the lock.
LEMMA EnvironmentCopies ==
  ASSUME Quiet, LockInv', NoneDead',
         \/ \E r \in Replicators : Refresh(r)
         \/ Reap \/ ReaperCrash \/ BackoffPasses \/ DelayPasses
         \/ \E d \in Devs, s \in Changes : SetState(d, s)
         \/ DeleteFile \/ Purge \/ UNCHANGED vars
  PROVE  CopyRemains' /\ \A q \in Replicators : Copies(q)'
<1>1. /\ \A d \in Devs : status[d] # "dead"
      /\ reaping = NoDev
      /\ on \in SUBSET Devs
      /\ status \in [Devs -> States]
      /\ view \in [Replicators -> [Devs -> States]]
      /\ file = "live" => on \cap disk # {}
      /\ \A q \in Replicators : Copies(q)
  BY DEF Quiet, LockInv, StateType, CopyRemains, NoneDead, ReapsDead
<1>2. ASSUME UNCHANGED <<file, on, disk, at, job>>,
             \A q \in Replicators : view'[q] = view[q] \/ at[q] \notin UnderLock
      PROVE  CopyRemains' /\ \A q \in Replicators : Copies(q)'
  BY <1>1, <1>2, CopiesFrame DEF CopyRemains
<1>3. ASSUME NEW r \in Replicators, Refresh(r)
      PROVE  CopyRemains' /\ \A q \in Replicators : Copies(q)'
  <2>1. at[r] \notin UnderLock
    BY <1>3 DEF Refresh, BetweenFiles, UnderLock
  <2> QED BY <1>1, <1>2, <1>3, <2>1 DEF Refresh, world
<1>4. ~ReapFile /\ ~ForgetAbout /\ ~NoteEmpty /\ ~ReaperCrash
  BY <1>1 DEF ReapFile, ForgetAbout, NoteEmpty, ReaperCrash
<1>5. ASSUME NEW d \in Devs, NEW s \in Changes, SetState(d, s)
      PROVE  CopyRemains' /\ \A q \in Replicators : Copies(q)'
  <2>1. s # "dead"
    BY <1>1, <1>5 DEF SetState, NoneDead
  <2> QED BY <1>2, <1>5, <2>1 DEF SetState
<1>6. CASE BackoffPasses \/ DelayPasses \/ UNCHANGED vars
  BY <1>2, <1>6 DEF BackoffPasses, DelayPasses, vars, world
<1>7. CASE DeleteFile \/ Purge
  <2>1. file' # "live" /\ on' \subseteq on /\ UNCHANGED <<view, at, job>>
    BY <1>7 DEF DeleteFile, Purge, PurgeCopy, PurgeDone, world
  <2>2. ASSUME NEW q \in Replicators PROVE Copies(q)'
    BY <1>1, <2>1 DEF Copies, Knows, Enough
  <2> QED BY <2>1, <2>2 DEF CopyRemains
<1> QED BY <1>3, <1>4, <1>5, <1>6, <1>7 DEF Reap

LEMMA InitCopies == Init => CopyInv
<1> SUFFICES ASSUME Init PROVE CopyInv
  OBVIOUS
<1>1. LockInv
  BY InitLock
<1>2. ReapsDead
  BY DEF Init, ReapsDead
<1>3. \A r \in Replicators : Knows(r) /\ Moved(r)
  BY DEF Init, Knows, Moved, NoJob
<1>4. CopyRemains
  BY DEF Init, CopyRemains
<1> QED BY <1>1, <1>2, <1>3, <1>4 DEF CopyInv

LEMMA NextCopies ==
  ASSUME CopyInv, [Next]_vars
  PROVE  CopyInv'
<1>1. LockInv' /\ ReapsDead' /\ (NoneDead' => NoneDead)
  BY NextLock, NextReapsDead DEF CopyInv
<1>2. CASE ~NoneDead'
  BY <1>1, <1>2 DEF CopyInv, CopyRemains, NoneDead
<1>3. CASE NoneDead'
  <2>1. Quiet
    BY <1>1, <1>3 DEF Quiet, CopyInv, Copies
  <2>2. ASSUME NEW r \in Replicators, Work(r) \/ Crash(r)
        PROVE  CopyRemains' /\ \A q \in Replicators : Copies(q)'
    BY <1>1, <2>1, <2>2, PickCopies, ReadCopies, PolicyCopies, CopyOkCopies, CopyErrorCopies,
      AddCopies, MoveCopies DEF Work
  <2>3. CopyRemains' /\ \A q \in Replicators : Copies(q)'
    BY <1>1, <1>3, <2>1, <2>2, EnvironmentCopies DEF Next
  <2> QED BY <1>1, <2>3 DEF CopyInv, Copies
<1> QED BY <1>2, <1>3

\* Rebalancing never deletes the last copy: as long as no device is lost a live file has a
\* recorded copy that exists, however many replicators move it, whatever the administrator
\* changes behind their caches and wherever they die (rebalance_devfid, Replicate.pm 403-485;
\* Store.pm 1254-1260).  CopyInv is needed because the copy is deleted on what the policy
\* said of the devices it was told of: those have to be recorded still, which the lock gives
\* (Exclusive), and the one just copied to has to hold the file and not be the one that is
\* moved (Knows, Moved).
THEOREM RebalanceKeepsACopy == Spec => []CopyRemains
<1>1. CopyInv /\ [Next]_vars => CopyInv'
  BY NextCopies
<1>2. CopyInv => CopyRemains
  BY DEF CopyInv
<1> QED BY <1>1, <1>2, InitCopies, PTL DEF Spec

--------------------------------------------------------------------------------
(* While no device changes its state.                                         *)

AllAlive == /\ \A d \in Devs : status[d] = "alive"
            /\ \A r \in Replicators : view[r] = status

\* A replicator that has copied the file knew all the copies that are recorded but the one
\* it moves, and more copies never make the policy ask for another one.
LEMMA CopiedIsWanted ==
  ASSUME CopyInv, AllAlive, NEW r \in Replicators, at[r] = "add"
  PROVE  Wanted(r)
<1> DEFINE W == World(status)
           rest == {d \in on : ShouldHaveFiles(status[d])} \ job[r].mask
<1>1. /\ on \in SUBSET Devs /\ job[r] \in Job /\ status \in [Devs -> States]
      /\ \A d \in Devs : status[d] = "alive"
      /\ view[r] = status /\ Knows(r)
  BY DEF CopyInv, LockInv, StateType, AllAlive, NoneDead
<1>2. DevsOf(W) = Devs /\ TotalDisks(W) = Devs /\ IsFiniteSet(DevsOf(W))
  BY <1>1, ReplicationAssumption DEF World, DevsOf, TotalDisks, ShouldHaveFiles
<1>3. rest \in SUBSET job[r].told /\ job[r].told \in SUBSET TotalDisks(W)
  BY <1>1, <1>2 DEF Knows, Job
<1>4. ~HasEnough(W, job[r].told, MinDevcount)
  BY <1>1 DEF Knows, Enough
<1>5. MinDevcount \in Nat \ {0}
  BY ReplicationAssumption
<1>6. ~HasEnough(W, rest, MinDevcount)
  <2> HIDE DEF W, rest
  <2> QED BY <1>2, <1>3, <1>4, <1>5, GoodIsMonotone
<1> QED BY <1>6, GoodMeansEnough DEF Wanted

\* No device changes its state.
LEMMA NextAllAlive ==
  ASSUME Changes = {}, LockInv, AllAlive, [Next]_vars
  PROVE  AllAlive'
<1>1. UNCHANGED <<status, view>>
  BY DEF Next, Work, Fetch, PickToRebalance, CheckPicked, Lock, GiveUpLock, CheckExists, ReadOn,
    AskPolicy, CopyOk, SrcError, DestError, AddToDb, FinishTable, FinishRebalance,
    Destroy, DestroyRow, DestroyFails, Unlock, Crash, Refresh, Reap, ReapFile, ForgetAbout, NoteEmpty,
    ReaperCrash, BackoffPasses, DelayPasses, DeleteFile, Purge, PurgeCopy, PurgeDone, vars, world, AllAlive
<1> QED BY <1>1 DEF AllAlive

\* While no device changes its state, a replicator that adds a row still meets a policy that
\* asks for a copy (Store.pm 1240-1244): under the lock nobody added one behind its back, and
\* fewer copies would not have been enough either (GoodIsMonotone).
THEOREM CopiesAreWanted ==
  ASSUME Changes = {}
  PROVE  Spec => NoWastedCopy
<1>1. Init => AllAlive
  BY DEF Init, AllAlive
<1>2. CopyInv /\ AllAlive /\ [Next]_vars => CopyInv' /\ AllAlive'
  BY NextCopies, NextAllAlive DEF CopyInv
<1>3. CopyInv /\ AllAlive => \A r \in Replicators : at[r] = "add" => Wanted(r)
  BY CopiedIsWanted
<1>4. CopyInv /\ AllAlive /\ [Next]_vars
        => [\A r \in Replicators : at[r] = "add" /\ at'[r] = "policy" => Wanted(r)]_vars
  BY <1>3
<1> QED BY <1>1, <1>2, <1>4, InitCopies, PTL DEF Spec, NoWastedCopy

-------------------------------------------------------------------------------
\* No file is forgotten: OwedIsQueued, where nothing is moved but off drained devices, and
\* devices die while nobody works on the file.

\* Nothing is moved but off drained devices, that and deaths is what happens to devices,
\* and nobody works on the file when one dies.
OnlyDrainsAndDeaths ==
  RebalanceFrom = {} /\ Changes \subseteq {"drain", "dead"} /\ "meddle" \notin Environment

\* Devices are drained and die, and caches learn of it later.
Lagging ==
  /\ \A d \in Devs : status[d] \in {"alive", "drain", "dead"}
  /\ \A r \in Replicators, d \in Devs :
       \/ view[r][d] = "alive"
       \/ view[r][d] = "drain" /\ status[d] # "alive"
       \/ view[r][d] = "dead" /\ status[d] = "dead"

KnowDeaths == \A r \in Replicators, d \in Devs : status[d] = "dead" => view[r][d] = "dead"

\* The reaper's delay: who may be at a row that is due knows of all deaths.
DeathsKnown ==
  /\ row.next \in {"now", "backoff", "never"} => KnowDeaths
  /\ (\E r \in Replicators : at[r] # "idle" /\ job[r].kind = "table") => KnowDeaths
  /\ reaping # NoDev /\ row = NoRow => \A r \in Replicators : view[r][reaping] = "dead"

\* What is moved is drained, as far as the replicator that moves it knows.
MovesDrained ==
  \A r \in Replicators :
    /\ job[r].avoid = {} /\ \A d \in job[r].mask : view[r][d] # "alive"
    /\ job[r].kind # "rebalance" => job[r].mask = {}

\* The policy is satisfied by the copies on D, or they are still to be moved.
Content(D) ==
  \/ HasEnough(World(status), {d \in D : ShouldHaveFiles(status[d])}, MinDevcount)
  \/ \E d \in D : status[d] = "drain"

\* Or somebody will look at the file again: a replicator, or the reaper.
Owed(D) ==
  \/ row # NoRow
  \/ Content(D)
  \/ \E d \in D : status[d] = "dead" /\ d # reaping

\* What a replicator told the policy is there, or died and was reaped meanwhile.
Told(r) ==
  at[r] \in {"policy", "copy", "add"} =>
    /\ row.next # "never"
    /\ \A d \in job[r].told :
         /\ view[r][d] = "alive" /\ d \notin job[r].mask
         /\ d \in on \/ (status[d] = "dead" /\ row # NoRow)
    /\ at[r] \in {"copy", "add"} => view[r][job[r].ddev] = "alive"

\* What a replicator that is done with a live file found out holds.
Found(r) ==
  /\ at[r] = "finish" =>
       /\ job[r].result # "nofid"
       /\ job[r].result = "no_source" => on = {}
       /\ job[r].result \in {"ok", "lost_race"} /\ job[r].kind = "table" => Content(on)
  /\ \/ at[r] \in {"destroy", "unrow"}
     \/ at[r] = "finish" /\ job[r].kind = "rebalance" /\ job[r].result \in {"ok", "lost_race"}
     => Owed(on \ job[r].mask)

Wise(r) == Told(r) /\ Found(r)

\* The file has what it is to have, or is owed it, and is given up only without a copy.
Accounted == Owed(on) /\ (row.next = "never" => on = {})

Known == LockInv /\ ReapsDead /\ Lagging /\ DeathsKnown /\ MovesDrained
QueueInv == Known /\ (file = "live" => Accounted /\ \A r \in Replicators : Wise(r))

--------------------------------------------------------------------------------
(* What the policy is content with.                                          *)

\* When devices are lost on which the file is not, what was enough for it still is.
LEMMA GoodAfterLosses ==
  ASSUME NEW v \in [Devs -> States], NEW w \in [Devs -> States], NEW D \in SUBSET Devs,
         \A d \in Devs : w[d] = v[d] \/ w[d] \in {"drain", "dead"},
         \A d \in D : ShouldHaveFiles(w[d]),
         HasEnough(World(v), D, MinDevcount)
  PROVE  HasEnough(World(w), D, MinDevcount)
<1>1. TotalDisks(World(w)) \in SUBSET TotalDisks(World(v)) /\ D \in SUBSET TotalDisks(World(w))
  BY DEF TotalDisks, DevsOf, World, ShouldHaveFiles
<1>2. TotalHosts(World(w)) \in SUBSET TotalHosts(World(v))
  BY DEF TotalHosts, HostsOf, DevsOf, World, ShouldGetReplFiles
<1>3. HostsOf(World(w), D) = HostsOf(World(v), D)
  BY DEF HostsOf, World
<1>4. IsFiniteSet(TotalDisks(World(v))) /\ IsFiniteSet(TotalHosts(World(v)))
  <2> DEFINE T == TotalDisks(World(v))
             H == {d \in DevsOf(World(v)) : ShouldGetReplFiles(World(v).state[d])}
  <2>1. T \in SUBSET Devs /\ H \in SUBSET Devs
    BY DEF TotalDisks, DevsOf, World
  <2>2. IsFiniteSet(T) /\ IsFiniteSet(H)
    BY <2>1, FS_Subset, ReplicationAssumption
  <2> QED BY <2>2, HostsBounded DEF TotalHosts
<1>5. /\ Cardinality(TotalDisks(World(w))) <= Cardinality(TotalDisks(World(v)))
      /\ IsFiniteSet(TotalDisks(World(w)))
      /\ Cardinality(D) <= Cardinality(TotalDisks(World(w))) /\ IsFiniteSet(D)
      /\ Cardinality(TotalHosts(World(w))) <= Cardinality(TotalHosts(World(v)))
      /\ IsFiniteSet(TotalHosts(World(w)))
  <2>1. /\ IsFiniteSet(TotalDisks(World(w)))
        /\ Cardinality(TotalDisks(World(w))) <= Cardinality(TotalDisks(World(v)))
    BY <1>1, <1>4, FS_Subset
  <2>2. IsFiniteSet(D) /\ Cardinality(D) <= Cardinality(TotalDisks(World(w)))
    BY <1>1, <2>1, FS_Subset
  <2>3. /\ IsFiniteSet(TotalHosts(World(w)))
        /\ Cardinality(TotalHosts(World(w))) <= Cardinality(TotalHosts(World(v)))
    BY <1>2, <1>4, FS_Subset
  <2> QED BY <2>1, <2>2, <2>3
<1>6. /\ Cardinality(TotalDisks(World(v))) \in Nat /\ Cardinality(TotalDisks(World(w))) \in Nat
      /\ Cardinality(D) \in Nat /\ Cardinality(HostsOf(World(v), D)) \in Nat
      /\ Cardinality(TotalHosts(World(v))) \in Nat /\ Cardinality(TotalHosts(World(w))) \in Nat
  BY <1>4, <1>5, FS_CardinalityType, HostsBounded
<1>7. CASE IsSimple(World(v), D, MinDevcount)
  BY <1>5, <1>6, <1>7 DEF IsSimple, HasEnough
<1>8. CASE TooMany(World(v), D, MinDevcount)
  BY <1>3, <1>8 DEF TooMany, HasEnough
<1>9. CASE Covered(World(v), D, MinDevcount)
  BY <1>3, <1>5, <1>6, <1>9 DEF Covered, HasEnough
<1> QED BY <1>7, <1>8, <1>9 DEF HasEnough

\* More copies on devices that should have files.
LEMMA EnoughGrows ==
  ASSUME NEW w \in [Devs -> States], NEW E \in SUBSET Devs, NEW D \in SUBSET E,
         \A d \in E : ShouldHaveFiles(w[d]),
         HasEnough(World(w), D, MinDevcount)
  PROVE  HasEnough(World(w), E, MinDevcount)
<1> DEFINE W == World(w)
<1>1. DevsOf(W) = Devs /\ E \in SUBSET TotalDisks(W)
  BY DEF World, DevsOf, TotalDisks
<1>2. IsFiniteSet(DevsOf(W)) /\ MinDevcount \in Nat \ {0}
  BY <1>1, ReplicationAssumption
<1> HIDE DEF W
<1> QED BY <1>1, <1>2, GoodIsMonotone DEF W

\* More copies leave a file that is content so, and so does reaping a dead one.
LEMMA ContentGrows ==
  ASSUME LockInv, ReapsDead, NEW D \in SUBSET Devs, NEW E \in SUBSET Devs,
         D \ {reaping} \subseteq E, status' = status, Content(D)
  PROVE  Content(E)'
<1>1. status \in [Devs -> States] /\ reaping \in Devs \cup {NoDev} /\ NoDev \notin Devs
  BY ReplicationAssumption DEF LockInv, StateType
<1>2. CASE \E d \in D : status[d] = "drain"
  BY <1>1, <1>2 DEF ReapsDead, Content
<1>3. CASE HasEnough(World(status), {d \in D : ShouldHaveFiles(status[d])}, MinDevcount)
  <2> DEFINE A == {d \in D : ShouldHaveFiles(status[d])}
             B == {d \in E : ShouldHaveFiles(status[d])}
  <2>1. A \in SUBSET B /\ B \in SUBSET Devs
    BY <1>1 DEF ReapsDead, ShouldHaveFiles
  <2>2. HasEnough(World(status), B, MinDevcount)
    BY <1>1, <1>3, <2>1, EnoughGrows
  <2> QED BY <2>2 DEF Content
<1> QED BY <1>2, <1>3 DEF Content

\* The same of what is owed, whatever the row.
LEMMA OwedGrows ==
  ASSUME LockInv, ReapsDead, NEW D \in SUBSET Devs, NEW E \in SUBSET Devs,
         D \ {reaping} \subseteq E, status' = status,
         row' # NoRow \/ (row' = row /\ reaping' \in {reaping, NoDev}), Owed(D)
  PROVE  Owed(E)'
<1>1. CASE row' # NoRow
  BY <1>1 DEF Owed
<1>2. CASE row' = row /\ reaping' \in {reaping, NoDev} /\ row = NoRow
  <2>1. NoDev \notin Devs
    BY ReplicationAssumption
  <2>2. CASE Content(D)
    BY <2>2, ContentGrows DEF Owed
  <2>3. CASE \E d \in D : status[d] = "dead" /\ d # reaping
    BY <1>2, <2>1, <2>3 DEF Owed
  <2> QED BY <1>2, <2>2, <2>3 DEF Owed
<1> QED BY <1>1, <1>2

\* A device that is drained or dies takes part in what is owed.
LEMMA OwedStays ==
  ASSUME LockInv, ReapsDead, NEW D \in SUBSET Devs, NEW d \in Devs, NEW s \in {"drain", "dead"},
         SetState(d, s)
  PROVE  /\ s = "drain" /\ Content(D) => Content(D)'
         /\ Owed(D) => Owed(D)'
<1>1. /\ status \in [Devs -> States] /\ status' = [status EXCEPT ![d] = s]
      /\ status' \in [Devs -> States] /\ status[d] # "dead" /\ UNCHANGED <<row, reaping>>
  BY DEF LockInv, StateType, SetState, States, reaper
<1>2. d # reaping
  BY <1>1, ReplicationAssumption DEF ReapsDead
<1>3. CASE d \in D
  <2>1. s = "drain" => Content(D)'
    BY <1>1, <1>3 DEF Content
  <2>2. s = "dead" => Owed(D)'
    BY <1>1, <1>2, <1>3 DEF Owed
  <2> QED BY <2>1, <2>2 DEF Owed
<1>4. CASE d \notin D
  <2>1. Content(D) => Content(D)'
    <3>1. CASE \E e \in D : status[e] = "drain"
      BY <1>1, <1>4, <3>1 DEF Content
    <3>2. CASE HasEnough(World(status), {e \in D : ShouldHaveFiles(status[e])}, MinDevcount)
      <4> DEFINE A == {e \in D : ShouldHaveFiles(status[e])}
      <4>1. A = {e \in D : ShouldHaveFiles(status'[e])}
        BY <1>1, <1>4
      <4>2. HasEnough(World(status'), A, MinDevcount)
        BY <1>1, <3>2, <4>1, GoodAfterLosses
      <4> QED BY <4>1, <4>2 DEF Content, World
    <3> QED BY <3>1, <3>2 DEF Content
  <2>2. (\E e \in D : status[e] = "dead" /\ e # reaping)
          => \E e \in D : status'[e] = "dead" /\ e # reaping'
    BY <1>1, <1>4
  <2> QED BY <1>1, <2>1, <2>2 DEF Owed
<1> QED BY <1>3, <1>4

--------------------------------------------------------------------------------
(* What is known of the devices.                                             *)

\* What a replicator's step does besides what it is about.
LEMMA WorkFrame ==
  ASSUME OnlyDrainsAndDeaths, LockInv, NEW r \in Replicators, Work(r) \/ Crash(r)
  PROVE  /\ UNCHANGED <<world, view, reaper>>
         /\ \A q \in Replicators \ {r} : at'[q] = at[q] /\ job'[q] = job[q]
         /\ \/ /\ job'[r].kind = job[r].kind /\ job'[r].mask = job[r].mask
               /\ job'[r].avoid = job[r].avoid /\ (at[r] = "idle" => at'[r] = "idle")
            \/ job'[r].kind = "none" /\ job'[r].mask = {} /\ job'[r].avoid = {}
            \/ /\ job'[r].kind = "table" /\ job'[r].mask = {} /\ job'[r].avoid = {}
               /\ row.next = "now"
            \/ /\ job'[r].kind = "rebalance" /\ job'[r].avoid = {}
               /\ \E d \in Devs : view[r][d] = "drain" /\ job'[r].mask = {d}
         /\ row' = row \/ (at[r] = "finish" /\ job[r].kind = "table" /\ row' # row)
         /\ UNCHANGED <<on, row>> \/ at[r] \in UnderLock
<1> DEFINE Same == /\ job'[r].kind = job[r].kind /\ job'[r].mask = job[r].mask
                   /\ job'[r].avoid = job[r].avoid
<1>1. /\ job \in [Replicators -> Job] /\ at \in [Replicators -> Place] /\ job[r] \in Job
      /\ on \in SUBSET Devs
  BY DEF LockInv, StateType
<1>2. ASSUME NEW j, NEW place, at' = [at EXCEPT ![r] = place], job' = [job EXCEPT ![r] = j]
      PROVE  \A q \in Replicators \ {r} : at'[q] = at[q] /\ job'[q] = job[q]
  BY <1>1, <1>2
<1>3. CASE Fetch(r)
  <2>1. job'[r] = [NoJob EXCEPT !.kind = "table", !.from = row.from]
    BY <1>1, <1>3 DEF Fetch
  <2>2. job'[r].kind = "table" /\ job'[r].mask = {} /\ job'[r].avoid = {}
    BY <2>1 DEF NoJob
  <2> QED BY <1>1, <1>3, <2>2 DEF Fetch, Goto
<1>4. CASE PickToRebalance(r)
  <2>1. PICK d \in on, avoid \in {{}, RebalanceAvoid} :
          /\ \/ avoid = {} /\ view[r][d] = "drain"
             \/ avoid = RebalanceAvoid /\ Movable(view[r], d)
          /\ job' = [job EXCEPT ![r] = [NoJob EXCEPT !.kind = "rebalance", !.mask = {d}, !.avoid = avoid]]
    BY <1>4 DEF PickToRebalance
  <2>2. avoid = {} /\ view[r][d] = "drain" /\ d \in Devs
    BY <1>1, <2>1 DEF Movable, OnlyDrainsAndDeaths
  <2>3. job'[r] = [NoJob EXCEPT !.kind = "rebalance", !.mask = {d}, !.avoid = avoid]
    BY <1>1, <2>1
  <2>4. job'[r].kind = "rebalance" /\ job'[r].mask = {d} /\ job'[r].avoid = {}
    BY <2>2, <2>3 DEF NoJob
  <2> QED BY <1>1, <1>4, <2>1, <2>2, <2>4 DEF PickToRebalance, Goto
<1>5. CASE Unlock(r) \/ Crash(r)
  BY <1>1, <1>5 DEF Unlock, Crash, Goto, NoJob
<1>6. CASE CheckPicked(r) \/ Lock(r) \/ GiveUpLock(r)
  BY <1>1, <1>6 DEF CheckPicked, Lock, GiveUpLock, Goto
<1> DEFINE Goal == /\ UNCHANGED <<world, on, row, view, reaper>> /\ at[r] \in UnderLock
                   /\ \A q \in Replicators \ {r} : at'[q] = at[q] /\ job'[q] = job[q]
                   /\ Same
<1>a. ASSUME NEW j \in Job, NEW place, at' = [at EXCEPT ![r] = place], job' = [job EXCEPT ![r] = j],
             j.kind = job[r].kind, j.mask = job[r].mask, j.avoid = job[r].avoid,
             UNCHANGED <<world, on, row, view, reaper>>, at[r] \in UnderLock
      PROVE  Goal
  BY <1>1, <1>a
<1>b. ASSUME NEW j \in Job, NEW res \in Results, Return(r, j, res),
             j.kind = job[r].kind, j.mask = job[r].mask, j.avoid = job[r].avoid,
             UNCHANGED <<world, on, row, view, reaper>>, at[r] \in UnderLock
      PROVE  Goal
  <2> DEFINE k == [j EXCEPT !.result = res]
  <2>1. k \in Job /\ k.kind = job[r].kind /\ k.mask = job[r].mask /\ k.avoid = job[r].avoid
    BY <1>b, JobFields DEF Job
  <2>2. at' = [at EXCEPT ![r] = "finish"] /\ job' = [job EXCEPT ![r] = k]
    BY <1>b DEF Return, Goto
  <2> HIDE DEF k, Goal
  <2> QED BY <1>a, <1>b, <2>1, <2>2
<1>c. Goal /\ at[r] # "idle" =>
         /\ UNCHANGED <<world, view, reaper>> /\ row' = row /\ UNCHANGED <<on, row>>
         /\ \A q \in Replicators \ {r} : at'[q] = at[q] /\ job'[q] = job[q]
         /\ Same
  OBVIOUS
<1>d. at[r] \in UnderLock => at[r] # "idle"
  BY DEF UnderLock
<1>7. CASE CheckExists(r)
  <2>1. at[r] = "exists" /\ UNCHANGED <<world, on, row, view, reaper>>
    BY <1>7 DEF CheckExists
  <2>2. (Goto(r, "read") /\ job' = job) \/ Return(r, job[r], "nofid")
    BY <1>7 DEF CheckExists
  <2>3. job' = job => job' = [job EXCEPT ![r] = job[r]]
    BY <1>1
  <2>4. Goal
    <3> HIDE DEF Goal
    <3> QED BY <1>1, <1>a, <1>b, <2>1, <2>2, <2>3 DEF Goto, UnderLock, Results
  <2> QED BY <1>c, <1>d, <2>4
<1>8. CASE ReadOn(r)
  <2> DEFINE told == Tell(view[r], job[r].mask)
             up == {d \in on : CanReadFrom(view[r][d])}
             j == [job[r] EXCEPT !.on = on, !.told = told, !.up = up]
  <2>1. at[r] \in UnderLock /\ UNCHANGED <<world, on, row, view, reaper>>
    BY <1>8 DEF ReadOn, UnderLock
  <2>2. \/ \E res \in {"no_source", "source_down"} : Return(r, j, res)
        \/ job' = [job EXCEPT ![r] = j] /\ Goto(r, "policy")
    BY <1>8 DEF ReadOn
  <2>3. told \in SUBSET Devs /\ up \in SUBSET Devs
    BY <1>1 DEF Tell
  <2>4. j \in Job /\ j.kind = job[r].kind /\ j.mask = job[r].mask /\ j.avoid = job[r].avoid
    BY <1>1, <2>3 DEF Job
  <2>5. Goal
    <3> HIDE DEF Goal, j
    <3>1. CASE job' = [job EXCEPT ![r] = j] /\ Goto(r, "policy")
      BY <1>a, <2>1, <2>4, <3>1 DEF Goto
    <3>2. ASSUME NEW res \in {"no_source", "source_down"}, Return(r, j, res)
          PROVE  Goal
      BY <1>b, <2>1, <2>4, <3>2 DEF Results
    <3> QED BY <2>2, <3>1, <3>2
  <2> QED BY <1>c, <1>d, <2>5
<1>9. CASE AskPolicy(r)
  <2>1. at[r] \in UnderLock /\ UNCHANGED <<world, on, row, view, reaper>>
    BY <1>9 DEF AskPolicy, UnderLock
  <2>2. ASSUME NEW res \in {"ok", "lost_race", "policy_no_suggestions"}, Return(r, job[r], res)
        PROVE  Goal
    <3> HIDE DEF Goal
    <3> QED BY <1>1, <1>b, <2>1, <2>2 DEF Results
  <2>3. ASSUME NEW d \in Choices(r),
               LET j == [job[r] EXCEPT !.got = TRUE, !.ddev = d]
               IN  \/ \E res \in {"policy_error_already_there", "source_down"} : Return(r, j, res)
                   \/ \E s \in Sources(j) : /\ job' = [job EXCEPT ![r] = [j EXCEPT !.sdev = s]]
                                            /\ Goto(r, "copy")
        PROVE  Goal
    <3> DEFINE j == [job[r] EXCEPT !.got = TRUE, !.ddev = d]
    <3>1. j \in Job /\ j.kind = job[r].kind /\ j.mask = job[r].mask /\ j.avoid = job[r].avoid
      BY <1>1, ChoicesAreDevices DEF Job
    <3>2. \/ \E res \in {"policy_error_already_there", "source_down"} : Return(r, j, res)
          \/ \E s \in Sources(j) : /\ job' = [job EXCEPT ![r] = [j EXCEPT !.sdev = s]]
                                   /\ Goto(r, "copy")
      BY <2>3
    <3> HIDE DEF Goal, j
    <3>3. ASSUME NEW res \in {"policy_error_already_there", "source_down"}, Return(r, j, res)
          PROVE  Goal
      BY <1>b, <2>1, <3>1, <3>3 DEF Results
    <3>4. ASSUME NEW s \in Sources(j), job' = [job EXCEPT ![r] = [j EXCEPT !.sdev = s]], Goto(r, "copy")
          PROVE  Goal
      <4> DEFINE k == [j EXCEPT !.sdev = s]
      <4>1. k \in Job /\ k.kind = job[r].kind /\ k.mask = job[r].mask /\ k.avoid = job[r].avoid
        BY <3>1, SourcesAreDevices DEF Job
      <4>2. job' = [job EXCEPT ![r] = k] /\ at' = [at EXCEPT ![r] = "copy"]
        BY <3>4 DEF Goto
      <4> HIDE DEF k
      <4> QED BY <1>a, <2>1, <4>1, <4>2
    <3> QED BY <3>2, <3>3, <3>4
  <2>4. \/ \E res \in {"ok", "lost_race", "policy_no_suggestions"} : Return(r, job[r], res)
        \/ \E d \in Choices(r) :
             LET j == [job[r] EXCEPT !.got = TRUE, !.ddev = d]
             IN  \/ \E res \in {"policy_error_already_there", "source_down"} : Return(r, j, res)
                 \/ \E s \in Sources(j) : /\ job' = [job EXCEPT ![r] = [j EXCEPT !.sdev = s]]
                                          /\ Goto(r, "copy")
    BY <1>9 DEF AskPolicy
  <2>5. Goal
    <3> HIDE DEF Goal
    <3> QED BY <2>2, <2>3, <2>4
  <2> QED BY <1>c, <1>d, <2>5
<1>10. CASE CopyOk(r) \/ AddToDb(r) \/ DestError(r) \/ FinishRebalance(r) \/ Destroy(r)
            \/ DestroyRow(r) \/ DestroyFails(r)
  BY <1>1, <1>10 DEF CopyOk, AddToDb, DestError, FinishRebalance, Destroy, DestroyRow, DestroyFails,
    Goto, Job, UnderLock
<1>11. CASE SrcError(r)
  <2> DEFINE F == job[r].srcFailed \cup {job[r].sdev}
             j == [job[r] EXCEPT !.srcFailed = F]
  <2>1. at[r] = "copy" /\ at[r] \in UnderLock /\ UNCHANGED <<world, on, row, view, reaper>>
    BY <1>11 DEF SrcError, UnderLock
  <2>2. Return(r, j, "copy_error") \/ (job' = [job EXCEPT ![r] = j] /\ Goto(r, "policy"))
    BY <1>11 DEF SrcError
  <2>3. F \in SUBSET Devs
    BY <1>1, <2>1 DEF LockInv, MovesOne, Job
  <2>4. j \in Job /\ j.kind = job[r].kind /\ j.mask = job[r].mask /\ j.avoid = job[r].avoid
    BY <1>1, <2>3 DEF Job
  <2>5. Goal
    <3> HIDE DEF Goal, j
    <3> QED BY <1>a, <1>b, <2>1, <2>2, <2>4 DEF Goto, Results
  <2> QED BY <1>c, <1>d, <2>5
<1>12. CASE FinishTable(r)
  BY <1>1, <1>12 DEF FinishTable, Goto, UnderLock
<1> QED BY <1>3, <1>4, <1>5, <1>6, <1>7, <1>8, <1>9, <1>10, <1>11, <1>12 DEF Work

LEMMA WorkKnown ==
  ASSUME OnlyDrainsAndDeaths, Known,
         NEW r \in Replicators, Work(r) \/ Crash(r)
  PROVE  Lagging' /\ DeathsKnown' /\ MovesDrained'
<1> USE DEF Known
<1>1. /\ status' = status /\ view' = view /\ reaping' = reaping
      /\ \A q \in Replicators \ {r} : at'[q] = at[q] /\ job'[q] = job[q]
      /\ row' = row \/ (at[r] = "finish" /\ job[r].kind = "table")
  BY WorkFrame DEF world, reaper
<1>2. KnowDeaths' = KnowDeaths
  BY <1>1 DEF KnowDeaths
<1>3. row' # row => KnowDeaths
  BY <1>1 DEF DeathsKnown
<1>4. at'[r] # "idle" /\ job'[r].kind = "table" => KnowDeaths
  BY WorkFrame DEF DeathsKnown
<1>5. KnowDeaths /\ reaping # NoDev => \A q \in Replicators : view[q][reaping] = "dead"
  BY DEF KnowDeaths, ReapsDead, LockInv, StateType
<1>6. DeathsKnown'
  BY <1>1, <1>2, <1>3, <1>4, <1>5 DEF DeathsKnown
<1>7. job'[r].avoid = {} /\ \A d \in job'[r].mask : view[r][d] # "alive"
  BY WorkFrame DEF MovesDrained
<1>8. job'[r].kind # "rebalance" => job'[r].mask = {}
  BY WorkFrame DEF MovesDrained
<1>9. MovesDrained'
  BY <1>1, <1>7, <1>8 DEF MovesDrained
<1> QED BY <1>1, <1>6, <1>9 DEF Lagging

LEMMA EnvironmentKnown ==
  ASSUME OnlyDrainsAndDeaths, Known,
         \/ \E r \in Replicators : Refresh(r)
         \/ Reap \/ ReaperCrash \/ BackoffPasses \/ DelayPasses
         \/ \E d \in Devs, s \in Changes : SetState(d, s)
         \/ DeleteFile \/ Purge \/ UNCHANGED vars
  PROVE  Lagging' /\ DeathsKnown' /\ MovesDrained'
<1> USE DEF Known
<1>1. /\ status \in [Devs -> States] /\ view \in [Replicators -> [Devs -> States]]
      /\ reaping \in Devs \cup {NoDev} /\ job \in [Replicators -> Job]
  BY DEF LockInv, StateType
<1>2. ASSUME NEW r \in Replicators, Refresh(r)
      PROVE  Lagging' /\ DeathsKnown' /\ MovesDrained'
  <2>1. view' = [view EXCEPT ![r] = status] /\ UNCHANGED <<status, row, at, job, reaping>>
    BY <1>2 DEF Refresh, world, reaper
  <2>2. Lagging'
    BY <1>1, <2>1 DEF Lagging
  <2>3. DeathsKnown'
    BY <1>1, <2>1 DEF DeathsKnown, KnowDeaths, ReapsDead
  <2>4. \A d \in Devs : view[r][d] # "alive" => status[d] # "alive"
    BY DEF Lagging
  <2>5. MovesDrained'
    BY <1>1, <2>1, <2>4 DEF MovesDrained, Job
  <2> QED BY <2>2, <2>3, <2>5
<1>3. ASSUME NEW d \in Devs, NEW s \in Changes, SetState(d, s)
      PROVE  Lagging' /\ DeathsKnown' /\ MovesDrained'
  <2>1. /\ status' = [status EXCEPT ![d] = s] /\ UNCHANGED <<row, view, at, job, reaping>>
        /\ s \in {"drain", "dead"} /\ status[d] # "dead"
        /\ s = "dead" => row = NoRow /\ \A r \in Replicators : at[r] = "idle"
    BY <1>3 DEF SetState, OnlyDrainsAndDeaths, reaper
  <2>2. Lagging'
    BY <1>1, <2>1 DEF Lagging
  <2>3. s # "dead" => KnowDeaths' = KnowDeaths
    BY <1>1, <2>1 DEF KnowDeaths
  <2>4. DeathsKnown'
    BY <2>1, <2>3 DEF DeathsKnown, NoRow
  <2> QED BY <2>1, <2>2, <2>4 DEF MovesDrained
<1>4. ASSUME UNCHANGED <<status, view, at, job>>,
             row' = row \/ (row' # NoRow /\ (row'.next \in {"now", "backoff", "never"} => KnowDeaths)),
             reaping' \in {reaping, NoDev} \/ row' # NoRow
      PROVE  Lagging' /\ DeathsKnown' /\ MovesDrained'
  <2>1. KnowDeaths' = KnowDeaths
    BY <1>4 DEF KnowDeaths
  <2> QED BY <1>4, <2>1 DEF Lagging, DeathsKnown, MovesDrained
<1>5. CASE ReapFile
  <2>1. /\ UNCHANGED <<status, view, at, job>>
        /\ row' = IF row = NoRow THEN [next |-> "delayed", from |-> NoDev] ELSE row
    BY <1>5 DEF ReapFile, EnqueueForReplication, Enqueue, world
  <2>2. [next |-> "delayed", from |-> NoDev] # NoRow
    BY DEF NoRow
  <2> QED BY <1>4, <2>1, <2>2
<1>6. CASE ForgetAbout \/ NoteEmpty \/ ReaperCrash \/ DeleteFile \/ Purge \/ UNCHANGED vars
  BY <1>4, <1>6 DEF ForgetAbout, NoteEmpty, ReaperCrash, DeleteFile, Purge, PurgeCopy, PurgeDone,
    vars, world, reaper
<1>7. CASE BackoffPasses \/ DelayPasses
  <2>1. UNCHANGED <<status, view, at, job, reaping>> /\ row' = [row EXCEPT !.next = "now"] /\ KnowDeaths
    BY <1>7 DEF BackoffPasses, DelayPasses, world, reaper, DeathsKnown, KnowDeaths
  <2>2. row' # NoRow
    BY <2>1 DEF LockInv, RowType, NoRow
  <2> QED BY <1>4, <2>1, <2>2
<1> QED BY <1>2, <1>3, <1>5, <1>6, <1>7 DEF Reap

LEMMA NextKnown ==
  ASSUME OnlyDrainsAndDeaths, Known, [Next]_vars
  PROVE  Known'
<1>1. LockInv' /\ ReapsDead'
  BY NextLock, NextReapsDead DEF Known
<1>2. Lagging' /\ DeathsKnown' /\ MovesDrained'
  BY WorkKnown, EnvironmentKnown DEF Next
<1> QED BY <1>1, <1>2 DEF Known

--------------------------------------------------------------------------------
(* What a replicator finds out about a live file.                            *)

\* A step of another one leaves that alone, or happens under the lock.
LEMMA OthersWise ==
  ASSUME Known, NEW r \in Replicators, NEW q \in Replicators \ {r}, Wise(q),
         at'[q] = at[q], job'[q] = job[q], UNCHANGED <<world, view, reaper>>,
         UNCHANGED <<on, row>> \/ at[r] \in UnderLock
  PROVE  Wise(q)'
<1>1. CASE UNCHANGED <<on, row>>
  BY <1>1 DEF Wise, Told, Found, Owed, Content, world, reaper
<1>2. CASE at[r] \in UnderLock
  <2>1. at[q] \notin UnderLock
    BY <1>2 DEF Known, LockInv, Exclusive
  <2> QED BY <2>1 DEF Wise, Told, Found, UnderLock
<1> QED BY <1>1, <1>2

\* A replicator that is at none of the places where it holds something of the file.
LEMMA ElsewhereWise ==
  ASSUME NEW r \in Replicators, Accounted, UNCHANGED <<world, on, row, reaper>>,
         at'[r] \notin {"policy", "copy", "add", "finish", "destroy", "unrow"}
  PROVE  Accounted' /\ Wise(r)'
BY DEF Accounted, Wise, Told, Found, Owed, Content, world, reaper

\* What the replicator's policy is content with is enough, or is owed to the file.
LEMMA ContentIsTrue ==
  ASSUME Known, NEW r \in Replicators, at[r] = "policy", Told(r), Enough(r)
  PROVE  /\ job[r].kind = "table" => Content(on)
         /\ Owed(on \ job[r].mask)
<1> DEFINE T == job[r].told
<1>1. /\ status \in [Devs -> States] /\ view[r] \in [Devs -> States] /\ job[r] \in Job
      /\ on \in SUBSET Devs /\ T \in SUBSET Devs
  BY DEF Known, LockInv, StateType, Job
<1>2. \A d \in T : /\ view[r][d] = "alive" /\ d \notin job[r].mask
                   /\ d \in on \/ (status[d] = "dead" /\ row # NoRow)
  BY DEF Told
<1>3. ASSUME NEW D \in SUBSET on, T \subseteq D, \A d \in T : status[d] # "dead"
      PROVE  Content(D)
  <2>1. CASE \E d \in T : status[d] = "drain"
    BY <1>3, <2>1 DEF Content
  <2>2. CASE \A d \in T : status[d] # "drain"
    <3> DEFINE E == {d \in D : ShouldHaveFiles(status[d])}
    <3>1. \A d \in T : ShouldHaveFiles(status[d])
      BY <1>3, <2>2 DEF ShouldHaveFiles
    <3>2. \A d \in Devs : status[d] = view[r][d] \/ status[d] \in {"drain", "dead"}
      BY DEF Known, Lagging
    <3>3. HasEnough(World(status), T, MinDevcount)
      BY <1>1, <3>1, <3>2, GoodAfterLosses DEF Enough
    <3>4. T \in SUBSET E /\ E \in SUBSET Devs
      BY <1>1, <1>3, <3>1
    <3>5. HasEnough(World(status), E, MinDevcount)
      BY <1>1, <3>3, <3>4, EnoughGrows
    <3> QED BY <3>5 DEF Content
  <2> QED BY <2>1, <2>2
<1>4. job[r].kind = "table" => Content(on)
  <2>1. job[r].kind = "table" => KnowDeaths
    BY DEF Known, DeathsKnown
  <2>2. job[r].kind = "table" => \A d \in T : status[d] # "dead"
    BY <1>1, <1>2, <2>1 DEF KnowDeaths
  <2>3. job[r].kind = "table" => T \subseteq on
    BY <1>2, <2>2
  <2> HIDE DEF T
  <2> QED BY <1>3, <2>2, <2>3
<1>5. CASE row # NoRow
  BY <1>4, <1>5 DEF Owed
<1>6. CASE row = NoRow /\ \E d \in T : status[d] = "dead"
  <2>1. PICK d \in T : status[d] = "dead"
    BY <1>6
  <2>2. d \in on \ job[r].mask /\ d \in Devs /\ view[r][d] = "alive"
    BY <1>1, <1>2, <1>6
  <2>3. d # reaping
    BY <1>6, <2>2, ReplicationAssumption DEF Known, DeathsKnown
  <2> QED BY <1>4, <2>1, <2>2, <2>3 DEF Owed
<1>7. CASE row = NoRow /\ \A d \in T : status[d] # "dead"
  <2>1. T \subseteq on \ job[r].mask
    BY <1>2, <1>7
  <2> QED BY <1>3, <1>4, <1>7, <2>1 DEF Owed
<1> QED BY <1>4, <1>5, <1>6, <1>7

\* replicate() returns what it found out.
LEMMA ReturnWise ==
  ASSUME Known, Accounted, NEW r \in Replicators, NEW j \in Job, NEW res \in Results, Return(r, j, res),
         UNCHANGED <<world, on, row, view, reaper>>,
         j.kind = job[r].kind, j.mask = job[r].mask,
         res # "nofid", res = "no_source" => on = {},
         res \in {"ok", "lost_race"} =>
           (job[r].kind = "table" => Content(on)) /\ Owed(on \ job[r].mask)
  PROVE  Accounted' /\ Wise(r)'
<1> DEFINE k == [j EXCEPT !.result = res]
<1>1. k.kind = job[r].kind /\ k.mask = job[r].mask /\ k.result = res
  BY DEF Job
<1>2. at'[r] = "finish" /\ job'[r] = k
  BY DEF Return, Goto, Known, LockInv, StateType
<1> HIDE DEF k
<1>3. Content(on)' = Content(on)
  BY DEF Content, Owed, world, reaper
<1>4. Accounted'
  BY <1>3 DEF Accounted, Owed, world, reaper
<1>5. Owed(on \ job[r].mask) => Owed(on \ job[r].mask)'
  BY <1>1, <1>2 DEF Owed, Content, world, reaper
<1> QED BY <1>1, <1>2, <1>3, <1>4, <1>5 DEF Wise, Told, Found

LEMMA ReadWise ==
  ASSUME Known, Accounted, file = "live", NEW r \in Replicators, CheckExists(r) \/ ReadOn(r)
  PROVE  Accounted' /\ Wise(r)'
<1>1. /\ job[r] \in Job /\ on \in SUBSET Devs /\ view[r] \in [Devs -> States]
      /\ job \in [Replicators -> Job] /\ at \in [Replicators -> Place]
  BY DEF Known, LockInv, StateType
<1>2. CASE CheckExists(r)
  <2>1. at'[r] = "read" /\ UNCHANGED <<world, on, row, reaper>>
    BY <1>1, <1>2 DEF CheckExists, Goto
  <2> QED BY <2>1, ElsewhereWise
<1>3. CASE ReadOn(r)
  <2> DEFINE told == Tell(view[r], job[r].mask)
             up == {d \in on : CanReadFrom(view[r][d])}
             j == [job[r] EXCEPT !.on = on, !.told = told, !.up = up]
  <2>1. UNCHANGED <<world, on, row, view, reaper>>
    BY <1>3 DEF ReadOn
  <2>2. \/ on = {} /\ Return(r, j, "no_source")
        \/ Return(r, j, "source_down")
        \/ on # {} /\ job' = [job EXCEPT ![r] = j] /\ Goto(r, "policy")
    BY <1>3 DEF ReadOn
  <2>3. told \in SUBSET Devs /\ up \in SUBSET Devs
    BY <1>1 DEF Tell
  <2>4. /\ j \in Job /\ j.kind = job[r].kind /\ j.mask = job[r].mask /\ j.told = told
    BY <1>1, <2>3 DEF Job
  <2>5. \A d \in told : d \in on /\ view[r][d] = "alive" /\ d \notin job[r].mask
    BY <1>1 DEF Tell, Known, Lagging, ShouldHaveFiles
  <2> HIDE DEF j, told
  <2>6. CASE on # {} /\ job' = [job EXCEPT ![r] = j] /\ Goto(r, "policy")
    <3>1. at'[r] = "policy" /\ job'[r] = j
      BY <1>1, <2>6 DEF Goto
    <3>2. row.next # "never" /\ Accounted'
      BY <2>1, <2>6 DEF Accounted, Owed, Content, world, reaper
    <3> QED BY <2>1, <2>4, <2>5, <3>1, <3>2 DEF Wise, Told, Found
  <2>7. CASE on = {} /\ Return(r, j, "no_source")
    BY <2>1, <2>4, <2>7, ReturnWise DEF Results
  <2>8. CASE Return(r, j, "source_down")
    BY <2>1, <2>4, <2>8, ReturnWise DEF Results
  <2> QED BY <2>2, <2>6, <2>7, <2>8
<1> QED BY <1>2, <1>3

LEMMA PolicyWise ==
  ASSUME Known, Accounted, file = "live", NEW r \in Replicators, Wise(r), AskPolicy(r)
  PROVE  Accounted' /\ Wise(r)'
<1>1. /\ job[r] \in Job /\ on \in SUBSET Devs /\ view[r] \in [Devs -> States]
      /\ job \in [Replicators -> Job] /\ at \in [Replicators -> Place]
      /\ at[r] = "policy" /\ Told(r) /\ UNCHANGED <<world, on, row, view, reaper>>
  BY DEF Known, LockInv, StateType, AskPolicy, Wise
<1>2. Suggestion(r).good <=> Enough(r)
  BY GoodMeansEnough DEF Suggestion, Enough
<1>3. CASE Suggestion(r).good /\ Return(r, job[r], IF job[r].got THEN "ok" ELSE "lost_race")
  <2>1. (job[r].kind = "table" => Content(on)) /\ Owed(on \ job[r].mask)
    BY <1>1, <1>2, <1>3, ContentIsTrue
  <2>2. PICK res \in {"ok", "lost_race"} : Return(r, job[r], res)
    BY <1>3
  <2> QED BY <1>1, <2>1, <2>2, ReturnWise DEF Results
<1>4. CASE Choices(r) = {} /\ Return(r, job[r], IF Suggestion(r).ideal # {} THEN "lost_race" ELSE "policy_no_suggestions")
  <2>1. Suggestion(r).ideal \subseteq World(view[r]).open
    BY SuggestionsAreNew DEF Suggestion
  <2>2. \A d \in Suggestion(r).ideal : view[r][d] = "alive"
    BY <2>1 DEF World, ShouldGetReplFiles
  <2>3. Suggestion(r).ideal = {}
    BY <1>4, <2>2 DEF Choices, Known, MovesDrained
  <2> QED BY <1>1, <1>4, <2>3, ReturnWise DEF Results
<1>5. ASSUME NEW d \in Choices(r),
             LET j == [job[r] EXCEPT !.got = TRUE, !.ddev = d]
             IN  \/ \E res \in {"policy_error_already_there", "source_down"} : Return(r, j, res)
                 \/ \E s \in Sources(j) : /\ job' = [job EXCEPT ![r] = [j EXCEPT !.sdev = s]]
                                          /\ Goto(r, "copy")
      PROVE  Accounted' /\ Wise(r)'
  <2> DEFINE j == [job[r] EXCEPT !.got = TRUE, !.ddev = d]
  <2>1. d \in Devs /\ view[r][d] = "alive"
    BY ChoicesAreDevices DEF ShouldGetReplFiles
  <2>2. /\ j \in Job /\ j.kind = job[r].kind /\ j.mask = job[r].mask /\ j.told = job[r].told /\ j.ddev = d
    BY <1>1, <2>1 DEF Job
  <2>3. \/ \E res \in {"policy_error_already_there", "source_down"} : Return(r, j, res)
        \/ \E s \in Sources(j) : /\ job' = [job EXCEPT ![r] = [j EXCEPT !.sdev = s]]
                                 /\ Goto(r, "copy")
    BY <1>5
  <2> HIDE DEF j
  <2>4. CASE \E res \in {"policy_error_already_there", "source_down"} : Return(r, j, res)
    BY <1>1, <2>2, <2>4, ReturnWise DEF Results
  <2>5. ASSUME NEW s \in Sources(j), job' = [job EXCEPT ![r] = [j EXCEPT !.sdev = s]], Goto(r, "copy")
        PROVE  Accounted' /\ Wise(r)'
    <3> DEFINE k == [j EXCEPT !.sdev = s]
    <3>1. k.mask = job[r].mask /\ k.told = job[r].told /\ k.ddev = d
      BY <2>2 DEF Job
    <3>2. job'[r] = k /\ at'[r] = "copy"
      BY <1>1, <2>5 DEF Goto
    <3> HIDE DEF k
    <3>3. Accounted'
      BY <1>1 DEF Accounted, Owed, Content, world, reaper
    <3> QED BY <1>1, <2>1, <3>1, <3>2, <3>3 DEF Wise, Told, Found, world
  <2> QED BY <2>3, <2>4, <2>5
<1>6. \/ Suggestion(r).good /\ Return(r, job[r], IF job[r].got THEN "ok" ELSE "lost_race")
      \/ Choices(r) = {} /\ Return(r, job[r], IF Suggestion(r).ideal # {} THEN "lost_race" ELSE "policy_no_suggestions")
      \/ \E d \in Choices(r) :
           LET j == [job[r] EXCEPT !.got = TRUE, !.ddev = d]
           IN  \/ \E res \in {"policy_error_already_there", "source_down"} : Return(r, j, res)
               \/ \E s \in Sources(j) : /\ job' = [job EXCEPT ![r] = [j EXCEPT !.sdev = s]]
                                        /\ Goto(r, "copy")
  BY DEF AskPolicy
<1> QED BY <1>3, <1>4, <1>5, <1>6

LEMMA CopyWise ==
  ASSUME Known, Accounted, file = "live", NEW r \in Replicators, Wise(r),
         CopyOk(r) \/ SrcError(r) \/ DestError(r) \/ AddToDb(r)
  PROVE  Accounted' /\ Wise(r)'
<1>1. /\ job[r] \in Job /\ on \in SUBSET Devs /\ view[r] \in [Devs -> States]
      /\ job \in [Replicators -> Job] /\ at \in [Replicators -> Place]
      /\ at[r] \in {"copy", "add"} /\ job[r].ddev \in Devs /\ job[r].sdev \in Devs /\ Told(r)
      /\ UNCHANGED <<world, row, view, reaper>>
  BY DEF Known, LockInv, StateType, MovesOne, CopyOk, SrcError, DestError, AddToDb, Wise
<1>2. on' = on => Accounted'
  BY <1>1 DEF Accounted, Owed, Content, world, reaper
<1>3. CASE CopyOk(r)
  <2>1. at'[r] = "add" /\ job' = job /\ on' = on /\ at[r] = "copy"
    BY <1>1, <1>3 DEF CopyOk, Goto
  <2> QED BY <1>1, <1>2, <2>1 DEF Wise, Told, Found, world
<1>4. CASE SrcError(r)
  <2> DEFINE F == job[r].srcFailed \cup {job[r].sdev}
             j == [job[r] EXCEPT !.srcFailed = F]
  <2>1. Return(r, j, "copy_error") \/ (job' = [job EXCEPT ![r] = j] /\ Goto(r, "policy"))
    BY <1>4 DEF SrcError
  <2>2. F \in SUBSET Devs /\ on' = on
    BY <1>1, <1>4 DEF Job, SrcError
  <2>3. j \in Job /\ j.kind = job[r].kind /\ j.mask = job[r].mask /\ j.told = job[r].told
    BY <1>1, <2>2 DEF Job
  <2> HIDE DEF j
  <2>4. CASE Return(r, j, "copy_error")
    BY <1>1, <2>2, <2>3, <2>4, ReturnWise DEF Results
  <2>5. CASE job' = [job EXCEPT ![r] = j] /\ Goto(r, "policy")
    <3>1. job'[r] = j /\ at'[r] = "policy"
      BY <1>1, <2>5 DEF Goto
    <3> QED BY <1>1, <1>2, <2>2, <2>3, <3>1 DEF Wise, Told, Found, world
  <2> QED BY <2>1, <2>4, <2>5
<1>5. CASE DestError(r)
  <2>1. at'[r] = "policy" /\ on' = on /\ job'[r].mask = job[r].mask /\ job'[r].told = job[r].told
    BY <1>1, <1>5 DEF DestError, Goto, Job
  <2> QED BY <1>1, <1>2, <2>1 DEF Wise, Told, Found, world
<1>6. CASE AddToDb(r)
  <2> DEFINE d == job[r].ddev
             O == job[r].on \cup {d}
             T == job[r].told \cup {d}
             j == [job[r] EXCEPT !.on = O, !.told = T]
  <2>1. /\ at'[r] = "policy" /\ on' = on \cup {d} /\ at[r] = "add"
        /\ job' = [job EXCEPT ![r] = j]
    BY <1>1, <1>6 DEF AddToDb, Record, Goto, Job
  <2>2. job'[r] = j /\ j.mask = job[r].mask /\ j.told = T
    BY <1>1, <2>1 DEF Job
  <2> HIDE DEF j
  <2>3. view[r][d] = "alive" /\ d \notin job[r].mask /\ row.next # "never"
    BY <1>1, <2>1 DEF Told, Known, MovesDrained
  <2>4. on' \in SUBSET Devs /\ Owed(on)'
    BY <1>1, <2>1, OwedGrows DEF Accounted, Known, world, reaper
  <2> QED BY <1>1, <2>1, <2>2, <2>3, <2>4 DEF Accounted, Wise, Told, Found, world
<1> QED BY <1>3, <1>4, <1>5, <1>6

\* What was found out decides what becomes of the row, and whether the moved copy goes.
LEMMA FinishWise ==
  ASSUME Known, Accounted, file = "live", NEW r \in Replicators, Wise(r),
         FinishTable(r) \/ FinishRebalance(r) \/ Destroy(r) \/ DestroyRow(r) \/ DestroyFails(r)
  PROVE  Accounted' /\ Wise(r)'
<1>1. /\ job[r] \in Job /\ on \in SUBSET Devs /\ row.next = "none" => row = NoRow
      /\ job \in [Replicators -> Job] /\ at \in [Replicators -> Place]
      /\ Found(r) /\ UNCHANGED <<world, view, reaper, job>>
  BY DEF Known, LockInv, StateType, RowType, FinishTable, FinishRebalance, Destroy, DestroyRow,
    DestroyFails, Wise
<1>2. CASE FinishTable(r)
  <2>1. /\ at'[r] = "unlock" /\ on' = on /\ at[r] = "finish" /\ job[r].kind = "table"
        /\ job[r].result # "nofid"
    BY <1>1, <1>2 DEF FinishTable, Goto, Found
  <2>2. Wise(r)'
    BY <2>1 DEF Wise, Told, Found
  <2>3. CASE DoneWith(job[r].result) /\ row' = NoRow
    <3>1. Content(on)
      BY <1>1, <2>1, <2>3 DEF DoneWith, Found
    <3>2. Content(on)'
      BY <1>1, <2>1, <3>1 DEF Content, world
    <3> QED BY <2>2, <2>3, <3>2 DEF Accounted, Owed, NoRow
  <2>4. CASE job[r].result = "no_source" /\ Reschedule("never")
    <3>1. on = {}
      BY <1>1, <2>1, <2>4 DEF Found
    <3>2. row' = row \/ row' # NoRow
      BY <2>4 DEF Reschedule, Known, LockInv, RowType, NoRow
    <3>3. Owed(on)'
      BY <1>1, <2>1, <3>2 DEF Accounted, Owed, Content, world, reaper
    <3> QED BY <2>1, <2>2, <3>1, <3>3 DEF Accounted
  <2>5. CASE Reschedule("backoff")
    <3>1. (row' = row /\ row = NoRow) \/ row'.next = "backoff"
      BY <2>5 DEF Reschedule, Known, LockInv, RowType
    <3>2. Owed(on)'
      BY <1>1, <2>1, <3>1 DEF Accounted, Owed, Content, world, reaper, NoRow
    <3> QED BY <2>2, <3>1, <3>2 DEF Accounted, NoRow
  <2> QED BY <1>2, <2>3, <2>4, <2>5 DEF FinishTable
<1>3. ASSUME UNCHANGED <<on, row>>,
             at'[r] \in {"destroy", "unrow"} => Owed(on \ job[r].mask),
             at'[r] \in {"destroy", "unrow", "unlock"}
      PROVE  Accounted' /\ Wise(r)'
  BY <1>1, <1>3 DEF Accounted, Wise, Told, Found, Owed, Content, world, reaper
<1>4. CASE FinishRebalance(r)
  <2>1. PICK d \in job[r].mask : Goto(r, IF ShouldDelete(job[r], d) THEN "destroy" ELSE "unlock")
    BY <1>4 DEF FinishRebalance
  <2>2. CASE ShouldDelete(job[r], d)
    <3>1. job[r].result \in {"ok", "lost_race"}
      BY <2>2 DEF ShouldDelete
    <3>2. UNCHANGED <<on, row>> /\ at'[r] = "destroy" /\ at[r] = "finish" /\ job[r].kind = "rebalance"
      BY <1>1, <1>4, <2>1, <2>2 DEF FinishRebalance, Goto
    <3> QED BY <1>1, <1>3, <3>1, <3>2 DEF Found
  <2>3. CASE ~ShouldDelete(job[r], d)
    <3>1. UNCHANGED <<on, row>> /\ at'[r] = "unlock"
      BY <1>1, <1>4, <2>1, <2>3 DEF FinishRebalance, Goto
    <3> QED BY <1>3, <3>1
  <2> QED BY <2>2, <2>3
<1>5. CASE Destroy(r)
  <2>1. UNCHANGED <<on, row>> /\ at'[r] = "unrow" /\ at[r] = "destroy"
    BY <1>1, <1>5 DEF Destroy, Goto
  <2> QED BY <1>1, <1>3, <2>1 DEF Found
<1>6. CASE DestroyFails(r)
  <2>1. UNCHANGED <<on, row>> /\ at'[r] = "unlock"
    BY <1>1, <1>6 DEF DestroyFails, Goto
  <2> QED BY <1>3, <2>1
<1>7. CASE DestroyRow(r)
  <2>1. on' = on \ job[r].mask /\ row' = row /\ at'[r] = "unlock" /\ at[r] = "unrow"
    BY <1>1, <1>7 DEF DestroyRow, Goto
  <2>2. Owed(on \ job[r].mask)
    BY <1>1, <2>1 DEF Found
  <2> QED BY <1>1, <2>1, <2>2 DEF Accounted, Wise, Told, Found, Owed, Content, world, reaper
<1> QED BY <1>2, <1>4, <1>5, <1>6, <1>7

LEMMA WorkWise ==
  ASSUME OnlyDrainsAndDeaths, Known, Accounted, file = "live", \A q \in Replicators : Wise(q),
         NEW r \in Replicators, Work(r) \/ Crash(r)
  PROVE  Accounted' /\ \A q \in Replicators : Wise(q)'
<1>1. \A q \in Replicators \ {r} : Wise(q)'
  <2>1. /\ UNCHANGED <<world, view, reaper>>
        /\ \A q \in Replicators \ {r} : at'[q] = at[q] /\ job'[q] = job[q]
        /\ UNCHANGED <<on, row>> \/ at[r] \in UnderLock
    BY WorkFrame DEF Known
  <2> QED BY <2>1, OthersWise
<1>2. at \in [Replicators -> Place]
  BY DEF Known, LockInv, StateType
<1>3. CASE Fetch(r) \/ PickToRebalance(r) \/ CheckPicked(r) \/ Lock(r) \/ GiveUpLock(r)
           \/ Unlock(r) \/ Crash(r)
  <2>1. /\ at'[r] \in {"idle", "picked", "lock", "exists", "read"}
        /\ UNCHANGED <<world, on, row, reaper>>
    BY <1>2, <1>3 DEF Fetch, PickToRebalance, CheckPicked, Lock, GiveUpLock, Unlock, Crash, Goto
  <2> QED BY <1>1, <2>1, ElsewhereWise
<1>4. CASE CheckExists(r) \/ ReadOn(r) \/ AskPolicy(r)
  BY <1>1, <1>4, ReadWise, PolicyWise
<1>5. CASE CopyOk(r) \/ SrcError(r) \/ DestError(r) \/ AddToDb(r)
  BY <1>1, <1>5, CopyWise
<1>6. CASE FinishTable(r) \/ FinishRebalance(r) \/ Destroy(r) \/ DestroyRow(r) \/ DestroyFails(r)
  BY <1>1, <1>6, FinishWise
<1> QED BY <1>3, <1>4, <1>5, <1>6 DEF Work

\* Around the replicators.
LEMMA EnvironmentWise ==
  ASSUME OnlyDrainsAndDeaths, Known, Accounted, file = "live", \A q \in Replicators : Wise(q),
         \/ \E r \in Replicators : Refresh(r)
         \/ Reap \/ ReaperCrash \/ BackoffPasses \/ DelayPasses
         \/ \E d \in Devs, s \in Changes : SetState(d, s)
         \/ DeleteFile \/ Purge \/ UNCHANGED vars,
         file' = "live"
  PROVE  Accounted' /\ \A q \in Replicators : Wise(q)'
<1>1. /\ LockInv /\ ReapsDead /\ on \in SUBSET Devs /\ job \in [Replicators -> Job]
      /\ status \in [Devs -> States] /\ view \in [Replicators -> [Devs -> States]]
      /\ reaping \in Devs \cup {NoDev} /\ NoDev \notin Devs
  BY ReplicationAssumption DEF Known, LockInv, StateType
<1>2. ASSUME UNCHANGED <<status, on, row, at, job>>, reaping' \in {reaping, NoDev},
             \A q \in Replicators : view'[q] = view[q] \/ at[q] \notin UnderLock
      PROVE  Accounted' /\ \A q \in Replicators : Wise(q)'
  <2>1. \A D \in SUBSET Devs : Owed(D) => Owed(D)'
    BY <1>1, <1>2 DEF Owed, Content
  <2>2. Content(on)' = Content(on)
    BY <1>2 DEF Content
  <2>3. Accounted'
    BY <1>1, <1>2, <2>1 DEF Accounted
  <2>4. ASSUME NEW q \in Replicators PROVE Told(q)'
    BY <1>2 DEF Wise, Told, UnderLock
  <2>5. ASSUME NEW q \in Replicators PROVE Found(q)'
    <3>1. Owed(on \ job[q].mask) => Owed(on \ job[q].mask)'
      BY <1>1, <1>2, <2>1
    <3> QED BY <1>2, <2>2, <3>1 DEF Wise, Found
  <2> QED BY <2>3, <2>4, <2>5 DEF Wise
<1>3. ASSUME NEW r \in Replicators, Refresh(r)
      PROVE  Accounted' /\ \A q \in Replicators : Wise(q)'
  BY <1>1, <1>2, <1>3 DEF Refresh, BetweenFiles, UnderLock, world, reaper
<1>4. CASE NoteEmpty \/ ReaperCrash \/ DeleteFile \/ Purge \/ UNCHANGED vars
  BY <1>1, <1>2, <1>4 DEF NoteEmpty, ReaperCrash, DeleteFile, Purge, PurgeCopy, PurgeDone,
    vars, world, reaper
<1>5. ASSUME UNCHANGED <<status, on, view, at, job>>, row' # NoRow, row'.next = "never" => row' = row
      PROVE  Accounted' /\ \A q \in Replicators : Wise(q)'
  <2>1. \A D : Owed(D)'
    BY <1>5 DEF Owed
  <2>2. Content(on)' = Content(on)
    BY <1>5 DEF Content
  <2> QED BY <1>5, <2>1, <2>2 DEF Accounted, Wise, Told, Found
<1>6. CASE ReapFile
  <2>1. /\ UNCHANGED <<status, on, view, at, job>>
        /\ row' = IF row = NoRow THEN [next |-> "delayed", from |-> NoDev] ELSE row
    BY <1>6 DEF ReapFile, EnqueueForReplication, Enqueue, world
  <2>2. [next |-> "delayed", from |-> NoDev] # NoRow
    BY DEF NoRow
  <2> QED BY <1>5, <2>1, <2>2
<1>7. CASE BackoffPasses \/ DelayPasses
  <2>1. UNCHANGED <<status, on, view, at, job>> /\ row' = [row EXCEPT !.next = "now"]
    BY <1>7 DEF BackoffPasses, DelayPasses, world
  <2>2. row'.next = "now" /\ row' # NoRow
    BY <1>1, <2>1 DEF LockInv, RowType, NoRow
  <2> QED BY <1>5, <2>1, <2>2
<1>8. CASE ForgetAbout
  <2>1. /\ reaping \in Devs /\ on' = on \ {reaping} /\ reaping' = NoDev
        /\ UNCHANGED <<status, row, view, at, job>>
    BY <1>1, <1>8 DEF ForgetAbout, world
  <2>2. \A D, E \in SUBSET Devs : D \ {reaping} \subseteq E /\ Owed(D) => Owed(E)'
    BY <1>1, <2>1, OwedGrows
  <2>3. Content(on) => Content(on)'
    BY <1>1, <2>1, ContentGrows
  <2>4. ASSUME NEW q \in Replicators PROVE Told(q)'
    <3>1. ASSUME at[q] \in {"policy", "copy", "add"}, NEW d \in job[q].told, d = reaping
          PROVE  status[d] = "dead" /\ row # NoRow
      <4>1. view[q][d] = "alive"
        BY <3>1 DEF Wise, Told
      <4> QED BY <1>1, <2>1, <3>1, <4>1 DEF Known, ReapsDead, DeathsKnown
    <3> QED BY <2>1, <3>1 DEF Wise, Told
  <2>5. ASSUME NEW q \in Replicators PROVE Found(q)'
    <3>1. Owed(on \ job[q].mask) => Owed(on \ job[q].mask)'
      BY <1>1, <2>1, <2>2
    <3> QED BY <2>1, <2>3, <3>1 DEF Wise, Found
  <2>6. Accounted'
    BY <1>1, <2>1, <2>2 DEF Accounted
  <2> QED BY <2>4, <2>5, <2>6 DEF Wise
<1>9. ASSUME NEW d \in Devs, NEW s \in Changes, SetState(d, s)
      PROVE  Accounted' /\ \A q \in Replicators : Wise(q)'
  <2>1. /\ s \in {"drain", "dead"} /\ status' = [status EXCEPT ![d] = s] /\ status[d] # "dead"
        /\ s = "dead" => \A q \in Replicators : at[q] = "idle"
        /\ UNCHANGED <<on, row, view, at, job>>
    BY <1>9 DEF SetState, OnlyDrainsAndDeaths
  <2>2. \A D \in SUBSET Devs : /\ s = "drain" /\ Content(D) => Content(D)'
                               /\ Owed(D) => Owed(D)'
    BY <1>1, <1>9, <2>1, OwedStays
  <2>3. Accounted'
    BY <1>1, <2>1, <2>2 DEF Accounted
  <2>4. CASE s = "dead"
    BY <2>1, <2>3, <2>4 DEF Wise, Told, Found
  <2>5. CASE s = "drain"
    <3>1. ASSUME NEW q \in Replicators PROVE Told(q)'
      BY <1>1, <2>1, <2>5 DEF Wise, Told, Job
    <3>2. ASSUME NEW q \in Replicators PROVE Found(q)'
      <4>1. Owed(on \ job[q].mask) => Owed(on \ job[q].mask)'
        BY <1>1, <2>1, <2>2
      <4>2. Content(on) => Content(on)'
        BY <1>1, <2>1, <2>2, <2>5
      <4> QED BY <2>1, <4>1, <4>2 DEF Wise, Found
    <3> QED BY <2>3, <3>1, <3>2 DEF Wise
  <2> QED BY <2>1, <2>4, <2>5
<1> QED BY <1>3, <1>4, <1>6, <1>7, <1>8, <1>9 DEF Reap

LEMMA NextQueue ==
  ASSUME OnlyDrainsAndDeaths, QueueInv, [Next]_vars
  PROVE  QueueInv'
<1>1. Known'
  BY NextKnown DEF QueueInv
<1>2. CASE file' # "live"
  BY <1>1, <1>2 DEF QueueInv
<1>3. CASE file' = "live"
  <2>1. file = "live"
    BY <1>3, WorkFrame DEF Next, QueueInv, Known, Refresh, Reap, ReapFile, ForgetAbout, NoteEmpty, ReaperCrash,
      BackoffPasses, DelayPasses, SetState, DeleteFile, Purge, PurgeCopy, PurgeDone, vars, world
  <2>2. Accounted /\ \A q \in Replicators : Wise(q)
    BY <2>1 DEF QueueInv
  <2>3. Accounted' /\ \A q \in Replicators : Wise(q)'
    <3>1. ASSUME NEW r \in Replicators, Work(r) \/ Crash(r)
          PROVE  Accounted' /\ \A q \in Replicators : Wise(q)'
      BY <2>1, <2>2, <3>1, WorkWise DEF QueueInv
    <3> QED BY <1>3, <2>1, <2>2, <3>1, EnvironmentWise DEF QueueInv, Next
  <2> QED BY <1>1, <2>3 DEF QueueInv
<1> QED BY <1>2, <1>3

LEMMA InitQueue == Init => QueueInv
<1> SUFFICES ASSUME Init PROVE QueueInv
  OBVIOUS
<1>1. row.next = "now" /\ row # NoRow
  BY DEF Init, NoRow
<1>2. Known
  BY InitLock DEF Init, Known, ReapsDead, Lagging, DeathsKnown, KnowDeaths, MovesDrained, NoJob
<1>3. Accounted
  BY <1>1 DEF Accounted, Owed
<1>4. \A r \in Replicators : Wise(r)
  BY DEF Init, Wise, Told, Found
<1> QED BY <1>2, <1>3, <1>4 DEF QueueInv

LEMMA QueueGivesOwed == QueueInv => OwedIsQueued
<1> SUFFICES ASSUME QueueInv, file = "live", AtRest, Reaped, ~Satisfied
             PROVE  \/ row # NoRow /\ (row.next = "never" => on = {})
                    \/ \E d \in on : status[d] = "drain"
  BY DEF OwedIsQueued
<1>1. Owed(on) /\ (row.next = "never" => on = {})
  BY DEF QueueInv, Accounted
<1>2. ~HasEnough(World(status), {d \in on : ShouldHaveFiles(status[d])}, MinDevcount)
  BY GoodMeansEnough DEF Satisfied
<1> QED BY <1>1, <1>2 DEF Owed, Content, Reaped

\* Once the workers have put a file down, it satisfies its policy or they will take it up
\* again (Replicate.pm 139-248 and 353-381, Reaper.pm 52-71), where copies are moved only
\* off drained devices and devices die only while nobody works on the file and no row waits.
\* QueueInv is needed because the row goes on what the policy said some steps before, of a
\* cached device table: what it was told of is still recorded or was reaped with a row left
\* behind (Told), and the delay of the reaper's row makes sure that who serves it has heard
\* of the death (DeathsKnown).
THEOREM NoFileIsForgotten ==
  ASSUME OnlyDrainsAndDeaths
  PROVE  Spec => []OwedIsQueued
<1>1. QueueInv /\ [Next]_vars => QueueInv'
  BY NextQueue
<1> QED BY <1>1, InitQueue, QueueGivesOwed, PTL DEF Spec

--------------------------------------------------------------------------------
(* Fsck *)

\* Nobody moves a copy: no rebalance policy, and no device is ever drained.
NothingToMove == RebalanceFrom = {} /\ "drain" \notin Changes

Answers == {"unknown", "right", "wrong"}

FsckType ==
  fsck \in [at : {"idle", "load", "check", "stat", "verify", "search", "note", "forget", "enqueue"},
            devids : SUBSET Devs, cached : BOOLEAN, sizes : [Devs -> Answers],
            todo : SUBSET Devs, good : SUBSET Devs, bad : SUBSET Devs]

\* And nobody is about to.
NobodyMoves ==
  /\ \A d \in Devs : status[d] # "drain"
  /\ \A r \in Replicators : job[r].kind # "rebalance" /\ \A d \in Devs : view[r][d] # "drain"

\* What fsck found stays true, however old its answers are: a device said to have the file
\* still has it, and from the first row it forgets on one such device is recorded.
StillTrue ==
  /\ \A d \in Devs : fsck.sizes[d] = "right" => d \in disk
  /\ fsck.good \subseteq disk /\ fsck.good \cap fsck.bad = {}
  /\ fsck.at \in {"load", "check", "stat"} => fsck.good = {} /\ fsck.bad = {}
  /\ fsck.at \in {"check", "stat", "verify"} => fsck.devids \subseteq on
  /\ fsck.at \in {"stat", "verify"} => fsck.todo \subseteq fsck.devids
  /\ fsck.at = "verify" =>
       fsck.good \subseteq fsck.devids /\ fsck.todo \cap (fsck.good \cup fsck.bad) = {}
  /\ fsck.at = "search" => fsck.good = {} /\ fsck.todo \cap fsck.bad = {}
  /\ fsck.at \in {"note", "forget"} => fsck.good # {}
  /\ fsck.at = "forget" => fsck.good \subseteq on

FsckInv ==
  /\ LockInv /\ ReapsDead /\ FsckType /\ NobodyMoves
  /\ file = "live" /\ NoneDead => StillTrue

--------------------------------------------------------------------------------

LEMMA InitFsck == FsckInit => FsckInv
<1> SUFFICES ASSUME FsckInit PROVE FsckInv
  OBVIOUS
<1>1. StateType
  BY NoJobIsJob DEF FsckInit, StateType, Place, States
<1>2. RowType /\ Exclusive /\ MovesOne
  BY DEF FsckInit, RowType, NoRow, Exclusive, UnderLock, MovesOne, NoJob
<1>3. ReapsDead /\ NobodyMoves
  BY DEF FsckInit, ReapsDead, NobodyMoves, NoJob
<1>4. FsckType /\ StillTrue
  BY DEF FsckInit, FsckType, StillTrue, NotChecking, Unknown, Answers
<1> QED BY <1>1, <1>2, <1>3, <1>4 DEF FsckInv, LockInv

\* Neither a replicator nor an administrator starts a move.
LEMMA NextMovesNothing ==
  ASSUME NothingToMove, LockInv, NobodyMoves, [Next]_vars
  PROVE  NobodyMoves'
<1>0. /\ status \in [Devs -> States] /\ view \in [Replicators -> [Devs -> States]]
      /\ job \in [Replicators -> Job] /\ on \in SUBSET Devs
      /\ RebalanceFrom = {}
  BY DEF LockInv, StateType, NothingToMove
<1>1. CASE UNCHANGED <<status, view, job>>
  BY <1>1 DEF NobodyMoves
<1>2. ASSUME NEW d \in Devs, NEW s \in Changes, SetState(d, s)
      PROVE  NobodyMoves'
  <2>1. s # "drain"
    BY DEF NothingToMove
  <2> QED BY <1>0, <1>2, <2>1 DEF SetState, NobodyMoves
<1>3. ASSUME NEW r \in Replicators, Refresh(r)
      PROVE  NobodyMoves'
  BY <1>0, <1>3 DEF Refresh, NobodyMoves, world
<1>4. ASSUME NEW r \in Replicators, Work(r) \/ Crash(r)
      PROVE  NobodyMoves'
  <2>0. job[r] \in Job /\ job[r].kind # "rebalance"
    BY <1>0 DEF NobodyMoves
  <2>1. CASE Fetch(r)
    <3>1. job' = [job EXCEPT ![r] = [NoJob EXCEPT !.kind = "table", !.from = row.from]]
          /\ UNCHANGED <<status, view>>
      BY <2>1 DEF Fetch, world
    <3> QED BY <1>0, <3>1 DEF NobodyMoves, NoJob
  <2>2. ~PickToRebalance(r)
    BY <1>0 DEF PickToRebalance, Movable, NobodyMoves
  <2>3. CASE Unlock(r) \/ Crash(r)
    BY <1>0, <2>3 DEF Unlock, Crash, world, reaper, NobodyMoves, NoJob
  <2>4. CASE \/ CheckPicked(r) \/ Lock(r) \/ GiveUpLock(r) \/ CopyOk(r) \/ FinishTable(r) \/ FinishRebalance(r)
             \/ Destroy(r) \/ DestroyRow(r) \/ DestroyFails(r)
    <3>1. UNCHANGED <<status, view, job>>
      BY <2>4 DEF CheckPicked, Lock, GiveUpLock, CopyOk, FinishTable, FinishRebalance,
        Destroy, DestroyRow, DestroyFails, world
    <3> QED BY <1>1, <3>1
  <2>5. ASSUME NEW j, j.kind = job[r].kind, job' = [job EXCEPT ![r] = j], UNCHANGED <<status, view>>
        PROVE  NobodyMoves'
    BY <1>0, <2>0, <2>5 DEF NobodyMoves
  <2>6. ASSUME NEW j \in Job, NEW result, j.kind = job[r].kind, Return(r, j, result),
               UNCHANGED <<status, view>>
        PROVE  NobodyMoves'
    <3>1. [j EXCEPT !.result = result].kind = j.kind
      BY DEF Job
    <3>2. job' = [job EXCEPT ![r] = [j EXCEPT !.result = result]]
      BY <2>6 DEF Return
    <3> HIDE DEF Job
    <3> QED BY <2>5, <2>6, <3>1, <3>2
  <2>7. CASE CheckExists(r)
    <3>1. UNCHANGED job \/ Return(r, job[r], "nofid")
      BY <2>7 DEF CheckExists
    <3>2. UNCHANGED <<status, view>>
      BY <2>7 DEF CheckExists, world
    <3> QED BY <1>1, <2>0, <2>6, <3>1, <3>2
  <2>8. CASE ReadOn(r)
    <3> DEFINE j == [job[r] EXCEPT !.on = on, !.told = Tell(view[r], job[r].mask),
                                   !.up = {d \in on : CanReadFrom(view[r][d])}]
    <3>1. j \in Job /\ j.kind = job[r].kind
      BY <1>0, <2>0 DEF Job, Tell
    <3>2. UNCHANGED <<status, view>>
      BY <2>8 DEF ReadOn, world
    <3>3. \/ Return(r, j, "no_source") \/ Return(r, j, "source_down")
          \/ job' = [job EXCEPT ![r] = j]
      BY <2>8 DEF ReadOn
    <3> HIDE DEF j
    <3> QED BY <2>5, <2>6, <3>1, <3>2, <3>3
  <2>9. CASE AskPolicy(r)
    <3>1. UNCHANGED <<status, view>>
      BY <2>9 DEF AskPolicy, world
    <3>2. CASE \E result : Return(r, job[r], result)
      BY <2>0, <2>6, <3>1, <3>2
    <3>3. ASSUME NEW d \in Choices(r)
          PROVE  LET j == [job[r] EXCEPT !.got = TRUE, !.ddev = d]
                 IN  /\ j \in Job /\ j.kind = job[r].kind
                     /\ \A s \in Sources(j) :
                          [j EXCEPT !.sdev = s] \in Job /\ [j EXCEPT !.sdev = s].kind = job[r].kind
      <4> DEFINE j == [job[r] EXCEPT !.got = TRUE, !.ddev = d]
      <4>1. d \in Devs
        BY ChoicesAreDevices
      <4>2. j \in Job /\ j.kind = job[r].kind
        BY <2>0, <4>1 DEF Job
      <4>3. ASSUME NEW s \in Sources(j)
            PROVE  [j EXCEPT !.sdev = s] \in Job /\ [j EXCEPT !.sdev = s].kind = j.kind
        <5>1. s \in Devs
          BY <4>2, SourcesAreDevices
        <5> HIDE DEF j
        <5> QED BY <4>2, <5>1 DEF Job
      <4> QED BY <4>2, <4>3
    <3>4. CASE \E d \in Choices(r) :
                 LET j == [job[r] EXCEPT !.got = TRUE, !.ddev = d]
                 IN  \/ \E result : Return(r, j, result)
                     \/ \E s \in Sources(j) : job' = [job EXCEPT ![r] = [j EXCEPT !.sdev = s]]
      <4>1. PICK d \in Choices(r) :
                 LET j == [job[r] EXCEPT !.got = TRUE, !.ddev = d]
                 IN  \/ \E result : Return(r, j, result)
                     \/ \E s \in Sources(j) : job' = [job EXCEPT ![r] = [j EXCEPT !.sdev = s]]
        BY <3>4
      <4> DEFINE j == [job[r] EXCEPT !.got = TRUE, !.ddev = d]
      <4>2. /\ j \in Job /\ j.kind = job[r].kind
            /\ \A s \in Sources(j) :
                 [j EXCEPT !.sdev = s] \in Job /\ [j EXCEPT !.sdev = s].kind = job[r].kind
        BY <3>3
      <4>3. \/ \E result : Return(r, j, result)
            \/ \E s \in Sources(j) : job' = [job EXCEPT ![r] = [j EXCEPT !.sdev = s]]
        BY <4>1
      <4> HIDE DEF j
      <4> QED BY <2>5, <2>6, <3>1, <4>2, <4>3
    <3> QED BY <2>9, <3>2, <3>4 DEF AskPolicy
  <2>10. CASE SrcError(r)
    <3> DEFINE j == [job[r] EXCEPT !.srcFailed = @ \cup {job[r].sdev}]
    <3>1. UNCHANGED <<status, view>>
      BY <2>10 DEF SrcError, world
    <3>2. at[r] = "copy" /\ job[r].sdev \in Devs
      BY <2>10 DEF SrcError, FsckInv, LockInv, MovesOne
    <3>3. j \in Job /\ j.kind = job[r].kind
      BY <2>0, <3>2 DEF Job
    <3>4. Return(r, j, "copy_error") \/ job' = [job EXCEPT ![r] = j]
      BY <2>10 DEF SrcError
    <3> HIDE DEF j
    <3> QED BY <2>5, <2>6, <3>1, <3>3, <3>4
  <2>11. CASE DestError(r) \/ AddToDb(r)
    <3>1. UNCHANGED <<status, view>>
      BY <2>11 DEF DestError, AddToDb, world
    <3>2. \/ job' = [job EXCEPT ![r].destFailed = @ \cup {job[r].ddev}]
          \/ job' = [job EXCEPT ![r].on = @ \cup {job[r].ddev}, ![r].told = @ \cup {job[r].ddev}]
      BY <2>11 DEF DestError, AddToDb
    <3>3. CASE job' = [job EXCEPT ![r].destFailed = @ \cup {job[r].ddev}]
      <4>1. \A s \in Replicators : job'[s].kind = job[s].kind
        BY <1>0, <3>3 DEF Job
      <4> QED BY <3>1, <4>1 DEF NobodyMoves
    <3>4. CASE job' = [job EXCEPT ![r].on = @ \cup {job[r].ddev}, ![r].told = @ \cup {job[r].ddev}]
      <4>1. \A s \in Replicators : job'[s].kind = job[s].kind
        BY <1>0, <3>4 DEF Job
      <4> QED BY <3>1, <4>1 DEF NobodyMoves
    <3> QED BY <3>2, <3>3, <3>4
  <2> QED BY <1>4, <2>1, <2>2, <2>3, <2>4, <2>7, <2>8, <2>9, <2>10, <2>11 DEF Work
<1>5. Reap \/ ReaperCrash \/ BackoffPasses \/ DelayPasses \/ DeleteFile \/ Purge \/ UNCHANGED vars
        => UNCHANGED <<status, view, job>>
  BY DEF Reap, ReapFile, ForgetAbout, NoteEmpty, ReaperCrash, BackoffPasses, DelayPasses,
    DeleteFile, Purge, PurgeCopy, PurgeDone, vars, world
<1>6. CASE \E r \in Replicators : Work(r) \/ Crash(r) \/ Refresh(r)
  BY <1>3, <1>4, <1>6
<1>7. CASE \E d \in Devs, s \in Changes : SetState(d, s)
  BY <1>2, <1>7
<1> QED BY <1>1, <1>5, <1>6, <1>7 DEF Next

\* Beside fsck nobody takes a row or a copy away from a live file, until a device is lost.
LEMMA NothingIsLost ==
  ASSUME FsckInv, [Next]_vars, file' = "live", NoneDead'
  PROVE  file = "live" /\ NoneDead /\ on \subseteq on' /\ disk \subseteq disk'
<1>0. /\ status \in [Devs -> States] /\ status' \in [Devs -> States] /\ reaping \in Devs \cup {NoDev}
      /\ NoneDead /\ ReapsDead /\ LockInv
  BY NextReapsDead, NextLock DEF FsckInv, LockInv, StateType
<1>1. CASE UNCHANGED <<file, on, disk>>
  BY <1>0, <1>1
<1>2. ASSUME NEW d \in Devs, NEW s \in Changes, SetState(d, s)
      PROVE  UNCHANGED <<file, on, disk>>
  <2>1. s # "dead"
    BY <1>0, <1>2 DEF SetState, NoneDead
  <2> QED BY <1>2, <2>1 DEF SetState
<1>3. ASSUME NEW r \in Replicators, Work(r)
      PROVE  file' = file /\ on \subseteq on' /\ disk \subseteq disk'
  <2>1. at[r] \notin {"destroy", "unrow"}
    BY <1>0 DEF FsckInv, NobodyMoves, LockInv, MovesOne
  <2>2. CASE CopyOk(r) \/ AddToDb(r)
    BY <2>2 DEF CopyOk, AddToDb, Record, world
  <2>3. CASE \/ Fetch(r) \/ PickToRebalance(r) \/ CheckPicked(r) \/ Lock(r) \/ GiveUpLock(r)
             \/ CheckExists(r) \/ ReadOn(r) \/ AskPolicy(r) \/ SrcError(r) \/ DestError(r)
             \/ FinishTable(r) \/ FinishRebalance(r) \/ Unlock(r)
    BY <2>3 DEF Fetch, PickToRebalance, CheckPicked, Lock, GiveUpLock, CheckExists, ReadOn, AskPolicy,
      SrcError, DestError, FinishTable, FinishRebalance, Unlock, world
  <2>4. ~Destroy(r) /\ ~DestroyRow(r) /\ ~DestroyFails(r)
    BY <2>1 DEF Destroy, DestroyRow, DestroyFails
  <2> QED BY <1>3, <2>2, <2>3, <2>4 DEF Work
<1>4. ASSUME NEW r \in Replicators, Crash(r) \/ Refresh(r)
      PROVE  UNCHANGED <<file, on, disk>>
  BY <1>4 DEF Crash, Refresh, world
<1>5. ~ForgetAbout
  BY <1>0 DEF ForgetAbout, ReapsDead, NoneDead
<1>6. ReapFile \/ NoteEmpty \/ ReaperCrash \/ BackoffPasses \/ DelayPasses \/ UNCHANGED vars
        => UNCHANGED <<file, on, disk>>
  BY DEF ReapFile, NoteEmpty, ReaperCrash, BackoffPasses, DelayPasses, vars, world
<1>7. ~DeleteFile /\ ~Purge
  BY DEF DeleteFile, Purge, PurgeCopy, PurgeDone, world
<1> QED BY <1>0, <1>1, <1>2, <1>3, <1>4, <1>5, <1>6, <1>7 DEF Next, Reap

\* While the others work, what fsck knows stays true.
LEMMA OthersStep ==
  ASSUME NothingToMove, FsckInv, [Next]_vars, UNCHANGED fsck
  PROVE  FsckInv'
<1>1. LockInv' /\ ReapsDead' /\ NobodyMoves'
  BY NextLock, NextReapsDead, NextMovesNothing DEF FsckInv
<1>2. FsckType'
  BY DEF FsckInv, FsckType
<1>3. ASSUME file' = "live", NoneDead' PROVE StillTrue'
  <2>1. StillTrue /\ on \subseteq on' /\ disk \subseteq disk'
    BY <1>3, NothingIsLost DEF FsckInv
  <2> QED BY <2>1 DEF StillTrue
<1> QED BY <1>1, <1>2, <1>3 DEF FsckInv

\* What fsck may write: rows of the file and its place in the queue.
LEMMA FsckWrites ==
  ASSUME FsckInv, on' \in SUBSET Devs, RowType', FsckType',
         UNCHANGED <<file, status, disk, view, lock, at, job, reaping, allEmpty>>,
         file = "live" /\ NoneDead /\ StillTrue => StillTrue'
  PROVE  FsckInv'
<1>1. StateType'
  BY DEF FsckInv, LockInv, StateType
<1>2. Exclusive' /\ MovesOne'
  BY DEF FsckInv, LockInv, Exclusive, MovesOne
<1>3. ReapsDead' /\ NobodyMoves' /\ (NoneDead' <=> NoneDead)
  BY DEF FsckInv, ReapsDead, NobodyMoves, NoneDead
<1> QED BY <1>1, <1>2, <1>3 DEF FsckInv, LockInv

\* A step in which fsck only learns or gives up.
LEMMA FsckLearns ==
  ASSUME FsckInv, UNCHANGED <<world, on, disk, row, view, lock, at, job, reaper>>, FsckType',
         StillTrue => StillTrue'
  PROVE  FsckInv'
BY FsckWrites DEF world, reaper, FsckInv, LockInv, StateType, RowType

LEMMA Dropped == FsckInv /\ Handled => FsckType' /\ StillTrue'
BY DEF Handled, NotChecking, Unknown, FsckType, StillTrue, Answers

LEMMA LoadStep ==
  ASSUME FsckInv, LoadFids \/ MassLoadDevids \/ CheckFid
  PROVE  FsckInv'
<1>0. FsckType /\ on \in SUBSET Devs /\ UNCHANGED vars
  BY DEF FsckInv, LockInv, StateType, LoadFids, MassLoadDevids, CheckFid
<1>1. CASE LoadFids
  BY <1>0, <1>1, FsckLearns DEF LoadFids, NotChecking, Unknown, FsckType, StillTrue, Answers, vars
<1>2. CASE MassLoadDevids
  <2>1. FsckType'
    BY <1>0, <1>2 DEF MassLoadDevids, FsckType
  <2>2. StillTrue => StillTrue'
    BY <1>0, <1>2 DEF MassLoadDevids, FsckType, StillTrue, vars, At
  <2> QED BY <1>0, <2>1, <2>2, FsckLearns DEF vars
<1>3. CASE CheckFid
  <2>1. At("check") /\ (Handled \/ StartFix \/ fsck' = [fsck EXCEPT !.at = "stat", !.todo = fsck.devids])
    BY <1>3 DEF CheckFid
  <2>2. CASE Handled
    BY <1>0, <2>2, Dropped, FsckLearns DEF vars
  <2>3. CASE StartFix \/ fsck' = [fsck EXCEPT !.at = "stat", !.todo = fsck.devids]
    <3>1. FsckType'
      BY <1>0, <2>3 DEF StartFix, FsckType
    <3>2. StillTrue => StillTrue'
      BY <1>0, <2>1, <2>3 DEF StartFix, FsckType, StillTrue, vars, At
    <3> QED BY <1>0, <3>1, <3>2, FsckLearns DEF vars
  <2> QED BY <2>1, <2>2, <2>3
<1> QED BY <1>1, <1>2, <1>3

\* A device's answer is true when it is given.
LEMMA StatStep ==
  ASSUME FsckInv, NEW d \in Devs, BulkStat(d) \/ CheckSize(d)
  PROVE  FsckInv'
<1>0. FsckType /\ UNCHANGED vars
  BY DEF FsckInv, BulkStat, CheckSize
<1>1. CASE BulkStat(d)
  <2>1. FsckType'
    BY <1>0, <1>1 DEF BulkStat, FsckType, Answers
  <2>2. StillTrue => StillTrue'
    BY <1>0, <1>1 DEF BulkStat, FsckType, StillTrue, vars
  <2> QED BY <1>0, <2>1, <2>2, FsckLearns DEF vars
<1>2. CASE CheckSize(d)
  <2>1. At("stat") /\ (Handled \/ StartFix \/ fsck' = [fsck EXCEPT !.todo = @ \ {d}])
    BY <1>2 DEF CheckSize
  <2>2. CASE Handled
    BY <1>0, <2>2, Dropped, FsckLearns DEF vars
  <2>3. CASE StartFix
    <3>1. FsckType'
      BY <1>0, <2>3 DEF StartFix, FsckType
    <3>2. StillTrue => StillTrue'
      BY <1>0, <2>1, <2>3 DEF StartFix, FsckType, StillTrue, vars, At
    <3> QED BY <1>0, <3>1, <3>2, FsckLearns DEF vars
  <2>4. CASE fsck' = [fsck EXCEPT !.todo = @ \ {d}]
    <3>1. FsckType'
      BY <1>0, <2>4 DEF FsckType
    <3>2. StillTrue => StillTrue'
      BY <1>0, <2>1, <2>4 DEF FsckType, StillTrue, vars, At
    <3> QED BY <1>0, <3>1, <3>2, FsckLearns DEF vars
  <2> QED BY <2>1, <2>2, <2>3, <2>4
<1> QED BY <1>1, <1>2

\* A device is good only if it has the file, and is asked once.
LEMMA VerifyStep ==
  ASSUME FsckInv, (\E d \in Devs : Verify(d) \/ Search(d)) \/ EndVerify
  PROVE  FsckInv'
<1>0. FsckType /\ UNCHANGED vars
  BY DEF FsckInv, Verify, EndVerify, Search
<1>1. StillTrue => \A d \in Devs : Whole(d) => d \in disk
  BY DEF StillTrue, Whole
<1>2. ASSUME NEW d \in Devs, Verify(d)
      PROVE  FsckInv'
  <2>1. FsckType'
    BY <1>0, <1>2 DEF Verify, FsckType
  <2>2. /\ fsck.at = "verify" /\ d \in fsck.todo
        /\ fsck'.at = "verify" /\ fsck'.devids = fsck.devids /\ fsck'.sizes = fsck.sizes
        /\ fsck'.todo = fsck.todo \ {d}
        /\ \/ Whole(d) /\ fsck'.good = fsck.good \cup {d} /\ fsck'.bad = fsck.bad
           \/ ~Whole(d) /\ fsck'.good = fsck.good /\ fsck'.bad = fsck.bad \cup {d}
    BY <1>0, <1>2 DEF Verify, IsBad, FsckType, At
  <2>3. StillTrue => StillTrue'
    BY <1>0, <1>1, <2>2 DEF StillTrue, vars
  <2> QED BY <1>0, <2>1, <2>3, FsckLearns DEF vars
<1>3. ASSUME NEW d \in Devs, Search(d)
      PROVE  FsckInv'
  <2>1. FsckType'
    BY <1>0, <1>3 DEF Search, FsckType
  <2>2. /\ fsck.at = "search" /\ d \in fsck.todo
        /\ fsck'.sizes = fsck.sizes
        /\ \/ Whole(d) /\ fsck'.at = "note" /\ fsck'.good = {d} /\ fsck'.bad = fsck.bad
           \/ /\ fsck'.at = "search" /\ fsck'.good = fsck.good
              /\ fsck'.todo = fsck.todo \ {d} /\ fsck'.bad = fsck.bad \cup {d}
    BY <1>0, <1>3 DEF Search, FsckType, At
  <2>3. StillTrue => StillTrue'
    BY <1>0, <1>1, <2>2 DEF StillTrue, vars
  <2> QED BY <1>0, <2>1, <2>3, FsckLearns DEF vars
<1>4. CASE EndVerify
  <2>1. FsckType'
    BY <1>0, <1>4 DEF EndVerify, FsckType
  <2>2. StillTrue => StillTrue'
    BY <1>0, <1>4 DEF EndVerify, FsckType, StillTrue, vars, At
  <2> QED BY <1>0, <2>1, <2>2, FsckLearns DEF vars
<1> QED BY <1>2, <1>3, <1>4

\* Rows are noted and forgotten; the good devices are never among those forgotten.
LEMMA RowStep ==
  ASSUME FsckInv, NoteOnDevice \/ (\E d \in Devs : ForgetBad(d))
  PROVE  FsckInv'
<1>0. FsckType /\ on \in SUBSET Devs
  BY DEF FsckInv, LockInv, StateType
<1>1. /\ UNCHANGED <<file, status, disk, view, lock, at, job, reaping, allEmpty>>
      /\ RowType' /\ fsck'.at = "forget"
  BY <1>0 DEF NoteOnDevice, ForgetBad, world, reaper, FsckInv, LockInv, RowType, FsckType, At
<1>2. CASE NoteOnDevice
  <2>1. FsckType' /\ on' \in SUBSET Devs
    BY <1>0, <1>2 DEF NoteOnDevice, FsckType
  <2>2. StillTrue => StillTrue'
    BY <1>0, <1>1, <1>2 DEF NoteOnDevice, FsckType, StillTrue, At
  <2> QED BY <1>1, <2>1, <2>2, FsckWrites
<1>3. ASSUME NEW d \in Devs, ForgetBad(d)
      PROVE  FsckInv'
  <2>1. FsckType' /\ on' \in SUBSET Devs
    BY <1>0, <1>3 DEF ForgetBad, FsckType
  <2>2. StillTrue => StillTrue'
    BY <1>0, <1>1, <1>3 DEF ForgetBad, FsckType, StillTrue, At
  <2> QED BY <1>1, <2>1, <2>2, FsckWrites
<1> QED BY <1>2, <1>3

LEMMA EndStep ==
  ASSUME FsckInv, CheckPolicyAgain \/ EnqueueAgain \/ CantFix \/ Stalled \/ FsckDies
  PROVE  FsckInv'
<1>0. FsckType /\ on \in SUBSET Devs
  BY DEF FsckInv, LockInv, StateType
<1>1. CASE CantFix \/ Stalled \/ FsckDies
  BY <1>1, Dropped, FsckLearns DEF CantFix, Stalled, FsckDies, vars
<1>2. CASE CheckPolicyAgain
  <2>1. UNCHANGED vars /\ (Handled \/ fsck' = [fsck EXCEPT !.at = "enqueue"])
    BY <1>2 DEF CheckPolicyAgain
  <2>2. CASE Handled
    BY <2>1, <2>2, Dropped, FsckLearns DEF vars
  <2>3. CASE fsck' = [fsck EXCEPT !.at = "enqueue"]
    <3>1. FsckType'
      BY <1>0, <2>3 DEF FsckType
    <3>2. StillTrue => StillTrue'
      BY <1>0, <2>1, <2>3 DEF FsckType, StillTrue, vars
    <3> QED BY <2>1, <3>1, <3>2, FsckLearns DEF vars
  <2> QED BY <2>1, <2>2, <2>3
<1>3. CASE EnqueueAgain
  <2>1. RowType'
    BY <1>3 DEF EnqueueAgain, EnqueueFid, Enqueue, NoRow, FsckInv, LockInv, RowType
  <2>2. FsckType' /\ StillTrue'
    BY <1>3, Dropped DEF EnqueueAgain
  <2>3. UNCHANGED <<file, status, disk, view, lock, at, job, reaping, allEmpty, on>>
    BY <1>3 DEF EnqueueAgain, world, reaper
  <2> QED BY <1>0, <2>1, <2>2, <2>3, FsckWrites
<1> QED BY <1>1, <1>2, <1>3

LEMMA NextFsck ==
  ASSUME NothingToMove, FsckInv, [FsckNext]_fsckVars
  PROVE  FsckInv'
<1>1. CASE [Next]_vars /\ UNCHANGED fsck
  BY <1>1, OthersStep
<1>2. CASE CheckOn
  BY <1>2, LoadStep, StatStep, VerifyStep, RowStep, EndStep DEF CheckOn
<1>3. CASE Stalled \/ FsckDies \/ \E d \in Devs : BulkStat(d)
  BY <1>3, EndStep, StatStep
<1> QED BY <1>1, <1>2, <1>3 DEF FsckNext, fsckVars

\* Beside fsck, which takes no lock, the replicators keep their types and the lock is held by
\* exactly the one at work under it, from whatever rows and content there are at first.
THEOREM FsckTyped ==
  ASSUME NothingToMove
  PROVE  FsckSpec => [](TypeOK /\ FsckType)
<1>1. FsckInv /\ [FsckNext]_fsckVars => FsckInv'
  BY NextFsck
<1>2. FsckInv => TypeOK /\ FsckType
  BY DEF FsckInv, LockInv, StateType, RowType, Exclusive, TypeOK, Job, UnderLock
<1> QED BY <1>1, <1>2, InitFsck, PTL DEF FsckSpec

\* What fsck forgets of a live file, no device lost, is never its last copy.
LEMMA ForgetsSpare ==
  ASSUME FsckInv, NEW d \in Devs, ForgetBad(d), file' = "live", NoneDead', on \cap disk # {}
  PROVE  on' \cap disk' # {}
<1>1. StillTrue
  BY DEF ForgetBad, world, FsckInv, NoneDead
<1>2. fsck.good # {} /\ fsck.good \subseteq on \cap disk /\ d \notin fsck.good
  BY <1>1 DEF ForgetBad, At, StillTrue
<1> QED BY <1>2 DEF ForgetBad

\* However old fsck's answers are, and whatever replicators, the reaper and administrators do
\* beside it, a live file with a recorded copy keeps one until a device is lost, provided that
\* nobody moves copies (Fsck.pm 330-336).
THEOREM FsckKeepsACopy ==
  ASSUME NothingToMove
  PROVE  FsckSpec => KeepsACopy
<1> DEFINE Keeps == (file' = "live" /\ on \cap disk # {} /\ \A d \in Devs : status'[d] # "dead")
                      => on' \cap disk' # {}
<1>1. FsckInv /\ [FsckNext]_fsckVars => FsckInv'
  BY NextFsck
<1>2. ASSUME FsckInv, [FsckNext]_fsckVars PROVE [Keeps]_fsckVars
  <2> SUFFICES ASSUME file' = "live", on \cap disk # {}, NoneDead'
               PROVE  on' \cap disk' # {}
    BY DEF NoneDead
  <2>1. CASE [Next]_vars
    <3>1. on \subseteq on' /\ disk \subseteq disk'
      BY <1>2, <2>1, NothingIsLost
    <3> QED BY <3>1
  <2>2. CASE \E d \in Devs : ForgetBad(d)
    BY <1>2, <2>2, ForgetsSpare
  <2>3. CASE NoteOnDevice \/ EnqueueAgain \/ Stalled \/ FsckDies
    BY <2>3 DEF NoteOnDevice, EnqueueAgain, Stalled, FsckDies
  <2>4. CASE \/ LoadFids \/ MassLoadDevids \/ CheckFid \/ EndVerify \/ CantFix \/ CheckPolicyAgain
             \/ \E d \in Devs : CheckSize(d) \/ Verify(d) \/ Search(d) \/ BulkStat(d)
    BY <2>4 DEF LoadFids, MassLoadDevids, CheckFid, EndVerify, CantFix, CheckPolicyAgain,
      CheckSize, Verify, Search, BulkStat, vars
  <2> QED BY <1>2, <2>1, <2>2, <2>3, <2>4 DEF FsckNext, CheckOn, fsckVars
<1>3. FsckInv /\ [FsckNext]_fsckVars => [Keeps]_fsckVars
  BY <1>2
<1> QED BY <1>1, <1>3, InitFsck, PTL DEF FsckSpec, KeepsACopy
================================================================================
