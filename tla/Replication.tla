------------------------------ MODULE Replication ------------------------------
(***************************************************************************)
(* The replicas of one stored file: the replicate workers of all trackers  *)
(* (MogileFS::Worker::Replicate), which copy it where its policy wants it  *)
(* and move it off devices that are drained or too full, and the reap      *)
(* worker (MogileFS::Worker::Reaper), which forgets what dead devices had. *)
(*                                                                         *)
(* The state is that of the database (the file row, its file_on rows, its  *)
(* file_to_replicate row, the named lock), of the storage nodes, and of    *)
(* each worker between two database statements or HTTP requests.  A worker *)
(* sees device states through a cache that may lag behind the device table.*)
(***************************************************************************)
EXTENDS MultipleHosts

CONSTANTS
  Devs, Host,          \* the devices, and the host of each
  Replicators,         \* replicate workers, whatever tracker they run on
  NoDev,
  MinDevcount,
  RebalanceFrom,       \* the devices the rebalance policy moves files off,
  RebalanceAvoid,      \* and those it moves none to (dest_devs_to_avoid)
  IgnoreMissing,       \* the option rebalance_ignore_missing
  Environment,         \* what may happen besides, see Hazards
  Changes,             \* the states an administrator sets
  MaxChanges,          \* bounds: changes of a device's state,
  MaxCrashes,          \*   deaths of a worker,
  MaxFails             \*   HTTP requests that fail for no lasting reason

\* delete: the file may be deleted; meddle: devices may die at any time, and not
\* just while nobody works on the file.
Hazards == {"delete", "meddle"}

ASSUME ReplicationAssumption ==
  /\ IsFiniteSet(Devs) /\ NoDev \notin Devs
  /\ MinDevcount \in Nat \ {0}
  /\ RebalanceFrom \subseteq Devs /\ RebalanceAvoid \subseteq Devs
  /\ IgnoreMissing \in BOOLEAN
  /\ Environment \subseteq Hazards
  /\ Changes \subseteq States
  /\ {MaxChanges, MaxCrashes, MaxFails} \subseteq Nat

VARIABLES
  file,      \* "live" (has its row in file), "doomed" (being purged), "gone"
  on,        \* its rows in file_on
  disk,      \* the devices with the file's content
  row,       \* its row in file_to_replicate
  status,    \* the device table
  view,      \* each replicator's copy of it
  lock,      \* who holds mgfs:fid:<fid>:replicate
  at,        \* where each replicator is
  job,       \* and its local variables in replicate() and its callers
  reaping,   \* the dead device the reaper is moving the file off
  allEmpty,  \* the reaper's %all_empty
  spent      \* what was used of the bounds

world == <<file, status>>
reaper == <<reaping, allEmpty>>
vars == <<world, on, disk, row, view, lock, at, job, reaper, spent>>

NoRow  == [next |-> "none", from |-> NoDev]
NoJob  == [kind |-> "none", mask |-> {}, avoid |-> {}, from |-> NoDev, on |-> {}, told |-> {}, up |-> {},
           destFailed |-> {}, srcFailed |-> {}, got |-> FALSE,
           ddev |-> NoDev, sdev |-> NoDev, result |-> "none"]

Results == {"ok", "lost_race", "nofid", "no_source", "source_down", "copy_error",
            "policy_error_already_there", "policy_no_suggestions", "none"}

World(v) == [host |-> Host, state |-> v, open |-> {d \in Devs : ShouldGetReplFiles(v[d])}]

\* After create_close: one copy, and a row that names it as the source.
Init ==
  /\ file = "live"
  /\ \E d \in Devs :
       /\ on = {d} /\ disk = {d}
       /\ row = [next |-> "now", from |-> d]
  /\ status = [d \in Devs |-> "alive"]
  /\ view = [r \in Replicators |-> status]
  /\ lock = {}
  /\ at = [r \in Replicators |-> "idle"]
  /\ job = [r \in Replicators |-> NoJob]
  /\ reaping = NoDev /\ allEmpty = {}
  /\ spent = [changes |-> 0, crashes |-> 0, fails |-> 0]

Goto(r, place) == at' = [at EXCEPT ![r] = place]
Spend(what, max) == spent[what] < max /\ spent' = [spent EXCEPT ![what] = @ + 1]

--------------------------------------------------------------------------------
(* A replicator: picking work and getting the lock.                         *)

Fetch(r) ==                                                   \* files_to_replicate
  /\ at[r] = "idle" /\ row.next = "now"
  /\ job' = [job EXCEPT ![r] = [NoJob EXCEPT !.kind = "table", !.from = row.from]]
  /\ Goto(r, "lock")
  /\ UNCHANGED <<world, on, disk, row, view, lock, reaper, spent>>

\* Files are moved off drained devices, and off those the rebalance policy picks.
Movable(v, d) == d \in RebalanceFrom /\ CanReadFrom(v[d]) /\ CanDeleteFrom(v[d])

PickToRebalance(r) ==                                         \* devfids_to_rebalance
  /\ at[r] = "idle" /\ row.next # "now"
  /\ \E d \in on, avoid \in {{}, RebalanceAvoid} :
       /\ \/ avoid = {} /\ view[r][d] = "drain"
          \/ avoid = RebalanceAvoid /\ Movable(view[r], d)
       /\ job' = [job EXCEPT ![r] = [NoJob EXCEPT !.kind = "rebalance", !.mask = {d}, !.avoid = avoid]]
  /\ Goto(r, "picked")
  /\ UNCHANGED <<world, on, disk, row, view, lock, reaper, spent>>

CheckPicked(r) ==                                             \* fid->exists, then cached
  /\ at[r] = "picked"
  /\ Goto(r, IF file = "live" THEN "lock" ELSE "idle")
  /\ UNCHANGED <<world, on, disk, row, view, lock, job, reaper, spent>>

LockIsFreeForAll == TRUE                                                 \* mutant
LockFree == lock = {}
Lock(r) ==                                                    \* should_begin_replicating_fidid
  /\ at[r] = "lock" /\ LockFree
  /\ lock' = lock \cup {r}
  /\ Goto(r, IF job[r].kind = "table" THEN "exists" ELSE "read")
  /\ UNCHANGED <<world, on, disk, row, view, job, reaper, spent>>

\* failed_getting_lock: the next file.
GiveUpLock(r) ==
  /\ at[r] = "lock" /\ ~LockFree
  /\ Goto(r, "idle")
  /\ UNCHANGED <<world, on, disk, row, view, lock, job, reaper, spent>>

ReleaseLock(r) == lock' = lock \ {r}
Unlock(r) ==                                                  \* note_done_replicating
  /\ at[r] = "unlock"
  /\ ReleaseLock(r)
  /\ job' = [job EXCEPT ![r] = NoJob]
  /\ Goto(r, "idle")
  /\ UNCHANGED <<world, on, disk, row, view, reaper, spent>>

--------------------------------------------------------------------------------
(* replicate(): what the file is on, the policy loop, the copies.           *)

Return(r, j, result) ==
  /\ job' = [job EXCEPT ![r] = [j EXCEPT !.result = result]]
  /\ Goto(r, "finish")

CheckExists(r) ==
  /\ at[r] = "exists"
  /\ \/ file = "live" /\ Goto(r, "read") /\ UNCHANGED job
     \/ file # "live" /\ Return(r, job[r], "nofid")
  /\ UNCHANGED <<world, on, disk, row, view, lock, reaper, spent>>

\* A source asked for by file_to_replicate.fromdevid has to be up itself.
SourceDown(j) == j.up = {} \/ (j.from # NoDev /\ j.from \notin j.up)

\* The devices on which the policy is told the file is.
Tell(v, mask) == {d \in on : ShouldHaveFiles(v[d])} \ mask

ReadOn(r) ==                                                  \* fid->devids
  /\ at[r] = "read"
  /\ LET j == [job[r] EXCEPT !.on   = on,
                             !.told = Tell(view[r], job[r].mask),
                             !.up   = {d \in on : CanReadFrom(view[r][d])}]
     IN  CASE on = {}       -> Return(r, j, "no_source")
           [] on # {} /\ SourceDown(j)  -> Return(r, j, "source_down")
           [] OTHER         -> job' = [job EXCEPT ![r] = j] /\ Goto(r, "policy")
  /\ UNCHANGED <<world, on, disk, row, view, lock, reaper, spent>>

Suggestion(r) == ReplicateTo(World(view[r]), job[r].told, job[r].destFailed, MinDevcount)

\* The devices the policy's answer leaves to copy to.
Choices(r) ==
  IF Suggestion(r).ideal # {}
  THEN (Suggestion(r).ideal \ job[r].mask) \ job[r].avoid
  ELSE Suggestion(r).desperate

Sources(j) == IF j.from # NoDev THEN {j.from} ELSE j.up \ j.srcFailed

AskPolicy(r) ==
  /\ at[r] = "policy"
  /\ \/ Suggestion(r).good /\ Return(r, job[r], IF job[r].got THEN "ok" ELSE "lost_race")
     \/ ~Suggestion(r).good /\ Choices(r) = {}
        /\ Return(r, job[r], IF Suggestion(r).ideal # {} THEN "lost_race" ELSE "policy_no_suggestions")
     \/ \E d \in Choices(r) :
          /\ ~Suggestion(r).good
          /\ LET j == [job[r] EXCEPT !.got = TRUE, !.ddev = d]
             IN  \/ d \in job[r].on /\ Return(r, j, "policy_error_already_there")
                 \/ d \notin job[r].on /\ Sources(j) = {} /\ Return(r, j, "source_down")
                 \/ \E s \in Sources(j) :
                      /\ d \notin job[r].on
                      /\ job' = [job EXCEPT ![r] = [j EXCEPT !.sdev = s]]
                      /\ Goto(r, "copy")
  /\ UNCHANGED <<world, on, disk, row, view, lock, reaper, spent>>

CopyOk(r) ==                                                  \* http_copy
  /\ at[r] = "copy"
  /\ job[r].sdev \in disk /\ status[job[r].ddev] # "dead"
  /\ disk' = disk \cup {job[r].ddev}
  /\ Goto(r, "add")
  /\ UNCHANGED <<world, on, row, view, lock, job, reaper, spent>>

SrcError(r) ==
  /\ at[r] = "copy"
  /\ IF job[r].sdev \in disk THEN Spend("fails", MaxFails) ELSE UNCHANGED spent
  /\ LET j == [job[r] EXCEPT !.srcFailed = @ \cup {job[r].sdev}]
     IN  IF j.from # NoDev THEN Return(r, j, "copy_error")
         ELSE job' = [job EXCEPT ![r] = j] /\ Goto(r, "policy")
  /\ UNCHANGED <<world, on, disk, row, view, lock, reaper>>

\* What was written before the error stays; it has no file_on row.
DestError(r) ==
  /\ at[r] = "copy"
  /\ IF status[job[r].ddev] # "dead" THEN Spend("fails", MaxFails) ELSE UNCHANGED spent
  /\ job' = [job EXCEPT ![r].destFailed = @ \cup {job[r].ddev}]
  /\ Goto(r, "policy")
  /\ UNCHANGED <<world, on, disk, row, view, lock, reaper>>

RecordNothing(r) == UNCHANGED on                                         \* mutant
Record(r) == on' = on \cup {job[r].ddev}

AddToDb(r) ==                                                 \* DevFID::add_to_db
  /\ at[r] = "add"
  /\ Record(r)
  /\ job' = [job EXCEPT ![r].on = @ \cup {job[r].ddev}, ![r].told = @ \cup {job[r].ddev}]
  /\ Goto(r, "policy")
  /\ UNCHANGED <<world, disk, row, view, lock, reaper, spent>>

--------------------------------------------------------------------------------
(* After replicate(): the row of a fetched file, the copy of a moved one.    *)

\* A row that is gone stays gone: the rescheduling is an UPDATE.
Reschedule(next) == row' = IF row = NoRow THEN row ELSE [row EXCEPT !.next = next]

DoneUnless(result) == result # "no_source"                               \* mutant
DoneWith(result) == result \in {"ok", "lost_race", "nofid"}

FinishTable(r) ==                              \* end of replicate_using_torepl_table
  /\ at[r] = "finish" /\ job[r].kind = "table"
  /\ \/ DoneWith(job[r].result) /\ row' = NoRow
     \/ job[r].result = "no_source" /\ Reschedule("never")
     \/ ~DoneWith(job[r].result) /\ job[r].result # "no_source" /\ Reschedule("backoff")
  /\ Goto(r, "unlock")
  /\ UNCHANGED <<world, on, disk, view, lock, job, reaper, spent>>

\* "over_replicated": the copy is still recorded and another one, on a device
\* that answers, has the right size.
AnotherIsRecorded(d) == on \ {d} # {}                                    \* mutant
AnotherIsWhole(d) == (on \ {d}) \cap disk # {}
OverReplicated(d) == d \in on /\ AnotherIsWhole(d)

OnlyWhenMoved(j, d) == j.result = "ok"                                   \* mutant
ShouldDelete(j, d) == j.result = "ok" \/ (j.result = "lost_race" /\ OverReplicated(d))

FinishRebalance(r) ==                                      \* end of rebalance_devfid
  /\ at[r] = "finish" /\ job[r].kind = "rebalance"
  /\ \E d \in job[r].mask : Goto(r, IF ShouldDelete(job[r], d) THEN "destroy" ELSE "unlock")
  /\ UNCHANGED <<world, on, disk, row, view, lock, job, reaper, spent>>

\* DevFID::destroy, the HTTP DELETE and then the file_on row.
Destroy(r) ==
  /\ at[r] = "destroy"
  /\ job[r].mask \subseteq disk \/ (IgnoreMissing /\ \A d \in job[r].mask : status[d] # "dead")
  /\ disk' = disk \ job[r].mask
  /\ Goto(r, "unrow")
  /\ UNCHANGED <<world, on, row, view, lock, job, reaper, spent>>

DestroyRow(r) ==
  /\ at[r] = "unrow"
  /\ on' = on \ job[r].mask
  /\ Goto(r, "unlock")
  /\ UNCHANGED <<world, disk, row, view, lock, job, reaper, spent>>

\* The DELETE fails, or answers 404, or it was done and the answer got lost.
DestroyFails(r) ==
  /\ at[r] = "destroy"
  /\ \/ /\ job[r].mask \cap disk = {} /\ (~IgnoreMissing \/ \E d \in job[r].mask : status[d] = "dead")
        /\ UNCHANGED <<disk, spent>>
     \/ Spend("fails", MaxFails) /\ disk' \in {disk, disk \ job[r].mask}
  /\ Goto(r, "unlock")
  /\ UNCHANGED <<world, on, row, view, lock, job, reaper>>

\* A worker dies, or is killed by the watchdog; its connection takes the lock along.
Crash(r) ==
  /\ at[r] # "idle" /\ Spend("crashes", MaxCrashes)
  /\ lock' = lock \ {r}
  /\ job' = [job EXCEPT ![r] = NoJob]
  /\ Goto(r, "idle")
  /\ UNCHANGED <<world, on, disk, row, view, reaper>>

\* Device::check_cache: when files are picked, and when replicate() takes its map of the
\* devices.  That is before it has the lock, and the last time until it is through.
BetweenFiles(r) == at[r] \in {"idle", "picked", "lock"}
Refresh(r) ==
  /\ view[r] # status /\ BetweenFiles(r)
  /\ view' = [view EXCEPT ![r] = status]
  /\ UNCHANGED <<world, on, disk, row, lock, at, job, reaper, spent>>

--------------------------------------------------------------------------------
(* The reaper.                                                               *)

\* INSERT IGNORE: a row that is there stays as it is.
Enqueue(next) == row' = IF row = NoRow THEN [next |-> next, from |-> NoDev] ELSE row
EnqueueForReplication == Enqueue("delayed")

\* Put off for longer than any cache of the device table lasts.
ReapFile ==
  /\ reaping = NoDev
  /\ \E d \in on \ allEmpty : status[d] = "dead" /\ reaping' = d
  /\ EnqueueForReplication
  /\ UNCHANGED <<world, on, disk, view, lock, at, job, allEmpty, spent>>

ForgetAbout ==
  /\ reaping # NoDev
  /\ on' = on \ {reaping}
  /\ reaping' = NoDev
  /\ UNCHANGED <<world, disk, row, view, lock, at, job, allEmpty, spent>>

NoteEmpty ==
  /\ reaping = NoDev
  /\ \E d \in Devs \ (on \cup allEmpty) : status[d] = "dead" /\ allEmpty' = allEmpty \cup {d}
  /\ UNCHANGED <<world, on, disk, row, view, lock, at, job, reaping, spent>>

ReaperCrash ==
  /\ reaping # NoDev /\ Spend("crashes", MaxCrashes)
  /\ reaping' = NoDev /\ allEmpty' = {}
  /\ UNCHANGED <<world, on, disk, row, view, lock, at, job>>

--------------------------------------------------------------------------------
(* Time, administrators, clients.                                            *)

\* nexttry of a file that failed comes, whatever the caches hold by then.
BackoffPasses ==
  /\ row.next = "backoff" /\ row' = [row EXCEPT !.next = "now"]
  /\ UNCHANGED <<world, on, disk, view, lock, at, job, reaper, spent>>

\* DEVICE_SUMMARY_CACHE_TIMEOUT + 1 seconds: every cache has been reloaded since.  One
\* who has been at the file all that time has its lock: nobody could use the row before.
DelayPasses ==
  /\ row.next = "delayed"
  /\ \A r \in Replicators, d \in Devs : status[d] = "dead" => view[r][d] = "dead"
  /\ row' = [row EXCEPT !.next = "now"]
  /\ UNCHANGED <<world, on, disk, view, lock, at, job, reaper, spent>>

\* A device marked dead is gone with its content, and stays so.
SetState(d, s) ==
  /\ status[d] \notin {s, "dead"} /\ Spend("changes", MaxChanges)
  /\ s # "dead" \/ "meddle" \in Environment \/ (row = NoRow /\ \A r \in Replicators : at[r] = "idle")
  /\ status' = [status EXCEPT ![d] = s]
  /\ disk' = IF s = "dead" THEN disk \ {d} ELSE disk
  /\ UNCHANGED <<file, on, row, view, lock, at, job, reaper>>

\* cmd_delete takes the file row away, a deleter the copies, one by one.
DeleteFile ==
  /\ "delete" \in Environment /\ file = "live" /\ file' = "doomed"
  /\ UNCHANGED <<on, disk, row, status, view, lock, at, job, reaper, spent>>

PurgeCopy ==
  /\ file = "doomed"
  /\ \E d \in on :
       /\ status[d] = "dead" \/ CanDeleteFrom(status[d])
       /\ on' = on \ {d} /\ disk' = disk \ {d}
  /\ UNCHANGED <<world, row, view, lock, at, job, reaper, spent>>

PurgeDone ==
  /\ file = "doomed" /\ on = {} /\ file' = "gone"
  /\ UNCHANGED <<on, disk, row, status, view, lock, at, job, reaper, spent>>

--------------------------------------------------------------------------------

Work(r) ==
  \/ Fetch(r) \/ PickToRebalance(r) \/ CheckPicked(r)
  \/ Lock(r) \/ GiveUpLock(r) \/ CheckExists(r) \/ ReadOn(r) \/ AskPolicy(r)
  \/ CopyOk(r) \/ SrcError(r) \/ DestError(r) \/ AddToDb(r)
  \/ FinishTable(r) \/ FinishRebalance(r)
  \/ Destroy(r) \/ DestroyRow(r) \/ DestroyFails(r) \/ Unlock(r)

Reap == ReapFile \/ ForgetAbout \/ NoteEmpty
Purge == PurgeCopy \/ PurgeDone

Next ==
  \/ \E r \in Replicators : Work(r) \/ Crash(r) \/ Refresh(r)
  \/ Reap \/ ReaperCrash
  \/ BackoffPasses \/ DelayPasses
  \/ \E d \in Devs, s \in Changes : SetState(d, s)
  \/ DeleteFile \/ Purge

Spec == Init /\ [][Next]_vars

\* Workers work (every() calls them again), caches are reloaded, time passes.
Fairness ==
  /\ \A r \in Replicators : WF_vars(Work(r)) /\ SF_vars(Refresh(r))
  /\ WF_vars(Reap) /\ WF_vars(Purge)
  /\ WF_vars(BackoffPasses) /\ WF_vars(DelayPasses)

FairSpec == Spec /\ Fairness

--------------------------------------------------------------------------------
\* Types; and a lock is held only by a worker that is at work under it, so none
\* is left behind (note_done_replicating, MySQL.pm 288-292).
TypeOK ==
  /\ file \in {"live", "doomed", "gone"}
  /\ on \subseteq Devs /\ disk \subseteq Devs
  /\ row \in [next : {"none", "now", "backoff", "delayed", "never"}, from : Devs \cup {NoDev}]
  /\ row.next = "none" => row = NoRow
  /\ status \in [Devs -> States] /\ view \in [Replicators -> [Devs -> States]]
  /\ lock \subseteq Replicators
  /\ \A r \in Replicators :
       /\ job[r].ddev \in Devs \cup {NoDev} /\ job[r].result \in Results
       /\ r \in lock => at[r] \notin {"idle", "picked", "lock"}
  /\ reaping \in Devs \cup {NoDev} /\ allEmpty \subseteq Devs

\* Rebalancing never deletes the last copy: as long as no device is lost, a file
\* that is live has a recorded copy that exists (Store.pm 1254-1260, "all copies
\* of a file can be deleted by independent replicators").
CopyRemains ==
  (file = "live" /\ \A d \in Devs : status[d] # "dead") => on \cap disk # {}

\* What the policy says of the file as the device table and file_on are now.
Satisfied == ReplicateTo(World(status), {d \in on : ShouldHaveFiles(status[d])}, {}, MinDevcount).good

AtRest == reaping = NoDev /\ \A r \in Replicators : at[r] = "idle"
Reaped == \A d \in on : status[d] # "dead"

\* Once the workers have put a file down, it satisfies its policy or they will take
\* it up again: it is queued for another try, given up only when no copy is left, or
\* it is on a drained device (Replicate.pm 139-248 and 353-381, Reaper.pm 52-71).
OwedIsQueued ==
  (file = "live" /\ AtRest /\ Reaped /\ ~Satisfied) =>
    \/ row # NoRow /\ (row.next = "never" => on = {})
    \/ \E d \in on : status[d] = "drain"

\* Replicators do not do each other's work again: a row is added only where the
\* policy, asked just then, still wants a copy (Store.pm 1240-1244, "it's also
\* possible they pick different places and waste disk").
Wanted(r) ==
  ~ReplicateTo(World(status), {d \in on : ShouldHaveFiles(status[d])} \ job[r].mask, {}, MinDevcount).good
NoWastedCopy ==
  [][\A r \in Replicators : at[r] = "add" /\ at'[r] = "policy" => Wanted(r)]_vars

\* A live file that exists somewhere comes to satisfy its policy, through crashes
\* and failing copies (Replicate.pm 139-248).
Replicated == <>[](file = "live" /\ on \cap disk # {} => Satisfied)

\* A drained device gets rid of a live file, crashes in between or not
\* (Replicate.pm 370-375).
Drained == \A d \in Devs : <>[](file = "live" /\ status[d] = "drain" => d \notin on)
================================================================================
