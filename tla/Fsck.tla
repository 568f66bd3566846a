---------------------------------- MODULE Fsck ----------------------------------
(***************************************************************************)
(* The fsck worker (MogileFS::Worker::Fsck) at one file: check_fid, and    *)
(* fix_fid when something is amiss, while the replicate workers and the    *)
(* reaper of Replication go about the same file.  Fsck takes no lock.      *)
(*                                                                         *)
(* It works on what it knew when it loaded its batch of up to 5000 fids:   *)
(* the devids of each, and from the first question to a device on, the     *)
(* sizes of all the batch's files there (the fid_sizes command).           *)
(***************************************************************************)
EXTENDS Replication

CONSTANT PolicyOnly   \* the setting fsck_opt_policy_only

ASSUME FsckAssumption == PolicyOnly \in BOOLEAN

VARIABLE fsck   \* where the worker is in the file's check, and its local variables

fsckVars == <<vars, fsck>>

Unknown == [d \in Devs |-> "unknown"]
NotChecking ==
  [at |-> "idle", devids |-> {}, cached |-> TRUE, sizes |-> Unknown,
   todo |-> {}, good |-> {}, bad |-> {}]

\* The database and the disks disagree in any way, as disks that lost files and
\* workers that died between two steps leave them.
FsckInit ==
  /\ file = "live"
  /\ on \in SUBSET Devs /\ disk \in SUBSET Devs
  /\ row \in {NoRow, [next |-> "now", from |-> NoDev]}
  /\ status = [d \in Devs |-> "alive"]
  /\ view = [r \in Replicators |-> status]
  /\ lock = {}
  /\ at = [r \in Replicators |-> "idle"]
  /\ job = [r \in Replicators |-> NoJob]
  /\ reaping = NoDev /\ allEmpty = {}
  /\ spent = [changes |-> 0, crashes |-> 0, fails |-> 0]
  /\ fsck = NotChecking

\* devids_meet_policy, which also counts copies on drained and dead devices.
MeetPolicy(devids) ==
  LET a == ReplicateTo(World(status), devids, {}, MinDevcount)
  IN  a.good /\ ~a.too_good

At(place) == fsck.at = place
Handled == fsck' = NotChecking

\* What size_checker says: the batch's map of the device if there is one, else a
\* request for this file (when mogstored does not know fid_sizes).
Whole(d) == fsck.sizes[d] = "right" \/ (fsck.sizes[d] = "unknown" /\ d \in disk)

AlsoBad(d) == TRUE                                                       \* mutant
IsBad(d) == ~Whole(d)

--------------------------------------------------------------------------------

LoadFids ==                                                   \* get_fids_above_id
  /\ At("idle") /\ file = "live"
  /\ fsck' = [NotChecking EXCEPT !.at = "load"]
  /\ UNCHANGED vars

MassLoadDevids ==
  /\ At("load")
  /\ fsck' = [fsck EXCEPT !.at = "check", !.devids = on]
  /\ UNCHANGED vars

\* A device is asked for the sizes of the whole batch, for this file or an earlier one.
BulkStat(d) ==
  /\ fsck.at \notin {"idle", "load"} /\ fsck.sizes[d] = "unknown" /\ status[d] # "dead"
  /\ fsck' = [fsck EXCEPT !.sizes[d] = IF d \in disk THEN "right" ELSE "wrong"]
  /\ UNCHANGED vars

StartFix == fsck' = [fsck EXCEPT !.at = "verify", !.todo = fsck.devids]

CheckFid ==
  /\ At("check")
  /\ \/ fsck.devids = {} /\ StartFix
     \/ fsck.devids # {} /\ ~MeetPolicy(fsck.devids) /\ StartFix
     \/ /\ fsck.devids # {} /\ MeetPolicy(fsck.devids)
        /\ IF PolicyOnly THEN Handled
                         ELSE fsck' = [fsck EXCEPT !.at = "stat", !.todo = fsck.devids]
  /\ UNCHANGED vars

\* parallel_check_sizes stops at the first copy that is amiss.
CheckSize(d) ==
  /\ At("stat") /\ d \in fsck.todo
  /\ \/ ~Whole(d) /\ StartFix
     \/ Whole(d) /\ fsck.todo = {d} /\ Handled
     \/ Whole(d) /\ fsck.todo # {d} /\ fsck' = [fsck EXCEPT !.todo = @ \ {d}]
  /\ UNCHANGED vars

\* A device that cannot be reached: the file is checked again with the next batch.
Stalled ==
  /\ fsck.at \in {"stat", "verify", "search"}
  /\ \E d \in fsck.todo :
       /\ fsck.sizes[d] = "unknown"
       /\ IF status[d] # "dead" THEN Spend("fails", MaxFails) ELSE UNCHANGED spent
  /\ Handled
  /\ UNCHANGED <<world, on, disk, row, view, lock, at, job, reaper>>

Verify(d) ==                                                  \* check_dfids
  /\ At("verify") /\ d \in fsck.todo
  /\ fsck' = [fsck EXCEPT !.todo = @ \ {d},
                          !.good = IF Whole(d) THEN @ \cup {d} ELSE @,
                          !.bad  = IF IsBad(d) THEN @ \cup {d} ELSE @]
  /\ UNCHANGED vars

ShouldFsckSearchOn(s) == CanReadFrom(s) \/ ShouldHaveFiles(s)

\* Without a good copy all other devices are searched.
EndVerify ==
  /\ At("verify") /\ fsck.todo = {}
  /\ fsck' = IF fsck.good # {}
             THEN [fsck EXCEPT !.at = "forget"]
             ELSE [fsck EXCEPT !.at = "search",
                               !.todo = {d \in Devs : ShouldFsckSearchOn(status[d])} \ fsck.bad]
  /\ UNCHANGED vars

Search(d) ==
  /\ At("search") /\ d \in fsck.todo
  /\ fsck' = IF Whole(d)
             THEN [fsck EXCEPT !.at = "note", !.good = {d}]
             ELSE [fsck EXCEPT !.todo = @ \ {d}, !.bad = @ \cup {d}]
  /\ UNCHANGED vars

CantFix == At("search") /\ fsck.todo = {} /\ Handled /\ UNCHANGED vars

NoteOnDevice ==
  /\ At("note")
  /\ on' = on \cup fsck.good
  /\ fsck' = [fsck EXCEPT !.at = "forget", !.cached = FALSE]
  /\ UNCHANGED <<world, disk, row, view, lock, at, job, reaper, spent>>

\* forget_about_device, for every device found without the file.
ForgetBad(d) ==
  /\ At("forget") /\ d \in fsck.bad
  /\ on' = on \ {d}
  /\ fsck' = [fsck EXCEPT !.bad = @ \ {d}, !.cached = FALSE]
  /\ UNCHANGED <<world, disk, row, view, lock, at, job, reaper, spent>>

\* The devids are read again if a row was added or removed.
CheckPolicyAgain ==
  /\ At("forget") /\ fsck.bad = {}
  /\ IF MeetPolicy(IF fsck.cached THEN fsck.devids ELSE on)
     THEN Handled ELSE fsck' = [fsck EXCEPT !.at = "enqueue"]
  /\ UNCHANGED vars

EnqueueNothing == UNCHANGED row                                          \* mutant
EnqueueFid == Enqueue("now")
EnqueueAgain ==                                               \* enqueue_for_replication
  /\ At("enqueue")
  /\ EnqueueFid
  /\ Handled
  /\ UNCHANGED <<world, on, disk, view, lock, at, job, reaper, spent>>

\* Counted among the failures, so that a run can bound the two kinds of death apart.
FsckDies ==
  /\ ~At("idle") /\ Spend("fails", MaxFails)
  /\ Handled
  /\ UNCHANGED <<world, on, disk, row, view, lock, at, job, reaper>>

CheckOn ==
  \/ LoadFids \/ MassLoadDevids \/ CheckFid \/ EndVerify \/ CantFix
  \/ NoteOnDevice \/ CheckPolicyAgain \/ EnqueueAgain
  \/ \E d \in Devs : CheckSize(d) \/ Verify(d) \/ Search(d) \/ ForgetBad(d)

FsckNext ==
  \/ Next /\ UNCHANGED fsck
  \/ CheckOn \/ Stalled \/ FsckDies
  \/ \E d \in Devs : BulkStat(d)

FsckSpec == FsckInit /\ [][FsckNext]_fsckVars

\* Besides what Replication assumes, fsck is run over and over.
FairFsckSpec == FsckSpec /\ Fairness /\ WF_fsckVars(CheckOn)

--------------------------------------------------------------------------------
Sound == on # {} /\ on \subseteq disk

\* fsck, run over and over, and the replicators put right every live file that has
\* content somewhere: its rows name copies that exist, and enough of them, unless the
\* replicators gave it up before fsck found it (Fsck.pm 321-346; the exception is
\* Store.pm 1139, see README).
Repaired ==
  <>[](file = "live" /\ disk # {} => Sound /\ (row.next # "never" => Satisfied))

\* However fsck's rows are added and removed beside the replicators', a file that has
\* a recorded copy keeps one, as long as no device is lost (Fsck.pm 330-336).
KeepsACopy ==
  [][(file' = "live" /\ on \cap disk # {} /\ \A d \in Devs : status'[d] # "dead")
        => on' \cap disk' # {}]_fsckVars
================================================================================
