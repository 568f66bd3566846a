-------------------------------- MODULE FileLife --------------------------------
(***************************************************************************)
(* The life of a file in the metadata database and on the storage nodes:   *)
(* create_open, the client's upload, create_close, rename and delete in    *)
(* the query workers (MogileFS::Worker::Query), and the three passes of    *)
(* the delete job (MogileFS::Worker::Delete).                              *)
(*                                                                         *)
(* The database runs in AutoCommit mode and no command uses a transaction, *)
(* so one SQL statement is one action.  Query workers and deleters, of one *)
(* tracker or of several, interleave between any two statements.  A        *)
(* process dies between statements; the parent then hands the query to     *)
(* another worker (ProcManager!NoteDeadWorkerConn), which starts it over.  *)
(*                                                                         *)
(* What surrounds the program is a parameter: Environment names what       *)
(* clients, administrators and the database do beyond the quiet case.      *)
(***************************************************************************)
EXTENDS Integers, FiniteSets, FiniteSetsExt

CONSTANTS
  Keys,          \* keys of one domain
  Devs,          \* devices
  Queryworkers,  \* query worker processes
  Deleters,      \* delete job processes
  None,          \* no key, no fid, no device, no command
  MaxFid,        \* bound: fids handed out
  MaxCommands,   \* bound: commands started
  MaxDeaths,     \* bound: processes that die, and restarts of the database
  Environment    \* a subset of Hazards

Hazards ==
  {"slow",       \* a client closes a file over an hour after it opened it
   "same_key",   \* two clients store under one key at the same time
   "requeue",    \* a query worker dies and its command is started over
   "abandon",    \* a query worker dies and the client hangs up: nobody goes on
   "reset",      \* the database restarts and re-seeds its fid counter
   "renames"}    \* clients rename files

ASSUME EnvironmentAssumption == Environment \subseteq Hazards
ASSUME FileBoundAssumption   == {MaxFid, MaxCommands, MaxDeaths} \subseteq Nat
ASSUME ProcessAssumption     == Queryworkers \cap Deleters = {}

VARIABLES
  \* tables
  file,      \* the key of each fid's row in `file`, None without a row
  tempfile,  \* the devids of each fid's row in `tempfile`, {} without a row
  autoinc,   \* the next value of tempfile's AUTO_INCREMENT
  on,        \* file_on
  torepl,    \* file_to_replicate
  todelete,  \* file_to_delete
  later,     \* file_to_delete_later
  \* storage nodes
  disk,      \* which content is on which device
  dead,      \* devices an administrator has marked dead
  \* clients
  opened,    \* the devids create_open answered for each fid, {} when not open
  old,       \* fids whose tempfile row is older than TEMPFILE_TOO_OLD_TIMESPAN
  \* processes
  at,        \* the statement each process executes next
  cmd,       \* the command a query worker runs, or the row a deleter is at, or None
  rows,      \* a deleter's result rows <<fid, devid or None>> still to work off
  purge,     \* <<fid, devid>> of the temporary files a deleter is going to purge
  \* counted for the bounds
  commands,  \* commands that may still be started
  deaths     \* of whom there were how many

tableVars   == <<file, tempfile, autoinc, on, torepl, todelete, later>>
clientVars  == <<opened, old>>
deleterVars == <<rows, purge>>
fileVars    == <<tableVars, disk, dead, clientVars, at, cmd, deleterVars, commands, deaths>>

Fids    == 1..MaxFid
Workers == Queryworkers \cup Deleters
Places  == Fids \X Devs

\* A command: its operation and arguments, and the fid its next statements are about.
Command == [op : {"open", "close", "abort", "delete", "rename", "row"},
            key : Keys \cup {None}, to : Keys \cup {None}, dev : Devs \cup {None},
            fid : Fids \cup {None}, victim : Fids \cup {None}]

ASSUME NoneAssumption == None \notin Keys \cup Devs \cup Fids \cup Command

Steps == {"idle",                                                  \* query workers
          "insert_tempfile", "fid_in_use", "drop_colliding", "reseed",
          "tempfile_row", "add_aborted", "find_old", "verify_size", "add_fidid",
          "replace_file", "enqueue_replication", "delete_tempfile",
          "delete_file", "delete_file_temp", "enqueue_delete",
          "find_key", "update_key",
          "old_tempfiles", "row_exists", "drop_row",               \* deleters
          "mass_insert_file_on", "enqueue_purge", "delete_purged",
          "fids_to_delete_again", "reenqueue", "delete_later",
          "select_deletes", "next_row", "http_delete", "remove_file_on",
          "reschedule", "remove_fid"}

\* Types; and a command has its locals exactly while it runs.
FileTypeOK ==
  /\ file \in [Fids -> Keys \cup {None}]
  /\ tempfile \in [Fids -> SUBSET Devs]
  /\ autoinc \in 1..(MaxFid + 1)
  /\ on \subseteq Places /\ disk \subseteq Places
  /\ torepl \subseteq Fids /\ todelete \subseteq Fids /\ later \subseteq Fids
  /\ dead \subseteq Devs
  /\ opened \in [Fids -> SUBSET Devs]
  /\ old \subseteq Fids
  /\ at \in [Workers -> Steps]
  /\ cmd \in [Workers -> Command \cup {None}]
  /\ \A w \in Queryworkers : (cmd[w] = None) <=> (at[w] = "idle")
  /\ \A w \in Queryworkers :
       at[w] \in {"delete_file", "delete_file_temp", "enqueue_delete", "update_key"}
         => cmd[w].victim \in Fids
  /\ rows \in [Deleters -> SUBSET (Fids \X (Devs \cup {None}))]
  /\ purge \in [Deleters -> SUBSET Places]
  /\ commands \in 0..MaxCommands
  /\ deaths \in [query : 0..MaxDeaths, other : 0..MaxDeaths]

FileInit ==
  /\ file = [f \in Fids |-> None]
  /\ tempfile = [f \in Fids |-> {}]
  /\ autoinc = 1
  /\ on = {} /\ disk = {}
  /\ torepl = {} /\ todelete = {} /\ later = {}
  /\ dead = {}
  /\ opened = [f \in Fids |-> {}]
  /\ old = {}
  /\ at = [w \in Workers |-> IF w \in Queryworkers THEN "idle" ELSE "old_tempfiles"]
  /\ cmd = [w \in Workers |-> None]
  /\ rows = [w \in Deleters |-> {}]
  /\ purge = [w \in Deleters |-> {}]
  /\ commands = MaxCommands
  /\ deaths = [query |-> 0, other |-> 0]

--------------------------------------------------------------------------------
(************************** statements of the Store ***********************)

\* REPLACE INTO file: rows that collide on the fid or on the unique key go.
ReplaceIntoFile(f, k) ==
  [x \in Fids |-> IF x = f THEN k ELSE IF file[x] = k THEN None ELSE file[x]]

Owners(k) == {f \in Fids : file[f] = k}

\* Rows of file_to_delete left joined with file_on.
Joined ==
  {p \in Places : p \in on /\ p[1] \in todelete}
    \cup {<<f, None>> : f \in {x \in todelete : \A d \in Devs : <<x, d>> \notin on}}


--------------------------------------------------------------------------------
(****************************** query workers *****************************)

Goto(w, from, to) == at[w] = from /\ at' = [at EXCEPT ![w] = to]
Finish(w, from)   == Goto(w, from, "idle") /\ cmd' = [cmd EXCEPT ![w] = None]

\* What a command leaves alone unless it says otherwise.
OnlyTables    == UNCHANGED <<disk, dead, opened, old, deleterVars, commands, deaths>>

Begin(w, step, c) ==
  /\ at[w] = "idle" /\ commands > 0
  /\ at' = [at EXCEPT ![w] = step]
  /\ cmd' = [cmd EXCEPT ![w] = c]
  /\ commands' = commands - 1
  /\ UNCHANGED <<tableVars, disk, dead, clientVars, deleterVars, deaths>>

\* Deaths of query workers are told from those of deleters and of the database.
CountDeath(who) ==
  /\ deaths.query + deaths.other < MaxDeaths
  /\ deaths' = [deaths EXCEPT ![who] = @ + 1]

NoCommand == [op |-> "open", key |-> None, to |-> None, dev |-> None, fid |-> None,
              victim |-> None]

\* cmd_create_open chooses the device (multi_dest off: one).
CreateOpen(w) ==
  \E d \in Devs : Begin(w, "insert_tempfile", [NoCommand EXCEPT !.dev = d])

RegisterTempfile(w) ==
  /\ Goto(w, "insert_tempfile", "fid_in_use")
  /\ autoinc <= MaxFid
  /\ tempfile' = [tempfile EXCEPT ![autoinc] = {cmd[w].dev}]
  /\ autoinc' = autoinc + 1
  /\ cmd' = [cmd EXCEPT ![w].fid = autoinc]
  /\ old' = old \ {autoinc}
  /\ UNCHANGED <<file, on, torepl, todelete, later, disk, dead, opened, deleterVars,
                 commands, deaths>>

FidNotChecked(w) ==                                                      \* mutant
  /\ Finish(w, "fid_in_use")
  /\ opened' = [opened EXCEPT ![cmd[w].fid] = {cmd[w].dev}]
  /\ UNCHANGED <<tableVars, disk, dead, old, deleterVars, commands, deaths>>

\* SELECT COUNT FROM file WHERE fid: the fid is free, and the client gets it.
FidIsFree(w) ==
  LET f == cmd[w].fid
  IN  /\ Finish(w, "fid_in_use")
      /\ file[f] = None
      /\ opened' = [opened EXCEPT ![f] = {cmd[w].dev}]
      /\ UNCHANGED <<tableVars, disk, dead, old, deleterVars, commands, deaths>>

FidIsInUse(w) ==
  /\ Goto(w, "fid_in_use", "drop_colliding")
  /\ file[cmd[w].fid] # None
  /\ UNCHANGED cmd /\ UNCHANGED tableVars /\ OnlyTables

DropColliding(w) ==
  /\ Goto(w, "drop_colliding", "reseed")
  /\ tempfile' = [tempfile EXCEPT ![cmd[w].fid] = {}]
  /\ cmd' = [cmd EXCEPT ![w].fid = None]
  /\ UNCHANGED <<file, autoinc, on, torepl, todelete, later>> /\ OnlyTables

\* A row with the highest fid of `file` (or, without one, the next) is inserted and
\* deleted again, which only moves the counter: one step.  The normal INSERT follows.
Reseed(w) ==
  LET known == {f \in Fids : file[f] # None}
      top   == IF known = {} THEN autoinc ELSE Max(known)
  IN  /\ Goto(w, "reseed", "insert_tempfile")
      /\ autoinc' = Max({autoinc, top + 1}) /\ autoinc' <= MaxFid + 1
      /\ UNCHANGED cmd
      /\ UNCHANGED <<file, tempfile, on, torepl, todelete, later>> /\ OnlyTables

\* create_close of f.  A client that stores nothing under a key aborts the upload.
\* Whether it may be late, or store where somebody else stores, Environment says.
CreateClose(w, f, k) ==
  /\ opened[f] # {}
  /\ "slow" \in Environment \/ f \notin old
  /\ \/ "same_key" \in Environment \/ k = None
     \/ \A v \in Queryworkers : cmd[v] # None => ~(cmd[v].op = "close" /\ cmd[v].key = k)
  /\ at[w] = "idle" /\ commands > 0
  /\ at' = [at EXCEPT ![w] = "tempfile_row"]
  /\ \E d \in opened[f] :
       cmd' = [cmd EXCEPT ![w] = [NoCommand EXCEPT !.op = IF k = None THEN "abort" ELSE "close",
                                                   !.fid = f, !.key = k, !.dev = d]]
  /\ opened' = [opened EXCEPT ![f] = {}]
  /\ commands' = commands - 1
  /\ UNCHANGED <<tableVars, disk, dead, old, deleterVars, deaths>>

NoTempFile(w) ==
  /\ Finish(w, "tempfile_row")
  /\ tempfile[cmd[w].fid] = {}
  /\ UNCHANGED tableVars /\ OnlyTables

TempfileRow(w) ==
  /\ Goto(w, "tempfile_row", IF cmd[w].op = "abort" THEN "add_aborted" ELSE "find_old")
  /\ tempfile[cmd[w].fid] # {}
  /\ UNCHANGED cmd /\ UNCHANGED tableVars /\ OnlyTables

AbortWithoutLocation(w) ==                                               \* mutant
  /\ Goto(w, "add_aborted", "delete_file")
  /\ cmd' = [cmd EXCEPT ![w].victim = cmd[w].fid]
  /\ UNCHANGED tableVars /\ OnlyTables

\* No key: the content's place is recorded first, so that it can be deleted.
AddAborted(w) ==
  /\ Goto(w, "add_aborted", "delete_file")
  /\ on' = on \cup {<<cmd[w].fid, cmd[w].dev>>}
  /\ cmd' = [cmd EXCEPT ![w].victim = cmd[w].fid]
  /\ UNCHANGED <<file, tempfile, autoinc, torepl, todelete, later>> /\ OnlyTables

\* new_from_dmid_and_key, and the old file's delete when there is one.
FindOld(w) ==
  /\ \/ /\ Goto(w, "find_old", "verify_size") /\ UNCHANGED cmd
        /\ Owners(cmd[w].key) = {}
     \/ /\ Goto(w, "find_old", "delete_file")
        /\ \E f \in Owners(cmd[w].key) : cmd' = [cmd EXCEPT ![w].victim = f]
  /\ UNCHANGED tableVars /\ OnlyTables

\* The content is not there, or not of the promised size: an error, late.
SizeMismatch(w) ==
  /\ Finish(w, "verify_size")
  /\ UNCHANGED tableVars /\ OnlyTables

SizeUnchecked(w) ==                                                      \* mutant
  /\ Goto(w, "verify_size", "add_fidid")
  /\ UNCHANGED cmd /\ UNCHANGED tableVars /\ OnlyTables

VerifySize(w) ==
  /\ Goto(w, "verify_size", "add_fidid")
  /\ <<cmd[w].fid, cmd[w].dev>> \in disk
  /\ UNCHANGED cmd /\ UNCHANGED tableVars /\ OnlyTables

AddFididToDevid(w) ==
  /\ Goto(w, "add_fidid", "replace_file")
  /\ on' = on \cup {<<cmd[w].fid, cmd[w].dev>>}
  /\ UNCHANGED cmd
  /\ UNCHANGED <<file, tempfile, autoinc, torepl, todelete, later>> /\ OnlyTables

ReplaceFile(w) ==
  /\ Goto(w, "replace_file", "enqueue_replication")
  /\ file' = ReplaceIntoFile(cmd[w].fid, cmd[w].key)
  /\ UNCHANGED cmd
  /\ UNCHANGED <<tempfile, autoinc, on, torepl, todelete, later>> /\ OnlyTables

EnqueueForReplication(w) ==
  /\ Goto(w, "enqueue_replication", "delete_tempfile")
  /\ torepl' = torepl \cup {cmd[w].fid}
  /\ UNCHANGED cmd
  /\ UNCHANGED <<file, tempfile, autoinc, on, todelete, later>> /\ OnlyTables

DeleteTempfileRow(w) ==
  /\ Finish(w, "delete_tempfile")
  /\ tempfile' = [tempfile EXCEPT ![cmd[w].fid] = {}]
  /\ UNCHANGED <<file, autoinc, on, torepl, todelete, later>> /\ OnlyTables

\* delete_fidid: three statements about the victim.
DeleteFileRow(w) ==
  /\ Goto(w, "delete_file", "delete_file_temp")
  /\ file' = [file EXCEPT ![cmd[w].victim] = None]
  /\ UNCHANGED cmd
  /\ UNCHANGED <<tempfile, autoinc, on, torepl, todelete, later>> /\ OnlyTables

DeleteFileTemp(w) ==
  /\ Goto(w, "delete_file_temp", "enqueue_delete")
  /\ tempfile' = [tempfile EXCEPT ![cmd[w].victim] = {}]
  /\ UNCHANGED cmd
  /\ UNCHANGED <<file, autoinc, on, torepl, todelete, later>> /\ OnlyTables

\* create_close goes on with the new file, the other commands are done.
EnqueueDelete(w) ==
  /\ at[w] = "enqueue_delete"
  /\ IF cmd[w].op = "close" THEN Goto(w, "enqueue_delete", "verify_size") /\ UNCHANGED cmd
                            ELSE Finish(w, "enqueue_delete")
  /\ todelete' = todelete \cup {cmd[w].victim}
  /\ UNCHANGED <<file, tempfile, autoinc, on, torepl, later>> /\ OnlyTables

DeleteKey(w, k) == Begin(w, "find_key", [NoCommand EXCEPT !.op = "delete", !.key = k])

Rename(w, k, to) ==
  /\ "renames" \in Environment
  /\ Begin(w, "find_key", [NoCommand EXCEPT !.op = "rename", !.key = k, !.to = to])

UnknownKey(w) ==
  /\ Finish(w, "find_key")
  /\ Owners(cmd[w].key) = {}
  /\ UNCHANGED tableVars /\ OnlyTables

FindKey(w) ==
  /\ Goto(w, "find_key", IF cmd[w].op = "delete" THEN "delete_file" ELSE "update_key")
  /\ \E f \in Owners(cmd[w].key) : cmd' = [cmd EXCEPT ![w].victim = f]
  /\ UNCHANGED tableVars /\ OnlyTables

\* UPDATE file SET dkey WHERE fid: without effect when the row is gone or the key taken.
UpdateKey(w) ==
  LET f == cmd[w].victim
      possible == file[f] # None /\ Owners(cmd[w].to) \subseteq {f}
  IN  /\ Finish(w, "update_key")
      /\ file' = IF possible THEN [file EXCEPT ![f] = cmd[w].to] ELSE file
      /\ UNCHANGED <<tempfile, autoinc, on, torepl, todelete, later>> /\ OnlyTables

\* The process dies between two statements.  The parent hands the query to another
\* worker, which starts it over, unless the client has hung up.
FirstStep(op) == CASE op = "open" -> "insert_tempfile"
                   [] op \in {"close", "abort"} -> "tempfile_row"
                   [] op \in {"delete", "rename"} -> "find_key"

QueryworkerDies(w) ==
  /\ cmd[w] # None /\ CountDeath("query")
  /\ \/ /\ "requeue" \in Environment
        /\ at' = [at EXCEPT ![w] = FirstStep(cmd[w].op)]
        /\ cmd' = [cmd EXCEPT ![w].victim = None]
     \/ /\ "abandon" \in Environment
        /\ at' = [at EXCEPT ![w] = "idle"]
        /\ cmd' = [cmd EXCEPT ![w] = None]
  /\ UNCHANGED <<tableVars, disk, dead, clientVars, deleterVars, commands>>

StartCommand(w) ==
  \/ CreateOpen(w)
  \/ \E f \in Fids, k \in Keys \cup {None} : CreateClose(w, f, k)
  \/ \E k \in Keys : DeleteKey(w, k)
  \/ \E k, to \in Keys : k # to /\ Rename(w, k, to)

RunCommand(w) ==
  \/ RegisterTempfile(w) \/ FidIsFree(w) \/ FidIsInUse(w) \/ DropColliding(w) \/ Reseed(w)
  \/ NoTempFile(w) \/ TempfileRow(w) \/ AddAborted(w) \/ FindOld(w)
  \/ SizeMismatch(w) \/ VerifySize(w) \/ AddFididToDevid(w) \/ ReplaceFile(w)
  \/ EnqueueForReplication(w) \/ DeleteTempfileRow(w)
  \/ DeleteFileRow(w) \/ DeleteFileTemp(w) \/ EnqueueDelete(w)
  \/ UnknownKey(w) \/ FindKey(w) \/ UpdateKey(w)

--------------------------------------------------------------------------------
(*************************** the world outside ****************************)

Held(f) == \E w \in Queryworkers : cmd[w] # None /\ cmd[w].fid = f

\* The client PUTs its content where create_open told it to.
Upload(f, d) ==
  /\ d \in opened[f] /\ <<f, d>> \notin disk
  /\ disk' = disk \cup {<<f, d>>}
  /\ UNCHANGED <<tableVars, dead, clientVars, at, cmd, deleterVars, commands, deaths>>

\* TEMPFILE_TOO_OLD_TIMESPAN passes.  Unless clients are slow, the one that opened the
\* file has given it up.
Age(f) ==
  /\ tempfile[f] # {} /\ f \notin old
  /\ "slow" \in Environment \/ ~Held(f)
  /\ old' = old \cup {f}
  /\ opened' = IF "slow" \in Environment THEN opened ELSE [opened EXCEPT ![f] = {}]
  /\ UNCHANGED <<tableVars, disk, dead, at, cmd, deleterVars, commands, deaths>>

MarkDead(d) ==
  /\ dead' = dead \cup {d}
  /\ d \notin dead
  /\ UNCHANGED <<tableVars, disk, clientVars, at, cmd, deleterVars, commands, deaths>>

\* InnoDB takes the counter of an AUTO_INCREMENT column from the rows it finds.
DbRestart ==
  /\ "reset" \in Environment /\ CountDeath("other")
  /\ autoinc' = 1 + Max({0} \cup {f \in Fids : tempfile[f] # {}})
  /\ UNCHANGED <<file, tempfile, on, torepl, todelete, later, disk, dead, clientVars, at, cmd,
                 deleterVars, commands>>

--------------------------------------------------------------------------------
(******************************** deleters ********************************)
\* One round is process_tempfiles, reenqueue_delayed_deletes and process_deletes.
\* The LIMITs of the SELECTs and PER_BATCH are larger than MaxFid.

Restarts(w) ==
  /\ at' = [at EXCEPT ![w] = "old_tempfiles"]
  /\ cmd' = [cmd EXCEPT ![w] = None]
  /\ rows' = [rows EXCEPT ![w] = {}]
  /\ purge' = [purge EXCEPT ![w] = {}]

Row(p) == [NoCommand EXCEPT !.op = "row", !.fid = p[1], !.dev = p[2]]
ThisRow(w)  == <<cmd[w].fid, cmd[w].dev>>
FidsOf(R)   == {p[1] : p \in R}
RowsOf(R, f) == {p \in R : p[1] = f}

\* What a deleter's statement leaves alone unless it is the step's purpose.
NotTheDeleters == UNCHANGED <<dead, clientVars, commands, deaths>>

OldTempfiles(w) ==
  LET found == {p \in Places : p[1] \in old /\ p[2] \in tempfile[p[1]]}
  IN  /\ Goto(w, "old_tempfiles", IF found = {} THEN "fids_to_delete_again" ELSE "row_exists")
      /\ rows' = [rows EXCEPT ![w] = found]
      /\ UNCHANGED <<tableVars, disk, cmd, purge>> /\ NotTheDeleters

PurgeRegardless(w) ==                                                    \* mutant
  \E f \in FidsOf(rows[w]) :
    /\ at[w] = "row_exists" /\ UNCHANGED <<at, cmd>>
    /\ purge' = [purge EXCEPT ![w] = @ \cup RowsOf(rows[w], f)]
    /\ rows' = [rows EXCEPT ![w] = @ \ RowsOf(@, f)]
    /\ UNCHANGED <<tableVars, disk>> /\ NotTheDeleters

\* $fid->exists: a fid with a row in `file` only loses its row in `tempfile`.
RowExists(w) ==
  \E f \in FidsOf(rows[w]) :
    /\ \/ /\ file[f] # None
          /\ Goto(w, "row_exists", "drop_row")
          /\ cmd' = [cmd EXCEPT ![w] = Row(<<f, None>>)]
          /\ UNCHANGED purge
       \/ /\ file[f] = None
          /\ at[w] = "row_exists" /\ UNCHANGED <<at, cmd>>
          /\ purge' = [purge EXCEPT ![w] = @ \cup RowsOf(rows[w], f)]
    /\ rows' = [rows EXCEPT ![w] = @ \ RowsOf(@, f)]
    /\ UNCHANGED <<tableVars, disk>> /\ NotTheDeleters

DropRow(w) ==
  /\ Goto(w, "drop_row", "row_exists")
  /\ cmd' = [cmd EXCEPT ![w] = None]
  /\ tempfile' = [tempfile EXCEPT ![cmd[w].fid] = {}]
  /\ UNCHANGED <<file, autoinc, on, torepl, todelete, later, disk, deleterVars>>
  /\ NotTheDeleters

\* With nothing to purge, "INSERT ... VALUES ()" is an SQL error: the process dies.
NothingToPurge(w) ==
  /\ at[w] = "row_exists" /\ rows[w] = {} /\ purge[w] = {}
  /\ Restarts(w)
  /\ UNCHANGED <<tableVars, disk>> /\ NotTheDeleters

MassInsertFileOn(w) ==
  /\ Goto(w, "row_exists", "enqueue_purge")
  /\ rows[w] = {} /\ purge[w] # {}
  /\ on' = on \cup purge[w]
  /\ UNCHANGED <<file, tempfile, autoinc, torepl, todelete, later, disk, cmd, deleterVars>>
  /\ NotTheDeleters

PurgeUnqueued(w) ==                                                      \* mutant
  /\ Goto(w, "enqueue_purge", "delete_purged")
  /\ UNCHANGED <<tableVars, disk, cmd, deleterVars>> /\ NotTheDeleters

EnqueuePurge(w) ==
  /\ Goto(w, "enqueue_purge", "delete_purged")
  /\ todelete' = todelete \cup FidsOf(purge[w])
  /\ UNCHANGED <<file, tempfile, autoinc, on, torepl, later, disk, cmd, deleterVars>>
  /\ NotTheDeleters

DeletePurged(w) ==
  /\ Goto(w, "delete_purged", "fids_to_delete_again")
  /\ tempfile' = [f \in Fids |-> IF f \in FidsOf(purge[w]) THEN {} ELSE tempfile[f]]
  /\ purge' = [purge EXCEPT ![w] = {}]
  /\ UNCHANGED <<file, autoinc, on, torepl, todelete, later, disk, cmd, rows>>
  /\ NotTheDeleters

\* delafter has passed for some of the fids.
FidsToDeleteAgain(w, due) ==
  /\ Goto(w, "fids_to_delete_again", IF due = {} THEN "select_deletes" ELSE "reenqueue")
  /\ rows' = [rows EXCEPT ![w] = due \X {None}]
  /\ UNCHANGED <<tableVars, disk, cmd, purge>> /\ NotTheDeleters

Reenqueue(w) ==
  /\ Goto(w, "reenqueue", "delete_later")
  /\ todelete' = todelete \cup FidsOf(rows[w])
  /\ UNCHANGED <<file, tempfile, autoinc, on, torepl, later, disk, cmd, deleterVars>>
  /\ NotTheDeleters

\* Whatever is due by now goes, not the fids that were read.
DueLaterDeleted(w) ==                                                    \* mutant
  /\ Goto(w, "delete_later", "select_deletes")
  /\ later' = {}
  /\ rows' = [rows EXCEPT ![w] = {}]
  /\ UNCHANGED <<file, tempfile, autoinc, on, torepl, todelete, disk, cmd, purge>>
  /\ NotTheDeleters

DeleteLater(w) ==
  /\ Goto(w, "delete_later", "select_deletes")
  /\ later' = later \ FidsOf(rows[w])
  /\ rows' = [rows EXCEPT ![w] = {}]
  /\ UNCHANGED <<file, tempfile, autoinc, on, torepl, todelete, disk, cmd, purge>>
  /\ NotTheDeleters

SelectDeletes(w) ==
  /\ Goto(w, "select_deletes", IF Joined = {} THEN "old_tempfiles" ELSE "next_row")
  /\ rows' = [rows EXCEPT ![w] = Joined]
  /\ UNCHANGED <<tableVars, disk, cmd, purge>> /\ NotTheDeleters

\* The rows are worked off in a random order.  What the deleter finds about the device
\* decides what it does with the row.
NextRow(w, p, step) ==
  /\ p \in rows[w]
  /\ Goto(w, "next_row", step)
  /\ cmd' = [cmd EXCEPT ![w] = IF step = "next_row" THEN None ELSE Row(p)]
  /\ rows' = [rows EXCEPT ![w] = @ \ {p}]
  /\ UNCHANGED <<tableVars, disk, purge>> /\ NotTheDeleters

NoMoreLocations(w, p) == p[2] = None /\ NextRow(w, p, "remove_fid")
DeviceIsDead(w, p)    == p[2] \in dead /\ NextRow(w, p, "remove_file_on")
DeviceAnswers(w, p)   == p[2] \in Devs /\ NextRow(w, p, "http_delete")
\* Not observed writeable, not deletable from, no socket, or an HTTP error.
DeviceRefuses(w, p)   == p[2] \in Devs /\ NextRow(w, p, "reschedule")
\* No URL.
RowSkipped(w, p)      == p[2] \in Devs /\ NextRow(w, p, "next_row")

EndOfBatch(w) ==
  /\ Goto(w, "next_row", "old_tempfiles")
  /\ rows[w] = {}
  /\ UNCHANGED <<tableVars, disk, cmd, deleterVars>> /\ NotTheDeleters

\* The storage node deletes the content, or answers 404.
HttpDelete(w) ==
  /\ Goto(w, "http_delete", "remove_file_on")
  /\ disk' = disk \ {ThisRow(w)}
  /\ UNCHANGED <<tableVars, cmd, deleterVars>> /\ NotTheDeleters

\* No HTTP status line comes back, whatever the storage node has done.
AnswerLost(w) ==
  /\ Goto(w, "http_delete", "next_row")
  /\ cmd' = [cmd EXCEPT ![w] = None]
  /\ disk' \in {disk, disk \ {ThisRow(w)}}
  /\ UNCHANGED <<tableVars, deleterVars>> /\ NotTheDeleters

\* done_with_devid
RemoveFileOn(w) ==
  /\ Goto(w, "remove_file_on", "next_row")
  /\ cmd' = [cmd EXCEPT ![w] = None]
  /\ on' = on \ {ThisRow(w)}
  /\ UNCHANGED <<file, tempfile, autoinc, torepl, todelete, later, disk, deleterVars>>
  /\ NotTheDeleters

\* reschedule_fid, which goes on with done_with_fid
Reschedule(w) ==
  /\ Goto(w, "reschedule", "remove_fid")
  /\ later' = later \cup {cmd[w].fid}
  /\ UNCHANGED <<file, tempfile, autoinc, on, torepl, todelete, disk, cmd, deleterVars>>
  /\ NotTheDeleters

\* done_with_fid
RemoveFid(w) ==
  /\ Goto(w, "remove_fid", "next_row")
  /\ cmd' = [cmd EXCEPT ![w] = None]
  /\ todelete' = todelete \ {cmd[w].fid}
  /\ UNCHANGED <<file, tempfile, autoinc, on, torepl, later, disk, deleterVars>>
  /\ NotTheDeleters

DeleterDies(w) ==
  /\ CountDeath("other")
  /\ Restarts(w)
  /\ UNCHANGED <<tableVars, disk, dead, clientVars, commands>>

RunDeleter(w) ==
  \/ OldTempfiles(w) \/ RowExists(w) \/ DropRow(w) \/ NothingToPurge(w)
  \/ MassInsertFileOn(w) \/ EnqueuePurge(w) \/ DeletePurged(w)
  \/ (\E due \in SUBSET later : FidsToDeleteAgain(w, due)) \/ Reenqueue(w) \/ DeleteLater(w)
  \/ SelectDeletes(w)
  \/ \E p \in Fids \X (Devs \cup {None}) :
       \/ NoMoreLocations(w, p) \/ DeviceIsDead(w, p) \/ DeviceAnswers(w, p)
       \/ DeviceRefuses(w, p) \/ RowSkipped(w, p)
  \/ EndOfBatch(w) \/ HttpDelete(w) \/ AnswerLost(w)
  \/ RemoveFileOn(w) \/ Reschedule(w) \/ RemoveFid(w)

World ==
  \/ \E f \in Fids : Age(f) \/ \E d \in Devs : Upload(f, d)
  \/ \E d \in Devs : MarkDead(d)
  \/ DbRestart
  \/ \E w \in Queryworkers : QueryworkerDies(w)
  \/ \E w \in Deleters : DeleterDies(w)

FileNext ==
  \/ \E w \in Queryworkers : StartCommand(w) \/ RunCommand(w)
  \/ \E w \in Deleters : RunDeleter(w)
  \/ World

FileSpec == FileInit /\ [][FileNext]_fileVars

\* Processes run on, time passes (an upload gets old, delafter comes), and a storage node
\* that is asked to delete again and again answers some time.
FileFairness ==
  /\ \A w \in Queryworkers : WF_fileVars(RunCommand(w))
  /\ \A f \in Fids : WF_fileVars(Age(f))
  /\ \A w \in Deleters :
       /\ WF_fileVars(RunDeleter(w))
       /\ SF_fileVars(\E due \in SUBSET later : due = later /\ FidsToDeleteAgain(w, due))
       /\ \A p \in Places : /\ SF_fileVars(DeviceAnswers(w, p))
                            /\ SF_fileVars(HttpDelete(w) /\ ThisRow(w) = p)

FairFileSpec == FileSpec /\ FileFairness

--------------------------------------------------------------------------------
(******************************* properties *******************************)

Live(f) == file[f] # None

\* A file that has a key is in no deletion queue: its content would be deleted under it.
\* The query workers and the deleters decide from what they read some statements ago.
LiveIsNotDoomed == \A f \in Fids : Live(f) => f \notin todelete \cup later

\* A file that has a key has content where a row of file_on says so: create_close records
\* a device only after it has seen the content, and nothing deletes the content of a file
\* that is alive.
CopySurvives == \A f \in Fids : Live(f) => \E d \in Devs : <<f, d>> \in on \cap disk

\* The fid create_open hands to a client for writing is not the fid of a file with a key,
\* although the database may have forgotten, once, which fids it gave out.
LiveIsNotOpen == \A f \in Fids : Live(f) => opened[f] = {}

\* Content that no client writes and no key names is deleted in the end, whatever became of
\* the upload, and however often the deleter is refused, fails on its SQL or dies.
Purged ==
  \A p \in Places :
    (p \in disk /\ opened[p[1]] = {} /\ ~Live(p[1]))
      ~> (p \notin disk \/ p[2] \in dead \/ Live(p[1]))

================================================================================
