----------------------------- MODULE FileLife_proofs -----------------------------
(***************************************************************************)
(* Proofs about FileLife and FileCare, for every set of keys, devices and *)
(* processes and all bounds: types, then the safety of live and dead files.*)
(***************************************************************************)
EXTENDS FileCare, WellFoundedInduction, TLAPS

\* Which statements belong to which command, and what they are about.
OpenSteps   == {"insert_tempfile", "fid_in_use", "drop_colliding", "reseed"}
StoreSteps  == {"find_old", "verify_size", "add_fidid", "replace_file",
                "enqueue_replication", "delete_tempfile"}
DeleteSteps == {"delete_file", "delete_file_temp", "enqueue_delete"}
RowSteps    == {"http_delete", "remove_file_on", "reschedule", "remove_fid"}

CommandSteps == OpenSteps \cup StoreSteps \cup DeleteSteps
                  \cup {"tempfile_row", "add_aborted", "find_key", "update_key"}
RoundSteps   == {"old_tempfiles", "row_exists", "drop_row", "enqueue_purge", "delete_purged",
                 "fids_to_delete_again", "reenqueue", "delete_later", "select_deletes",
                 "next_row"} \cup RowSteps

\* The locals a query worker needs for the statement it executes next.
QueryFits(step, c) ==
  /\ (c = None) <=> (step = "idle")
  /\ c # None =>
       /\ step \in CommandSteps
       /\ step \in OpenSteps => c.op = "open" /\ c.dev \in Devs
       /\ step \in {"fid_in_use", "drop_colliding"} => c.fid \in Fids
       /\ step \in StoreSteps => c.op = "close"
       /\ step = "tempfile_row" => c.op \in {"close", "abort"}
       /\ step = "add_aborted" => c.op = "abort"
       /\ step = "find_key" => c.op \in {"delete", "rename"}
       /\ step = "update_key" => c.op = "rename"
       /\ step \in DeleteSteps => c.op \in {"close", "abort", "delete"}
       /\ step \in DeleteSteps \cup {"update_key"} => c.victim \in Fids
       /\ c.op \in {"close", "abort"} => c.fid \in Fids /\ c.dev \in Devs
       /\ c.op \in {"close", "delete", "rename"} => c.key \in Keys
       /\ c.op = "rename" => c.to \in Keys
       /\ c.op # "row" /\ (c.op = "open" => c.dev \in Devs /\ c.victim = None)

\* The row a deleter is at.
DeleterFits(step, c) ==
  /\ step \in RoundSteps
  /\ step \in RowSteps \cup {"drop_row"} => c # None /\ c.fid \in Fids

ProcessType ==
  /\ at \in [Workers -> Steps]
  /\ cmd \in [Workers -> Command \cup {None}]
  /\ \A w \in Queryworkers : QueryFits(at[w], cmd[w])
  /\ \A w \in Deleters : DeleterFits(at[w], cmd[w])

TableType ==
  /\ file \in [Fids -> Keys \cup {None}]
  /\ tempfile \in [Fids -> SUBSET Devs]
  /\ autoinc \in 1..(MaxFid + 1)
  /\ on \subseteq Places
  /\ torepl \subseteq Fids /\ todelete \subseteq Fids /\ later \subseteq Fids

WorldType ==
  /\ disk \subseteq Places
  /\ dead \subseteq Devs
  /\ opened \in [Fids -> SUBSET Devs]
  /\ old \subseteq Fids
  /\ commands \in 0..MaxCommands
  /\ deaths \in [query : 0..MaxDeaths, other : 0..MaxDeaths]

RowType ==
  /\ rows \in [Deleters -> SUBSET (Fids \X (Devs \cup {None}))]
  /\ purge \in [Deleters -> SUBSET Places]

FileType == TableType /\ WorldType /\ RowType /\ ProcessType

\* The rows of process_tempfiles have a device.
TempfileRows == \A w \in Deleters : at[w] \in {"row_exists", "drop_row"} => rows[w] \subseteq Places

--------------------------------------------------------------------------------

USE DEF Workers

\* A set of numbers with a bound has a maximum.
LEMMA MaxExists ==
  ASSUME NEW n \in Nat, NEW S \in SUBSET (0..n), S # {}
  PROVE  Max(S) \in S /\ \A x \in S : Max(S) >= x
<1> DEFINE T == {n - x : x \in S}
           Less == {ss \in Nat \X Nat : ss[1] < ss[2]}
<1>1. T \subseteq Nat /\ T # {}
  <2>1. PICK x \in S : TRUE
    OBVIOUS
  <2>2. n - x \in T
    BY <2>1
  <2>3. \A y \in S : n - y \in Nat
    OBVIOUS
  <2> QED BY <2>2, <2>3
<1>2. IsWellFoundedOn(Less, Nat)
  BY NatLessThanWellFounded DEF OpToRel
<1>3. PICK t \in T : \A y \in T : <<y, t>> \notin Less
  <2> HIDE DEF T, Less
  <2> QED BY <1>1, <1>2, WFMin
<1>4. \E x \in S : \A y \in S : x >= y
  <2>1. PICK x \in S : t = n - x
    BY <1>3
  <2>2. \A y \in S : n - y \in Nat /\ n - y \in T /\ ~(n - y < n - x)
    BY <1>1, <1>3, <2>1
  <2> QED BY <2>2
<1> QED BY <1>4 DEF Max

\* The fields of a command, and writing one of them.
LEMMA CommandFields ==
  ASSUME NEW c \in Command
  PROVE  /\ c.op \in {"open", "close", "abort", "delete", "rename", "row"}
         /\ c.key \in Keys \cup {None} /\ c.to \in Keys \cup {None}
         /\ c.dev \in Devs \cup {None} /\ c.fid \in Fids \cup {None}
         /\ c.victim \in Fids \cup {None}
BY DEF Command

LEMMA FidWritten ==
  ASSUME NEW c \in Command, NEW f \in Fids \cup {None}, NEW e, e = [c EXCEPT !.fid = f]
  PROVE  /\ e \in Command /\ e.fid = f /\ e.op = c.op /\ e.key = c.key
         /\ e.to = c.to /\ e.dev = c.dev /\ e.victim = c.victim
BY DEF Command

LEMMA VictimWritten ==
  ASSUME NEW c \in Command, NEW f \in Fids \cup {None}, NEW e, e = [c EXCEPT !.victim = f]
  PROVE  /\ e \in Command /\ e.victim = f /\ e.op = c.op /\ e.key = c.key
         /\ e.to = c.to /\ e.dev = c.dev /\ e.fid = c.fid
BY DEF Command

LEMMA CommandIsSome == \A c \in Command : c # None
BY NoneAssumption

LEMMA RowIsCommand ==
  ASSUME NEW p \in Fids \X (Devs \cup {None})
  PROVE  Row(p) \in Command /\ Row(p).fid = p[1] /\ Row(p).fid \in Fids /\ Row(p).dev = p[2]
BY DEF Row, NoCommand, Command

--------------------------------------------------------------------------------
\* Types

LEMMA InitTyped == FileInit => FileType
BY NoneAssumption, FileBoundAssumption, ProcessAssumption
   DEF FileInit, FileType, TableType, WorldType, RowType, ProcessType, Places, Steps,
       QueryFits, DeleterFits, RoundSteps, RowSteps

\* A query worker goes on to a statement with its locals.
LEMMA QueryStepTyped ==
  ASSUME ProcessType, NEW w \in Queryworkers, NEW step \in Steps, NEW c \in Command \cup {None},
         at' = [at EXCEPT ![w] = step], cmd' = [cmd EXCEPT ![w] = c], QueryFits(step, c)
  PROVE  ProcessType'
<1>1. \A v \in Workers : at'[v] = IF v = w THEN step ELSE at[v]
  BY DEF ProcessType
<1>2. \A v \in Workers : cmd'[v] = IF v = w THEN c ELSE cmd[v]
  BY DEF ProcessType
<1>3. at' \in [Workers -> Steps] /\ cmd' \in [Workers -> Command \cup {None}]
  BY DEF ProcessType
<1>4. \A v \in Queryworkers : QueryFits(at'[v], cmd'[v])
  BY <1>1, <1>2 DEF ProcessType
<1>5. \A v \in Deleters : DeleterFits(at'[v], cmd'[v])
  BY <1>1, <1>2, ProcessAssumption DEF ProcessType
<1>6. \A v \in Queryworkers : QueryFits(at[v], cmd[v])'
  BY <1>4 DEF QueryFits
<1>7. \A v \in Deleters : DeleterFits(at[v], cmd[v])'
  BY <1>5 DEF DeleterFits
<1> QED BY <1>3, <1>6, <1>7 DEF ProcessType

LEMMA DeleterStepTyped ==
  ASSUME ProcessType, NEW w \in Deleters, NEW step \in Steps, NEW c \in Command \cup {None},
         at' = [at EXCEPT ![w] = step], cmd' = [cmd EXCEPT ![w] = c], DeleterFits(step, c)
  PROVE  ProcessType'
<1>1. \A v \in Workers : at'[v] = IF v = w THEN step ELSE at[v]
  BY DEF ProcessType
<1>2. \A v \in Workers : cmd'[v] = IF v = w THEN c ELSE cmd[v]
  BY DEF ProcessType
<1>3. at' \in [Workers -> Steps] /\ cmd' \in [Workers -> Command \cup {None}]
  BY DEF ProcessType
<1>4. \A v \in Queryworkers : QueryFits(at'[v], cmd'[v])
  BY <1>1, <1>2, ProcessAssumption DEF ProcessType
<1>5. \A v \in Deleters : DeleterFits(at'[v], cmd'[v])
  BY <1>1, <1>2 DEF ProcessType
<1>6. \A v \in Queryworkers : QueryFits(at[v], cmd[v])'
  BY <1>4 DEF QueryFits
<1>7. \A v \in Deleters : DeleterFits(at[v], cmd[v])'
  BY <1>5 DEF DeleterFits
<1> QED BY <1>3, <1>6, <1>7 DEF ProcessType

\* The actions of a query worker, in the order of RunCommand and StartCommand.
LEMMA StartTyped ==
  ASSUME FileType, NEW w \in Queryworkers, StartCommand(w)
  PROVE  FileType'
<1>1. ASSUME NEW step, NEW c, Begin(w, step, c), step \in Steps, c \in Command,
             QueryFits(step, c)
      PROVE  FileType'
  <2>1. ProcessType'
    BY <1>1, QueryStepTyped DEF Begin, FileType
  <2>2. TableType' /\ RowType'
    BY <1>1 DEF Begin, FileType, TableType, RowType, tableVars, deleterVars
  <2>3. WorldType'
    BY <1>1, FileBoundAssumption DEF Begin, FileType, WorldType, clientVars
  <2> QED BY <2>1, <2>2, <2>3 DEF FileType
<1>2. CASE CreateOpen(w)
  <2>1. PICK d \in Devs : Begin(w, "insert_tempfile", [NoCommand EXCEPT !.dev = d])
    BY <1>2 DEF CreateOpen
  <2> DEFINE c == [NoCommand EXCEPT !.dev = d]
  <2>2. c \in Command /\ c.op = "open" /\ c.dev = d /\ c.victim = None
    BY DEF NoCommand, Command
  <2>3. c # None
    BY <2>2, CommandIsSome
  <2> HIDE DEF c
  <2>4. QueryFits("insert_tempfile", c)
    BY <2>2, <2>3 DEF QueryFits, CommandSteps, OpenSteps, StoreSteps, DeleteSteps
  <2> QED BY <1>1, <2>1, <2>2, <2>4 DEF c, Steps
<1>3. CASE \E k \in Keys : DeleteKey(w, k)
  <2>1. PICK k \in Keys : Begin(w, "find_key", [NoCommand EXCEPT !.op = "delete", !.key = k])
    BY <1>3 DEF DeleteKey
  <2> DEFINE c == [NoCommand EXCEPT !.op = "delete", !.key = k]
  <2>2. c \in Command /\ c.op = "delete" /\ c.key = k
    BY DEF NoCommand, Command
  <2>3. c # None
    BY <2>2, CommandIsSome
  <2> HIDE DEF c
  <2>4. QueryFits("find_key", c)
    BY <2>2, <2>3 DEF QueryFits, CommandSteps, OpenSteps, StoreSteps, DeleteSteps
  <2> QED BY <1>1, <2>1, <2>2, <2>4 DEF c, Steps
<1>4. CASE \E k, to \in Keys : k # to /\ Rename(w, k, to)
  <2>1. PICK k \in Keys, to \in Keys :
          Begin(w, "find_key", [NoCommand EXCEPT !.op = "rename", !.key = k, !.to = to])
    BY <1>4 DEF Rename
  <2> DEFINE c == [NoCommand EXCEPT !.op = "rename", !.key = k, !.to = to]
  <2>2. c \in Command /\ c.op = "rename" /\ c.key = k /\ c.to = to
    BY DEF NoCommand, Command
  <2>3. c # None
    BY <2>2, CommandIsSome
  <2> HIDE DEF c
  <2>4. QueryFits("find_key", c)
    BY <2>2, <2>3 DEF QueryFits, CommandSteps, OpenSteps, StoreSteps, DeleteSteps
  <2> QED BY <1>1, <2>1, <2>2, <2>4 DEF c, Steps
<1>5. CASE \E f \in Fids, k \in Keys \cup {None} : CreateClose(w, f, k)
  <2>1. PICK f \in Fids, k \in Keys \cup {None} : CreateClose(w, f, k)
    BY <1>5
  <2>2. PICK d \in opened[f] :
          cmd' = [cmd EXCEPT ![w] = [NoCommand EXCEPT !.op = IF k = None THEN "abort" ELSE "close",
                                                      !.fid = f, !.key = k, !.dev = d]]
    BY <2>1 DEF CreateClose
  <2> DEFINE c == [NoCommand EXCEPT !.op = IF k = None THEN "abort" ELSE "close",
                                    !.fid = f, !.key = k, !.dev = d]
  <2>3. d \in Devs
    BY <2>2 DEF FileType, WorldType
  <2>4. /\ c \in Command /\ c.op = IF k = None THEN "abort" ELSE "close"
        /\ c.fid = f /\ c.key = k /\ c.dev = d
    BY <2>3 DEF NoCommand, Command
  <2>5. c # None
    BY <2>4, CommandIsSome
  <2> HIDE DEF c
  <2>6. QueryFits("tempfile_row", c)
    BY <2>3, <2>4, <2>5 DEF QueryFits, CommandSteps, OpenSteps, StoreSteps, DeleteSteps
  <2>7. at' = [at EXCEPT ![w] = "tempfile_row"] /\ cmd' = [cmd EXCEPT ![w] = c]
    BY <2>1, <2>2 DEF CreateClose, c
  <2>8. ProcessType'
    BY <2>4, <2>6, <2>7, QueryStepTyped DEF FileType, Steps
  <2>9. TableType' /\ RowType'
    BY <2>1 DEF CreateClose, FileType, TableType, RowType, tableVars, deleterVars
  <2>10. WorldType'
    BY <2>1, FileBoundAssumption DEF CreateClose, FileType, WorldType
  <2> QED BY <2>8, <2>9, <2>10 DEF FileType
<1> QED BY <1>2, <1>3, <1>4, <1>5 DEF StartCommand

\* A query worker goes on with the locals it has, or is done with its command.
LEMMA GoesOnTyped ==
  ASSUME ProcessType, NEW w \in Queryworkers, NEW from, NEW step \in Steps,
         Goto(w, from, step), UNCHANGED cmd, QueryFits(step, cmd[w])
  PROVE  ProcessType'
<1>1. cmd' = [cmd EXCEPT ![w] = cmd[w]] /\ cmd[w] \in Command \cup {None}
  BY DEF ProcessType
<1> QED BY <1>1, QueryStepTyped DEF Goto

LEMMA FinishTyped ==
  ASSUME ProcessType, NEW w \in Queryworkers, NEW from, Finish(w, from)
  PROVE  ProcessType'
<1>1. QueryFits("idle", None) /\ "idle" \in Steps
  BY DEF QueryFits, Steps
<1> QED BY <1>1, QueryStepTyped DEF Finish, Goto

\* Statements of the tables leave the world and the deleters' rows alone.
LEMMA OnlyTablesTyped ==
  ASSUME FileType, OnlyTables
  PROVE  WorldType' /\ RowType'
BY DEF FileType, OnlyTables, WorldType, RowType, deleterVars

LEMMA TablesUntouched ==
  ASSUME FileType, UNCHANGED tableVars
  PROVE  TableType'
BY DEF FileType, tableVars, TableType

LEMMA RunningFits ==
  ASSUME FileType, NEW w \in Queryworkers, at[w] # "idle"
  PROVE  cmd[w] \in Command /\ cmd[w] # None /\ QueryFits(at[w], cmd[w])
BY DEF FileType, ProcessType, QueryFits

\* After a collision the counter is set back no further than where it was.
LEMMA ReseedRaises ==
  ASSUME FileType, NEW w \in Queryworkers, Reseed(w)
  PROVE  autoinc' \in 1..(MaxFid + 1) /\ autoinc' >= autoinc
<1> DEFINE known == {f \in Fids : file[f] # None}
           top   == IF known = {} THEN autoinc ELSE Max(known)
<1>0. autoinc \in 1..(MaxFid + 1) /\ MaxFid \in Nat
  BY FileBoundAssumption DEF FileType, TableType
<1>1. top \in 1..(MaxFid + 1)
  <2>1. CASE known = {}
    BY <1>0, <2>1
  <2>2. CASE known # {}
    <3>1. known \in SUBSET (0..MaxFid)
      BY DEF Fids
    <3>2. Max(known) \in known
      BY <1>0, <2>2, <3>1, MaxExists
    <3> QED BY <1>0, <2>2, <3>1, <3>2 DEF Fids
  <2> QED BY <2>1, <2>2
<1>2. /\ Max({autoinc, top + 1}) \in {autoinc, top + 1}
      /\ Max({autoinc, top + 1}) >= autoinc
  <2> HIDE DEF top
  <2>1. {autoinc, top + 1} \in SUBSET (0..(MaxFid + 2)) /\ MaxFid + 2 \in Nat
    BY <1>0, <1>1
  <2> QED BY <2>1, MaxExists
<1>3. autoinc' = Max({autoinc, top + 1}) /\ autoinc' <= MaxFid + 1
  BY DEF Reseed
<1> QED BY <1>0, <1>1, <1>2, <1>3

\* create_open.
LEMMA OpenTyped ==
  ASSUME FileType, NEW w \in Queryworkers,
         RegisterTempfile(w) \/ FidIsFree(w) \/ FidIsInUse(w) \/ DropColliding(w) \/ Reseed(w)
  PROVE  FileType'
<1> DEFINE c == cmd[w]
<1>0. c \in Command /\ c # None /\ QueryFits(at[w], c) /\ ProcessType /\ TableType /\ WorldType
  BY RunningFits DEF RegisterTempfile, FidIsFree, FidIsInUse, DropColliding, Reseed, Finish, Goto,
                     FileType
<1>1. CASE RegisterTempfile(w)
  <2>1. c.op = "open" /\ c.dev \in Devs /\ c.victim = None /\ autoinc \in Fids
    BY <1>0, <1>1 DEF RegisterTempfile, Goto, QueryFits, OpenSteps, TableType, Fids
  <2>2. PICK e : e = [c EXCEPT !.fid = autoinc]
    OBVIOUS
  <2>3. e \in Command /\ e.op = "open" /\ e.dev \in Devs /\ e.victim = None /\ e.fid \in Fids
    BY <1>0, <2>1, <2>2, FidWritten
  <2>4. QueryFits("fid_in_use", e)
    BY <2>3, CommandIsSome DEF QueryFits, CommandSteps, OpenSteps, StoreSteps, DeleteSteps
  <2>5. cmd' = [cmd EXCEPT ![w] = e]
    BY <1>1, <2>2 DEF RegisterTempfile
  <2>6. ProcessType'
    BY <1>0, <1>1, <2>3, <2>4, <2>5, QueryStepTyped DEF RegisterTempfile, Goto, Steps
  <2>7. TableType'
    BY <1>0, <1>1, <2>1, FileBoundAssumption DEF RegisterTempfile, TableType, Fids
  <2>8. WorldType' /\ RowType'
    BY <1>0, <1>1 DEF RegisterTempfile, FileType, WorldType, RowType, deleterVars
  <2> QED BY <2>6, <2>7, <2>8 DEF FileType
<1>2. CASE FidIsFree(w)
  <2>1. c.fid \in Fids /\ c.dev \in Devs
    BY <1>0, <1>2 DEF FidIsFree, Finish, Goto, QueryFits, OpenSteps
  <2>2. ProcessType'
    BY <1>0, <1>2, FinishTyped DEF FidIsFree
  <2>3. TableType' /\ RowType'
    BY <1>2 DEF FidIsFree, FileType, TableType, tableVars, RowType, deleterVars
  <2>4. WorldType'
    BY <1>0, <1>2, <2>1 DEF FidIsFree, WorldType
  <2> QED BY <2>2, <2>3, <2>4 DEF FileType
<1>3. CASE FidIsInUse(w)
  <2>1. QueryFits("drop_colliding", c)
    BY <1>0, <1>3 DEF FidIsInUse, Goto, QueryFits, CommandSteps, OpenSteps, StoreSteps, DeleteSteps
  <2>2. ProcessType'
    BY <1>0, <1>3, <2>1, GoesOnTyped DEF FidIsInUse, Steps
  <2> QED BY <1>3, <2>2, TablesUntouched, OnlyTablesTyped DEF FidIsInUse, FileType
<1>4. CASE DropColliding(w)
  <2>1. c.op = "open" /\ c.dev \in Devs /\ c.victim = None /\ c.fid \in Fids
    BY <1>0, <1>4 DEF DropColliding, Goto, QueryFits, OpenSteps
  <2>2. PICK e : e = [c EXCEPT !.fid = None]
    OBVIOUS
  <2>3. e \in Command /\ e.op = "open" /\ e.dev \in Devs /\ e.victim = None
    BY <1>0, <2>1, <2>2, FidWritten
  <2>4. QueryFits("reseed", e)
    BY <2>3, CommandIsSome DEF QueryFits, CommandSteps, OpenSteps, StoreSteps, DeleteSteps
  <2>5. cmd' = [cmd EXCEPT ![w] = e]
    BY <1>4, <2>2 DEF DropColliding
  <2>6. ProcessType'
    BY <1>0, <1>4, <2>3, <2>4, <2>5, QueryStepTyped DEF DropColliding, Goto, Steps
  <2>7. TableType'
    BY <1>0, <1>4, <2>1 DEF DropColliding, TableType
  <2> QED BY <1>4, <2>6, <2>7, OnlyTablesTyped DEF DropColliding, FileType
<1>5. CASE Reseed(w)
  <2>3. autoinc' \in 1..(MaxFid + 1)
    BY <1>5, ReseedRaises
  <2>4. TableType'
    BY <1>0, <1>5, <2>3 DEF Reseed, TableType
  <2>5. QueryFits("insert_tempfile", c)
    BY <1>0, <1>5 DEF Reseed, Goto, QueryFits, CommandSteps, OpenSteps, StoreSteps, DeleteSteps
  <2>6. ProcessType'
    BY <1>0, <1>5, <2>5, GoesOnTyped DEF Reseed, Steps
  <2> QED BY <1>5, <2>4, <2>6, OnlyTablesTyped DEF Reseed, FileType
<1> QED BY <1>1, <1>2, <1>3, <1>4, <1>5

\* create_close.
LEMMA CloseTyped ==
  ASSUME FileType, NEW w \in Queryworkers,
         \/ NoTempFile(w) \/ TempfileRow(w) \/ AddAborted(w) \/ FindOld(w)
         \/ SizeMismatch(w) \/ VerifySize(w) \/ AddFididToDevid(w) \/ ReplaceFile(w)
         \/ EnqueueForReplication(w) \/ DeleteTempfileRow(w)
  PROVE  FileType'
<1> DEFINE c == cmd[w]
<1>0. c \in Command /\ c # None /\ QueryFits(at[w], c) /\ ProcessType /\ TableType
  BY RunningFits DEF NoTempFile, TempfileRow, AddAborted, FindOld, SizeMismatch, VerifySize,
       AddFididToDevid, ReplaceFile, EnqueueForReplication, DeleteTempfileRow, Finish, Goto,
       FileType
<1>1. OnlyTables
  BY DEF NoTempFile, TempfileRow, AddAborted, FindOld, SizeMismatch, VerifySize,
         AddFididToDevid, ReplaceFile, EnqueueForReplication, DeleteTempfileRow
<1>2. WorldType' /\ RowType'
  BY <1>1, OnlyTablesTyped
<1>3. at[w] \in StoreSteps \cup {"tempfile_row", "add_aborted"} => c.fid \in Fids /\ c.dev \in Devs
  BY <1>0 DEF QueryFits
<1> USE DEF StoreSteps, CommandSteps, OpenSteps, DeleteSteps
<1>4. CASE NoTempFile(w) \/ SizeMismatch(w)
  <2>1. ProcessType'
    BY <1>0, <1>4, FinishTyped DEF NoTempFile, SizeMismatch
  <2> QED BY <1>2, <1>4, <2>1, TablesUntouched DEF NoTempFile, SizeMismatch, FileType
<1>5. CASE TempfileRow(w)
  <2>1. PICK step : step = IF c.op = "abort" THEN "add_aborted" ELSE "find_old"
    OBVIOUS
  <2>2. QueryFits(step, c)
    BY <1>0, <1>5, <2>1 DEF TempfileRow, Goto, QueryFits
  <2>3. ProcessType'
    BY <1>0, <1>5, <2>1, <2>2, GoesOnTyped DEF TempfileRow, Steps
  <2> QED BY <1>2, <1>5, <2>3, TablesUntouched DEF TempfileRow, FileType
<1>6. CASE AddAborted(w)
  <2>1. PICK e : e = [c EXCEPT !.victim = c.fid]
    OBVIOUS
  <2>2. c.op = "abort" /\ c.fid \in Fids /\ c.dev \in Devs
    BY <1>0, <1>3, <1>6 DEF AddAborted, Goto, QueryFits
  <2>3. e \in Command /\ e.op = "abort" /\ e.fid \in Fids /\ e.dev \in Devs /\ e.victim \in Fids
    BY <1>0, <2>1, <2>2, VictimWritten
  <2>4. QueryFits("delete_file", e)
    BY <2>3, CommandIsSome DEF QueryFits
  <2>5. ProcessType'
    BY <1>0, <1>6, <2>1, <2>3, <2>4, QueryStepTyped DEF AddAborted, Goto, Steps
  <2>6. TableType'
    BY <1>0, <1>6, <2>2 DEF AddAborted, TableType, Places
  <2> QED BY <1>2, <2>5, <2>6 DEF FileType
<1>7. CASE FindOld(w)
  <2>1. c.op = "close" /\ c.fid \in Fids /\ c.dev \in Devs /\ c.key \in Keys
    BY <1>0, <1>3, <1>7 DEF FindOld, Goto, QueryFits
  <2>2. CASE Goto(w, "find_old", "verify_size") /\ UNCHANGED cmd
    <3>1. QueryFits("verify_size", c)
      BY <1>0, <2>1 DEF QueryFits
    <3>2. ProcessType'
      BY <1>0, <2>2, <3>1, GoesOnTyped DEF Steps
    <3> QED BY <1>2, <1>7, <3>2, TablesUntouched DEF FindOld, FileType
  <2>3. CASE /\ Goto(w, "find_old", "delete_file")
             /\ \E f \in Owners(c.key) : cmd' = [cmd EXCEPT ![w].victim = f]
    <3>1. PICK f \in Fids : cmd' = [cmd EXCEPT ![w].victim = f]
      BY <2>3 DEF Owners
    <3>2. PICK e : e = [c EXCEPT !.victim = f]
      OBVIOUS
    <3>3. /\ e \in Command /\ e.op = "close" /\ e.fid \in Fids /\ e.dev \in Devs
          /\ e.key \in Keys /\ e.victim \in Fids
      BY <1>0, <2>1, <3>2, VictimWritten
    <3>4. QueryFits("delete_file", e)
      BY <3>3, CommandIsSome DEF QueryFits
    <3>5. ProcessType'
      BY <1>0, <2>3, <3>1, <3>2, <3>3, <3>4, QueryStepTyped DEF Goto, Steps
    <3> QED BY <1>2, <1>7, <3>5, TablesUntouched DEF FindOld, FileType
  <2> QED BY <1>7, <2>2, <2>3 DEF FindOld
<1>8. CASE VerifySize(w)
  <2>1. QueryFits("add_fidid", c)
    BY <1>0, <1>8 DEF VerifySize, Goto, QueryFits
  <2>2. ProcessType'
    BY <1>0, <1>8, <2>1, GoesOnTyped DEF VerifySize, Steps
  <2> QED BY <1>2, <1>8, <2>2, TablesUntouched DEF VerifySize, FileType
<1>9. CASE AddFididToDevid(w)
  <2>1. QueryFits("replace_file", c)
    BY <1>0, <1>9 DEF AddFididToDevid, Goto, QueryFits
  <2>2. ProcessType'
    BY <1>0, <1>9, <2>1, GoesOnTyped DEF AddFididToDevid, Steps
  <2>3. TableType'
    BY <1>0, <1>3, <1>9 DEF AddFididToDevid, Goto, TableType, Places
  <2> QED BY <1>2, <2>2, <2>3 DEF FileType
<1>10. CASE ReplaceFile(w)
  <2>1. QueryFits("enqueue_replication", c) /\ c.key \in Keys
    BY <1>0, <1>10 DEF ReplaceFile, Goto, QueryFits
  <2>2. ProcessType'
    BY <1>0, <1>10, <2>1, GoesOnTyped DEF ReplaceFile, Steps
  <2>3. TableType'
    BY <1>0, <1>10, <2>1 DEF ReplaceFile, ReplaceIntoFile, TableType
  <2> QED BY <1>2, <2>2, <2>3 DEF FileType
<1>11. CASE EnqueueForReplication(w)
  <2>1. QueryFits("delete_tempfile", c)
    BY <1>0, <1>11 DEF EnqueueForReplication, Goto, QueryFits
  <2>2. ProcessType'
    BY <1>0, <1>11, <2>1, GoesOnTyped DEF EnqueueForReplication, Steps
  <2>3. TableType'
    BY <1>0, <1>3, <1>11 DEF EnqueueForReplication, Goto, TableType
  <2> QED BY <1>2, <2>2, <2>3 DEF FileType
<1>12. CASE DeleteTempfileRow(w)
  <2>1. ProcessType'
    BY <1>0, <1>12, FinishTyped DEF DeleteTempfileRow
  <2>2. TableType'
    BY <1>0, <1>12 DEF DeleteTempfileRow, TableType
  <2> QED BY <1>2, <2>1, <2>2 DEF FileType
<1> QED BY <1>4, <1>5, <1>6, <1>7, <1>8, <1>9, <1>10, <1>11, <1>12

\* delete_fidid, delete and rename.
LEMMA DeleteTyped ==
  ASSUME FileType, NEW w \in Queryworkers,
         \/ DeleteFileRow(w) \/ DeleteFileTemp(w) \/ EnqueueDelete(w)
         \/ UnknownKey(w) \/ FindKey(w) \/ UpdateKey(w)
  PROVE  FileType'
<1> DEFINE c == cmd[w]
<1>0. c \in Command /\ c # None /\ QueryFits(at[w], c) /\ ProcessType /\ TableType
  BY RunningFits DEF DeleteFileRow, DeleteFileTemp, EnqueueDelete, UnknownKey, FindKey, UpdateKey,
                     Finish, Goto, FileType
<1>1. OnlyTables
  BY DEF DeleteFileRow, DeleteFileTemp, EnqueueDelete, UnknownKey, FindKey, UpdateKey
<1>2. WorldType' /\ RowType'
  BY <1>1, OnlyTablesTyped
<1>3. at[w] \in DeleteSteps \cup {"update_key"} => c.victim \in Fids
  BY <1>0 DEF QueryFits
<1> USE DEF StoreSteps, CommandSteps, OpenSteps, DeleteSteps
<1>4. CASE DeleteFileRow(w)
  <2>1. QueryFits("delete_file_temp", c)
    BY <1>0, <1>4 DEF DeleteFileRow, Goto, QueryFits
  <2>2. ProcessType'
    BY <1>0, <1>4, <2>1, GoesOnTyped DEF DeleteFileRow, Steps
  <2>3. TableType'
    BY <1>0, <1>4 DEF DeleteFileRow, TableType
  <2> QED BY <1>2, <2>2, <2>3 DEF FileType
<1>5. CASE DeleteFileTemp(w)
  <2>1. QueryFits("enqueue_delete", c)
    BY <1>0, <1>5 DEF DeleteFileTemp, Goto, QueryFits
  <2>2. ProcessType'
    BY <1>0, <1>5, <2>1, GoesOnTyped DEF DeleteFileTemp, Steps
  <2>3. TableType'
    BY <1>0, <1>5 DEF DeleteFileTemp, TableType
  <2> QED BY <1>2, <2>2, <2>3 DEF FileType
<1>6. CASE EnqueueDelete(w)
  <2>1. TableType'
    BY <1>0, <1>3, <1>6 DEF EnqueueDelete, TableType
  <2>2. CASE c.op = "close"
    <3>1. QueryFits("verify_size", c)
      BY <1>0, <1>6, <2>2 DEF EnqueueDelete, QueryFits
    <3>2. ProcessType'
      BY <1>0, <1>6, <2>2, <3>1, GoesOnTyped DEF EnqueueDelete, Steps
    <3> QED BY <1>2, <2>1, <3>2 DEF FileType
  <2>3. CASE c.op # "close"
    <3>1. ProcessType'
      BY <1>0, <1>6, <2>3, FinishTyped DEF EnqueueDelete
    <3> QED BY <1>2, <2>1, <3>1 DEF FileType
  <2> QED BY <2>2, <2>3
<1>7. CASE UnknownKey(w)
  <2>1. ProcessType'
    BY <1>0, <1>7, FinishTyped DEF UnknownKey
  <2> QED BY <1>2, <1>7, <2>1, TablesUntouched DEF UnknownKey, FileType
<1>8. CASE FindKey(w)
  <2>1. PICK step : step = IF c.op = "delete" THEN "delete_file" ELSE "update_key"
    OBVIOUS
  <2>2. PICK f \in Fids : cmd' = [cmd EXCEPT ![w].victim = f]
    BY <1>8 DEF FindKey, Owners
  <2>3. PICK e : e = [c EXCEPT !.victim = f]
    OBVIOUS
  <2>4. c.op \in {"delete", "rename"} /\ c.key \in Keys /\ (c.op = "rename" => c.to \in Keys)
    BY <1>0, <1>8 DEF FindKey, Goto, QueryFits
  <2>5. e \in Command /\ e.op = c.op /\ e.key = c.key /\ e.to = c.to /\ e.victim \in Fids
    BY <1>0, <2>3, VictimWritten
  <2>6. QueryFits(step, e)
    BY <2>1, <2>4, <2>5, CommandIsSome DEF QueryFits
  <2>7. ProcessType'
    BY <1>0, <1>8, <2>1, <2>2, <2>3, <2>5, <2>6, QueryStepTyped DEF FindKey, Goto, Steps
  <2> QED BY <1>2, <1>8, <2>7, TablesUntouched DEF FindKey, FileType
<1>9. CASE UpdateKey(w)
  <2>1. c.victim \in Fids /\ c.to \in Keys
    BY <1>0, <1>9 DEF UpdateKey, Finish, Goto, QueryFits
  <2>2. ProcessType'
    BY <1>0, <1>9, FinishTyped DEF UpdateKey
  <2>3. TableType'
    BY <1>0, <1>9, <2>1 DEF UpdateKey, TableType
  <2> QED BY <1>2, <2>2, <2>3 DEF FileType
<1> QED BY <1>4, <1>5, <1>6, <1>7, <1>8, <1>9

\* A deleter goes on with its row, or to a statement that is about no row.
LEMMA DeleterGoesOnTyped ==
  ASSUME ProcessType, NEW w \in Deleters, NEW from, NEW step \in RoundSteps, Goto(w, from, step),
         \/ UNCHANGED cmd
         \/ cmd' = [cmd EXCEPT ![w] = None],
         \/ step \notin RowSteps \cup {"drop_row"}
         \/ UNCHANGED cmd /\ from \in RowSteps
  PROVE  ProcessType'
<1>1. PICK c \in Command \cup {None} : cmd' = [cmd EXCEPT ![w] = c] /\ DeleterFits(step, c)
  <2>1. cmd[w] \in Command \cup {None} /\ DeleterFits(at[w], cmd[w]) /\ at[w] = from
    BY DEF ProcessType, Goto
  <2>2. CASE UNCHANGED cmd
    <3>1. cmd' = [cmd EXCEPT ![w] = cmd[w]]
      BY <2>2 DEF ProcessType
    <3>2. DeleterFits(step, cmd[w])
      BY <2>1, <2>2 DEF DeleterFits
    <3> QED BY <2>1, <3>1, <3>2
  <2>3. CASE cmd' = [cmd EXCEPT ![w] = None] /\ cmd' # cmd
    <3>1. DeleterFits(step, None)
      BY <2>3 DEF DeleterFits
    <3> QED BY <2>3, <3>1
  <2> QED BY <2>2, <2>3
<1>2. step \in Steps /\ at' = [at EXCEPT ![w] = step]
  BY DEF RoundSteps, RowSteps, Steps, Goto
<1> QED BY <1>1, <1>2, DeleterStepTyped

LEMMA RestartsTyped ==
  ASSUME FileType, NEW w \in Deleters, Restarts(w)
  PROVE  ProcessType' /\ RowType'
<1>1. DeleterFits("old_tempfiles", None) /\ "old_tempfiles" \in Steps
  BY DEF DeleterFits, RoundSteps, RowSteps, Steps
<1>2. ProcessType'
  BY <1>1, DeleterStepTyped DEF FileType, Restarts
<1> QED BY <1>2 DEF FileType, RowType, Restarts

\* A deleter takes a row.
LEMMA RowTakenTyped ==
  ASSUME ProcessType, NEW w \in Deleters, NEW from, NEW step \in RoundSteps, Goto(w, from, step),
         NEW p \in Fids \X (Devs \cup {None}), cmd' = [cmd EXCEPT ![w] = Row(p)]
  PROVE  ProcessType'
<1>1. Row(p) \in Command /\ Row(p) # None /\ Row(p).fid \in Fids
  BY RowIsCommand, CommandIsSome
<1>2. DeleterFits(step, Row(p)) /\ step \in Steps
  BY <1>1 DEF DeleterFits, RoundSteps, RowSteps, Steps
<1>3. at' = [at EXCEPT ![w] = step]
  BY DEF Goto
<1> QED BY <1>1, <1>2, <1>3, DeleterStepTyped

LEMMA FidsAreFids ==
  ASSUME NEW X, NEW R \in SUBSET (Fids \X X)
  PROVE  /\ FidsOf(R) \subseteq Fids
         /\ \A f \in FidsOf(R) : \E p \in R : p[1] = f /\ p = <<f, p[2]>>
BY DEF FidsOf

LEMMA NotTheDeletersTyped ==
  ASSUME FileType, NotTheDeleters
  PROVE  /\ disk' \subseteq Places => WorldType'
         /\ UNCHANGED <<rows, purge>> => RowType'
BY DEF FileType, NotTheDeleters, WorldType, clientVars, RowType

\* process_tempfiles.
LEMMA TempfilesTyped ==
  ASSUME FileType, TempfileRows, NEW w \in Deleters,
         \/ OldTempfiles(w) \/ RowExists(w) \/ DropRow(w) \/ NothingToPurge(w)
         \/ MassInsertFileOn(w) \/ EnqueuePurge(w) \/ DeletePurged(w)
  PROVE  FileType'
<1>0. /\ ProcessType /\ TableType /\ RowType /\ disk \subseteq Places
      /\ rows[w] \subseteq Fids \X (Devs \cup {None}) /\ purge[w] \subseteq Places
  BY DEF FileType, WorldType, RowType
<1> USE DEF RoundSteps, RowSteps
<1>1. CASE OldTempfiles(w)
  <2> DEFINE found == {p \in Places : p[1] \in old /\ p[2] \in tempfile[p[1]]}
  <2>1. PICK step \in RoundSteps :
          Goto(w, "old_tempfiles", step) /\ step \notin RowSteps \cup {"drop_row"}
    BY <1>1 DEF OldTempfiles
  <2>2. ProcessType'
    BY <1>0, <1>1, <2>1, DeleterGoesOnTyped DEF OldTempfiles
  <2>3. RowType'
    BY <1>0, <1>1 DEF OldTempfiles, RowType, Places
  <2> QED BY <1>0, <1>1, <2>2, <2>3, TablesUntouched, NotTheDeletersTyped
             DEF OldTempfiles, FileType
<1>2. CASE RowExists(w)
  <2>1. PICK f \in FidsOf(rows[w]) :
          /\ \/ /\ file[f] # None
                /\ Goto(w, "row_exists", "drop_row")
                /\ cmd' = [cmd EXCEPT ![w] = Row(<<f, None>>)]
                /\ UNCHANGED purge
             \/ /\ file[f] = None
                /\ at[w] = "row_exists" /\ UNCHANGED <<at, cmd>>
                /\ purge' = [purge EXCEPT ![w] = @ \cup RowsOf(rows[w], f)]
          /\ rows' = [rows EXCEPT ![w] = @ \ RowsOf(@, f)]
    BY <1>2 DEF RowExists
  <2>2. UNCHANGED tableVars /\ UNCHANGED disk /\ NotTheDeleters
    BY <1>2 DEF RowExists
  <2>3. f \in Fids
    BY <1>0, FidsAreFids
  <2>4. ProcessType'
    <3>1. CASE UNCHANGED <<at, cmd>>
      BY <1>0, <3>1 DEF ProcessType
    <3>2. CASE /\ Goto(w, "row_exists", "drop_row")
               /\ cmd' = [cmd EXCEPT ![w] = Row(<<f, None>>)]
      BY <1>0, <2>3, <3>2, RowTakenTyped
    <3> QED BY <2>1, <3>1, <3>2
  <2>5. RowType'
    <3>1. RowsOf(rows[w], f) \subseteq Places
      BY <2>1 DEF RowsOf, TempfileRows, Goto
    <3> QED BY <1>0, <2>1, <3>1 DEF RowType
  <2> QED BY <1>0, <2>2, <2>4, <2>5, TablesUntouched, NotTheDeletersTyped DEF FileType
<1>3. CASE DropRow(w)
  <2>1. ProcessType'
    BY <1>0, <1>3, DeleterGoesOnTyped DEF DropRow
  <2>2. TableType'
    BY <1>0, <1>3 DEF DropRow, TableType
  <2> QED BY <1>0, <1>3, <2>1, <2>2, NotTheDeletersTyped DEF DropRow, deleterVars, FileType
<1>4. CASE NothingToPurge(w)
  BY <1>0, <1>4, RestartsTyped, TablesUntouched, NotTheDeletersTyped DEF NothingToPurge, FileType
<1>5. CASE MassInsertFileOn(w)
  <2>1. ProcessType'
    BY <1>0, <1>5, DeleterGoesOnTyped DEF MassInsertFileOn
  <2>2. TableType'
    BY <1>0, <1>5 DEF MassInsertFileOn, TableType
  <2> QED BY <1>0, <1>5, <2>1, <2>2, NotTheDeletersTyped DEF MassInsertFileOn, deleterVars, FileType
<1>6. CASE EnqueuePurge(w)
  <2>1. ProcessType'
    BY <1>0, <1>6, DeleterGoesOnTyped DEF EnqueuePurge
  <2>2. TableType'
    BY <1>0, <1>6, FidsAreFids DEF EnqueuePurge, TableType, Places
  <2> QED BY <1>0, <1>6, <2>1, <2>2, NotTheDeletersTyped DEF EnqueuePurge, deleterVars, FileType
<1>7. CASE DeletePurged(w)
  <2>1. ProcessType'
    BY <1>0, <1>7, DeleterGoesOnTyped DEF DeletePurged
  <2>2. TableType'
    BY <1>0, <1>7 DEF DeletePurged, TableType
  <2>3. RowType'
    BY <1>0, <1>7 DEF DeletePurged, RowType
  <2> QED BY <1>0, <1>7, <2>1, <2>2, <2>3, NotTheDeletersTyped DEF DeletePurged, FileType
<1> QED BY <1>1, <1>2, <1>3, <1>4, <1>5, <1>6, <1>7

\* reenqueue_delayed_deletes and process_deletes.
LEMMA DeletesTyped ==
  ASSUME FileType, NEW w \in Deleters,
         \/ (\E due \in SUBSET later : FidsToDeleteAgain(w, due)) \/ Reenqueue(w) \/ DeleteLater(w)
         \/ SelectDeletes(w)
         \/ \E p \in Fids \X (Devs \cup {None}) :
              \/ NoMoreLocations(w, p) \/ DeviceIsDead(w, p) \/ DeviceAnswers(w, p)
              \/ DeviceRefuses(w, p) \/ RowSkipped(w, p)
         \/ EndOfBatch(w) \/ HttpDelete(w) \/ AnswerLost(w)
         \/ RemoveFileOn(w) \/ Reschedule(w) \/ RemoveFid(w)
  PROVE  FileType'
<1>0. /\ ProcessType /\ TableType /\ RowType /\ disk \subseteq Places
      /\ rows[w] \subseteq Fids \X (Devs \cup {None}) /\ later \subseteq Fids
      /\ DeleterFits(at[w], cmd[w])
  BY DEF FileType, WorldType, TableType, RowType, ProcessType
<1> USE DEF RoundSteps, RowSteps
<1>1. CASE \E due \in SUBSET later : FidsToDeleteAgain(w, due)
  <2>1. PICK due \in SUBSET later : FidsToDeleteAgain(w, due)
    BY <1>1
  <2>2. PICK step \in RoundSteps :
          Goto(w, "fids_to_delete_again", step) /\ step \notin RowSteps \cup {"drop_row"}
    BY <2>1 DEF FidsToDeleteAgain
  <2>3. ProcessType'
    BY <1>0, <2>1, <2>2, DeleterGoesOnTyped DEF FidsToDeleteAgain
  <2>4. RowType'
    BY <1>0, <2>1 DEF FidsToDeleteAgain, RowType
  <2> QED BY <1>0, <2>1, <2>3, <2>4, TablesUntouched, NotTheDeletersTyped
             DEF FidsToDeleteAgain, FileType
<1>2. CASE Reenqueue(w)
  <2>1. ProcessType'
    BY <1>0, <1>2, DeleterGoesOnTyped DEF Reenqueue
  <2>2. TableType'
    BY <1>0, <1>2, FidsAreFids DEF Reenqueue, TableType
  <2> QED BY <1>0, <1>2, <2>1, <2>2, NotTheDeletersTyped DEF Reenqueue, deleterVars, FileType
<1>3. CASE DeleteLater(w)
  <2>1. ProcessType'
    BY <1>0, <1>3, DeleterGoesOnTyped DEF DeleteLater
  <2>2. TableType'
    BY <1>0, <1>3 DEF DeleteLater, TableType
  <2>3. RowType'
    BY <1>0, <1>3 DEF DeleteLater, RowType
  <2> QED BY <1>0, <1>3, <2>1, <2>2, <2>3, NotTheDeletersTyped DEF DeleteLater, FileType
<1>4. CASE SelectDeletes(w)
  <2>1. PICK step \in RoundSteps :
          Goto(w, "select_deletes", step) /\ step \notin RowSteps \cup {"drop_row"}
    BY <1>4 DEF SelectDeletes
  <2>2. ProcessType'
    BY <1>0, <1>4, <2>1, DeleterGoesOnTyped DEF SelectDeletes
  <2>3. Joined \subseteq Fids \X (Devs \cup {None})
    BY <1>0 DEF Joined, Places, TableType
  <2>4. RowType'
    BY <1>0, <1>4, <2>3 DEF SelectDeletes, RowType
  <2> QED BY <1>0, <1>4, <2>2, <2>4, TablesUntouched, NotTheDeletersTyped
             DEF SelectDeletes, FileType
<1>5. ASSUME NEW p \in Fids \X (Devs \cup {None}), NEW step \in RowSteps \cup {"next_row"},
             NextRow(w, p, step)
      PROVE  FileType'
  <2>1. ProcessType'
    <3>1. CASE step = "next_row"
      BY <1>0, <1>5, <3>1, DeleterGoesOnTyped DEF NextRow
    <3>2. CASE step # "next_row"
      BY <1>0, <1>5, <3>2, RowTakenTyped DEF NextRow
    <3> QED BY <3>1, <3>2
  <2>2. RowType'
    BY <1>0, <1>5 DEF NextRow, RowType
  <2> QED BY <1>0, <1>5, <2>1, <2>2, TablesUntouched, NotTheDeletersTyped DEF NextRow, FileType
<1>6. CASE EndOfBatch(w)
  <2>1. ProcessType'
    BY <1>0, <1>6, DeleterGoesOnTyped DEF EndOfBatch
  <2> QED BY <1>0, <1>6, <2>1, TablesUntouched, NotTheDeletersTyped
             DEF EndOfBatch, deleterVars, FileType
<1>7. CASE HttpDelete(w)
  <2>1. ProcessType'
    BY <1>0, <1>7, DeleterGoesOnTyped DEF HttpDelete
  <2> QED BY <1>0, <1>7, <2>1, TablesUntouched, NotTheDeletersTyped
             DEF HttpDelete, deleterVars, FileType
<1>8. CASE AnswerLost(w)
  <2>1. ProcessType'
    BY <1>0, <1>8, DeleterGoesOnTyped DEF AnswerLost
  <2> QED BY <1>0, <1>8, <2>1, TablesUntouched, NotTheDeletersTyped
             DEF AnswerLost, deleterVars, FileType
<1>9. CASE RemoveFileOn(w)
  <2>1. ProcessType'
    BY <1>0, <1>9, DeleterGoesOnTyped DEF RemoveFileOn
  <2>2. TableType'
    BY <1>0, <1>9 DEF RemoveFileOn, TableType
  <2> QED BY <1>0, <1>9, <2>1, <2>2, NotTheDeletersTyped DEF RemoveFileOn, deleterVars, FileType
<1>10. CASE Reschedule(w)
  <2>1. ProcessType'
    BY <1>0, <1>10, DeleterGoesOnTyped DEF Reschedule
  <2>2. cmd[w].fid \in Fids
    BY <1>0, <1>10 DEF Reschedule, Goto, DeleterFits
  <2>3. TableType'
    BY <1>0, <1>10, <2>2 DEF Reschedule, TableType
  <2> QED BY <1>0, <1>10, <2>1, <2>3, NotTheDeletersTyped DEF Reschedule, deleterVars, FileType
<1>11. CASE RemoveFid(w)
  <2>1. ProcessType'
    BY <1>0, <1>11, DeleterGoesOnTyped DEF RemoveFid
  <2>2. TableType'
    BY <1>0, <1>11 DEF RemoveFid, TableType
  <2> QED BY <1>0, <1>11, <2>1, <2>2, NotTheDeletersTyped DEF RemoveFid, deleterVars, FileType
<1>12. CASE \E p \in Fids \X (Devs \cup {None}) :
              \/ NoMoreLocations(w, p) \/ DeviceIsDead(w, p) \/ DeviceAnswers(w, p)
              \/ DeviceRefuses(w, p) \/ RowSkipped(w, p)
  BY <1>5, <1>12 DEF NoMoreLocations, DeviceIsDead, DeviceAnswers, DeviceRefuses, RowSkipped
<1> QED BY <1>1, <1>2, <1>3, <1>4, <1>6, <1>7, <1>8, <1>9, <1>10, <1>11, <1>12

LEMMA WorldTyped ==
  ASSUME FileType, World
  PROVE  FileType'
<1>0. ProcessType /\ TableType /\ WorldType /\ RowType
  BY DEF FileType
<1> USE FileBoundAssumption
<1>1. CASE \E f \in Fids : Age(f)
  <2>1. PICK f \in Fids : Age(f)
    BY <1>1
  <2> QED BY <1>0, <2>1 DEF Age, FileType, ProcessType, TableType, WorldType, RowType, tableVars,
                            deleterVars
<1>2. CASE \E f \in Fids : \E d \in Devs : Upload(f, d)
  BY <1>0, <1>2 DEF Upload, FileType, ProcessType, TableType, WorldType, RowType, tableVars,
                    clientVars, deleterVars, Places
<1>3. CASE \E d \in Devs : MarkDead(d)
  BY <1>0, <1>3 DEF MarkDead, FileType, ProcessType, TableType, WorldType, RowType, tableVars,
                    clientVars, deleterVars
<1>4. ASSUME NEW who \in {"query", "other"}, CountDeath(who)
      PROVE  deaths' \in [query : 0..MaxDeaths, other : 0..MaxDeaths]
  BY <1>0, <1>4 DEF CountDeath, WorldType
<1>5. CASE DbRestart
  <2> DEFINE used == {0} \cup {f \in Fids : tempfile[f] # {}}
  <2>1. Max(used) \in 0..MaxFid
    <3>1. used \in SUBSET (0..MaxFid) /\ used # {} /\ MaxFid \in Nat
      BY DEF Fids
    <3> HIDE DEF used
    <3> QED BY <3>1, MaxExists
  <2>2. autoinc' \in 1..(MaxFid + 1)
    BY <1>5, <2>1 DEF DbRestart
  <2> QED BY <1>0, <1>4, <1>5, <2>2 DEF DbRestart, FileType, ProcessType, TableType, WorldType,
                                        RowType, clientVars, deleterVars
<1>6. CASE \E w \in Queryworkers : QueryworkerDies(w)
  <2>1. PICK w \in Queryworkers : QueryworkerDies(w)
    BY <1>6
  <2>2. cmd[w] \in Command /\ QueryFits(at[w], cmd[w])
    BY <1>0, <2>1 DEF QueryworkerDies, ProcessType
  <2>3. ProcessType'
    <3>1. CASE /\ at' = [at EXCEPT ![w] = FirstStep(cmd[w].op)]
               /\ cmd' = [cmd EXCEPT ![w].victim = None]
      <4>1. PICK e : e = [cmd[w] EXCEPT !.victim = None]
        OBVIOUS
      <4>2. /\ e \in Command /\ e.op = cmd[w].op /\ e.key = cmd[w].key /\ e.to = cmd[w].to
            /\ e.dev = cmd[w].dev /\ e.fid = cmd[w].fid /\ e.victim = None
        BY <2>2, <4>1, VictimWritten
      <4>3. PICK step : step = FirstStep(e.op)
        OBVIOUS
      <4>4. /\ e.op \in {"open", "close", "abort", "delete", "rename"}
            /\ step \in {"insert_tempfile", "tempfile_row", "find_key"}
            /\ step = "insert_tempfile" <=> e.op = "open"
            /\ step = "tempfile_row" <=> e.op \in {"close", "abort"}
        BY <2>1, <2>2, <4>2, <4>3, CommandFields DEF QueryFits, FirstStep, QueryworkerDies
      <4>5. QueryFits(step, e)
        BY <2>1, <2>2, <4>2, <4>4, CommandIsSome
           DEF QueryFits, QueryworkerDies, CommandSteps, OpenSteps, StoreSteps, DeleteSteps
      <4>6. step \in Steps /\ at' = [at EXCEPT ![w] = step] /\ cmd' = [cmd EXCEPT ![w] = e]
        BY <3>1, <4>1, <4>2, <4>3, <4>4 DEF Steps
      <4> QED BY <1>0, <4>2, <4>5, <4>6, QueryStepTyped
    <3>2. CASE at' = [at EXCEPT ![w] = "idle"] /\ cmd' = [cmd EXCEPT ![w] = None]
      <4>1. QueryFits("idle", None) /\ "idle" \in Steps
        BY DEF QueryFits, Steps
      <4> QED BY <1>0, <3>2, <4>1, QueryStepTyped
    <3> QED BY <2>1, <3>1, <3>2 DEF QueryworkerDies
  <2> QED BY <1>0, <1>4, <2>1, <2>3 DEF QueryworkerDies, FileType, TableType, WorldType, RowType,
                                        tableVars, clientVars, deleterVars
<1>7. CASE \E w \in Deleters : DeleterDies(w)
  <2>1. PICK w \in Deleters : DeleterDies(w)
    BY <1>7
  <2>2. ProcessType' /\ RowType'
    BY <2>1, RestartsTyped DEF DeleterDies
  <2> QED BY <1>0, <1>4, <2>1, <2>2 DEF DeleterDies, FileType, TableType, WorldType, tableVars,
                                        clientVars
<1> QED BY <1>1, <1>2, <1>3, <1>5, <1>6, <1>7 DEF World

--------------------------------------------------------------------------------
\* What a process leaves alone

\* A query worker writes its own locals, and nothing that is the deleters'.
LEMMA QueryFrame ==
  ASSUME FileType, NEW w \in Queryworkers,
         StartCommand(w) \/ RunCommand(w) \/ QueryworkerDies(w)
  PROVE  /\ UNCHANGED <<later, disk, dead, deleterVars>>
         /\ \A v \in Workers \ {w} : at'[v] = at[v] /\ cmd'[v] = cmd[v]
<1>1. /\ UNCHANGED <<later, disk, dead, deleterVars>>
      /\ \E step : at' = [at EXCEPT ![w] = step]
      /\ UNCHANGED cmd \/ \E c : cmd' = [cmd EXCEPT ![w] = c]
  <2>1. CASE StartCommand(w)
    BY <2>1 DEF StartCommand, CreateOpen, CreateClose, DeleteKey, Rename, Begin, tableVars
  <2>2. CASE RegisterTempfile(w) \/ FidIsFree(w) \/ FidIsInUse(w) \/ DropColliding(w) \/ Reseed(w)
    BY <2>2 DEF RegisterTempfile, FidIsFree, FidIsInUse, DropColliding, Reseed, Finish, Goto,
                OnlyTables, tableVars
  <2>3. CASE \/ NoTempFile(w) \/ TempfileRow(w) \/ AddAborted(w) \/ FindOld(w)
             \/ SizeMismatch(w) \/ VerifySize(w) \/ AddFididToDevid(w) \/ ReplaceFile(w)
             \/ EnqueueForReplication(w) \/ DeleteTempfileRow(w)
    BY <2>3 DEF NoTempFile, TempfileRow, AddAborted, FindOld, SizeMismatch, VerifySize,
                AddFididToDevid, ReplaceFile, EnqueueForReplication, DeleteTempfileRow,
                Finish, Goto, OnlyTables, tableVars
  <2>4. CASE \/ DeleteFileRow(w) \/ DeleteFileTemp(w) \/ EnqueueDelete(w)
             \/ UnknownKey(w) \/ FindKey(w) \/ UpdateKey(w)
    BY <2>4 DEF DeleteFileRow, DeleteFileTemp, EnqueueDelete, UnknownKey, FindKey, UpdateKey,
                Finish, Goto, OnlyTables, tableVars
  <2>5. CASE QueryworkerDies(w)
    BY <2>5 DEF QueryworkerDies, tableVars
  <2> QED BY <2>1, <2>2, <2>3, <2>4, <2>5 DEF RunCommand
<1> QED BY <1>1 DEF FileType, ProcessType

\* A deleter writes its own locals, and of the rest deletion queues, file_on and the disks;
\* rows of tempfile only go.
LEMMA DeleterFrame ==
  ASSUME FileType, NEW w \in Deleters, RunDeleter(w) \/ DeleterDies(w)
  PROVE  /\ UNCHANGED <<file, autoinc, torepl, dead, opened, old, commands>>
         /\ \A f \in Fids : tempfile'[f] # {} => tempfile'[f] = tempfile[f]
         /\ \A v \in Workers \ {w} : at'[v] = at[v] /\ cmd'[v] = cmd[v]
         /\ \A v \in Deleters \ {w} : rows'[v] = rows[v] /\ purge'[v] = purge[v]
<1>1. /\ UNCHANGED <<file, autoinc, torepl, dead, opened, old, commands>>
      /\ UNCHANGED at \/ \E step : at' = [at EXCEPT ![w] = step]
      /\ UNCHANGED cmd \/ \E c : cmd' = [cmd EXCEPT ![w] = c]
      /\ UNCHANGED rows \/ \E R : rows' = [rows EXCEPT ![w] = R]
      /\ UNCHANGED purge \/ \E P : purge' = [purge EXCEPT ![w] = P]
      /\ \/ UNCHANGED tempfile
         \/ \E f \in Fids : tempfile' = [tempfile EXCEPT ![f] = {}]
         \/ \E F : tempfile' = [f \in Fids |-> IF f \in F THEN {} ELSE tempfile[f]]
  <2>1. CASE OldTempfiles(w) \/ RowExists(w) \/ NothingToPurge(w) \/ MassInsertFileOn(w)
             \/ EnqueuePurge(w) \/ DeletePurged(w)
    BY <2>1 DEF OldTempfiles, RowExists, NothingToPurge, MassInsertFileOn, EnqueuePurge,
                DeletePurged, Restarts, Goto, NotTheDeleters, tableVars, clientVars, deleterVars
  <2>2. CASE DropRow(w)
    <3>1. cmd[w].fid \in Fids
      BY <2>2 DEF DropRow, Goto, FileType, ProcessType, DeleterFits
    <3> QED BY <2>2, <3>1 DEF DropRow, Goto, NotTheDeleters, clientVars, deleterVars
  <2>3. CASE \/ (\E due \in SUBSET later : FidsToDeleteAgain(w, due)) \/ Reenqueue(w)
             \/ DeleteLater(w) \/ SelectDeletes(w) \/ EndOfBatch(w)
    BY <2>3 DEF FidsToDeleteAgain, Reenqueue, DeleteLater, SelectDeletes, EndOfBatch, Goto,
                NotTheDeleters, tableVars, clientVars, deleterVars
  <2>4. CASE \E p \in Fids \X (Devs \cup {None}) :
               \/ NoMoreLocations(w, p) \/ DeviceIsDead(w, p) \/ DeviceAnswers(w, p)
               \/ DeviceRefuses(w, p) \/ RowSkipped(w, p)
    BY <2>4 DEF NoMoreLocations, DeviceIsDead, DeviceAnswers, DeviceRefuses, RowSkipped, NextRow,
                Goto, NotTheDeleters, tableVars, clientVars
  <2>5. CASE \/ HttpDelete(w) \/ AnswerLost(w) \/ RemoveFileOn(w) \/ Reschedule(w)
             \/ RemoveFid(w) \/ DeleterDies(w)
    BY <2>5 DEF HttpDelete, AnswerLost, RemoveFileOn, Reschedule, RemoveFid, DeleterDies, Restarts,
                Goto, NotTheDeleters, tableVars, clientVars, deleterVars
  <2> QED BY <2>1, <2>2, <2>3, <2>4, <2>5 DEF RunDeleter
<1> QED BY <1>1 DEF FileType, ProcessType, TableType, RowType

\* What is neither a query worker nor a deleter writes nobody's locals.
LEMMA OutsideFrame ==
  ASSUME FileType,
         \/ \E f \in Fids : Age(f) \/ \E d \in Devs : Upload(f, d)
         \/ \E d \in Devs : MarkDead(d)
         \/ DbRestart
  PROVE  UNCHANGED <<file, tempfile, on, torepl, todelete, later, at, cmd, rows, purge, commands>>
BY DEF Age, Upload, MarkDead, DbRestart, tableVars, deleterVars

LEMMA TempfileRowsStep ==
  ASSUME FileType, TempfileRows, FileNext
  PROVE  TempfileRows'
<1>1. CASE \E w \in Queryworkers : StartCommand(w) \/ RunCommand(w) \/ QueryworkerDies(w)
  BY <1>1, QueryFrame, ProcessAssumption DEF TempfileRows, deleterVars
<1>2. CASE \E w \in Deleters : RunDeleter(w) \/ DeleterDies(w)
  <2>1. PICK w \in Deleters : RunDeleter(w) \/ DeleterDies(w)
    BY <1>2
  <2>2. \A v \in Deleters \ {w} : at'[v] = at[v] /\ rows'[v] = rows[v]
    BY <2>1, DeleterFrame
  <2>3. ASSUME at'[w] \in {"row_exists", "drop_row"} PROVE rows'[w] \subseteq Places
    <3>0. at \in [Workers -> Steps] /\ rows \in [Deleters -> SUBSET (Fids \X (Devs \cup {None}))]
      BY DEF FileType, ProcessType, RowType
    <3>1. CASE OldTempfiles(w) \/ RowExists(w) \/ DropRow(w) \/ NothingToPurge(w)
                 \/ MassInsertFileOn(w) \/ EnqueuePurge(w) \/ DeletePurged(w)
      BY <2>3, <3>0, <3>1 DEF OldTempfiles, RowExists, DropRow, NothingToPurge, MassInsertFileOn,
           EnqueuePurge, DeletePurged, Restarts, Goto, TempfileRows, deleterVars
    <3>2. CASE \/ (\E due \in SUBSET later : FidsToDeleteAgain(w, due)) \/ Reenqueue(w)
               \/ DeleteLater(w) \/ SelectDeletes(w) \/ EndOfBatch(w)
               \/ HttpDelete(w) \/ AnswerLost(w) \/ RemoveFileOn(w) \/ Reschedule(w)
               \/ RemoveFid(w) \/ DeleterDies(w)
      BY <2>3, <3>0, <3>2 DEF FidsToDeleteAgain, Reenqueue, DeleteLater, SelectDeletes, EndOfBatch,
           HttpDelete, AnswerLost, RemoveFileOn, Reschedule, RemoveFid, DeleterDies, Restarts, Goto
    <3>3. CASE \E p \in Fids \X (Devs \cup {None}) :
                 \/ NoMoreLocations(w, p) \/ DeviceIsDead(w, p) \/ DeviceAnswers(w, p)
                 \/ DeviceRefuses(w, p) \/ RowSkipped(w, p)
      BY <2>3, <3>0, <3>3 DEF NoMoreLocations, DeviceIsDead, DeviceAnswers, DeviceRefuses,
           RowSkipped, NextRow, Goto
    <3> QED BY <2>1, <3>1, <3>2, <3>3 DEF RunDeleter
  <2> QED BY <2>2, <2>3 DEF TempfileRows
<1>3. CASE \/ \E f \in Fids : Age(f) \/ \E d \in Devs : Upload(f, d)
           \/ \E d \in Devs : MarkDead(d)
           \/ DbRestart
  BY <1>3, OutsideFrame DEF TempfileRows
<1> QED BY <1>1, <1>2, <1>3 DEF FileNext, World

LEMMA StepTyped ==
  ASSUME FileType, TempfileRows, [FileNext]_fileVars
  PROVE  FileType' /\ TempfileRows'
<1>1. CASE UNCHANGED fileVars
  BY <1>1 DEF fileVars, tableVars, clientVars, deleterVars, FileType, TempfileRows,
              TableType, WorldType, RowType, ProcessType
<1>2. CASE FileNext
  <2>1. FileType'
    BY <1>2, StartTyped, OpenTyped, CloseTyped, DeleteTyped, TempfilesTyped, DeletesTyped,
       WorldTyped DEF FileNext, RunCommand, RunDeleter
  <2> QED BY <1>2, <2>1, TempfileRowsStep
<1> QED BY <1>1, <1>2

\* The types say what FileTypeOK says.
LEMMA TypesAreOK == FileType => FileTypeOK
BY DEF FileType, TableType, WorldType, RowType, ProcessType, QueryFits, DeleteSteps, FileTypeOK

\* FileTypeOK holds in every environment: whatever statements are interleaved and wherever
\* processes die, a command that deletes or renames has found a fid to do it to, and the
\* AUTO_INCREMENT counter stays within the bound although the database may set it back.
THEOREM FileTyped == FileSpec => []FileTypeOK
<1>1. FileInit => FileType /\ TempfileRows
  BY InitTyped DEF FileInit, TempfileRows
<1>2. FileType /\ TempfileRows /\ [FileNext]_fileVars => (FileType /\ TempfileRows)'
  BY StepTyped
<1> QED BY <1>1, <1>2, TypesAreOK, PTL DEF FileSpec


-------------------------------------------------------------------------------
\* No file that is alive is deleted, and none that is dead forgotten.

\* Clients are not slow, commands are not started over, the counter is not lost.
Orderly == Environment \subseteq {"same_key", "abandon", "renames"}

\* A step of such a world; other environments have them, too.
Calm ==
  /\ "slow" \notin Environment
  /\ ~DbRestart
  /\ \A w \in Queryworkers : QueryworkerDies(w) => cmd'[w] = None

Holds(w, f) == cmd[w] # None /\ cmd[w].fid = f

\* A process that may still give the file a key.
MayStore(w) == cmd[w].op # "abort" /\ at[w] \notin {"enqueue_replication", "delete_tempfile"}

\* Nobody will give the file a key (again).
Over(f) ==
  /\ f < autoinc /\ opened[f] = {}
  /\ \A w \in Queryworkers : Holds(w, f) => ~MayStore(w)

Gone(f) == ~Live(f) /\ Over(f)

\* A fid is new, or a client has it to write to, or one process works at it.
OneHolder ==
  /\ \A f \in Fids : opened[f] # {} \/ tempfile[f] # {} => f < autoinc
  /\ \A w \in Queryworkers, f \in Fids : Holds(w, f) =>
       /\ f < autoinc /\ opened[f] = {}
       /\ \A v \in Queryworkers : Holds(v, f) => v = w
  /\ \A f \in old : f < autoinc /\ opened[f] = {} /\ \A w \in Queryworkers : ~Holds(w, f)

\* The file a command deletes or renames.
VictimsOver ==
  \A w \in Queryworkers, f \in Fids : cmd[w] # None /\ cmd[w].victim = f =>
    /\ Over(f)
    /\ at[w] \in {"delete_file_temp", "enqueue_delete"} => ~Live(f)

\* What deleters have in hand.
RowsGone ==
  \A w \in Deleters :
    /\ at[w] \in {"row_exists", "drop_row"} => FidsOf(rows[w]) \subseteq old
    /\ at[w] \in {"reenqueue", "delete_later", "next_row"} \cup RowSteps =>
         \A f \in FidsOf(rows[w]) : Gone(f)
    /\ at[w] \in RowSteps => Gone(cmd[w].fid)
    /\ \A f \in FidsOf(purge[w]) : Gone(f)

QueuesGone == \A f \in todelete \cup later : Gone(f)

LivesAreOver == \A f \in Fids : Live(f) => Over(f)

\* What create_close has verified and recorded.
Verified ==
  \A w \in Queryworkers :
    /\ at[w] \in {"add_fidid", "replace_file"} => <<cmd[w].fid, cmd[w].dev>> \in disk
    /\ at[w] = "replace_file" => <<cmd[w].fid, cmd[w].dev>> \in on

DoomInv == FileType /\ TempfileRows /\ OneHolder /\ VictimsOver /\ RowsGone /\ QueuesGone /\ LivesAreOver

--------------------------------------------------------------------------------
\* What a step does to who holds which fid

USE DEF Workers

\* The process goes on with its command, or ends it.
Keeps(w) ==
  /\ UNCHANGED <<opened, autoinc, old>>
  /\ \A f \in Fids : tempfile'[f] # {} => tempfile[f] # {}
  /\ \A f \in Fids : Holds(w, f)' => Holds(w, f) /\ (MayStore(w)' => MayStore(w))

\* Nobody begins, ends or goes on with a command.
NobodysTurn ==
  /\ UNCHANGED <<opened, autoinc, old>>
  /\ \A f \in Fids : tempfile'[f] # {} => tempfile[f] # {}
  /\ \A w \in Queryworkers : at'[w] = at[w] /\ cmd'[w] = cmd[w]

LEMMA CloseKeeps ==
  ASSUME FileType, NEW w \in Queryworkers,
         \/ NoTempFile(w) \/ TempfileRow(w) \/ AddAborted(w) \/ FindOld(w)
         \/ SizeMismatch(w) \/ VerifySize(w) \/ AddFididToDevid(w) \/ ReplaceFile(w)
         \/ EnqueueForReplication(w) \/ DeleteTempfileRow(w)
  PROVE  Keeps(w)
<1> DEFINE c == cmd[w]
<1>0. /\ c \in Command /\ c # None /\ w \in Workers
      /\ at \in [Workers -> Steps] /\ cmd \in [Workers -> Command \cup {None}]
      /\ tempfile \in [Fids -> SUBSET Devs]
  BY RunningFits DEF NoTempFile, TempfileRow, AddAborted, FindOld, SizeMismatch, VerifySize,
       AddFididToDevid, ReplaceFile, EnqueueForReplication, DeleteTempfileRow, Finish, Goto,
       FileType, ProcessType, TableType
<1>1. UNCHANGED <<opened, autoinc, old>>
  BY DEF NoTempFile, TempfileRow, AddAborted, FindOld, SizeMismatch, VerifySize,
       AddFididToDevid, ReplaceFile, EnqueueForReplication, DeleteTempfileRow, OnlyTables,
       tableVars
<1>2. UNCHANGED tempfile \/ \E f : tempfile' = [tempfile EXCEPT ![f] = {}]
  BY DEF NoTempFile, TempfileRow, AddAborted, FindOld, SizeMismatch, VerifySize,
       AddFididToDevid, ReplaceFile, EnqueueForReplication, DeleteTempfileRow, tableVars
<1>3. \/ cmd'[w] = None
      \/ /\ cmd'[w] = c
         /\ at[w] \in {"enqueue_replication", "delete_tempfile"}
              => at'[w] \in {"enqueue_replication", "delete_tempfile"}
      \/ /\ \E f \in Fids \cup {None} : cmd'[w] = [c EXCEPT !.victim = f]
         /\ at[w] \notin {"enqueue_replication", "delete_tempfile"}
  <2>1. CASE NoTempFile(w) \/ SizeMismatch(w) \/ DeleteTempfileRow(w)
    BY <1>0, <2>1 DEF NoTempFile, SizeMismatch, DeleteTempfileRow, Finish
  <2>2. CASE TempfileRow(w) \/ VerifySize(w) \/ AddFididToDevid(w) \/ ReplaceFile(w)
             \/ EnqueueForReplication(w)
    BY <1>0, <2>2 DEF TempfileRow, VerifySize, AddFididToDevid, ReplaceFile,
                      EnqueueForReplication, Goto
  <2>3. CASE AddAborted(w) \/ FindOld(w)
    BY <1>0, <2>3, CommandFields DEF AddAborted, FindOld, Goto, Owners
  <2> QED BY <2>1, <2>2, <2>3
<1>4. ASSUME NEW f \in Fids, Holds(w, f)'
      PROVE  Holds(w, f) /\ (MayStore(w)' => MayStore(w))
  <2>1. cmd'[w] # None /\ cmd'[w].fid = f
    BY <1>4 DEF Holds
  <2>2. cmd'[w].fid = c.fid /\ cmd'[w].op = c.op
    <3>1. CASE \E v \in Fids \cup {None} : cmd'[w] = [c EXCEPT !.victim = v]
      BY <1>0, <3>1, VictimWritten
    <3> QED BY <1>3, <2>1, <3>1
  <2>3. at'[w] \notin {"enqueue_replication", "delete_tempfile"}
          => at[w] \notin {"enqueue_replication", "delete_tempfile"}
    BY <1>3, <2>1
  <2> QED BY <1>0, <2>1, <2>2, <2>3 DEF Holds, MayStore
<1>5. \A f \in Fids : tempfile'[f] # {} => tempfile[f] # {}
  BY <1>0, <1>2
<1> QED BY <1>1, <1>4, <1>5 DEF Keeps

LEMMA DeleteKeeps ==
  ASSUME FileType, NEW w \in Queryworkers,
         \/ DeleteFileRow(w) \/ DeleteFileTemp(w) \/ EnqueueDelete(w)
         \/ UnknownKey(w) \/ FindKey(w) \/ UpdateKey(w)
  PROVE  Keeps(w)
<1> DEFINE c == cmd[w]
<1>0. /\ c \in Command /\ c # None /\ w \in Workers
      /\ at \in [Workers -> Steps] /\ cmd \in [Workers -> Command \cup {None}]
      /\ tempfile \in [Fids -> SUBSET Devs]
  BY RunningFits DEF DeleteFileRow, DeleteFileTemp, EnqueueDelete, UnknownKey, FindKey, UpdateKey,
       Finish, Goto, FileType, ProcessType, TableType
<1>1. UNCHANGED <<opened, autoinc, old>>
  BY DEF DeleteFileRow, DeleteFileTemp, EnqueueDelete, UnknownKey, FindKey, UpdateKey, OnlyTables,
         tableVars
<1>2. UNCHANGED tempfile \/ \E f : tempfile' = [tempfile EXCEPT ![f] = {}]
  BY DEF DeleteFileRow, DeleteFileTemp, EnqueueDelete, UnknownKey, FindKey, UpdateKey, tableVars
<1>3. at[w] \notin {"enqueue_replication", "delete_tempfile"}
  BY DEF DeleteFileRow, DeleteFileTemp, EnqueueDelete, UnknownKey, FindKey, UpdateKey, Finish, Goto
<1>4. \/ cmd'[w] = None \/ cmd'[w] = c
      \/ \E f \in Fids \cup {None} : cmd'[w] = [c EXCEPT !.victim = f]
  <2>1. CASE DeleteFileRow(w) \/ DeleteFileTemp(w) \/ EnqueueDelete(w)
    BY <1>0, <2>1 DEF DeleteFileRow, DeleteFileTemp, EnqueueDelete, Finish
  <2>2. CASE UnknownKey(w) \/ FindKey(w) \/ UpdateKey(w)
    BY <1>0, <2>2 DEF UnknownKey, FindKey, UpdateKey, Finish, Owners
  <2> QED BY <2>1, <2>2
<1>5. ASSUME NEW f \in Fids, Holds(w, f)'
      PROVE  Holds(w, f) /\ (MayStore(w)' => MayStore(w))
  <2>1. cmd'[w] # None /\ cmd'[w].fid = f
    BY <1>5 DEF Holds
  <2>2. cmd'[w].fid = c.fid /\ cmd'[w].op = c.op
    <3>1. CASE \E v \in Fids \cup {None} : cmd'[w] = [c EXCEPT !.victim = v]
      BY <1>0, <3>1, VictimWritten
    <3> QED BY <1>4, <2>1, <3>1
  <2> QED BY <1>0, <1>3, <2>1, <2>2 DEF Holds, MayStore
<1>6. \A f \in Fids : tempfile'[f] # {} => tempfile[f] # {}
  BY <1>0, <1>2
<1> QED BY <1>1, <1>5, <1>6 DEF Keeps

LEMMA DeathKeeps ==
  ASSUME NEW w \in Queryworkers, QueryworkerDies(w), cmd'[w] = None
  PROVE  Keeps(w)
BY DEF QueryworkerDies, tableVars, clientVars, Keeps, Holds

LEMMA DeleterIsNobody ==
  ASSUME FileType, NEW w \in Deleters, RunDeleter(w) \/ DeleterDies(w)
  PROVE  NobodysTurn
<1>1. w \notin Queryworkers
  BY ProcessAssumption
<1> QED BY <1>1, DeleterFrame DEF NobodysTurn

LEMMA UploadIsNobody ==
  ASSUME (\E f \in Fids : \E d \in Devs : Upload(f, d)) \/ \E d \in Devs : MarkDead(d)
  PROVE  NobodysTurn
BY DEF Upload, MarkDead, tableVars, clientVars, NobodysTurn

\* What the other steps of a query worker do to its locals.
LEMMA BeginKeeps ==
  ASSUME FileType, NEW w \in Queryworkers,
         \/ CreateOpen(w) \/ (\E k \in Keys : DeleteKey(w, k))
         \/ \E k, to \in Keys : k # to /\ Rename(w, k, to)
  PROVE  Keeps(w) /\ cmd'[w].victim = None /\ cmd'[w] # None
<1>1. PICK step, c : Begin(w, step, c) /\ c \in Command /\ c.fid = None /\ c.victim = None
  <2>1. CASE CreateOpen(w)
    <3>1. PICK d \in Devs : Begin(w, "insert_tempfile", [NoCommand EXCEPT !.dev = d])
      BY <2>1 DEF CreateOpen
    <3>2. PICK c : c = [NoCommand EXCEPT !.dev = d]
      OBVIOUS
    <3>3. c \in Command /\ c.fid = None /\ c.victim = None
      BY <3>2 DEF NoCommand, Command
    <3> QED BY <3>1, <3>2, <3>3
  <2>2. CASE \E k \in Keys : DeleteKey(w, k)
    <3>1. PICK k \in Keys : Begin(w, "find_key", [NoCommand EXCEPT !.op = "delete", !.key = k])
      BY <2>2 DEF DeleteKey
    <3>2. PICK c : c = [NoCommand EXCEPT !.op = "delete", !.key = k]
      OBVIOUS
    <3>3. c \in Command /\ c.fid = None /\ c.victim = None
      BY <3>2 DEF NoCommand, Command
    <3> QED BY <3>1, <3>2, <3>3
  <2>3. CASE \E k, to \in Keys : k # to /\ Rename(w, k, to)
    <3>1. PICK k \in Keys, to \in Keys :
            Begin(w, "find_key", [NoCommand EXCEPT !.op = "rename", !.key = k, !.to = to])
      BY <2>3 DEF Rename
    <3>2. PICK c : c = [NoCommand EXCEPT !.op = "rename", !.key = k, !.to = to]
      OBVIOUS
    <3>3. c \in Command /\ c.fid = None /\ c.victim = None
      BY <3>2 DEF NoCommand, Command
    <3> QED BY <3>1, <3>2, <3>3
  <2> QED BY <2>1, <2>2, <2>3
<1>2. cmd \in [Workers -> Command \cup {None}] /\ cmd'[w] = c
  BY <1>1 DEF Begin, FileType, ProcessType
<1>3. \A f \in Fids : f # None
  BY NoneAssumption
<1>4. UNCHANGED <<opened, autoinc, old, tempfile>>
  BY <1>1 DEF Begin, tableVars, clientVars
<1> QED BY <1>1, <1>2, <1>3, <1>4, CommandIsSome DEF Keeps, Holds

LEMMA CloseBegins ==
  ASSUME FileType, NEW w \in Queryworkers, NEW f \in Fids, NEW k \in Keys \cup {None},
         CreateClose(w, f, k)
  PROVE  /\ cmd'[w] # None /\ cmd'[w].fid = f /\ cmd'[w].victim = None
         /\ at'[w] = "tempfile_row"
         /\ opened[f] # {} /\ ("slow" \in Environment \/ f \notin old)
         /\ opened' = [opened EXCEPT ![f] = {}]
         /\ UNCHANGED <<autoinc, tempfile, old>>
<1>1. PICK d \in opened[f] :
        cmd' = [cmd EXCEPT ![w] = [NoCommand EXCEPT !.op = IF k = None THEN "abort" ELSE "close",
                                                    !.fid = f, !.key = k, !.dev = d]]
  BY DEF CreateClose
<1>2. PICK c : c = [NoCommand EXCEPT !.op = IF k = None THEN "abort" ELSE "close",
                                     !.fid = f, !.key = k, !.dev = d]
  OBVIOUS
<1>3. c \in Command /\ c.fid = f /\ c.victim = None
  BY <1>1, <1>2 DEF NoCommand, Command, FileType, WorldType
<1>4. cmd'[w] = c /\ at'[w] = "tempfile_row"
  BY <1>1, <1>2 DEF CreateClose, FileType, ProcessType
<1> QED BY <1>3, <1>4, CommandIsSome DEF CreateClose, tableVars

LEMMA OpenRegisters ==
  ASSUME FileType, NEW w \in Queryworkers, RegisterTempfile(w)
  PROVE  /\ cmd'[w] # None /\ cmd'[w].fid = autoinc /\ cmd'[w].victim = cmd[w].victim
         /\ at'[w] = "fid_in_use" /\ cmd[w] # None
         /\ autoinc \in Fids /\ autoinc' = autoinc + 1
         /\ \A f \in Fids \ {autoinc} : tempfile'[f] = tempfile[f]
         /\ old' = old \ {autoinc} /\ UNCHANGED opened
<1>1. cmd[w] \in Command /\ cmd[w] # None
  BY RunningFits DEF RegisterTempfile, Goto
<1>2. autoinc \in Fids
  BY DEF FileType, TableType, Fids, RegisterTempfile
<1>3. PICK e : e = [cmd[w] EXCEPT !.fid = autoinc]
  OBVIOUS
<1>4. e \in Command /\ e.fid = autoinc /\ e.victim = cmd[w].victim
  BY <1>1, <1>2, <1>3, FidWritten
<1>5. cmd'[w] = e /\ at'[w] = "fid_in_use"
  BY <1>3 DEF RegisterTempfile, Goto, FileType, ProcessType
<1> QED BY <1>1, <1>2, <1>4, <1>5, CommandIsSome DEF RegisterTempfile, FileType, TableType

LEMMA FreeOpens ==
  ASSUME FileType, NEW w \in Queryworkers, FidIsFree(w)
  PROVE  /\ Holds(w, cmd[w].fid) /\ MayStore(w) /\ cmd[w].fid \in Fids
         /\ cmd'[w] = None
         /\ \A f \in Fids \ {cmd[w].fid} : opened'[f] = opened[f]
         /\ UNCHANGED <<tempfile, autoinc, old>>
<1>1. cmd[w] # None /\ QueryFits(at[w], cmd[w]) /\ at[w] = "fid_in_use"
  BY RunningFits DEF FidIsFree, Finish, Goto
<1>2. cmd[w].op = "open" /\ cmd[w].fid \in Fids
  BY <1>1 DEF QueryFits, OpenSteps
<1>3. cmd'[w] = None
  BY DEF FidIsFree, Finish, FileType, ProcessType
<1> QED BY <1>1, <1>2, <1>3 DEF FidIsFree, Holds, MayStore, FileType, WorldType, tableVars

LEMMA OpenKeeps ==
  ASSUME FileType, NEW w \in Queryworkers, FidIsInUse(w) \/ DropColliding(w)
  PROVE  Keeps(w)
<1>0. /\ cmd[w] \in Command /\ cmd[w] # None /\ w \in Workers
      /\ at \in [Workers -> Steps] /\ cmd \in [Workers -> Command \cup {None}]
      /\ tempfile \in [Fids -> SUBSET Devs] /\ at[w] \in {"fid_in_use", "drop_colliding"}
  BY RunningFits DEF FidIsInUse, DropColliding, Goto, FileType, ProcessType, TableType
<1>1. CASE FidIsInUse(w)
  BY <1>0, <1>1 DEF FidIsInUse, OnlyTables, tableVars, Keeps, Holds, MayStore
<1>2. CASE DropColliding(w)
  <2>1. PICK e : e = [cmd[w] EXCEPT !.fid = None]
    OBVIOUS
  <2>2. cmd'[w] = e /\ e.fid = None
    BY <1>0, <1>2, <2>1, FidWritten DEF DropColliding
  <2>3. \A f \in Fids : f # None
    BY NoneAssumption
  <2>4. UNCHANGED <<opened, autoinc, old>> /\ \A f \in Fids : tempfile'[f] # {} => tempfile[f] # {}
    BY <1>0, <1>2 DEF DropColliding, OnlyTables
  <2> QED BY <2>2, <2>3, <2>4 DEF Keeps, Holds
<1> QED BY <1>1, <1>2

\* A query worker keeps what it holds, or takes or gives away a fid.
Turn(w) ==
  \/ Keeps(w) \/ RegisterTempfile(w) \/ FidIsFree(w) \/ Reseed(w)
  \/ \E f \in Fids, k \in Keys \cup {None} : CreateClose(w, f, k)

LEMMA QueryTurn ==
  ASSUME FileType, Calm, NEW w \in Queryworkers,
         StartCommand(w) \/ RunCommand(w) \/ QueryworkerDies(w)
  PROVE  Turn(w)
<1>1. CASE StartCommand(w)
  BY <1>1, BeginKeeps DEF StartCommand, Turn
<1>2. CASE RunCommand(w)
  BY <1>2, OpenKeeps, CloseKeeps, DeleteKeeps DEF RunCommand, Turn
<1>3. CASE QueryworkerDies(w)
  BY <1>3, DeathKeeps DEF Calm, Turn
<1> QED BY <1>1, <1>2, <1>3

--------------------------------------------------------------------------------
\* One holder, and what is over stays over

LEMMA HolderTurn ==
  ASSUME FileType, OneHolder, Calm, NEW w \in Queryworkers, Turn(w), autoinc' \in Int,
         \A v \in Queryworkers \ {w} : at'[v] = at[v] /\ cmd'[v] = cmd[v]
  PROVE  OneHolder' /\ \A f \in Fids : Over(f) => Over(f)'
<1>0. /\ autoinc \in Int /\ \A f \in Fids : f \in Int
      /\ opened \in [Fids -> SUBSET Devs] /\ old \subseteq Fids
  BY FileBoundAssumption DEF FileType, TableType, WorldType, Fids
<1>1. \A v \in Queryworkers \ {w}, f \in Fids :
        (Holds(v, f)' <=> Holds(v, f)) /\ (MayStore(v)' <=> MayStore(v))
  BY DEF Holds, MayStore
<1>2. CASE Keeps(w)
  <2>1. \A v \in Queryworkers, f \in Fids : Holds(v, f)' => Holds(v, f) /\ (MayStore(v)' => MayStore(v))
    BY <1>1, <1>2 DEF Keeps
  <2>2. OneHolder'
    BY <1>0, <1>2, <2>1 DEF Keeps, OneHolder
  <2>3. \A f \in Fids : Over(f) => Over(f)'
    BY <1>2, <2>1 DEF Keeps, Over
  <2> QED BY <2>2, <2>3
<1>3. CASE Reseed(w)
  <2>1. UNCHANGED <<opened, old, tempfile>> /\ autoinc' >= autoinc
    BY <1>3, ReseedRaises DEF Reseed, OnlyTables
  <2>2. UNCHANGED cmd /\ at[w] = "reseed"
    BY <1>3 DEF Reseed, Goto
  <2>3. \A v \in Queryworkers, f \in Fids : Holds(v, f)' => Holds(v, f) /\ (MayStore(v)' => MayStore(v))
    BY <1>1, <2>2 DEF Holds, MayStore
  <2>4. OneHolder'
    BY <1>0, <2>1, <2>3 DEF OneHolder
  <2>5. \A f \in Fids : Over(f) => Over(f)'
    BY <1>0, <2>1, <2>3 DEF Over
  <2> QED BY <2>4, <2>5
<1>4. CASE RegisterTempfile(w)
  <2>1. /\ \A f \in Fids : Holds(w, f)' <=> f = autoinc
        /\ autoinc \in Fids /\ autoinc' = autoinc + 1
        /\ \A f \in Fids \ {autoinc} : tempfile'[f] = tempfile[f]
        /\ old' = old \ {autoinc} /\ UNCHANGED opened
    BY <1>4, OpenRegisters DEF Holds
  <2>2. \A v \in Queryworkers : ~Holds(v, autoinc)
    BY <1>0, <2>1 DEF OneHolder
  <2>3. opened[autoinc] = {}
    BY <1>0, <2>1 DEF OneHolder
  <2>4. OneHolder'
    BY <1>0, <1>1, <2>1, <2>2, <2>3 DEF OneHolder
  <2>5. \A f \in Fids : Over(f) => Over(f)'
    BY <1>0, <1>1, <2>1 DEF Over
  <2> QED BY <2>4, <2>5
<1>5. CASE FidIsFree(w)
  <2> DEFINE g == cmd[w].fid
  <2>1. /\ Holds(w, g) /\ MayStore(w) /\ g \in Fids
        /\ \A f \in Fids : ~Holds(w, f)'
        /\ \A f \in Fids \ {g} : opened'[f] = opened[f]
        /\ UNCHANGED <<tempfile, autoinc, old>>
    BY <1>5, FreeOpens DEF Holds
  <2> HIDE DEF g
  <2>2. OneHolder'
    BY <1>0, <1>1, <2>1 DEF OneHolder
  <2>3. \A f \in Fids : Over(f) => Over(f)'
    BY <1>0, <1>1, <2>1 DEF Over
  <2> QED BY <2>2, <2>3
<1>6. CASE \E f \in Fids, k \in Keys \cup {None} : CreateClose(w, f, k)
  <2>1. PICK g \in Fids, k \in Keys \cup {None} : CreateClose(w, g, k)
    BY <1>6
  <2>2. /\ \A f \in Fids : Holds(w, f)' <=> f = g
        /\ opened[g] # {} /\ g \notin old
        /\ opened' = [opened EXCEPT ![g] = {}]
        /\ UNCHANGED <<autoinc, tempfile, old>>
    BY <2>1, CloseBegins DEF Holds, Calm
  <2>3. \A f \in Fids : opened'[f] = IF f = g THEN {} ELSE opened[f]
    BY <1>0, <2>2
  <2>4. OneHolder'
    BY <1>0, <1>1, <2>2, <2>3 DEF OneHolder
  <2>5. \A f \in Fids : Over(f) => Over(f)'
    BY <1>0, <1>1, <2>2, <2>3 DEF Over
  <2> QED BY <2>4, <2>5
<1> QED BY <1>2, <1>3, <1>4, <1>5, <1>6 DEF Turn

LEMMA HolderStep ==
  ASSUME FileType, FileType', OneHolder, Calm, FileNext
  PROVE  OneHolder' /\ \A f \in Fids : Over(f) => Over(f)'
<1>0. autoinc' \in Int /\ "slow" \notin Environment
  BY FileBoundAssumption DEF FileType, TableType, Calm
<1>1. CASE \E w \in Queryworkers : StartCommand(w) \/ RunCommand(w) \/ QueryworkerDies(w)
  BY <1>0, <1>1, QueryFrame, QueryTurn, HolderTurn
<1>2. CASE NobodysTurn
  <2>1. \A v \in Queryworkers, f \in Fids :
          (Holds(v, f)' <=> Holds(v, f)) /\ (MayStore(v)' <=> MayStore(v))
    BY <1>2 DEF NobodysTurn, Holds, MayStore
  <2>2. old \subseteq Fids
    BY DEF FileType, WorldType
  <2>3. OneHolder'
    BY <1>2, <2>1, <2>2 DEF NobodysTurn, OneHolder
  <2>4. \A f \in Fids : Over(f) => Over(f)'
    BY <1>2, <2>1 DEF NobodysTurn, Over
  <2> QED BY <2>3, <2>4
<1>3. CASE \E f \in Fids : Age(f)
  <2>1. PICK g \in Fids : Age(g)
    BY <1>3
  <2>2. /\ tempfile[g] # {} /\ \A w \in Queryworkers : ~Holds(w, g)
        /\ old' = old \cup {g} /\ opened' = [opened EXCEPT ![g] = {}]
        /\ UNCHANGED <<tempfile, autoinc, at, cmd>>
    BY <1>0, <2>1 DEF Age, Held, Holds, tableVars
  <2>3. opened \in [Fids -> SUBSET Devs] /\ old \subseteq Fids
    BY DEF FileType, WorldType
  <2>4. \A f \in Fids : opened'[f] = IF f = g THEN {} ELSE opened[f]
    BY <2>2, <2>3
  <2>5. \A v \in Queryworkers, f \in Fids :
          (Holds(v, f)' <=> Holds(v, f)) /\ (MayStore(v)' <=> MayStore(v))
    BY <2>2 DEF Holds, MayStore
  <2>6. OneHolder'
    BY <2>2, <2>3, <2>4, <2>5 DEF OneHolder
  <2>7. \A f \in Fids : Over(f) => Over(f)'
    BY <2>2, <2>4, <2>5 DEF Over
  <2> QED BY <2>6, <2>7
<1>4. ~DbRestart
  BY DEF Calm
<1> QED BY <1>1, <1>2, <1>3, <1>4, DeleterIsNobody, UploadIsNobody DEF FileNext, World

\* Only replace_into_file brings a file to life.
LEMMA NewLife ==
  ASSUME FileType, FileNext, NEW f \in Fids, ~Live(f), Live(f)'
  PROVE  \E w \in Queryworkers : ReplaceFile(w) /\ f = cmd[w].fid
<1>0. file \in [Fids -> Keys \cup {None}] /\ file[f] = None /\ file' # file
  BY DEF FileType, TableType, Live
<1>1. CASE \E w \in Queryworkers : StartCommand(w) \/ RunCommand(w) \/ QueryworkerDies(w)
  <2>1. PICK w \in Queryworkers : StartCommand(w) \/ RunCommand(w) \/ QueryworkerDies(w)
    BY <1>1
  <2>2. CASE StartCommand(w) \/ QueryworkerDies(w)
    BY <1>0, <2>2 DEF StartCommand, CreateOpen, CreateClose, DeleteKey, Rename, Begin, tableVars,
                      QueryworkerDies
  <2>3. CASE RegisterTempfile(w) \/ FidIsFree(w) \/ FidIsInUse(w) \/ DropColliding(w) \/ Reseed(w)
    BY <1>0, <2>3 DEF RegisterTempfile, FidIsFree, FidIsInUse, DropColliding, Reseed, tableVars
  <2>4. CASE \/ NoTempFile(w) \/ TempfileRow(w) \/ AddAborted(w) \/ FindOld(w)
             \/ SizeMismatch(w) \/ VerifySize(w) \/ AddFididToDevid(w)
             \/ EnqueueForReplication(w) \/ DeleteTempfileRow(w)
    BY <1>0, <2>4 DEF NoTempFile, TempfileRow, AddAborted, FindOld, SizeMismatch, VerifySize,
         AddFididToDevid, EnqueueForReplication, DeleteTempfileRow, tableVars
  <2>5. CASE DeleteFileRow(w) \/ UpdateKey(w)
    BY <1>0, <2>5 DEF DeleteFileRow, UpdateKey, Live
  <2>6. CASE DeleteFileTemp(w) \/ EnqueueDelete(w) \/ UnknownKey(w) \/ FindKey(w)
    BY <1>0, <2>6 DEF DeleteFileTemp, EnqueueDelete, UnknownKey, FindKey, tableVars
  <2>7. CASE ReplaceFile(w)
    BY <1>0, <2>7 DEF ReplaceFile, ReplaceIntoFile, Live
  <2> QED BY <2>1, <2>2, <2>3, <2>4, <2>5, <2>6, <2>7 DEF RunCommand
<1>2. CASE \E w \in Deleters : RunDeleter(w) \/ DeleterDies(w)
  BY <1>0, <1>2, DeleterFrame
<1>3. CASE \/ \E g \in Fids : Age(g) \/ \E d \in Devs : Upload(g, d)
           \/ \E d \in Devs : MarkDead(d)
           \/ DbRestart
  BY <1>0, <1>3, OutsideFrame
<1> QED BY <1>1, <1>2, <1>3 DEF FileNext, World

\* Who may do that has the fid.
LEMMA StorerHolds ==
  ASSUME FileType, NEW w \in Queryworkers,
         at[w] \in {"find_old", "verify_size", "add_fidid", "replace_file"}
  PROVE  /\ cmd[w] # None /\ cmd[w].fid \in Fids /\ cmd[w].dev \in Devs /\ cmd[w].key \in Keys
         /\ Holds(w, cmd[w].fid) /\ MayStore(w) /\ ~Over(cmd[w].fid)
<1>1. cmd[w] # None /\ QueryFits(at[w], cmd[w])
  BY RunningFits
<1>2. cmd[w].op = "close" /\ cmd[w].fid \in Fids /\ cmd[w].dev \in Devs /\ cmd[w].key \in Keys
  BY <1>1 DEF QueryFits, StoreSteps
<1> QED BY <1>1, <1>2 DEF Holds, MayStore, Over

LEMMA GoneStays ==
  ASSUME FileType, FileType', OneHolder, Calm, FileNext
  PROVE  \A f \in Fids : Gone(f) => Gone(f)'
<1> SUFFICES ASSUME NEW f \in Fids, Gone(f), Live(f)'
             PROVE  FALSE
  BY HolderStep DEF Gone
<1>1. PICK w \in Queryworkers : ReplaceFile(w) /\ f = cmd[w].fid
  BY NewLife DEF Gone
<1>2. at[w] = "replace_file"
  BY <1>1 DEF ReplaceFile, Goto
<1> QED BY <1>1, <1>2, StorerHolds DEF Gone

LEMMA LivesStep ==
  ASSUME FileType, FileType', OneHolder, LivesAreOver, Calm, FileNext
  PROVE  LivesAreOver'
<1> SUFFICES ASSUME NEW f \in Fids, Live(f)'
             PROVE  Over(f)'
  BY DEF LivesAreOver
<1>1. CASE Live(f)
  BY <1>1, HolderStep DEF LivesAreOver
<1>2. CASE ~Live(f)
  <2>1. PICK w \in Queryworkers : ReplaceFile(w) /\ f = cmd[w].fid
    BY <1>2, NewLife
  <2>2. Holds(w, f) /\ w \in Workers
    BY <2>1, StorerHolds DEF ReplaceFile, Goto
  <2>3. f < autoinc /\ opened[f] = {} /\ \A v \in Queryworkers : Holds(v, f) => v = w
    BY <2>2 DEF OneHolder
  <2>4. UNCHANGED <<cmd, autoinc, opened>> /\ at'[w] = "enqueue_replication"
    BY <2>1 DEF ReplaceFile, Goto, OnlyTables, FileType, ProcessType
  <2> QED BY <2>3, <2>4 DEF Over, Holds, MayStore
<1> QED BY <1>1, <1>2

--------------------------------------------------------------------------------
\* The files that commands delete

LEMMA VictimsStep ==
  ASSUME DoomInv, FileType', Calm, FileNext
  PROVE  VictimsOver'
<1>0. FileType /\ OneHolder /\ VictimsOver /\ LivesAreOver
  BY DEF DoomInv
<1>1. \A f \in Fids : (Over(f) => Over(f)') /\ (Gone(f) => Gone(f)')
  BY <1>0, HolderStep, GoneStays
<1>2. ASSUME NEW v \in Queryworkers, NEW f \in Fids,
             at'[v] = at[v], cmd'[v] = cmd[v], cmd'[v] # None, cmd'[v].victim = f
      PROVE  Over(f)' /\ (at'[v] \in {"delete_file_temp", "enqueue_delete"} => ~Live(f)')
  BY <1>0, <1>1, <1>2 DEF VictimsOver, Gone
<1>3. CASE \E w \in Queryworkers : StartCommand(w) \/ RunCommand(w) \/ QueryworkerDies(w)
  <2>1. PICK w \in Queryworkers : StartCommand(w) \/ RunCommand(w) \/ QueryworkerDies(w)
    BY <1>3
  <2>2. \A v \in Queryworkers \ {w} : at'[v] = at[v] /\ cmd'[v] = cmd[v]
    BY <1>0, <2>1, QueryFrame
  <2>3. ASSUME NEW f \in Fids, cmd'[w] # None, cmd'[w].victim = f
        PROVE  Over(f)' /\ (at'[w] \in {"delete_file_temp", "enqueue_delete"} => ~Live(f)')
    <3>0. /\ at \in [Workers -> Steps] /\ cmd \in [Workers -> Command \cup {None}] /\ w \in Workers
          /\ file \in [Fids -> Keys \cup {None}] /\ f # None
          /\ at[w] # "idle" => cmd[w] # None /\ cmd[w] \in Command
      BY <1>0, RunningFits, NoneAssumption DEF FileType, ProcessType, TableType
    <3>1. CASE StartCommand(w)
      BY <1>0, <2>3, <3>0, <3>1, BeginKeeps, CloseBegins DEF StartCommand
    <3>2. CASE /\ cmd[w] # None /\ cmd[w].victim = f
               /\ at'[w] \notin {"delete_file_temp", "enqueue_delete"}
      BY <1>0, <1>1, <3>2 DEF VictimsOver
    <3>3. CASE RegisterTempfile(w)
      BY <1>0, <2>3, <3>2, <3>3, OpenRegisters
    <3>4. CASE \/ FidIsFree(w) \/ NoTempFile(w) \/ SizeMismatch(w) \/ DeleteTempfileRow(w)
               \/ UnknownKey(w) \/ UpdateKey(w)
      BY <2>3, <3>0, <3>4 DEF FidIsFree, NoTempFile, SizeMismatch, DeleteTempfileRow, UnknownKey,
                              UpdateKey, Finish
    <3>5. CASE FidIsInUse(w) \/ Reseed(w) \/ TempfileRow(w) \/ VerifySize(w)
               \/ AddFididToDevid(w) \/ ReplaceFile(w) \/ EnqueueForReplication(w)
      <4>1. cmd'[w] = cmd[w] /\ at'[w] \notin {"delete_file_temp", "enqueue_delete"}
        BY <3>0, <3>5 DEF FidIsInUse, Reseed, TempfileRow, VerifySize, AddFididToDevid,
                          ReplaceFile, EnqueueForReplication, Goto
      <4> QED BY <2>3, <3>2, <4>1
    <3>6. CASE DropColliding(w)
      <4>1. PICK e : e = [cmd[w] EXCEPT !.fid = None]
        OBVIOUS
      <4>2. cmd'[w] = e /\ at'[w] = "reseed" /\ cmd[w] # None /\ cmd[w] \in Command
        BY <3>0, <3>6, <4>1 DEF DropColliding, Goto
      <4>3. e.victim = cmd[w].victim
        BY <4>1, <4>2, FidWritten
      <4> QED BY <2>3, <3>2, <4>2, <4>3
    <3>7. CASE AddAborted(w)
      <4>1. PICK e : e = [cmd[w] EXCEPT !.victim = cmd[w].fid]
        OBVIOUS
      <4>2. cmd'[w] = e /\ at'[w] = "delete_file" /\ cmd[w] # None /\ cmd[w] \in Command
        BY <3>0, <3>7, <4>1 DEF AddAborted, Goto
      <4>3. cmd[w].op = "abort" /\ cmd[w].fid \in Fids
        BY <1>0, <3>7, RunningFits DEF AddAborted, Goto, QueryFits
      <4>4. f = cmd[w].fid
        BY <2>3, <4>1, <4>2, <4>3, VictimWritten
      <4>5. Over(f)
        BY <1>0, <4>2, <4>3, <4>4 DEF Over, OneHolder, Holds, MayStore
      <4> QED BY <1>1, <4>2, <4>5
    <3>8. CASE FindOld(w) \/ FindKey(w)
      <4>1. at[w] # "idle" /\ at'[w] \notin {"delete_file_temp", "enqueue_delete"}
        BY <3>0, <3>8 DEF FindOld, FindKey, Goto
      <4>2. CASE cmd' = cmd
        BY <2>3, <3>2, <4>1, <4>2
      <4>3. CASE cmd' # cmd
        <5>1. PICK g \in Fids : file[g] = cmd[w].key /\ cmd' = [cmd EXCEPT ![w].victim = g]
                                /\ cmd[w].key \in Keys
          <6>1. cmd[w].key \in Keys
            <7>1. QueryFits(at[w], cmd[w])
              BY <1>0, <4>1, RunningFits
            <7> QED BY <3>8, <7>1 DEF FindOld, FindKey, Goto, QueryFits, StoreSteps
          <6> QED BY <3>8, <4>3, <6>1 DEF FindOld, FindKey, Owners
        <5>2. PICK e : e = [cmd[w] EXCEPT !.victim = g]
          OBVIOUS
        <5>3. cmd'[w] = e
          BY <3>0, <5>1, <5>2
        <5>4. f = g
          BY <2>3, <3>0, <4>1, <5>2, <5>3, VictimWritten
        <5>5. Live(f)
          BY <5>1, <5>4, NoneAssumption DEF Live
        <5> QED BY <1>0, <1>1, <4>1, <5>5 DEF LivesAreOver
      <4> QED BY <4>2, <4>3
    <3>9. CASE DeleteFileRow(w)
      <4>1. /\ cmd'[w] = cmd[w] /\ at[w] = "delete_file" /\ file'[f] = None
        BY <2>3, <3>0, <3>9 DEF DeleteFileRow, Goto
      <4>2. Over(f)
        BY <1>0, <2>3, <4>1 DEF VictimsOver
      <4> QED BY <1>1, <4>1, <4>2 DEF Live
    <3>10. CASE DeleteFileTemp(w)
      <4>1. cmd'[w] = cmd[w] /\ at[w] = "delete_file_temp"
        BY <3>10 DEF DeleteFileTemp, Goto
      <4>2. Gone(f)
        BY <1>0, <2>3, <4>1 DEF VictimsOver, Gone
      <4> QED BY <1>1, <4>2 DEF Gone
    <3>11. CASE EnqueueDelete(w)
      <4>1. cmd'[w] = cmd[w] /\ at'[w] = "verify_size"
        BY <2>3, <3>0, <3>11 DEF EnqueueDelete, Finish, Goto
      <4> QED BY <2>3, <3>2, <4>1
    <3>12. CASE QueryworkerDies(w)
      BY <2>3, <3>0, <3>12 DEF QueryworkerDies, Calm
    <3> QED BY <2>1, <3>1, <3>3, <3>4, <3>5, <3>6, <3>7, <3>8, <3>9, <3>10, <3>11, <3>12
            DEF RunCommand
  <2>4. \A v \in Queryworkers, f \in Fids : cmd'[v] # None /\ cmd'[v].victim = f =>
          Over(f)' /\ (at'[v] \in {"delete_file_temp", "enqueue_delete"} => ~Live(f)')
    BY <1>2, <2>2, <2>3
  <2> QED BY <2>4 DEF VictimsOver
<1>4. CASE \A v \in Queryworkers : at'[v] = at[v] /\ cmd'[v] = cmd[v]
  BY <1>2, <1>4 DEF VictimsOver
<1>5. CASE \E w \in Deleters : RunDeleter(w) \/ DeleterDies(w)
  BY <1>0, <1>4, <1>5, DeleterIsNobody DEF NobodysTurn
<1>6. CASE \/ \E g \in Fids : Age(g) \/ \E d \in Devs : Upload(g, d)
           \/ \E d \in Devs : MarkDead(d)
           \/ DbRestart
  BY <1>0, <1>4, <1>6, OutsideFrame
<1> QED BY <1>3, <1>5, <1>6 DEF FileNext, World

--------------------------------------------------------------------------------
\* The files that deleters work at

\* A fid that is old stays old: only a new fid is made young.
LEMMA OldStays ==
  ASSUME FileType, OneHolder, FileNext, Calm
  PROVE  old \subseteq old'
<1>0. old \subseteq Fids /\ \A f \in old : f < autoinc /\ f \in Int
  BY DEF FileType, WorldType, OneHolder, Fids
<1>1. CASE \E w \in Queryworkers : StartCommand(w) \/ RunCommand(w) \/ QueryworkerDies(w)
  <2>1. PICK w \in Queryworkers : Turn(w)
    BY <1>1, QueryTurn
  <2>2. CASE Keeps(w) \/ FidIsFree(w) \/ Reseed(w)
             \/ \E f \in Fids, k \in Keys \cup {None} : CreateClose(w, f, k)
    BY <2>2 DEF Keeps, FidIsFree, Reseed, OnlyTables, CreateClose
  <2>3. CASE RegisterTempfile(w)
    BY <1>0, <2>3, OpenRegisters
  <2> QED BY <2>1, <2>2, <2>3 DEF Turn
<1>2. CASE \E w \in Deleters : RunDeleter(w) \/ DeleterDies(w)
  BY <1>2, DeleterFrame
<1>3. CASE \/ \E g \in Fids : Age(g) \/ \E d \in Devs : Upload(g, d)
           \/ \E d \in Devs : MarkDead(d)
           \/ DbRestart
  BY <1>3 DEF Age, Upload, MarkDead, DbRestart, clientVars
<1> QED BY <1>1, <1>2, <1>3 DEF FileNext, World

\* What a deleter has in hand, in terms of its own locals.
RowsOfOne(w) ==
  /\ at[w] \in {"row_exists", "drop_row"} => FidsOf(rows[w]) \subseteq old
  /\ at[w] \in {"reenqueue", "delete_later", "next_row"} \cup RowSteps =>
       \A f \in FidsOf(rows[w]) : Gone(f)
  /\ at[w] \in RowSteps => Gone(cmd[w].fid)
  /\ \A f \in FidsOf(purge[w]) : Gone(f)

LEMMA RowsAreFids ==
  ASSUME FileType, NEW w \in Deleters
  PROVE  /\ FidsOf(rows[w]) \subseteq Fids /\ FidsOf(purge[w]) \subseteq Fids
         /\ at[w] \in RowSteps \cup {"drop_row"} => cmd[w].fid \in Fids
<1>1. rows[w] \subseteq Fids \X (Devs \cup {None}) /\ purge[w] \subseteq Fids \X Devs
  BY DEF FileType, RowType, Places
<1>2. DeleterFits(at[w], cmd[w])
  BY DEF FileType, ProcessType
<1>3. FidsOf(rows[w]) \subseteq Fids /\ FidsOf(purge[w]) \subseteq Fids
  BY <1>1, FidsAreFids
<1> QED BY <1>2, <1>3 DEF DeleterFits

LEMMA RowsKept ==
  ASSUME FileType, NEW w \in Deleters, RowsOfOne(w), old \subseteq old',
         \A f \in Fids : Gone(f) => Gone(f)',
         at'[w] = at[w], cmd'[w] = cmd[w], rows'[w] = rows[w], purge'[w] = purge[w]
  PROVE  RowsOfOne(w)'
<1>1. /\ FidsOf(rows[w]) \subseteq Fids /\ FidsOf(purge[w]) \subseteq Fids
      /\ at[w] \in RowSteps => cmd[w].fid \in Fids
  BY RowsAreFids
<1>2. FidsOf(rows[w])' = FidsOf(rows[w]) /\ FidsOf(purge[w])' = FidsOf(purge[w])
  BY DEF FidsOf
<1>3. at[w] \in RowSteps => Gone(cmd[w].fid)'
  <2> SUFFICES ASSUME at[w] \in RowSteps PROVE Gone(cmd[w].fid)'
    OBVIOUS
  <2>1. PICK f \in Fids : f = cmd[w].fid
    BY <1>1
  <2>2. Gone(f)'
    BY <2>1 DEF RowsOfOne
  <2>3. f = cmd'[w].fid
    BY <2>1
  <2> QED BY <2>2, <2>3 DEF Gone, Live, Over, Holds, MayStore
<1> QED BY <1>1, <1>2, <1>3 DEF RowsOfOne

\* process_tempfiles: what is old and has no row in `file` is gone.
LEMMA TempfilesRows ==
  ASSUME DoomInv, NEW w \in Deleters,
         \A f \in Fids : Gone(f) => Gone(f)',
         \/ OldTempfiles(w) \/ RowExists(w) \/ DropRow(w) \/ NothingToPurge(w)
         \/ MassInsertFileOn(w) \/ EnqueuePurge(w) \/ DeletePurged(w)
  PROVE  RowsOfOne(w)'
<1>0. /\ FileType /\ OneHolder /\ RowsOfOne(w)
      /\ at \in [Workers -> Steps] /\ w \in Workers
      /\ rows \in [Deleters -> SUBSET (Fids \X (Devs \cup {None}))]
      /\ purge \in [Deleters -> SUBSET Places]
  BY DEF DoomInv, RowsGone, RowsOfOne, FileType, ProcessType, RowType
<1>1. FidsOf(rows[w]) \subseteq Fids /\ FidsOf(purge[w]) \subseteq Fids
  BY <1>0, RowsAreFids
<1>2. UNCHANGED old
  BY DEF OldTempfiles, RowExists, DropRow, NothingToPurge, MassInsertFileOn, EnqueuePurge,
         DeletePurged, NotTheDeleters, clientVars
<1> USE DEF RowSteps
<1>3. CASE OldTempfiles(w)
  <2>1. FidsOf(rows'[w]) \subseteq old /\ purge' = purge
    BY <1>0, <1>3 DEF OldTempfiles, FidsOf
  <2>2. at'[w] \in {"fids_to_delete_again", "row_exists"}
    BY <1>0, <1>3 DEF OldTempfiles, Goto
  <2> QED BY <1>0, <1>1, <1>2, <2>1, <2>2 DEF RowsOfOne
<1>4. CASE RowExists(w)
  <2>1. PICK f \in FidsOf(rows[w]) :
          /\ \/ file[f] # None /\ UNCHANGED purge
             \/ file[f] = None /\ purge' = [purge EXCEPT ![w] = @ \cup RowsOf(rows[w], f)]
          /\ rows' = [rows EXCEPT ![w] = @ \ RowsOf(@, f)]
          /\ at'[w] \in {"row_exists", "drop_row"} /\ at[w] = "row_exists"
    BY <1>0, <1>4 DEF RowExists, Goto
  <2>2. FidsOf(rows'[w]) \subseteq FidsOf(rows[w])
    BY <1>0, <2>1 DEF FidsOf
  <2>3. f \in old
    BY <1>0, <2>1 DEF RowsOfOne
  <2>4. file[f] = None => Gone(f)
    BY <1>0, <2>3 DEF OneHolder, Gone, Over, Live
  <2>5. \A g \in FidsOf(purge'[w]) : g \in Fids /\ Gone(g)
    <3>1. CASE UNCHANGED purge
      BY <1>0, <1>1, <3>1 DEF RowsOfOne
    <3>2. CASE file[f] = None /\ purge' = [purge EXCEPT ![w] = @ \cup RowsOf(rows[w], f)]
      <4>1. purge'[w] = purge[w] \cup RowsOf(rows[w], f)
        BY <1>0, <3>2
      <4>2. FidsOf(purge'[w]) \subseteq FidsOf(purge[w]) \cup {f}
        BY <4>1 DEF FidsOf, RowsOf
      <4> QED BY <1>0, <1>1, <2>1, <2>4, <3>2, <4>2 DEF RowsOfOne
    <3> QED BY <2>1, <3>1, <3>2
  <2> QED BY <1>0, <1>2, <2>1, <2>2, <2>5 DEF RowsOfOne
<1>5. CASE DropRow(w)
  <2>1. rows' = rows /\ purge' = purge /\ at[w] = "drop_row" /\ at'[w] = "row_exists"
    BY <1>0, <1>5 DEF DropRow, Goto, deleterVars
  <2> QED BY <1>0, <1>1, <1>2, <2>1 DEF RowsOfOne
<1>6. CASE NothingToPurge(w)
  <2>1. rows'[w] = {} /\ purge'[w] = {} /\ at'[w] = "old_tempfiles"
    BY <1>0, <1>6 DEF NothingToPurge, Restarts
  <2> QED BY <2>1 DEF RowsOfOne, FidsOf
<1>7. CASE MassInsertFileOn(w) \/ EnqueuePurge(w)
  <2>1. purge' = purge /\ at'[w] \in {"enqueue_purge", "delete_purged"}
    BY <1>0, <1>7 DEF MassInsertFileOn, EnqueuePurge, Goto, deleterVars
  <2> QED BY <1>0, <1>1, <2>1 DEF RowsOfOne
<1>8. CASE DeletePurged(w)
  <2>1. purge'[w] = {} /\ at'[w] = "fids_to_delete_again"
    BY <1>0, <1>8 DEF DeletePurged, Goto
  <2> QED BY <2>1 DEF RowsOfOne, FidsOf
<1> QED BY <1>3, <1>4, <1>5, <1>6, <1>7, <1>8

\* The other two passes take their rows from the deletion queues.
LEMMA DeletesRows ==
  ASSUME DoomInv, NEW w \in Deleters,
         \A f \in Fids : Gone(f) => Gone(f)',
         \/ (\E due \in SUBSET later : FidsToDeleteAgain(w, due)) \/ Reenqueue(w) \/ DeleteLater(w)
         \/ SelectDeletes(w)
         \/ \E p \in Fids \X (Devs \cup {None}) :
              \/ NoMoreLocations(w, p) \/ DeviceIsDead(w, p) \/ DeviceAnswers(w, p)
              \/ DeviceRefuses(w, p) \/ RowSkipped(w, p)
         \/ EndOfBatch(w) \/ HttpDelete(w) \/ AnswerLost(w)
         \/ RemoveFileOn(w) \/ Reschedule(w) \/ RemoveFid(w)
  PROVE  RowsOfOne(w)'
<1>0. /\ FileType /\ RowsOfOne(w) /\ QueuesGone
      /\ at \in [Workers -> Steps] /\ w \in Workers
      /\ cmd \in [Workers -> Command \cup {None}]
      /\ rows \in [Deleters -> SUBSET (Fids \X (Devs \cup {None}))]
      /\ todelete \subseteq Fids /\ later \subseteq Fids
  BY DEF DoomInv, RowsGone, RowsOfOne, FileType, ProcessType, RowType, TableType
<1>1. /\ FidsOf(rows[w]) \subseteq Fids /\ FidsOf(purge[w]) \subseteq Fids
      /\ at[w] \in RowSteps => cmd[w].fid \in Fids
  BY <1>0, RowsAreFids
<1> USE DEF RowSteps
<1>2. purge' = purge
  BY DEF FidsToDeleteAgain, Reenqueue, DeleteLater, SelectDeletes, NoMoreLocations, DeviceIsDead,
         DeviceAnswers, DeviceRefuses, RowSkipped, NextRow, EndOfBatch, HttpDelete, AnswerLost,
         RemoveFileOn, Reschedule, RemoveFid, deleterVars
<1>3. \A f \in FidsOf(purge'[w]) : Gone(f)'
  BY <1>0, <1>1, <1>2 DEF RowsOfOne
<1>4. CASE \E due \in SUBSET later : FidsToDeleteAgain(w, due)
  <2>1. PICK due \in SUBSET later : FidsToDeleteAgain(w, due)
    BY <1>4
  <2>2. rows'[w] = due \X {None} /\ at'[w] \in {"select_deletes", "reenqueue"}
    BY <1>0, <2>1 DEF FidsToDeleteAgain, Goto
  <2>3. FidsOf(rows'[w]) \subseteq later
    BY <2>2 DEF FidsOf
  <2>4. \A f \in FidsOf(rows'[w]) : Gone(f)'
    BY <1>0, <2>3 DEF QueuesGone
  <2> QED BY <1>3, <2>2, <2>4 DEF RowsOfOne
<1>5. CASE SelectDeletes(w)
  <2>1. rows'[w] = Joined /\ at'[w] \in {"old_tempfiles", "next_row"}
    BY <1>0, <1>5 DEF SelectDeletes, Goto
  <2>2. FidsOf(Joined) \subseteq todelete
    BY DEF Joined, FidsOf
  <2>3. \A f \in FidsOf(rows'[w]) : Gone(f)'
    BY <1>0, <2>1, <2>2 DEF QueuesGone
  <2> QED BY <1>3, <2>1, <2>3 DEF RowsOfOne
<1>6. CASE Reenqueue(w) \/ DeleteLater(w)
  <2>1. /\ at[w] \in {"reenqueue", "delete_later"}
        /\ rows'[w] \in {rows[w], {}}
        /\ at'[w] \notin {"row_exists", "drop_row"} \cup RowSteps
    BY <1>0, <1>6 DEF Reenqueue, DeleteLater, Goto, deleterVars
  <2>2. FidsOf(rows'[w]) \subseteq FidsOf(rows[w])
    BY <2>1 DEF FidsOf
  <2>3. \A f \in FidsOf(rows'[w]) : Gone(f)'
    BY <1>0, <1>1, <2>1, <2>2 DEF RowsOfOne
  <2> QED BY <1>3, <2>1, <2>3 DEF RowsOfOne
<1>7. CASE \E p \in Fids \X (Devs \cup {None}) :
             \/ NoMoreLocations(w, p) \/ DeviceIsDead(w, p) \/ DeviceAnswers(w, p)
             \/ DeviceRefuses(w, p) \/ RowSkipped(w, p)
  <2>1. PICK p \in Fids \X (Devs \cup {None}), step \in RowSteps \cup {"next_row"} :
          NextRow(w, p, step)
    BY <1>7 DEF NoMoreLocations, DeviceIsDead, DeviceAnswers, DeviceRefuses, RowSkipped
  <2>2. /\ at[w] = "next_row" /\ at'[w] = step
        /\ rows'[w] = rows[w] \ {p} /\ p \in rows[w]
        /\ step # "next_row" => cmd'[w] = Row(p)
    BY <1>0, <2>1 DEF NextRow, Goto
  <2>3. FidsOf(rows'[w]) \subseteq FidsOf(rows[w]) /\ p[1] \in FidsOf(rows[w])
    BY <2>2 DEF FidsOf
  <2>4. \A f \in FidsOf(rows'[w]) \cup {p[1]} : Gone(f)'
    BY <1>0, <1>1, <2>2, <2>3 DEF RowsOfOne
  <2>5. step # "next_row" => cmd'[w].fid = p[1]
    BY <2>2, RowIsCommand
  <2>6. step # "next_row" => Gone(cmd[w].fid)'
    <3> SUFFICES ASSUME step # "next_row" PROVE Gone(cmd[w].fid)'
      OBVIOUS
    <3>1. PICK g : g = p[1]
      OBVIOUS
    <3>2. Gone(g)' /\ g = cmd'[w].fid
      BY <2>4, <2>5, <3>1
    <3> QED BY <3>2 DEF Gone, Live, Over, Holds, MayStore
  <2> QED BY <1>3, <2>2, <2>4, <2>6 DEF RowsOfOne
<1>8. CASE EndOfBatch(w)
  <2>1. at'[w] = "old_tempfiles"
    BY <1>0, <1>8 DEF EndOfBatch, Goto
  <2> QED BY <1>3, <2>1 DEF RowsOfOne
<1>9. CASE \/ HttpDelete(w) \/ AnswerLost(w) \/ RemoveFileOn(w) \/ Reschedule(w) \/ RemoveFid(w)
  <2>1. /\ at[w] \in RowSteps /\ rows' = rows
        /\ at'[w] \in RowSteps \cup {"next_row"}
        /\ at'[w] # "next_row" => cmd' = cmd
    <3>1. CASE HttpDelete(w) \/ Reschedule(w)
      BY <1>0, <3>1 DEF HttpDelete, Reschedule, Goto, deleterVars
    <3>2. CASE AnswerLost(w) \/ RemoveFileOn(w) \/ RemoveFid(w)
      BY <1>0, <3>2 DEF AnswerLost, RemoveFileOn, RemoveFid, Goto, deleterVars
    <3> QED BY <1>9, <3>1, <3>2
  <2>2. \A f \in FidsOf(rows'[w]) : Gone(f)'
    BY <1>0, <1>1, <2>1 DEF RowsOfOne
  <2>3. at'[w] \in RowSteps => Gone(cmd[w].fid)'
    <3> SUFFICES ASSUME at'[w] \in RowSteps PROVE Gone(cmd[w].fid)'
      OBVIOUS
    <3>1. PICK f \in Fids : f = cmd[w].fid
      BY <1>1, <2>1
    <3>2. Gone(f)' /\ f = cmd'[w].fid
      BY <1>0, <2>1, <3>1 DEF RowsOfOne
    <3> QED BY <3>2 DEF Gone, Live, Over, Holds, MayStore
  <2> QED BY <1>3, <2>1, <2>2, <2>3 DEF RowsOfOne
<1> QED BY <1>4, <1>5, <1>6, <1>7, <1>8, <1>9

LEMMA RowsStep ==
  ASSUME DoomInv, FileType', Calm, FileNext
  PROVE  RowsGone'
<1>0. FileType /\ OneHolder /\ \A w \in Deleters : RowsOfOne(w)
  BY DEF DoomInv, RowsGone, RowsOfOne
<1>1. \A f \in Fids : Gone(f) => Gone(f)'
  BY <1>0, GoneStays
<1>2. old \subseteq old'
  BY <1>0, OldStays
<1>3. CASE \E w \in Deleters : RunDeleter(w) \/ DeleterDies(w)
  <2>1. PICK w \in Deleters : RunDeleter(w) \/ DeleterDies(w)
    BY <1>3
  <2>2. \A v \in Deleters \ {w} : RowsOfOne(v)'
    BY <1>0, <1>1, <1>2, <2>1, DeleterFrame, RowsKept
  <2>3. RowsOfOne(w)'
    <3>1. CASE RunDeleter(w)
      BY <1>1, <3>1, TempfilesRows, DeletesRows DEF RunDeleter
    <3>2. CASE DeleterDies(w)
      <4>1. rows'[w] = {} /\ purge'[w] = {} /\ at'[w] = "old_tempfiles"
        BY <1>0, <3>2 DEF DeleterDies, Restarts, FileType, RowType, ProcessType
      <4> QED BY <4>1 DEF RowsOfOne, FidsOf, RowSteps
    <3> QED BY <2>1, <3>1, <3>2
  <2> QED BY <2>2, <2>3 DEF RowsGone, RowsOfOne
<1>4. CASE \A w \in Deleters : /\ at'[w] = at[w] /\ cmd'[w] = cmd[w]
                               /\ rows'[w] = rows[w] /\ purge'[w] = purge[w]
  <2>1. \A w \in Deleters : RowsOfOne(w)'
    BY <1>0, <1>1, <1>2, <1>4, RowsKept
  <2> QED BY <2>1 DEF RowsGone, RowsOfOne
<1>5. CASE \E w \in Queryworkers : StartCommand(w) \/ RunCommand(w) \/ QueryworkerDies(w)
  BY <1>0, <1>4, <1>5, QueryFrame, ProcessAssumption DEF deleterVars
<1>6. CASE \/ \E g \in Fids : Age(g) \/ \E d \in Devs : Upload(g, d)
           \/ \E d \in Devs : MarkDead(d)
           \/ DbRestart
  BY <1>0, <1>4, <1>6, OutsideFrame
<1> QED BY <1>3, <1>5, <1>6 DEF FileNext, World

LEMMA QueuesStep ==
  ASSUME DoomInv, FileType', Calm, FileNext
  PROVE  QueuesGone'
<1>0. /\ FileType /\ OneHolder /\ VictimsOver /\ QueuesGone
      /\ todelete \cup later \subseteq Fids /\ \A w \in Deleters : RowsOfOne(w)
  BY DEF DoomInv, FileType, TableType, RowsGone, RowsOfOne
<1>1. \A f \in Fids : Gone(f) => Gone(f)'
  BY <1>0, GoneStays
<1>2. ASSUME \A f \in todelete' \cup later' : f \in todelete \cup later \/ (f \in Fids /\ Gone(f))
      PROVE  QueuesGone'
  BY <1>0, <1>1, <1>2 DEF QueuesGone
<1>3. CASE todelete' \cup later' \subseteq todelete \cup later
  BY <1>2, <1>3
<1>4. CASE \E w \in Queryworkers : StartCommand(w) \/ RunCommand(w) \/ QueryworkerDies(w)
  <2>1. PICK w \in Queryworkers : StartCommand(w) \/ RunCommand(w) \/ QueryworkerDies(w)
    BY <1>4
  <2>2. UNCHANGED later
    BY <1>0, <2>1, QueryFrame
  <2>3. CASE UNCHANGED todelete
    BY <1>3, <2>2, <2>3
  <2>4. CASE EnqueueDelete(w)
    <3>1. cmd[w] # None /\ at[w] = "enqueue_delete" /\ QueryFits(at[w], cmd[w])
      BY <1>0, <2>4, RunningFits DEF EnqueueDelete, Finish, Goto
    <3>2. cmd[w].victim \in Fids
      BY <3>1 DEF QueryFits, DeleteSteps
    <3>3. Gone(cmd[w].victim)
      BY <1>0, <3>1, <3>2 DEF VictimsOver, Gone
    <3>4. todelete' = todelete \cup {cmd[w].victim}
      BY <2>4 DEF EnqueueDelete
    <3> QED BY <1>2, <2>2, <3>2, <3>3, <3>4
  <2>5. CASE StartCommand(w) \/ QueryworkerDies(w)
    BY <2>3, <2>5 DEF StartCommand, CreateOpen, CreateClose, DeleteKey, Rename, Begin, tableVars,
                      QueryworkerDies
  <2>6. CASE RegisterTempfile(w) \/ FidIsFree(w) \/ FidIsInUse(w) \/ DropColliding(w) \/ Reseed(w)
    BY <2>3, <2>6 DEF RegisterTempfile, FidIsFree, FidIsInUse, DropColliding, Reseed, tableVars
  <2>7. CASE \/ NoTempFile(w) \/ TempfileRow(w) \/ AddAborted(w) \/ FindOld(w)
             \/ SizeMismatch(w) \/ VerifySize(w) \/ AddFididToDevid(w) \/ ReplaceFile(w)
             \/ EnqueueForReplication(w) \/ DeleteTempfileRow(w)
    BY <2>3, <2>7 DEF NoTempFile, TempfileRow, AddAborted, FindOld, SizeMismatch, VerifySize,
         AddFididToDevid, ReplaceFile, EnqueueForReplication, DeleteTempfileRow, tableVars
  <2>8. CASE DeleteFileRow(w) \/ DeleteFileTemp(w) \/ UnknownKey(w) \/ FindKey(w) \/ UpdateKey(w)
    BY <2>3, <2>8 DEF DeleteFileRow, DeleteFileTemp, UnknownKey, FindKey, UpdateKey, tableVars
  <2> QED BY <2>1, <2>4, <2>5, <2>6, <2>7, <2>8 DEF RunCommand
<1>5. CASE \E w \in Deleters : RunDeleter(w) \/ DeleterDies(w)
  <2>1. PICK w \in Deleters : RunDeleter(w) \/ DeleterDies(w)
    BY <1>5
  <2>2. /\ FidsOf(rows[w]) \subseteq Fids /\ FidsOf(purge[w]) \subseteq Fids
        /\ at[w] \in RowSteps => cmd[w].fid \in Fids
    BY <1>0, RowsAreFids
  <2>3. CASE EnqueuePurge(w)
    <3>1. todelete' \cup later' \subseteq todelete \cup later \cup FidsOf(purge[w])
      BY <2>3 DEF EnqueuePurge
    <3> QED BY <1>0, <1>2, <2>2, <3>1 DEF RowsOfOne
  <2>4. CASE Reenqueue(w)
    <3>1. todelete' \cup later' \subseteq todelete \cup later \cup FidsOf(rows[w])
      BY <2>4 DEF Reenqueue
    <3>2. \A f \in FidsOf(rows[w]) : Gone(f)
      BY <1>0, <2>4 DEF Reenqueue, Goto, RowsOfOne
    <3> QED BY <1>2, <2>2, <3>1, <3>2
  <2>5. CASE Reschedule(w)
    <3>1. todelete' \cup later' \subseteq todelete \cup later \cup {cmd[w].fid}
      BY <2>5 DEF Reschedule
    <3>2. Gone(cmd[w].fid) /\ cmd[w].fid \in Fids
      BY <1>0, <2>2, <2>5 DEF Reschedule, Goto, RowsOfOne, RowSteps
    <3> QED BY <1>2, <3>1, <3>2
  <2>6. CASE \/ OldTempfiles(w) \/ RowExists(w) \/ DropRow(w) \/ NothingToPurge(w)
             \/ MassInsertFileOn(w) \/ DeletePurged(w)
             \/ (\E due \in SUBSET later : FidsToDeleteAgain(w, due)) \/ DeleteLater(w)
             \/ SelectDeletes(w)
    BY <1>3, <2>6 DEF OldTempfiles, RowExists, DropRow, NothingToPurge, MassInsertFileOn,
         DeletePurged, FidsToDeleteAgain, DeleteLater, SelectDeletes, tableVars
  <2>7. CASE \E p \in Fids \X (Devs \cup {None}) :
               \/ NoMoreLocations(w, p) \/ DeviceIsDead(w, p) \/ DeviceAnswers(w, p)
               \/ DeviceRefuses(w, p) \/ RowSkipped(w, p)
    BY <1>3, <2>7 DEF NoMoreLocations, DeviceIsDead, DeviceAnswers, DeviceRefuses, RowSkipped,
                      NextRow, tableVars
  <2>8. CASE \/ EndOfBatch(w) \/ HttpDelete(w) \/ AnswerLost(w)
             \/ RemoveFileOn(w) \/ RemoveFid(w) \/ DeleterDies(w)
    BY <1>3, <2>8 DEF EndOfBatch, HttpDelete, AnswerLost, RemoveFileOn, RemoveFid, DeleterDies,
                      tableVars
  <2> QED BY <2>1, <2>3, <2>4, <2>5, <2>6, <2>7, <2>8 DEF RunDeleter
<1>6. CASE \/ \E g \in Fids : Age(g) \/ \E d \in Devs : Upload(g, d)
           \/ \E d \in Devs : MarkDead(d)
           \/ DbRestart
  BY <1>0, <1>3, <1>6, OutsideFrame
<1> QED BY <1>4, <1>5, <1>6 DEF FileNext, World

LEMMA DoomStep ==
  ASSUME DoomInv, Calm, FileNext
  PROVE  DoomInv'
<1>1. FileType /\ OneHolder /\ LivesAreOver /\ FileType' /\ TempfileRows'
  BY StepTyped DEF DoomInv
<1>2. OneHolder' /\ LivesAreOver'
  BY <1>1, HolderStep, LivesStep
<1> QED BY <1>1, <1>2, VictimsStep, RowsStep, QueuesStep DEF DoomInv

--------------------------------------------------------------------------------
\* The content of what is alive

\* Content is deleted, and rows of file_on go, only when the file is gone.
LEMMA OnlyGoneIsLost ==
  ASSUME FileType, RowsGone, FileNext, NEW f \in Fids, ~Gone(f), NEW d \in Devs
  PROVE  /\ <<f, d>> \in disk => <<f, d>> \in disk'
         /\ <<f, d>> \in on => <<f, d>> \in on'
<1>1. CASE \E w \in Queryworkers : StartCommand(w) \/ RunCommand(w) \/ QueryworkerDies(w)
  <2>1. PICK w \in Queryworkers : StartCommand(w) \/ RunCommand(w) \/ QueryworkerDies(w)
    BY <1>1
  <2>2. UNCHANGED disk
    BY <2>1, QueryFrame
  <2>3. on \subseteq on'
    <3>1. CASE StartCommand(w) \/ QueryworkerDies(w)
      BY <3>1 DEF StartCommand, CreateOpen, CreateClose, DeleteKey, Rename, Begin, tableVars,
                  QueryworkerDies
    <3>2. CASE RegisterTempfile(w) \/ FidIsFree(w) \/ FidIsInUse(w) \/ DropColliding(w)
               \/ Reseed(w)
      BY <3>2 DEF RegisterTempfile, FidIsFree, FidIsInUse, DropColliding, Reseed, tableVars
    <3>3. CASE \/ NoTempFile(w) \/ TempfileRow(w) \/ AddAborted(w) \/ FindOld(w)
               \/ SizeMismatch(w) \/ VerifySize(w) \/ AddFididToDevid(w) \/ ReplaceFile(w)
               \/ EnqueueForReplication(w) \/ DeleteTempfileRow(w)
      BY <3>3 DEF NoTempFile, TempfileRow, AddAborted, FindOld, SizeMismatch, VerifySize,
           AddFididToDevid, ReplaceFile, EnqueueForReplication, DeleteTempfileRow, tableVars
    <3>4. CASE \/ DeleteFileRow(w) \/ DeleteFileTemp(w) \/ EnqueueDelete(w)
               \/ UnknownKey(w) \/ FindKey(w) \/ UpdateKey(w)
      BY <3>4 DEF DeleteFileRow, DeleteFileTemp, EnqueueDelete, UnknownKey, FindKey, UpdateKey,
                  tableVars
    <3> QED BY <2>1, <3>1, <3>2, <3>3, <3>4 DEF RunCommand
  <2> QED BY <2>2, <2>3
<1>2. CASE \E w \in Deleters : RunDeleter(w) \/ DeleterDies(w)
  <2>1. PICK w \in Deleters : RunDeleter(w) \/ DeleterDies(w)
    BY <1>2
  <2>2. CASE HttpDelete(w) \/ AnswerLost(w) \/ RemoveFileOn(w)
    <3>1. at[w] \in RowSteps
      BY <2>2 DEF HttpDelete, AnswerLost, RemoveFileOn, Goto, RowSteps
    <3>2. Gone(cmd[w].fid)
      BY <3>1 DEF RowsGone
    <3>3. cmd[w].fid # f
      BY <3>2
    <3>4. <<f, d>> # ThisRow(w)
      BY <3>3 DEF ThisRow
    <3> QED BY <2>2, <3>4 DEF HttpDelete, AnswerLost, RemoveFileOn, tableVars
  <2>3. CASE \/ OldTempfiles(w) \/ RowExists(w) \/ DropRow(w) \/ NothingToPurge(w)
             \/ MassInsertFileOn(w) \/ EnqueuePurge(w) \/ DeletePurged(w)
    BY <2>3 DEF OldTempfiles, RowExists, DropRow, NothingToPurge, MassInsertFileOn, EnqueuePurge,
                DeletePurged, tableVars
  <2>4. CASE \/ (\E due \in SUBSET later : FidsToDeleteAgain(w, due)) \/ Reenqueue(w)
             \/ DeleteLater(w) \/ SelectDeletes(w) \/ EndOfBatch(w)
             \/ Reschedule(w) \/ RemoveFid(w) \/ DeleterDies(w)
    BY <2>4 DEF FidsToDeleteAgain, Reenqueue, DeleteLater, SelectDeletes, EndOfBatch, Reschedule,
                RemoveFid, DeleterDies, tableVars
  <2>5. CASE \E p \in Fids \X (Devs \cup {None}) :
               \/ NoMoreLocations(w, p) \/ DeviceIsDead(w, p) \/ DeviceAnswers(w, p)
               \/ DeviceRefuses(w, p) \/ RowSkipped(w, p)
    BY <2>5 DEF NoMoreLocations, DeviceIsDead, DeviceAnswers, DeviceRefuses, RowSkipped, NextRow,
                tableVars
  <2> QED BY <2>1, <2>2, <2>3, <2>4, <2>5 DEF RunDeleter
<1>3. CASE \/ \E g \in Fids : Age(g) \/ \E e \in Devs : Upload(g, e)
           \/ \E e \in Devs : MarkDead(e)
           \/ DbRestart
  BY <1>3 DEF Age, Upload, MarkDead, DbRestart, tableVars
<1> QED BY <1>1, <1>2, <1>3 DEF FileNext, World

LEMMA VerifiedStep ==
  ASSUME DoomInv, Verified, FileNext
  PROVE  Verified'
<1>0. FileType /\ RowsGone /\ at \in [Workers -> Steps]
  BY DEF DoomInv, FileType, ProcessType
<1>1. ASSUME NEW v \in Queryworkers, at'[v] = at[v], cmd'[v] = cmd[v]
      PROVE  /\ at'[v] \in {"add_fidid", "replace_file"} => <<cmd'[v].fid, cmd'[v].dev>> \in disk'
             /\ at'[v] = "replace_file" => <<cmd'[v].fid, cmd'[v].dev>> \in on'
  <2> SUFFICES ASSUME at[v] \in {"add_fidid", "replace_file"}
               PROVE  /\ <<cmd[v].fid, cmd[v].dev>> \in disk'
                      /\ at[v] = "replace_file" => <<cmd[v].fid, cmd[v].dev>> \in on'
    BY <1>1
  <2>1. cmd[v].fid \in Fids /\ cmd[v].dev \in Devs /\ ~Gone(cmd[v].fid)
    BY <1>0, StorerHolds DEF Gone
  <2> QED BY <1>0, <2>1, OnlyGoneIsLost DEF Verified
<1>2. CASE \E w \in Queryworkers : StartCommand(w) \/ RunCommand(w) \/ QueryworkerDies(w)
  <2>1. PICK w \in Queryworkers : StartCommand(w) \/ RunCommand(w) \/ QueryworkerDies(w)
    BY <1>2
  <2>2. \A v \in Queryworkers \ {w} : at'[v] = at[v] /\ cmd'[v] = cmd[v]
    BY <1>0, <2>1, QueryFrame
  <2>3. /\ at'[w] \in {"add_fidid", "replace_file"} => <<cmd'[w].fid, cmd'[w].dev>> \in disk'
        /\ at'[w] = "replace_file" => <<cmd'[w].fid, cmd'[w].dev>> \in on'
    <3>1. CASE VerifySize(w)
      BY <1>0, <3>1 DEF VerifySize, Goto, OnlyTables
    <3>2. CASE AddFididToDevid(w)
      BY <1>0, <3>2 DEF AddFididToDevid, Goto, OnlyTables, Verified
    <3>3. CASE at'[w] \notin {"add_fidid", "replace_file"}
      BY <3>3
    <3>4. CASE StartCommand(w)
      BY <1>0, <3>3, <3>4 DEF StartCommand, CreateOpen, CreateClose, DeleteKey, Rename, Begin
    <3>5. CASE RegisterTempfile(w) \/ FidIsFree(w) \/ FidIsInUse(w) \/ DropColliding(w)
               \/ Reseed(w)
      BY <1>0, <3>3, <3>5 DEF RegisterTempfile, FidIsFree, FidIsInUse, DropColliding, Reseed,
                              Finish, Goto
    <3>6. CASE NoTempFile(w) \/ SizeMismatch(w) \/ DeleteTempfileRow(w) \/ UnknownKey(w)
               \/ UpdateKey(w)
      BY <1>0, <3>3, <3>6 DEF NoTempFile, SizeMismatch, DeleteTempfileRow, UnknownKey, UpdateKey,
                              Finish, Goto
    <3>7. CASE TempfileRow(w) \/ AddAborted(w) \/ FindOld(w) \/ ReplaceFile(w)
               \/ EnqueueForReplication(w)
      BY <1>0, <3>3, <3>7 DEF TempfileRow, AddAborted, FindOld, ReplaceFile,
                              EnqueueForReplication, Goto
    <3>8. CASE DeleteFileRow(w) \/ DeleteFileTemp(w) \/ EnqueueDelete(w) \/ FindKey(w)
      BY <1>0, <3>3, <3>8 DEF DeleteFileRow, DeleteFileTemp, EnqueueDelete, FindKey, Finish, Goto
    <3>9. CASE QueryworkerDies(w)
      <4>1. at'[w] \in {FirstStep(cmd[w].op), "idle"} /\ cmd[w] # None
        BY <1>0, <3>9 DEF QueryworkerDies
      <4>2. cmd[w] \in Command /\ cmd[w].op # "row"
        BY <1>0, <4>1 DEF FileType, ProcessType, QueryFits
      <4>3. FirstStep(cmd[w].op) \in {"insert_tempfile", "tempfile_row", "find_key"}
        BY <4>2, CommandFields DEF FirstStep
      <4> QED BY <3>3, <4>1, <4>3
    <3> QED BY <2>1, <3>1, <3>2, <3>4, <3>5, <3>6, <3>7, <3>8, <3>9 DEF RunCommand
  <2> QED BY <1>1, <2>2, <2>3 DEF Verified
<1>3. CASE \A v \in Queryworkers : at'[v] = at[v] /\ cmd'[v] = cmd[v]
  BY <1>1, <1>3 DEF Verified
<1>4. CASE \E w \in Deleters : RunDeleter(w) \/ DeleterDies(w)
  BY <1>0, <1>3, <1>4, DeleterIsNobody DEF NobodysTurn
<1>5. CASE \/ \E g \in Fids : Age(g) \/ \E d \in Devs : Upload(g, d)
           \/ \E d \in Devs : MarkDead(d)
           \/ DbRestart
  BY <1>0, <1>3, <1>5, OutsideFrame
<1> QED BY <1>2, <1>4, <1>5 DEF FileNext, World

LEMMA CopyStep ==
  ASSUME DoomInv, Verified, CopySurvives, FileNext
  PROVE  CopySurvives'
<1>0. FileType /\ RowsGone
  BY DEF DoomInv
<1> SUFFICES ASSUME NEW f \in Fids, Live(f)'
             PROVE  \E d \in Devs : <<f, d>> \in on' \cap disk'
  BY DEF CopySurvives
<1>1. CASE Live(f)
  <2>1. PICK d \in Devs : <<f, d>> \in on \cap disk
    BY <1>1 DEF CopySurvives
  <2>2. ~Gone(f)
    BY <1>1 DEF Gone
  <2> QED BY <1>0, <2>1, <2>2, OnlyGoneIsLost
<1>2. CASE ~Live(f)
  <2>1. PICK w \in Queryworkers : ReplaceFile(w) /\ f = cmd[w].fid
    BY <1>0, <1>2, NewLife
  <2>2. at[w] = "replace_file" /\ cmd[w].dev \in Devs
    BY <1>0, <2>1, StorerHolds DEF ReplaceFile, Goto
  <2>3. <<f, cmd[w].dev>> \in on \cap disk
    BY <2>1, <2>2 DEF Verified
  <2>4. UNCHANGED <<on, disk>>
    BY <2>1 DEF ReplaceFile, OnlyTables
  <2> QED BY <2>2, <2>3, <2>4
<1> QED BY <1>1, <1>2

--------------------------------------------------------------------------------

FileInv == DoomInv /\ Verified /\ CopySurvives

LEMMA InitInv == FileInit => FileInv
<1> SUFFICES ASSUME FileInit PROVE FileInv
  OBVIOUS
<1>1. FileType /\ TempfileRows
  BY InitTyped DEF FileInit, TempfileRows
<1>2. /\ \A w \in Queryworkers : at[w] = "idle" /\ cmd[w] = None
      /\ \A w \in Deleters : at[w] = "old_tempfiles" /\ rows[w] = {} /\ purge[w] = {}
      /\ \A f \in Fids : ~Live(f) /\ opened[f] = {} /\ tempfile[f] = {}
      /\ todelete = {} /\ later = {} /\ old = {}
  BY ProcessAssumption DEF FileInit, Live
<1>3. OneHolder /\ VictimsOver
  BY <1>2 DEF OneHolder, VictimsOver, Holds
<1>4. RowsGone /\ QueuesGone /\ LivesAreOver
  BY <1>2 DEF RowsGone, QueuesGone, LivesAreOver, FidsOf, RowSteps
<1>5. Verified /\ CopySurvives
  BY <1>2 DEF Verified, CopySurvives
<1> QED BY <1>1, <1>3, <1>4, <1>5 DEF FileInv, DoomInv

LEMMA RestsInv ==
  ASSUME FileInv, UNCHANGED fileVars
  PROVE  FileInv'
<1>1. UNCHANGED <<file, autoinc, tempfile, on, disk, todelete, later, opened, old, at, cmd, rows,
                  purge>>
  BY DEF fileVars, tableVars, clientVars, deleterVars
<1>2. FileType' /\ TempfileRows'
  BY StepTyped DEF FileInv, DoomInv
<1>3. OneHolder' /\ VictimsOver' /\ LivesAreOver'
  BY <1>1 DEF FileInv, DoomInv, OneHolder, VictimsOver, LivesAreOver, Over, Live, Holds, MayStore
<1>4. RowsGone' /\ QueuesGone'
  BY <1>1 DEF FileInv, DoomInv, RowsGone, QueuesGone, Gone, Over, Live, Holds, MayStore
<1>5. Verified' /\ CopySurvives'
  BY <1>1 DEF FileInv, Verified, CopySurvives, Live
<1> QED BY <1>2, <1>3, <1>4, <1>5 DEF FileInv, DoomInv

LEMMA StepInv ==
  ASSUME Orderly, FileInv, [FileNext]_fileVars
  PROVE  FileInv'
<1>1. CASE UNCHANGED fileVars
  BY <1>1, RestsInv
<1>2. CASE FileNext
  <2>1. DoomInv /\ FileType' /\ TempfileRows'
    BY StepTyped DEF FileInv, DoomInv
  <2>2. Calm
    BY <2>1 DEF Calm, Orderly, DbRestart, QueryworkerDies, DoomInv, FileType, ProcessType
  <2>3. DoomInv'
    BY <1>2, <2>1, <2>2, DoomStep
  <2> QED BY <1>2, <2>1, <2>3, VerifiedStep, CopyStep DEF FileInv
<1> QED BY <1>1, <1>2

LEMMA InvHolds == ASSUME Orderly PROVE FileSpec => []FileInv
<1>1. FileInv /\ [FileNext]_fileVars => FileInv'
  BY StepInv
<1> QED BY <1>1, InitInv, PTL DEF FileSpec

\* LiveIsNotDoomed: no fid that waits in file_to_delete or file_to_delete_later has, or gets,
\* a row in `file`, with any number of clients that store under one key, delete and rename,
\* of query workers that die in the middle of a command and of deleters that die or work at
\* the same rows.  Orderly leaves out the three circumstances in which it does not hold.
THEOREM NoLiveFileIsDoomed == ASSUME Orderly PROVE FileSpec => []LiveIsNotDoomed
<1>1. FileInv => LiveIsNotDoomed
  BY DEF FileInv, DoomInv, QueuesGone, Gone, LiveIsNotDoomed
<1> QED BY <1>1, InvHolds, PTL

\* CopySurvives: a file that has a key has content on a device that a row of file_on names,
\* from replace_into_file until the file is deleted: create_close has verified the content
\* and recorded the device before, and deleters remove neither while the file is alive.
THEOREM ContentSurvives == ASSUME Orderly PROVE FileSpec => []CopySurvives
<1>1. FileInv => CopySurvives
  BY DEF FileInv
<1> QED BY <1>1, InvHolds, PTL

--------------------------------------------------------------------------------
\* The fid of a live file is not handed out

\* Clients are not slow; where the database may lose its counter, nothing else fails.
OneFailure == "slow" \notin Environment /\ ("reset" \notin Environment \/ MaxDeaths <= 1)

\* What is left of OneHolder when the database has forgotten fids: who may still store under
\* a fid is alone.
OneStorer ==
  /\ \A f \in Fids : opened[f] # {} => f < autoinc
  /\ \A w \in Queryworkers, f \in Fids : Holds(w, f) /\ MayStore(w) =>
       /\ f < autoinc /\ opened[f] = {}
       /\ \A v \in Queryworkers : Holds(v, f) /\ MayStore(v) => v = w

\* What the database sets its counter by: a fid has its row in `tempfile` as long as somebody
\* may store under it.
RowsKeepFids ==
  /\ \A f \in Fids : opened[f] # {} => tempfile[f] # {}
  /\ \A w \in Queryworkers, f \in Fids : Holds(w, f) /\ MayStore(w) => tempfile[f] # {}
  /\ \A w \in Deleters, f \in Fids : at[w] = "drop_row" /\ cmd[w].fid = f => Over(f)

OpenInv ==
  /\ FileType /\ TempfileRows /\ OneStorer /\ LiveIsNotOpen
  /\ "reset" \notin Environment => OneHolder
  /\ "reset" \in Environment /\ deaths.query = 0 /\ deaths.other = 0 => DoomInv /\ RowsKeepFids

LEMMA StorerTurn ==
  ASSUME FileType, OneStorer, NEW w \in Queryworkers, Turn(w), autoinc' \in Int,
         \A v \in Queryworkers \ {w} : at'[v] = at[v] /\ cmd'[v] = cmd[v]
  PROVE  OneStorer'
<1>0. /\ autoinc \in Int /\ \A f \in Fids : f \in Int
      /\ opened \in [Fids -> SUBSET Devs]
  BY FileBoundAssumption DEF FileType, TableType, WorldType, Fids
<1>1. \A v \in Queryworkers \ {w}, f \in Fids :
        (Holds(v, f)' <=> Holds(v, f)) /\ (MayStore(v)' <=> MayStore(v))
  BY DEF Holds, MayStore
<1>2. CASE Keeps(w)
  BY <1>0, <1>1, <1>2 DEF Keeps, OneStorer
<1>3. CASE Reseed(w)
  <2>1. UNCHANGED opened /\ autoinc' >= autoinc
    BY <1>3, ReseedRaises DEF Reseed, OnlyTables
  <2>2. UNCHANGED cmd /\ at[w] = "reseed"
    BY <1>3 DEF Reseed, Goto
  <2>3. \A v \in Queryworkers, f \in Fids : Holds(v, f)' => Holds(v, f) /\ (MayStore(v)' => MayStore(v))
    BY <1>1, <2>2 DEF Holds, MayStore
  <2> QED BY <1>0, <2>1, <2>3 DEF OneStorer
<1>4. CASE RegisterTempfile(w)
  <2>1. /\ \A f \in Fids : Holds(w, f)' <=> f = autoinc
        /\ autoinc \in Fids /\ autoinc' = autoinc + 1 /\ UNCHANGED opened
    BY <1>4, OpenRegisters DEF Holds
  <2>2. \A v \in Queryworkers : ~(Holds(v, autoinc) /\ MayStore(v))
    BY <1>0, <2>1 DEF OneStorer
  <2>3. opened[autoinc] = {}
    BY <1>0, <2>1 DEF OneStorer
  <2> QED BY <1>0, <1>1, <2>1, <2>2, <2>3 DEF OneStorer
<1>5. CASE FidIsFree(w)
  <2> DEFINE g == cmd[w].fid
  <2>1. /\ Holds(w, g) /\ MayStore(w) /\ g \in Fids
        /\ \A f \in Fids : ~Holds(w, f)'
        /\ \A f \in Fids \ {g} : opened'[f] = opened[f]
        /\ UNCHANGED autoinc
    BY <1>5, FreeOpens DEF Holds
  <2> HIDE DEF g
  <2> QED BY <1>0, <1>1, <2>1 DEF OneStorer
<1>6. CASE \E f \in Fids, k \in Keys \cup {None} : CreateClose(w, f, k)
  <2>1. PICK g \in Fids, k \in Keys \cup {None} : CreateClose(w, g, k)
    BY <1>6
  <2>2. /\ \A f \in Fids : Holds(w, f)' <=> f = g
        /\ opened[g] # {} /\ opened' = [opened EXCEPT ![g] = {}] /\ UNCHANGED autoinc
    BY <2>1, CloseBegins DEF Holds
  <2>3. \A f \in Fids : opened'[f] = IF f = g THEN {} ELSE opened[f]
    BY <1>0, <2>2
  <2> QED BY <1>0, <1>1, <2>2, <2>3 DEF OneStorer
<1> QED BY <1>2, <1>3, <1>4, <1>5, <1>6 DEF Turn

LEMMA StorerStep ==
  ASSUME FileType, FileType', OneStorer, Calm, FileNext
  PROVE  OneStorer'
<1>0. autoinc' \in Int
  BY FileBoundAssumption DEF FileType, TableType
<1>1. CASE \E w \in Queryworkers : StartCommand(w) \/ RunCommand(w) \/ QueryworkerDies(w)
  BY <1>0, <1>1, QueryFrame, QueryTurn, StorerTurn
<1>2. CASE NobodysTurn \/ \E f \in Fids : Age(f)
  <2>1. /\ UNCHANGED autoinc /\ \A v \in Queryworkers : at'[v] = at[v] /\ cmd'[v] = cmd[v]
        /\ \A f \in Fids : opened'[f] \in {{}, opened[f]}
    BY <1>2 DEF NobodysTurn, Age, tableVars, FileType, WorldType
  <2>2. \A v \in Queryworkers, f \in Fids :
          (Holds(v, f)' <=> Holds(v, f)) /\ (MayStore(v)' <=> MayStore(v))
    BY <2>1 DEF Holds, MayStore
  <2> QED BY <2>1, <2>2 DEF OneStorer
<1> QED BY <1>1, <1>2, DeleterIsNobody, UploadIsNobody DEF FileNext, World, Calm

\* Only create_open hands a fid out.
LEMMA HandedOut ==
  ASSUME FileType, Calm, FileNext, NEW f \in Fids, opened[f] = {}, opened'[f] # {}
  PROVE  \E w \in Queryworkers : FidIsFree(w) /\ f = cmd[w].fid
<1>1. CASE \E w \in Queryworkers : StartCommand(w) \/ RunCommand(w) \/ QueryworkerDies(w)
  <2>1. PICK w \in Queryworkers : Turn(w)
    BY <1>1, QueryTurn
  <2>2. ~(Keeps(w) \/ RegisterTempfile(w) \/ Reseed(w))
    BY DEF Keeps, RegisterTempfile, Reseed, OnlyTables
  <2>3. ~\E g \in Fids, k \in Keys \cup {None} : CreateClose(w, g, k)
    BY CloseBegins DEF FileType, WorldType
  <2>4. FidIsFree(w)
    BY <2>1, <2>2, <2>3 DEF Turn
  <2> QED BY <2>4, FreeOpens
<1>2. CASE NobodysTurn \/ \E g \in Fids : Age(g)
  BY <1>2 DEF NobodysTurn, Age, FileType, WorldType
<1> QED BY <1>1, <1>2, DeleterIsNobody, UploadIsNobody DEF FileNext, World, Calm

LEMMA LiveNotOpenStep ==
  ASSUME FileType, OneStorer, LiveIsNotOpen, Calm, FileNext
  PROVE  LiveIsNotOpen'
<1> SUFFICES ASSUME NEW f \in Fids, Live(f)', opened'[f] # {}
             PROVE  FALSE
  BY DEF LiveIsNotOpen
<1>1. CASE ~Live(f)
  <2>1. PICK w \in Queryworkers : ReplaceFile(w) /\ f = cmd[w].fid
    BY <1>1, NewLife
  <2>2. Holds(w, f) /\ MayStore(w)
    BY <2>1, StorerHolds DEF ReplaceFile, Goto
  <2> QED BY <2>1, <2>2 DEF OneStorer, ReplaceFile, OnlyTables
<1>2. CASE Live(f)
  <2>1. PICK w \in Queryworkers : FidIsFree(w) /\ f = cmd[w].fid
    BY <1>2, HandedOut DEF LiveIsNotOpen
  <2> QED BY <1>2, <2>1 DEF FidIsFree, Live
<1> QED BY <1>1, <1>2

\* A row of tempfile goes when nobody can store under the fid any more.
LEMMA RowLost ==
  ASSUME DoomInv, FileType', RowsKeepFids, Calm, FileNext,
         NEW f \in Fids, tempfile[f] # {}, tempfile'[f] = {}
  PROVE  opened'[f] = {} /\ \A v \in Queryworkers : ~(Holds(v, f)' /\ MayStore(v)')
<1>0. /\ FileType /\ OneHolder /\ VictimsOver /\ RowsGone
      /\ tempfile \in [Fids -> SUBSET Devs] /\ at \in [Workers -> Steps]
      /\ cmd \in [Workers -> Command \cup {None}]
  BY DEF DoomInv, FileType, TableType, ProcessType
<1>1. ASSUME Over(f) PROVE opened'[f] = {} /\ \A v \in Queryworkers : ~(Holds(v, f)' /\ MayStore(v)')
  BY <1>0, <1>1, HolderStep DEF Over
<1>2. CASE \E w \in Queryworkers : StartCommand(w) \/ RunCommand(w) \/ QueryworkerDies(w)
  <2>1. PICK w \in Queryworkers : StartCommand(w) \/ RunCommand(w) \/ QueryworkerDies(w)
    BY <1>2
  <2>2. /\ \A v \in Queryworkers \ {w} : at'[v] = at[v] /\ cmd'[v] = cmd[v]
        /\ w \in Workers
    BY <1>0, <2>1, QueryFrame
  <2>3. ~(StartCommand(w) \/ QueryworkerDies(w))
    BY DEF StartCommand, CreateOpen, CreateClose, DeleteKey, Rename, Begin, tableVars,
           QueryworkerDies
  <2>4. ~(FidIsFree(w) \/ FidIsInUse(w) \/ Reseed(w))
    BY DEF FidIsFree, FidIsInUse, Reseed, tableVars
  <2>5. ~RegisterTempfile(w)
    <3>1. ASSUME RegisterTempfile(w) PROVE tempfile'[f] \in {{cmd[w].dev}, tempfile[f]}
      BY <1>0, <3>1 DEF RegisterTempfile
    <3> QED BY <3>1
  <2>6. ~(\/ NoTempFile(w) \/ TempfileRow(w) \/ AddAborted(w) \/ FindOld(w)
          \/ SizeMismatch(w) \/ VerifySize(w) \/ AddFididToDevid(w) \/ ReplaceFile(w)
          \/ EnqueueForReplication(w))
    BY DEF NoTempFile, TempfileRow, AddAborted, FindOld, SizeMismatch, VerifySize,
           AddFididToDevid, ReplaceFile, EnqueueForReplication, tableVars
  <2>7. ~(\/ DeleteFileRow(w) \/ EnqueueDelete(w) \/ UnknownKey(w) \/ FindKey(w) \/ UpdateKey(w))
    BY DEF DeleteFileRow, EnqueueDelete, UnknownKey, FindKey, UpdateKey, tableVars
  <2>8. CASE DropColliding(w) \/ DeleteTempfileRow(w)
    <3>1. f = cmd[w].fid /\ UNCHANGED opened /\ at[w] # "idle"
      BY <1>0, <2>8 DEF DropColliding, DeleteTempfileRow, Finish, Goto, OnlyTables
    <3>2. Holds(w, f) /\ cmd[w] \in Command
      BY <1>0, <3>1, RunningFits DEF Holds
    <3>3. ~Holds(w, f)'
      <4>1. CASE DeleteTempfileRow(w)
        BY <1>0, <2>2, <4>1 DEF DeleteTempfileRow, Finish, Holds
      <4>2. CASE DropColliding(w)
        <5>1. PICK e : e = [cmd[w] EXCEPT !.fid = None]
          OBVIOUS
        <5>2. cmd'[w] = e /\ e.fid = None
          BY <1>0, <2>2, <3>2, <4>2, <5>1, FidWritten DEF DropColliding
        <5> QED BY <5>2, NoneAssumption DEF Holds
      <4> QED BY <2>8, <4>1, <4>2
    <3>4. opened[f] = {} /\ \A v \in Queryworkers \ {w} : ~Holds(v, f)
      BY <1>0, <3>2 DEF OneHolder
    <3> QED BY <2>2, <3>1, <3>3, <3>4 DEF Holds
  <2>9. CASE DeleteFileTemp(w)
    <3>1. f = cmd[w].victim /\ at[w] = "delete_file_temp"
      BY <1>0, <2>9 DEF DeleteFileTemp, Goto
    <3>2. cmd[w] # None
      BY <1>0, <3>1, RunningFits
    <3> QED BY <1>0, <1>1, <3>1, <3>2 DEF VictimsOver
  <2> QED BY <2>1, <2>3, <2>4, <2>5, <2>6, <2>7, <2>8, <2>9 DEF RunCommand
<1>3. CASE \E w \in Deleters : RunDeleter(w) \/ DeleterDies(w)
  <2>1. PICK w \in Deleters : RunDeleter(w) \/ DeleterDies(w)
    BY <1>3
  <2>2. CASE DropRow(w)
    <3>1. f = cmd[w].fid /\ at[w] = "drop_row"
      BY <1>0, <2>2 DEF DropRow, Goto
    <3> QED BY <1>1, <3>1 DEF RowsKeepFids
  <2>3. CASE DeletePurged(w)
    <3>1. f \in FidsOf(purge[w])
      BY <2>3 DEF DeletePurged
    <3> QED BY <1>0, <1>1, <3>1 DEF RowsGone, Gone
  <2>4. ~(\/ OldTempfiles(w) \/ RowExists(w) \/ NothingToPurge(w) \/ MassInsertFileOn(w)
          \/ EnqueuePurge(w))
    BY DEF OldTempfiles, RowExists, NothingToPurge, MassInsertFileOn, EnqueuePurge, tableVars
  <2>5. ~(\/ (\E due \in SUBSET later : FidsToDeleteAgain(w, due)) \/ Reenqueue(w)
          \/ DeleteLater(w) \/ SelectDeletes(w) \/ EndOfBatch(w)
          \/ HttpDelete(w) \/ AnswerLost(w) \/ RemoveFileOn(w) \/ Reschedule(w)
          \/ RemoveFid(w) \/ DeleterDies(w))
    BY DEF FidsToDeleteAgain, Reenqueue, DeleteLater, SelectDeletes, EndOfBatch, HttpDelete,
           AnswerLost, RemoveFileOn, Reschedule, RemoveFid, DeleterDies, tableVars
  <2>6. ~\E p \in Fids \X (Devs \cup {None}) :
           \/ NoMoreLocations(w, p) \/ DeviceIsDead(w, p) \/ DeviceAnswers(w, p)
           \/ DeviceRefuses(w, p) \/ RowSkipped(w, p)
    BY DEF NoMoreLocations, DeviceIsDead, DeviceAnswers, DeviceRefuses, RowSkipped, NextRow,
           tableVars
  <2> QED BY <2>1, <2>2, <2>3, <2>4, <2>5, <2>6 DEF RunDeleter
<1>4. ~(\/ \E g \in Fids : Age(g) \/ \E d \in Devs : Upload(g, d)
        \/ \E d \in Devs : MarkDead(d)
        \/ DbRestart)
  BY <1>0, OutsideFrame
<1> QED BY <1>2, <1>3, <1>4 DEF FileNext, World

LEMMA RowsKeepStep ==
  ASSUME DoomInv, FileType', RowsKeepFids, Calm, FileNext
  PROVE  RowsKeepFids'
<1>0. /\ FileType /\ OneHolder /\ LivesAreOver /\ \A f \in Fids : Over(f) => Over(f)'
      /\ tempfile \in [Fids -> SUBSET Devs] /\ at \in [Workers -> Steps]
      /\ cmd \in [Workers -> Command \cup {None}]
  BY HolderStep DEF DoomInv, FileType, TableType, ProcessType
<1>1. ASSUME NEW f \in Fids, opened'[f] # {}
      PROVE  tempfile'[f] # {}
  <2>1. CASE opened[f] # {}
    BY <1>1, <2>1, RowLost DEF RowsKeepFids
  <2>2. CASE opened[f] = {}
    <3>1. PICK w \in Queryworkers : FidIsFree(w) /\ f = cmd[w].fid
      BY <1>0, <1>1, <2>2, HandedOut
    <3> QED BY <1>0, <3>1, FreeOpens DEF RowsKeepFids
  <2> QED BY <2>1, <2>2
<1>2. ASSUME NEW v \in Queryworkers, NEW f \in Fids, Holds(v, f)', MayStore(v)'
      PROVE  tempfile'[f] # {}
  <2>1. CASE Holds(v, f) /\ MayStore(v)
    BY <1>2, <2>1, RowLost DEF RowsKeepFids
  <2>2. CASE ~(Holds(v, f) /\ MayStore(v))
    <3>1. ~(at'[v] = at[v] /\ cmd'[v] = cmd[v])
      BY <1>2, <2>2 DEF Holds, MayStore
    <3>2. ~\E w \in Deleters : RunDeleter(w) \/ DeleterDies(w)
      BY <1>0, <3>1, DeleterIsNobody DEF NobodysTurn
    <3>3. ~(\/ \E g \in Fids : Age(g) \/ \E d \in Devs : Upload(g, d)
            \/ \E d \in Devs : MarkDead(d)
            \/ DbRestart)
      BY <1>0, <3>1, OutsideFrame
    <3>4. PICK w \in Queryworkers : StartCommand(w) \/ RunCommand(w) \/ QueryworkerDies(w)
      BY <3>2, <3>3 DEF FileNext, World
    <3>5. w = v /\ Turn(v)
      BY <1>0, <3>1, <3>4, QueryFrame, QueryTurn
    <3>6. ~Keeps(v)
      BY <1>2, <2>2 DEF Keeps
    <3>7. ~Reseed(v)
      BY <1>2, <2>2 DEF Reseed, Goto, Holds, MayStore
    <3>8. ~FidIsFree(v)
      BY <1>0, <1>2, FreeOpens DEF Holds
    <3>9. CASE RegisterTempfile(v)
      <4>1. f = autoinc
        BY <1>0, <1>2, <3>9, OpenRegisters DEF Holds
      <4> QED BY <1>0, <3>9, <4>1 DEF RegisterTempfile
    <3>10. CASE \E g \in Fids, k \in Keys \cup {None} : CreateClose(v, g, k)
      <4>1. opened[f] # {} /\ UNCHANGED tempfile
        BY <1>0, <1>2, <3>10, CloseBegins DEF Holds
      <4> QED BY <4>1 DEF RowsKeepFids
    <3> QED BY <3>5, <3>6, <3>7, <3>8, <3>9, <3>10 DEF Turn
  <2> QED BY <2>1, <2>2
<1>3. ASSUME NEW w \in Deleters, NEW f \in Fids, at'[w] = "drop_row", cmd'[w].fid = f
      PROVE  Over(f)'
  <2>1. CASE at'[w] = at[w] /\ cmd'[w] = cmd[w]
    BY <1>0, <1>3, <2>1 DEF RowsKeepFids
  <2>2. CASE ~(at'[w] = at[w] /\ cmd'[w] = cmd[w])
    <3>1. ~\E v \in Queryworkers : StartCommand(v) \/ RunCommand(v) \/ QueryworkerDies(v)
      BY <1>0, <2>2, QueryFrame, ProcessAssumption
    <3>2. ~(\/ \E g \in Fids : Age(g) \/ \E d \in Devs : Upload(g, d)
            \/ \E d \in Devs : MarkDead(d)
            \/ DbRestart)
      BY <1>0, <2>2, OutsideFrame
    <3>3. PICK v \in Deleters : RunDeleter(v) \/ DeleterDies(v)
      BY <3>1, <3>2 DEF FileNext, World
    <3>4. v = w
      BY <1>0, <2>2, <3>3, DeleterFrame
    <3>5. RowExists(w)
      <4>1. ~(OldTempfiles(w) \/ DropRow(w) \/ NothingToPurge(w) \/ MassInsertFileOn(w)
              \/ EnqueuePurge(w) \/ DeletePurged(w) \/ DeleterDies(w))
        BY <1>0, <1>3 DEF OldTempfiles, DropRow, NothingToPurge, MassInsertFileOn, EnqueuePurge,
                          DeletePurged, DeleterDies, Restarts, Goto
      <4>2. ~(\/ (\E due \in SUBSET later : FidsToDeleteAgain(w, due)) \/ Reenqueue(w)
              \/ DeleteLater(w) \/ SelectDeletes(w) \/ EndOfBatch(w) \/ HttpDelete(w)
              \/ AnswerLost(w) \/ RemoveFileOn(w) \/ Reschedule(w) \/ RemoveFid(w))
        BY <1>0, <1>3 DEF FidsToDeleteAgain, Reenqueue, DeleteLater, SelectDeletes, EndOfBatch,
                          HttpDelete, AnswerLost, RemoveFileOn, Reschedule, RemoveFid, Goto
      <4>3. ~\E p \in Fids \X (Devs \cup {None}) :
               \/ NoMoreLocations(w, p) \/ DeviceIsDead(w, p) \/ DeviceAnswers(w, p)
               \/ DeviceRefuses(w, p) \/ RowSkipped(w, p)
        BY <1>0, <1>3 DEF NoMoreLocations, DeviceIsDead, DeviceAnswers, DeviceRefuses, RowSkipped,
                          NextRow, Goto
      <4> QED BY <3>3, <3>4, <4>1, <4>2, <4>3 DEF RunDeleter
    <3>6. PICK g \in FidsOf(rows[w]) : file[g] # None /\ cmd' = [cmd EXCEPT ![w] = Row(<<g, None>>)]
      BY <1>0, <1>3, <2>2, <3>5 DEF RowExists
    <3>7. g \in Fids /\ cmd'[w] = Row(<<g, None>>)
      BY <1>0, <3>6, RowsAreFids
    <3>8. f = g
      BY <1>3, <3>7 DEF Row, NoCommand
    <3> QED BY <1>0, <3>6, <3>7, <3>8 DEF LivesAreOver, Live
  <2> QED BY <2>1, <2>2
<1> QED BY <1>1, <1>2, <1>3 DEF RowsKeepFids

\* The counter is set behind all rows, and so behind all fids somebody may store under.
LEMMA ResetStep ==
  ASSUME FileType, OneHolder, RowsKeepFids, DbRestart
  PROVE  OneStorer'
<1> DEFINE used == {0} \cup {f \in Fids : tempfile[f] # {}}
<1>1. \A f \in Fids : tempfile[f] # {} => f < autoinc'
  <2>1. used \in SUBSET (0..MaxFid) /\ used # {} /\ MaxFid \in Nat
    BY FileBoundAssumption DEF Fids
  <2>2. autoinc' = 1 + Max(used)
    BY DEF DbRestart
  <2>3. \A f \in Fids : tempfile[f] # {} => f \in used
    OBVIOUS
  <2> HIDE DEF used
  <2>4. Max(used) \in 0..MaxFid /\ \A x \in used : Max(used) >= x
    BY <2>1, MaxExists
  <2> QED BY <2>2, <2>3, <2>4 DEF Fids
<1>2. UNCHANGED <<at, cmd, opened>>
  BY DEF DbRestart, clientVars
<1>3. \A v \in Queryworkers, f \in Fids :
        (Holds(v, f)' <=> Holds(v, f)) /\ (MayStore(v)' <=> MayStore(v))
  BY <1>2 DEF Holds, MayStore
<1> QED BY <1>1, <1>2, <1>3 DEF OneHolder, OneStorer, RowsKeepFids

\* A command that is started over holds what it held.
LEMMA RequeueStep ==
  ASSUME FileType, OneHolder, NEW w \in Queryworkers, QueryworkerDies(w)
  PROVE  OneHolder'
<1>0. /\ cmd \in [Workers -> Command \cup {None}] /\ w \in Workers
      /\ cmd[w] \in Command /\ cmd[w] # None /\ old \subseteq Fids
  BY DEF FileType, ProcessType, WorldType, QueryworkerDies
<1>1. UNCHANGED <<opened, tempfile, autoinc, old>>
  BY DEF QueryworkerDies, tableVars, clientVars
<1>2. \A f \in Fids : Holds(w, f)' => Holds(w, f)
  <2>1. CASE cmd'[w] = None
    BY <2>1 DEF Holds
  <2>2. CASE cmd'[w] # None
    <3>1. PICK e : e = [cmd[w] EXCEPT !.victim = None]
      OBVIOUS
    <3>2. cmd'[w] = e /\ e.fid = cmd[w].fid
      BY <1>0, <2>2, <3>1, VictimWritten DEF QueryworkerDies
    <3> QED BY <1>0, <3>2 DEF Holds
  <2> QED BY <2>1, <2>2
<1>3. \A v \in Queryworkers, f \in Fids : Holds(v, f)' => Holds(v, f)
  <2>1. \A v \in Queryworkers \ {w} : cmd'[v] = cmd[v]
    BY <1>0, QueryFrame
  <2> QED BY <1>2, <2>1 DEF Holds
<1> QED BY <1>0, <1>1, <1>3 DEF OneHolder

\* Failures are counted: those of query workers, and the others.
LEMMA DeathsMove ==
  ASSUME FileType, FileNext
  PROVE  /\ UNCHANGED deaths \/ CountDeath("query") \/ CountDeath("other")
         /\ deaths'.query = 0 => deaths.query = 0 /\ \A w \in Queryworkers : ~QueryworkerDies(w)
<1>0. UNCHANGED deaths \/ CountDeath("query") \/ CountDeath("other")
  <2>1. CASE \E w \in Queryworkers : StartCommand(w)
    BY <2>1 DEF StartCommand, CreateOpen, CreateClose, DeleteKey, Rename, Begin
  <2>2. CASE \E w \in Queryworkers :
               \/ RegisterTempfile(w) \/ FidIsFree(w) \/ FidIsInUse(w) \/ DropColliding(w)
               \/ Reseed(w)
    BY <2>2 DEF RegisterTempfile, FidIsFree, FidIsInUse, DropColliding, Reseed, OnlyTables
  <2>3. CASE \E w \in Queryworkers :
               \/ NoTempFile(w) \/ TempfileRow(w) \/ AddAborted(w) \/ FindOld(w)
               \/ SizeMismatch(w) \/ VerifySize(w) \/ AddFididToDevid(w) \/ ReplaceFile(w)
               \/ EnqueueForReplication(w) \/ DeleteTempfileRow(w)
    BY <2>3 DEF NoTempFile, TempfileRow, AddAborted, FindOld, SizeMismatch, VerifySize,
                AddFididToDevid, ReplaceFile, EnqueueForReplication, DeleteTempfileRow, OnlyTables
  <2>4. CASE \E w \in Queryworkers :
               \/ DeleteFileRow(w) \/ DeleteFileTemp(w) \/ EnqueueDelete(w)
               \/ UnknownKey(w) \/ FindKey(w) \/ UpdateKey(w)
    BY <2>4 DEF DeleteFileRow, DeleteFileTemp, EnqueueDelete, UnknownKey, FindKey, UpdateKey,
                OnlyTables
  <2>5. CASE \E w \in Deleters :
               \/ OldTempfiles(w) \/ RowExists(w) \/ DropRow(w) \/ NothingToPurge(w)
               \/ MassInsertFileOn(w) \/ EnqueuePurge(w) \/ DeletePurged(w)
    BY <2>5 DEF OldTempfiles, RowExists, DropRow, NothingToPurge, MassInsertFileOn, EnqueuePurge,
                DeletePurged, NotTheDeleters
  <2>6. CASE \E w \in Deleters :
               \/ (\E due \in SUBSET later : FidsToDeleteAgain(w, due)) \/ Reenqueue(w)
               \/ DeleteLater(w) \/ SelectDeletes(w) \/ EndOfBatch(w) \/ HttpDelete(w)
               \/ AnswerLost(w) \/ RemoveFileOn(w) \/ Reschedule(w) \/ RemoveFid(w)
    BY <2>6 DEF FidsToDeleteAgain, Reenqueue, DeleteLater, SelectDeletes, EndOfBatch, HttpDelete,
                AnswerLost, RemoveFileOn, Reschedule, RemoveFid, NotTheDeleters
  <2>7. CASE \E w \in Deleters : \E p \in Fids \X (Devs \cup {None}) :
               \/ NoMoreLocations(w, p) \/ DeviceIsDead(w, p) \/ DeviceAnswers(w, p)
               \/ DeviceRefuses(w, p) \/ RowSkipped(w, p)
    BY <2>7 DEF NoMoreLocations, DeviceIsDead, DeviceAnswers, DeviceRefuses, RowSkipped, NextRow,
                NotTheDeleters
  <2>8. CASE World
    BY <2>8 DEF World, Age, Upload, MarkDead, DbRestart, QueryworkerDies, DeleterDies
  <2> QED BY <2>1, <2>2, <2>3, <2>4, <2>5, <2>6, <2>7, <2>8 DEF FileNext, RunCommand, RunDeleter
<1>1. deaths \in [query : 0..MaxDeaths, other : 0..MaxDeaths]
  BY DEF FileType, WorldType
<1>2. CountDeath("query") => deaths'.query # 0
  BY <1>1 DEF CountDeath
<1>3. CountDeath("other") => deaths'.query = deaths.query
  BY <1>1 DEF CountDeath
<1>4. \A w \in Queryworkers : QueryworkerDies(w) => CountDeath("query")
  BY DEF QueryworkerDies
<1> QED BY <1>0, <1>2, <1>3, <1>4

LEMMA DeathsCounted ==
  ASSUME FileType, FileNext
  PROVE  /\ (deaths.query = 0 /\ deaths.other = 0)' => deaths.query = 0 /\ deaths.other = 0
         /\ (\E w \in Queryworkers : QueryworkerDies(w)) \/ DbRestart =>
              /\ ~(deaths.query = 0 /\ deaths.other = 0)'
              /\ MaxDeaths <= 1 => deaths.query = 0 /\ deaths.other = 0
<1>0. deaths \in [query : 0..MaxDeaths, other : 0..MaxDeaths] /\ MaxDeaths \in Nat
  BY FileBoundAssumption DEF FileType, WorldType
<1>1. ASSUME NEW who \in {"query", "other"}, CountDeath(who)
      PROVE  /\ ~(deaths.query = 0 /\ deaths.other = 0)'
             /\ MaxDeaths <= 1 => deaths.query = 0 /\ deaths.other = 0
  BY <1>0, <1>1 DEF CountDeath
<1>2. (\E w \in Queryworkers : QueryworkerDies(w)) \/ DbRestart =>
        CountDeath("query") \/ CountDeath("other")
  BY DEF QueryworkerDies, DbRestart
<1>3. UNCHANGED deaths \/ CountDeath("query") \/ CountDeath("other")
  BY DeathsMove
<1> QED BY <1>1, <1>2, <1>3

LEMMA OpenStep ==
  ASSUME OneFailure, OpenInv, [FileNext]_fileVars
  PROVE  OpenInv'
<1>0. FileType /\ FileType' /\ TempfileRows'
  BY StepTyped DEF OpenInv
<1>1. CASE UNCHANGED fileVars
  <2>1. UNCHANGED <<file, autoinc, tempfile, todelete, later, opened, old, at, cmd, rows, purge,
                    deaths>>
    BY <1>1 DEF fileVars, tableVars, clientVars, deleterVars
  <2>2. /\ OneStorer => OneStorer'
        /\ LiveIsNotOpen => LiveIsNotOpen'
        /\ OneHolder => OneHolder'
        /\ RowsKeepFids => RowsKeepFids'
    BY <2>1 DEF OneStorer, LiveIsNotOpen, OneHolder, RowsKeepFids, Over, Live, Holds, MayStore
  <2>3. DoomInv => DoomInv'
    <3>1. OneHolder /\ VictimsOver /\ LivesAreOver => OneHolder' /\ VictimsOver' /\ LivesAreOver'
      BY <2>1 DEF OneHolder, VictimsOver, LivesAreOver, Over, Live, Holds, MayStore
    <3>2. RowsGone /\ QueuesGone => RowsGone' /\ QueuesGone'
      BY <2>1 DEF RowsGone, QueuesGone, Gone, Over, Live, Holds, MayStore
    <3> QED BY <1>0, <3>1, <3>2 DEF DoomInv
  <2> QED BY <1>0, <2>1, <2>2, <2>3 DEF OpenInv
<1>2. CASE FileNext /\ Calm
  <2>1. OneStorer' /\ LiveIsNotOpen'
    BY <1>0, <1>2, StorerStep, LiveNotOpenStep DEF OpenInv
  <2>2. "reset" \notin Environment => OneHolder'
    BY <1>0, <1>2, HolderStep DEF OpenInv
  <2>3. "reset" \in Environment /\ (deaths.query = 0 /\ deaths.other = 0)' =>
          DoomInv' /\ RowsKeepFids'
    BY <1>0, <1>2, DeathsCounted, DoomStep, RowsKeepStep DEF OpenInv
  <2> QED BY <1>0, <2>1, <2>2, <2>3 DEF OpenInv
<1>3. CASE FileNext /\ ~Calm
  <2>1. DbRestart \/ \E w \in Queryworkers : QueryworkerDies(w)
    BY <1>3 DEF Calm, OneFailure
  <2>2. ~(deaths.query = 0 /\ deaths.other = 0)'
    BY <1>0, <1>3, <2>1, DeathsCounted
  <2>3. UNCHANGED <<file, opened>>
    BY <2>1 DEF DbRestart, QueryworkerDies, tableVars, clientVars
  <2>4. LiveIsNotOpen'
    BY <2>3 DEF OpenInv, LiveIsNotOpen, Live
  <2>5. "reset" \in Environment => DoomInv /\ RowsKeepFids
    BY <1>0, <1>3, <2>1, DeathsCounted DEF OneFailure, OpenInv
  <2>6. OneHolder
    BY <2>5 DEF OpenInv, DoomInv
  <2>7. CASE DbRestart
    <3>1. "reset" \in Environment
      BY <2>7 DEF DbRestart
    <3> QED BY <1>0, <2>2, <2>4, <2>5, <2>6, <2>7, <3>1, ResetStep DEF OpenInv
  <2>8. CASE \E w \in Queryworkers : QueryworkerDies(w)
    <3>1. OneHolder'
      BY <1>0, <2>6, <2>8, RequeueStep
    <3>2. OneStorer'
      BY <3>1 DEF OneHolder, OneStorer
    <3> QED BY <1>0, <2>2, <2>4, <3>1, <3>2 DEF OpenInv
  <2> QED BY <2>1, <2>7, <2>8
<1> QED BY <1>1, <1>2, <1>3

\* LiveIsNotOpen: create_open does not hand out the fid of a file that has a key, and no upload
\* becomes a file while a client has its fid to write to.  With a database that keeps its
\* counter this holds however many processes die and commands are started over; with one that
\* forgets it, through one failure, since the rows of `tempfile` it counts by are there as long
\* as somebody may store under their fids.
THEOREM NoLiveFileIsOpen == ASSUME OneFailure PROVE FileSpec => []LiveIsNotOpen
<1>1. FileInit => OpenInv
  <2> SUFFICES ASSUME FileInit PROVE OpenInv
    OBVIOUS
  <2>1. DoomInv
    BY InitInv DEF FileInv
  <2>2. /\ \A w \in Queryworkers : cmd[w] = None
        /\ \A w \in Deleters : at[w] = "old_tempfiles"
        /\ \A f \in Fids : opened[f] = {}
    BY ProcessAssumption DEF FileInit
  <2>3. RowsKeepFids /\ LiveIsNotOpen /\ OneStorer
    BY <2>2 DEF RowsKeepFids, LiveIsNotOpen, OneStorer, Holds
  <2> QED BY <2>1, <2>3 DEF OpenInv, DoomInv
<1>2. OpenInv /\ [FileNext]_fileVars => OpenInv'
  BY OpenStep
<1>3. OpenInv => LiveIsNotOpen
  BY DEF OpenInv
<1> QED BY <1>1, <1>2, <1>3, PTL DEF FileSpec

--------------------------------------------------------------------------------
\* Nothing is forgotten

HasContent(f) == \E d \in Devs : <<f, d>> \in disk /\ d \notin dead

Queued(f) == f \in todelete \cup later

\* A command has taken the file's row away and is going to queue its fid.
BeingDeleted(f) ==
  \E w \in Queryworkers : at[w] \in {"delete_file_temp", "enqueue_delete"} /\ cmd[w].victim = f

\* All content of the file is recorded in file_on.
Recorded(f) == \A d \in Devs : <<f, d>> \in disk => <<f, d>> \in on \/ d \in dead

\* A key names the fid, or somebody deletes it.
Kept(f) == Live(f) \/ Queued(f) \/ BeingDeleted(f)

\* The row in `tempfile` may go.
Safe(f) == HasContent(f) => Kept(f) \/ f \in hit

\* Has a command still to do with the upload it holds?
Uploading(w) ==
  /\ at[w] \notin {"enqueue_replication", "delete_tempfile"}
  /\ ~(cmd[w].op = "abort" /\ at[w] = "enqueue_delete")

\* No fid is given out twice, so that the detours of create_open are never taken; and which
\* commands have no fid.
NoCollision ==
  \A w \in Queryworkers :
    /\ at[w] \notin {"drop_colliding", "reseed"}
    /\ at[w] = "insert_tempfile" \/ (cmd[w] # None /\ cmd[w].op \in {"delete", "rename"})
         => cmd[w].fid = None

\* An upload has its row in `tempfile`, with the device its content is on.
UploadsHaveRows ==
  /\ \A f \in Fids : opened[f] # {} => \E d \in Devs : opened[f] = {d} /\ tempfile[f] = {d}
  /\ \A w \in Queryworkers, f \in Fids :
       Holds(w, f) /\ Uploading(w) => tempfile[f] = {cmd[w].dev}

\* Only its own command knows the fid of an upload that is aborted.
AbortsAreAlone ==
  \A w \in Queryworkers, f \in Fids : Holds(w, f) /\ cmd[w].op = "abort" =>
    /\ ~Live(f)
    /\ \A v \in Queryworkers \ {w} : cmd[v] # None => cmd[v].victim # f

\* The fids a deleter works at: rows of a queue, rows of `tempfile` that it purges or drops.
DeleterHas(w, f) ==
  \/ at[w] \in {"reenqueue", "delete_later", "next_row"} \cup RowSteps /\ f \in FidsOf(rows[w])
  \/ at[w] \in RowSteps /\ f = cmd[w].fid
  \/ at[w] \in {"enqueue_purge", "delete_purged"} /\ f \in FidsOf(purge[w])
  \/ at[w] = "drop_row" /\ f = cmd[w].fid

\* A deleter that cleans up `tempfile` has found the rows as they are, if they are there still.
PurgesCover ==
  \A w \in Deleters :
    /\ at[w] \in {"row_exists", "drop_row"} =>
         \A f \in FidsOf(rows[w]) : \A d \in tempfile[f] : <<f, d>> \in rows[w]
    /\ \A f \in FidsOf(purge[w]) : f \in old /\ \A d \in tempfile[f] : <<f, d>> \in purge[w]
    /\ at[w] = "drop_row" => cmd[w].fid \in old

\* A deleter takes a fid out of a queue when it waits in the other or has no content; or
\* another deleter just takes it out of the other.
RemovesDone ==
  \A w \in Deleters :
    /\ at[w] = "delete_later" => \A f \in FidsOf(rows[w]) : f \in todelete \cup hit
    /\ at[w] \in {"next_row"} \cup RowSteps =>
         \A f \in Fids : <<f, None>> \in rows[w] => ~HasContent(f)
    /\ at[w] = "remove_fid" => cmd[w].fid \in later \cup hit \/ ~HasContent(cmd[w].fid)
    /\ at[w] = "remove_file_on" => ThisRow(w) \notin disk \/ cmd[w].dev \in dead

\* What create_close has stored, and what is deleted, is recorded.
StoredIsRecorded ==
  /\ \A f \in Fids : Live(f) \/ Queued(f) => Recorded(f)
  /\ \A w \in Queryworkers :
       /\ at[w] \in {"replace_file", "enqueue_replication", "delete_tempfile"} => Recorded(cmd[w].fid)
       /\ at[w] \in DeleteSteps => Recorded(cmd[w].victim)
  /\ \A w \in Deleters, f \in Fids : DeleterHas(w, f) => Recorded(f)

\* Who is going to take a row of `tempfile` away has somebody else to care for the fid.
RowsGoSafely ==
  /\ \A w \in Queryworkers :
       at[w] \in {"enqueue_replication", "delete_tempfile"} => Safe(cmd[w].fid)
  /\ \A w \in Deleters :
       /\ at[w] = "delete_purged" => \A f \in FidsOf(purge[w]) : Safe(f)
       /\ at[w] = "drop_row" => Safe(cmd[w].fid)

CrossingsAreHit == \A f \in Fids : QueuesCross(f) => f \in hit
ContentIsFound  == \A p \in disk : p[2] \in dead \/ p \in on \/ p[2] \in tempfile[p[1]]
ContentIsCared  == \A f \in Fids : Safe(f) \/ tempfile[f] # {}

CareInv ==
  /\ NoCollision /\ UploadsHaveRows /\ AbortsAreAlone /\ PurgesCover /\ RemovesDone
  /\ StoredIsRecorded /\ RowsGoSafely /\ CrossingsAreHit /\ ContentIsFound /\ ContentIsCared

--------------------------------------------------------------------------------
\* What a step writes

CareBefore == Orderly /\ FileInv /\ CareInv /\ CareNext

LEMMA CalmFacts ==
  ASSUME CareBefore
  PROVE  /\ DoomInv /\ FileInv' /\ FileType /\ FileType' /\ old \subseteq old' /\ hit \subseteq hit'
         /\ \A f \in Fids : (Over(f) => Over(f)') /\ (Gone(f) => Gone(f)')
         /\ {"slow", "reset", "requeue"} \cap Environment = {}
<1>0. FileInv /\ FileNext /\ DoomInv /\ FileType /\ OneHolder /\ Orderly /\ hit \subseteq hit'
  BY DEF CareBefore, FileInv, DoomInv, CareNext
<1>1. {"slow", "reset", "requeue"} \cap Environment = {}
  BY <1>0 DEF Orderly
<1>2. Calm
  BY <1>0, <1>1 DEF Calm, DbRestart, QueryworkerDies, FileType, ProcessType
<1>3. FileInv' /\ FileType'
  BY <1>0, StepInv DEF FileInv, DoomInv
<1>4. \A f \in Fids : (Over(f) => Over(f)') /\ (Gone(f) => Gone(f)')
  BY <1>0, <1>2, <1>3, HolderStep, GoneStays
<1> QED BY <1>0, <1>1, <1>2, <1>3, <1>4, OldStays

QuerySteps(w) == w \in Queryworkers /\ (StartCommand(w) \/ RunCommand(w))
Dies(w) == w \in Queryworkers /\ QueryworkerDies(w)
DeleterSteps(w) == w \in Deleters /\ (RunDeleter(w) \/ DeleterDies(w))
TimeSteps == \/ \E f \in Fids : Age(f) \/ \E d \in Devs : Upload(f, d)
             \/ \E d \in Devs : MarkDead(d)

LEMMA WhoSteps ==
  ASSUME CareBefore
  PROVE  (\E w : QuerySteps(w)) \/ (\E w : Dies(w)) \/ (\E w : DeleterSteps(w)) \/ TimeSteps
<1>1. ~DbRestart /\ FileNext
  BY CalmFacts DEF DbRestart, CareBefore, CareNext
<1> QED BY <1>1 DEF FileNext, World, QuerySteps, Dies, DeleterSteps, TimeSteps

\* Of a query worker's statements, these write the tables.
LEMMA QueryWrites ==
  ASSUME CareBefore, NEW w, QuerySteps(w)
  PROVE  /\ UNCHANGED file \/ ReplaceFile(w) \/ DeleteFileRow(w) \/ UpdateKey(w)
         /\ UNCHANGED tempfile \/ RegisterTempfile(w) \/ DeleteTempfileRow(w) \/ DeleteFileTemp(w)
         /\ UNCHANGED on \/ AddAborted(w) \/ AddFididToDevid(w)
         /\ UNCHANGED todelete \/ EnqueueDelete(w)
         /\ UNCHANGED opened \/ FidIsFree(w) \/ \E f \in Fids, k \in Keys \cup {None} : CreateClose(w, f, k)
         /\ UNCHANGED <<later, disk, dead, rows, purge>>
         /\ \A v \in Workers \ {w} : at'[v] = at[v] /\ cmd'[v] = cmd[v]
<1>0. /\ w \in Queryworkers /\ FileType /\ w \in Workers
      /\ at[w] \notin {"drop_colliding", "reseed"}
  BY CalmFacts DEF QuerySteps, CareBefore, CareInv, NoCollision
<1>1. /\ UNCHANGED <<later, disk, dead, rows, purge>>
      /\ \A v \in Workers \ {w} : at'[v] = at[v] /\ cmd'[v] = cmd[v]
  BY <1>0, QueryFrame DEF QuerySteps, deleterVars
<1>2. CASE StartCommand(w)
  <2>1. ASSUME NEW step, NEW c, Begin(w, step, c)
        PROVE  file' = file /\ tempfile' = tempfile /\ on' = on /\ todelete' = todelete /\ opened' = opened
    BY <2>1 DEF Begin, tableVars, clientVars
  <2>2. CASE CreateOpen(w)
    BY <1>1, <2>1, <2>2, Zenon DEF CreateOpen
  <2>3. CASE \E k \in Keys : DeleteKey(w, k)
    BY <1>1, <2>1, <2>3, Zenon DEF DeleteKey
  <2>4. CASE \E k, to \in Keys : k # to /\ Rename(w, k, to)
    <3>1. PICK k \in Keys, to \in Keys : Rename(w, k, to)
      BY <2>4
    <3>2. Begin(w, "find_key", [NoCommand EXCEPT !.op = "rename", !.key = k, !.to = to])
      BY <3>1, Zenon DEF Rename
    <3> QED BY <1>1, <2>1, <3>2, Zenon
  <2>5. CASE \E f \in Fids, k \in Keys \cup {None} : CreateClose(w, f, k)
    <3>1. ASSUME NEW f, NEW k, CreateClose(w, f, k)
          PROVE  file' = file /\ tempfile' = tempfile /\ on' = on /\ todelete' = todelete
      BY <3>1, Zenon DEF CreateClose, tableVars
    <3> QED BY <1>1, <2>5, <3>1
  <2> QED BY <1>2, <2>2, <2>3, <2>4, <2>5 DEF StartCommand
<1>3. CASE RegisterTempfile(w) \/ FidIsFree(w) \/ FidIsInUse(w)
  BY <1>1, <1>3 DEF RegisterTempfile, FidIsFree, FidIsInUse, OnlyTables, tableVars
<1>4. ~DropColliding(w) /\ ~Reseed(w)
  BY <1>0 DEF DropColliding, Reseed, Goto
<1>5. CASE \/ NoTempFile(w) \/ TempfileRow(w) \/ AddAborted(w) \/ FindOld(w)
           \/ SizeMismatch(w) \/ VerifySize(w) \/ AddFididToDevid(w)
  BY <1>1, <1>5 DEF NoTempFile, TempfileRow, AddAborted, FindOld, SizeMismatch, VerifySize,
       AddFididToDevid, OnlyTables, tableVars
<1>6. CASE ReplaceFile(w) \/ EnqueueForReplication(w) \/ DeleteTempfileRow(w)
  BY <1>1, <1>6 DEF ReplaceFile, EnqueueForReplication, DeleteTempfileRow, OnlyTables, tableVars
<1>7. CASE \/ DeleteFileRow(w) \/ DeleteFileTemp(w) \/ EnqueueDelete(w) \/ UnknownKey(w) \/ FindKey(w)
  BY <1>1, <1>7 DEF DeleteFileRow, DeleteFileTemp, EnqueueDelete, UnknownKey, FindKey, OnlyTables,
       tableVars
<1>8. CASE UpdateKey(w)
  BY <1>1, <1>8 DEF UpdateKey, OnlyTables
<1> QED BY <1>2, <1>3, <1>4, <1>5, <1>6, <1>7, <1>8 DEF QuerySteps, RunCommand

\* Its death writes none.
LEMMA DeathWrites ==
  ASSUME CareBefore, NEW w, Dies(w)
  PROVE  /\ w \in Queryworkers /\ cmd[w] # None /\ at'[w] = "idle" /\ cmd'[w] = None
         /\ \A v \in Workers \ {w} : at'[v] = at[v] /\ cmd'[v] = cmd[v]
         /\ UNCHANGED <<file, tempfile, on, todelete, later, opened, old, disk, dead, rows, purge>>
         /\ \A f \in Fids : f \in {cmd[w].fid, cmd[w].victim} => f \in hit'
<1>0. /\ w \in Queryworkers /\ FileType /\ w \in Workers /\ "requeue" \notin Environment
      /\ at \in [Workers -> Steps] /\ cmd \in [Workers -> Command \cup {None}]
  BY CalmFacts DEF Dies, FileType, ProcessType
<1>1. \A f \in Fids : LeftBehind(f) => f \in hit'
  BY DEF CareBefore, CareNext
<1>2. \A f \in Fids : f \in {cmd[w].fid, cmd[w].victim} => LeftBehind(f)
  BY DEF LeftBehind, Dies
<1>3. /\ cmd[w] # None /\ at' = [at EXCEPT ![w] = "idle"] /\ cmd' = [cmd EXCEPT ![w] = None]
      /\ UNCHANGED <<file, tempfile, on, todelete, later, opened, old, disk, dead, rows, purge>>
  BY <1>0 DEF Dies, QueryworkerDies, tableVars, clientVars, deleterVars
<1> QED BY <1>0, <1>1, <1>2, <1>3

\* And of a deleter's these.
LEMMA DeleterWrites ==
  ASSUME CareBefore, NEW w, DeleterSteps(w)
  PROVE  /\ UNCHANGED <<file, opened, old, dead>>
         /\ \A v \in Workers \ {w} : at'[v] = at[v] /\ cmd'[v] = cmd[v]
         /\ \A v \in Deleters \ {w} : rows'[v] = rows[v] /\ purge'[v] = purge[v]
         /\ UNCHANGED tempfile \/ DeletePurged(w) \/ DropRow(w)
         /\ UNCHANGED on \/ MassInsertFileOn(w) \/ RemoveFileOn(w)
         /\ UNCHANGED disk \/ HttpDelete(w) \/ AnswerLost(w)
         /\ UNCHANGED todelete \/ EnqueuePurge(w) \/ Reenqueue(w) \/ RemoveFid(w)
         /\ UNCHANGED later \/ Reschedule(w) \/ DeleteLater(w)
<1>0. w \in Deleters /\ FileType
  BY CalmFacts DEF DeleterSteps
<1>1. /\ UNCHANGED <<file, opened, old, dead>>
      /\ \A v \in Workers \ {w} : at'[v] = at[v] /\ cmd'[v] = cmd[v]
      /\ \A v \in Deleters \ {w} : rows'[v] = rows[v] /\ purge'[v] = purge[v]
  BY <1>0, DeleterFrame DEF DeleterSteps
<1>2. CASE OldTempfiles(w) \/ RowExists(w) \/ NothingToPurge(w) \/ MassInsertFileOn(w)
           \/ EnqueuePurge(w) \/ DeletePurged(w) \/ DropRow(w)
  BY <1>1, <1>2 DEF OldTempfiles, RowExists, NothingToPurge, MassInsertFileOn, EnqueuePurge,
       DeletePurged, DropRow, tableVars
<1>4. CASE \/ (\E due \in SUBSET later : FidsToDeleteAgain(w, due)) \/ Reenqueue(w)
           \/ DeleteLater(w) \/ SelectDeletes(w) \/ EndOfBatch(w)
  BY <1>1, <1>4 DEF FidsToDeleteAgain, Reenqueue, DeleteLater, SelectDeletes, EndOfBatch, tableVars
<1>5. CASE \E p \in Fids \X (Devs \cup {None}) :
             \/ NoMoreLocations(w, p) \/ DeviceIsDead(w, p) \/ DeviceAnswers(w, p)
             \/ DeviceRefuses(w, p) \/ RowSkipped(w, p)
  BY <1>1, <1>5 DEF NoMoreLocations, DeviceIsDead, DeviceAnswers, DeviceRefuses, RowSkipped, NextRow,
       tableVars
<1>6. CASE \/ HttpDelete(w) \/ AnswerLost(w) \/ RemoveFileOn(w) \/ Reschedule(w)
           \/ RemoveFid(w) \/ DeleterDies(w)
  BY <1>1, <1>6 DEF HttpDelete, AnswerLost, RemoveFileOn, Reschedule, RemoveFid, DeleterDies, tableVars
<1> QED BY <1>2, <1>4, <1>5, <1>6 DEF DeleterSteps, RunDeleter

LEMMA TimeWrites ==
  ASSUME FileType, TimeSteps
  PROVE  /\ UNCHANGED <<file, tempfile, on, torepl, todelete, later, at, cmd, rows, purge>>
         /\ dead \subseteq dead' /\ disk \subseteq disk'
         /\ \A f \in Fids, d \in Devs : <<f, d>> \in disk' => <<f, d>> \in disk \/ d \in opened[f]
BY DEF TimeSteps, Age, Upload, MarkDead, tableVars, deleterVars

\* How a query worker goes on

\* It is through with its command,
Ends(w) ==
  /\ at[w] \in {"fid_in_use", "tempfile_row", "verify_size", "delete_tempfile", "enqueue_delete",
                "find_key", "update_key"}
  /\ at'[w] = "idle" /\ cmd'[w] = None
\* or goes on to the next statement with its locals as they are,
Follows(w) ==
  /\ cmd'[w] = cmd[w] /\ cmd[w] # None
  /\ \/ at[w] = "tempfile_row" /\ at'[w] \in {"add_aborted", "find_old"}
     \/ at[w] = "find_old" /\ at'[w] = "verify_size"
     \/ at[w] = "verify_size" /\ at'[w] = "add_fidid"
     \/ at[w] = "add_fidid" /\ at'[w] = "replace_file"
     \/ at[w] = "replace_file" /\ at'[w] = "enqueue_replication"
     \/ at[w] = "enqueue_replication" /\ at'[w] = "delete_tempfile"
     \/ at[w] = "delete_file" /\ at'[w] = "delete_file_temp"
     \/ at[w] = "delete_file_temp" /\ at'[w] = "enqueue_delete"
     \/ at[w] = "enqueue_delete" /\ at'[w] = "verify_size" /\ cmd[w].op = "close"
\* or finds a file to delete or rename, which its own is when it is aborted,
Targets(w) ==
  /\ at[w] \in {"add_aborted", "find_old", "find_key"} /\ at'[w] \in {"delete_file", "update_key"}
  /\ cmd[w] # None /\ cmd'[w] # None
  /\ cmd'[w].op = cmd[w].op /\ cmd'[w].key = cmd[w].key
  /\ cmd'[w].fid = cmd[w].fid /\ cmd'[w].dev = cmd[w].dev
  /\ cmd'[w].victim \in Fids
  /\ IF at[w] = "add_aborted" THEN cmd'[w].victim = cmd[w].fid /\ cmd[w].op = "abort"
                              ELSE Live(cmd'[w].victim)
\* or begins a command that has no fid yet,
Starts(w) ==
  /\ at[w] = "idle" /\ at'[w] \in {"insert_tempfile", "find_key"} /\ cmd'[w] # None
  /\ cmd'[w].fid = None /\ cmd'[w].victim = None /\ cmd'[w].op \in {"open", "delete", "rename"}
\* or gets one from the database,
Registers(w) ==
  /\ at[w] = "insert_tempfile" /\ at'[w] = "fid_in_use" /\ cmd'[w] # None
  /\ cmd'[w].op = "open" /\ cmd'[w].fid = autoinc /\ autoinc \in Fids
  /\ cmd'[w].dev = cmd[w].dev /\ cmd'[w].victim = None
  /\ tempfile' = [tempfile EXCEPT ![autoinc] = {cmd[w].dev}]
\* or from the client that wrote to it.
Closes(w) ==
  /\ at[w] = "idle" /\ at'[w] = "tempfile_row" /\ cmd'[w] # None /\ cmd'[w].victim = None
  /\ cmd'[w].fid \in Fids /\ cmd'[w].dev \in opened[cmd'[w].fid]
  /\ cmd'[w].op \in {"abort", "close"}

LEMMA QueryMoves ==
  ASSUME CareBefore, NEW w, QuerySteps(w)
  PROVE  /\ Ends(w) \/ Follows(w) \/ Targets(w) \/ Starts(w) \/ Registers(w) \/ Closes(w)
         /\ UNCHANGED tempfile \/ Registers(w) \/ (Ends(w) /\ DeleteTempfileRow(w))
              \/ (Follows(w) /\ DeleteFileTemp(w))
<1>0. /\ w \in Queryworkers /\ FileType /\ w \in Workers
      /\ at \in [Workers -> Steps] /\ cmd \in [Workers -> Command \cup {None}]
      /\ at[w] \notin {"drop_colliding", "reseed"}
      /\ at[w] # "idle" => cmd[w] \in Command /\ cmd[w] # None /\ QueryFits(at[w], cmd[w])
  BY CalmFacts, RunningFits DEF QuerySteps, CareBefore, CareInv, NoCollision, FileType, ProcessType
<1>1. CASE CreateOpen(w)
  <2>1. PICK d \in Devs : Begin(w, "insert_tempfile", [NoCommand EXCEPT !.dev = d])
    BY <1>1 DEF CreateOpen
  <2>2. PICK c : c = [NoCommand EXCEPT !.dev = d]
    OBVIOUS
  <2>3. c \in Command /\ c.fid = None /\ c.victim = None /\ c.op = "open"
    BY <2>2 DEF NoCommand, Command
  <2> QED BY <1>0, <2>1, <2>2, <2>3, CommandIsSome DEF Begin, Starts, tableVars
<1>2. CASE \E k \in Keys : DeleteKey(w, k)
  <2>1. PICK k \in Keys : Begin(w, "find_key", [NoCommand EXCEPT !.op = "delete", !.key = k])
    BY <1>2, Zenon DEF DeleteKey
  <2>2. PICK c : c = [NoCommand EXCEPT !.op = "delete", !.key = k]
    OBVIOUS
  <2>3. c \in Command /\ c.fid = None /\ c.victim = None /\ c.op = "delete"
    BY <2>2 DEF NoCommand, Command
  <2> QED BY <1>0, <2>1, <2>2, <2>3, CommandIsSome DEF Begin, Starts, tableVars
<1>3. CASE \E k, to \in Keys : k # to /\ Rename(w, k, to)
  <2>1. PICK k \in Keys, to \in Keys : Rename(w, k, to)
    BY <1>3
  <2>2. Begin(w, "find_key", [NoCommand EXCEPT !.op = "rename", !.key = k, !.to = to])
    BY <2>1, Zenon DEF Rename
  <2>3. PICK c : c = [NoCommand EXCEPT !.op = "rename", !.key = k, !.to = to]
    OBVIOUS
  <2>4. c \in Command /\ c.fid = None /\ c.victim = None /\ c.op = "rename"
    BY <2>3 DEF NoCommand, Command
  <2> QED BY <1>0, <2>2, <2>3, <2>4, CommandIsSome DEF Begin, Starts, tableVars
<1>4. CASE \E f \in Fids, k \in Keys \cup {None} : CreateClose(w, f, k)
  <2>1. PICK f \in Fids, k \in Keys \cup {None} : CreateClose(w, f, k)
    BY <1>4
  <2>2. PICK d \in opened[f] :
          cmd' = [cmd EXCEPT ![w] = [NoCommand EXCEPT !.op = IF k = None THEN "abort" ELSE "close",
                                                      !.fid = f, !.key = k, !.dev = d]]
    BY <2>1, Zenon DEF CreateClose
  <2>3. PICK c : c = [NoCommand EXCEPT !.op = IF k = None THEN "abort" ELSE "close",
                                       !.fid = f, !.key = k, !.dev = d]
    OBVIOUS
  <2>4. /\ c \in Command /\ c.fid = f /\ c.victim = None /\ c.dev = d /\ c.key = k
        /\ c.op = IF k = None THEN "abort" ELSE "close"
    BY <1>0, <2>2, <2>3 DEF NoCommand, Command, FileType, WorldType
  <2>5. cmd'[w] = c /\ at'[w] = "tempfile_row" /\ at[w] = "idle" /\ UNCHANGED tempfile
    BY <1>0, <2>1, <2>2, <2>3 DEF CreateClose, tableVars
  <2> QED BY <2>4, <2>5, CommandIsSome DEF Closes
<1>5. CASE RegisterTempfile(w)
  <2>1. PICK e : e = [cmd[w] EXCEPT !.fid = autoinc]
    OBVIOUS
  <2>2. at[w] = "insert_tempfile" /\ at'[w] = "fid_in_use" /\ cmd[w].op = "open" /\ autoinc \in Fids
    BY <1>0, <1>5, OpenRegisters DEF RegisterTempfile, Goto, QueryFits, OpenSteps
  <2>3. /\ e \in Command /\ e.fid = autoinc /\ e.op = "open" /\ e.dev = cmd[w].dev
        /\ e.victim = cmd[w].victim
    BY <1>0, <2>1, <2>2, FidWritten
  <2>4. cmd'[w] = e /\ cmd[w].victim = None
    BY <1>0, <1>5, <2>1, <2>2 DEF RegisterTempfile, QueryFits
  <2> QED BY <1>5, <2>2, <2>3, <2>4, CommandIsSome DEF Registers, RegisterTempfile
<1>6. CASE FidIsFree(w)
  BY <1>0, <1>6 DEF FidIsFree, Finish, Goto, Ends, tableVars
<1>7. ~FidIsInUse(w)
  <2> SUFFICES ASSUME FidIsInUse(w) PROVE FALSE
    OBVIOUS
  <2>1. at[w] = "fid_in_use" /\ Live(cmd[w].fid)
    BY DEF FidIsInUse, Goto, Live
  <2>2. cmd[w] # None /\ cmd[w].op = "open" /\ cmd[w].fid \in Fids
    BY <1>0, <2>1 DEF QueryFits, OpenSteps
  <2>3. Over(cmd[w].fid)
    BY <2>1, <2>2, CalmFacts DEF DoomInv, LivesAreOver
  <2> QED BY <1>0, <2>1, <2>2, <2>3 DEF Over, Holds, MayStore
<1>8. CASE \/ NoTempFile(w) \/ SizeMismatch(w) \/ DeleteTempfileRow(w) \/ UnknownKey(w)
  BY <1>0, <1>8 DEF NoTempFile, SizeMismatch, DeleteTempfileRow, UnknownKey, Finish, Goto, Ends, tableVars
<1>9. CASE TempfileRow(w) \/ VerifySize(w) \/ AddFididToDevid(w) \/ ReplaceFile(w)
           \/ EnqueueForReplication(w)
  BY <1>0, <1>9 DEF TempfileRow, VerifySize, AddFididToDevid, ReplaceFile, EnqueueForReplication, Goto,
       Follows, tableVars
<1>10. CASE DeleteFileRow(w) \/ DeleteFileTemp(w)
  BY <1>0, <1>10 DEF DeleteFileRow, DeleteFileTemp, Goto, Follows, tableVars
<1>11. CASE EnqueueDelete(w)
  BY <1>0, <1>11 DEF EnqueueDelete, Finish, Goto, Follows, Ends, tableVars
<1>12. CASE AddAborted(w)
  <2>1. PICK e : e = [cmd[w] EXCEPT !.victim = cmd[w].fid]
    OBVIOUS
  <2>2. at[w] = "add_aborted" /\ at'[w] = "delete_file" /\ cmd'[w] = e /\ UNCHANGED tempfile
    BY <1>0, <1>12, <2>1 DEF AddAborted, Goto
  <2>3. cmd[w].op = "abort" /\ cmd[w].fid \in Fids
    BY <1>0, <2>2 DEF QueryFits
  <2>4. /\ e \in Command /\ e.victim = cmd[w].fid /\ e.op = cmd[w].op /\ e.key = cmd[w].key
        /\ e.dev = cmd[w].dev /\ e.fid = cmd[w].fid
    BY <1>0, <2>1, <2>2, <2>3, VictimWritten
  <2> QED BY <1>0, <2>2, <2>3, <2>4, CommandIsSome DEF Targets
<1>13. CASE FindOld(w) \/ FindKey(w)
  <2>1. /\ at[w] \in {"find_old", "find_key"} /\ UNCHANGED tempfile /\ cmd[w] \in Command
        /\ cmd[w].op \in {"close", "delete", "rename"} /\ cmd[w].key \in Keys
    BY <1>0, <1>13 DEF FindOld, FindKey, Goto, tableVars, QueryFits, StoreSteps
  <2>2. CASE at'[w] = "verify_size" /\ at[w] = "find_old" /\ UNCHANGED cmd
    BY <1>0, <2>1, <2>2 DEF Follows
  <2>3. CASE \E f \in Owners(cmd[w].key) : cmd' = [cmd EXCEPT ![w].victim = f]
    <3>1. PICK f \in Owners(cmd[w].key) : cmd' = [cmd EXCEPT ![w].victim = f]
      BY <2>3
    <3>2. f \in Fids /\ Live(f)
      BY <2>1, <3>1, NoneAssumption DEF Owners, Live
    <3>3. PICK e : e = [cmd[w] EXCEPT !.victim = f]
      OBVIOUS
    <3>4. cmd'[w] = e
      BY <1>0, <3>1, <3>3
    <3>5. /\ e \in Command /\ e.victim = f /\ e.op = cmd[w].op /\ e.key = cmd[w].key
          /\ e.dev = cmd[w].dev /\ e.fid = cmd[w].fid
      BY <2>1, <3>2, <3>3, VictimWritten
    <3>6. at'[w] \in {"delete_file", "update_key"}
      <4>1. cmd'[w].victim \in Fids
        BY <3>2, <3>4, <3>5
      <4>2. CASE FindKey(w)
        BY <1>0, <2>1, <4>2 DEF FindKey, Goto, QueryFits
      <4>3. CASE FindOld(w)
        <5>1. Owners(cmd[w].key) # {}
          BY <3>1
        <5>2. Goto(w, "find_old", "delete_file")
          BY <4>3, <5>1 DEF FindOld
        <5> QED BY <1>0, <5>2 DEF Goto
      <4> QED BY <1>13, <4>2, <4>3
    <3> QED BY <1>0, <2>1, <3>2, <3>4, <3>5, <3>6, CommandIsSome DEF Targets
  <2>4. \/ at'[w] = "verify_size" /\ at[w] = "find_old" /\ UNCHANGED cmd
        \/ \E f \in Owners(cmd[w].key) : cmd' = [cmd EXCEPT ![w].victim = f]
    BY <1>0, <1>13 DEF FindOld, FindKey, Goto
  <2> QED BY <2>2, <2>3, <2>4
<1>14. ~DropColliding(w) /\ ~Reseed(w)
  BY <1>0 DEF DropColliding, Reseed, Goto
<1>15. CASE UpdateKey(w)
  BY <1>0, <1>15 DEF UpdateKey, Finish, Goto, Ends
<1> QED BY <1>1, <1>2, <1>3, <1>4, <1>5, <1>6, <1>7, <1>8, <1>9, <1>10, <1>11, <1>12, <1>13, <1>14, <1>15
        DEF QuerySteps, StartCommand, RunCommand

\* Which statement it executes.
LEMMA StatementAt ==
  ASSUME CareBefore, NEW w, QuerySteps(w)
  PROVE  /\ at[w] = "add_aborted" => AddAborted(w)
         /\ at[w] = "find_old" => FindOld(w)
         /\ at[w] = "add_fidid" => AddFididToDevid(w)
         /\ at[w] = "replace_file" => ReplaceFile(w)
         /\ at[w] = "delete_tempfile" => DeleteTempfileRow(w)
         /\ at[w] = "delete_file" => DeleteFileRow(w)
         /\ at[w] = "delete_file_temp" => DeleteFileTemp(w)
         /\ at[w] = "enqueue_delete" => EnqueueDelete(w)
<1>1. CASE StartCommand(w)
  <2>1. at[w] = "idle"
    <3>1. ASSUME NEW step, NEW c, Begin(w, step, c) PROVE at[w] = "idle"
      BY <3>1 DEF Begin
    <3>2. CASE CreateOpen(w)
      BY <3>1, <3>2, Zenon DEF CreateOpen
    <3>3. CASE \E k \in Keys : DeleteKey(w, k)
      BY <3>1, <3>3, Zenon DEF DeleteKey
    <3>4. CASE \E k, to \in Keys : k # to /\ Rename(w, k, to)
      <4>1. PICK k \in Keys, to \in Keys : Rename(w, k, to)
        BY <3>4
      <4>2. Begin(w, "find_key", [NoCommand EXCEPT !.op = "rename", !.key = k, !.to = to])
        BY <4>1, Zenon DEF Rename
      <4> QED BY <3>1, <4>2, Zenon
    <3>5. ASSUME NEW f, NEW k, CreateClose(w, f, k) PROVE at[w] = "idle"
      BY <3>5, Zenon DEF CreateClose
    <3> QED BY <1>1, <3>2, <3>3, <3>4, <3>5 DEF StartCommand
  <2> QED BY <2>1
<1>2. CASE RegisterTempfile(w) \/ FidIsFree(w) \/ FidIsInUse(w) \/ DropColliding(w) \/ Reseed(w)
  BY <1>2 DEF RegisterTempfile, FidIsFree, FidIsInUse, DropColliding, Reseed, Finish, Goto
<1>3. CASE NoTempFile(w) \/ TempfileRow(w) \/ SizeMismatch(w) \/ VerifySize(w)
           \/ EnqueueForReplication(w) \/ UnknownKey(w) \/ FindKey(w) \/ UpdateKey(w)
  BY <1>3 DEF NoTempFile, TempfileRow, SizeMismatch, VerifySize, EnqueueForReplication, UnknownKey,
       FindKey, UpdateKey, Finish, Goto
<1>4. CASE AddAborted(w) \/ FindOld(w) \/ AddFididToDevid(w) \/ ReplaceFile(w)
           \/ DeleteTempfileRow(w) \/ DeleteFileRow(w) \/ DeleteFileTemp(w) \/ EnqueueDelete(w)
  <2>1. CASE AddAborted(w) \/ FindOld(w) \/ AddFididToDevid(w) \/ ReplaceFile(w)
    BY <2>1 DEF AddAborted, FindOld, AddFididToDevid, ReplaceFile, Finish, Goto
  <2>2. CASE DeleteTempfileRow(w) \/ DeleteFileRow(w) \/ DeleteFileTemp(w) \/ EnqueueDelete(w)
    BY <2>2 DEF DeleteTempfileRow, DeleteFileRow, DeleteFileTemp, EnqueueDelete, Finish, Goto
  <2> QED BY <1>4, <2>1, <2>2
<1> QED BY <1>1, <1>2, <1>3, <1>4 DEF QuerySteps, RunCommand

\* What holds of a command that runs.
LEMMA CommandRuns ==
  ASSUME CareBefore, NEW w \in Queryworkers
  PROVE  /\ (at[w] = "idle") <=> (cmd[w] = None)
         /\ at[w] # "idle" => cmd[w] \in Command /\ cmd[w] # None /\ QueryFits(at[w], cmd[w])
         /\ (at'[w] = "idle") <=> (cmd'[w] = None)
         /\ at'[w] # "idle" => cmd'[w] # None /\ QueryFits(at'[w], cmd'[w])
BY CalmFacts, RunningFits DEF FileType, ProcessType, QueryFits

\* Whoever does not step keeps its locals, and who steps makes one of the moves.
LEMMA StepsOrRests ==
  ASSUME CareBefore, NEW w \in Queryworkers
  PROVE  QuerySteps(w) \/ Dies(w) \/ (at'[w] = at[w] /\ cmd'[w] = cmd[w])
<1>1. ASSUME NEW v, QuerySteps(v), v # w
      PROVE  at'[w] = at[w] /\ cmd'[w] = cmd[w]
  BY <1>1, QueryWrites
<1>2. ASSUME NEW v, DeleterSteps(v)
      PROVE  at'[w] = at[w] /\ cmd'[w] = cmd[w]
  <2>1. v # w
    BY <1>2, ProcessAssumption DEF DeleterSteps
  <2> QED BY <1>2, <2>1, DeleterWrites
<1>3. CASE TimeSteps
  BY <1>3, TimeWrites, CalmFacts
<1>4. ASSUME NEW v, Dies(v), v # w
      PROVE  at'[w] = at[w] /\ cmd'[w] = cmd[w]
  BY <1>4, DeathWrites
<1> QED BY <1>1, <1>2, <1>3, <1>4, WhoSteps

\* What is over is nobody's to write to, and who stores has something that is not over.
LEMMA OverIsClosed ==
  ASSUME CareBefore, NEW f \in Fids
  PROVE  /\ Over(f) => opened[f] = {} /\ \A w \in Queryworkers : Holds(w, f) => ~MayStore(w)
         /\ Live(f) => Over(f)
         /\ f \in old => opened[f] = {} /\ f < autoinc /\ \A w \in Queryworkers : ~Holds(w, f)
         /\ \A w \in Queryworkers : cmd[w] # None /\ cmd[w].victim = f => Over(f)
         /\ \A w \in Queryworkers : Holds(w, f) => opened[f] = {} /\ f < autoinc
         /\ \A v, w \in Queryworkers : Holds(v, f) /\ Holds(w, f) => v = w
         /\ Queued(f) => Gone(f)
         /\ \A w \in Deleters : f \in FidsOf(purge[w]) => Gone(f)
         /\ \A w \in Deleters : DeleterHas(w, f) => opened[f] = {}
         /\ \A w \in Deleters : DeleterHas(w, f) /\ at[w] # "drop_row" => Gone(f)
         /\ Gone(f) => Over(f) /\ ~Live(f)
         /\ opened[f] # {} \/ tempfile[f] # {} => f < autoinc
<1>1. DoomInv
  BY CalmFacts
<1>2. OneHolder /\ LivesAreOver /\ VictimsOver
  BY <1>1 DEF DoomInv
<1>3. QueuesGone /\ RowsGone
  BY <1>1 DEF DoomInv
<1>4. /\ \A w \in Deleters : f \in FidsOf(purge[w]) => Gone(f)
      /\ \A w \in Deleters : DeleterHas(w, f) /\ at[w] # "drop_row" => Gone(f)
  BY <1>3 DEF RowsGone, DeleterHas
<1>8. \A w \in Deleters : DeleterHas(w, f) /\ at[w] = "drop_row" => f \in old
  BY DEF DeleterHas, CareBefore, CareInv, PurgesCover, RowSteps
<1>5. Queued(f) => Gone(f)
  BY <1>3 DEF QueuesGone, Queued
<1>6. Gone(f) => Over(f) /\ ~Live(f)
  BY DEF Gone
<1>7. Over(f) => opened[f] = {} /\ \A w \in Queryworkers : Holds(w, f) => ~MayStore(w)
  BY DEF Over
<1>9. f \in old => opened[f] = {}
  BY <1>2 DEF OneHolder
<1>10. \A w \in Deleters : DeleterHas(w, f) => opened[f] = {}
  BY <1>4, <1>6, <1>7, <1>8, <1>9
<1> QED BY <1>2, <1>4, <1>5, <1>6, <1>7, <1>10 DEF OneHolder, LivesAreOver, VictimsOver

--------------------------------------------------------------------------------
\* What is recorded stays recorded, and what is kept stays kept

LEMMA OnlyUploadsWrite ==
  ASSUME CareBefore, NEW f \in Fids, NEW d \in Devs
  PROVE  /\ d \in dead => d \in dead'
         /\ <<f, d>> \in disk' => <<f, d>> \in disk \/ (d \in opened[f] /\ UNCHANGED <<on, tempfile>>)
<1>1. ASSUME NEW v, QuerySteps(v) PROVE UNCHANGED <<disk, dead>>
  BY <1>1, QueryWrites
<1>2. ASSUME NEW v, DeleterSteps(v) PROVE dead' = dead /\ disk' \subseteq disk
  BY <1>2, DeleterWrites DEF HttpDelete, AnswerLost
<1>3. CASE TimeSteps
  BY <1>3, TimeWrites, CalmFacts
<1>4. ASSUME NEW v, Dies(v) PROVE UNCHANGED <<disk, dead>>
  BY <1>4, DeathWrites
<1> QED BY <1>1, <1>2, <1>3, <1>4, WhoSteps

\* A row of file_on goes after the content has.
LEMMA RowGoesLast ==
  ASSUME CareBefore, NEW f \in Fids, NEW d \in Devs, <<f, d>> \in on, <<f, d>> \notin on'
  PROVE  <<f, d>> \notin disk' \/ d \in dead'
<1>1. PICK w : DeleterSteps(w) /\ RemoveFileOn(w)
  <2>1. ASSUME NEW v, QuerySteps(v) PROVE on \subseteq on'
    BY <2>1, QueryWrites DEF AddAborted, AddFididToDevid
  <2>2. ASSUME NEW v, DeleterSteps(v), ~RemoveFileOn(v) PROVE on \subseteq on'
    BY <2>2, DeleterWrites DEF MassInsertFileOn
  <2>3. CASE TimeSteps
    BY <2>3, TimeWrites, CalmFacts
  <2>4. ASSUME NEW v, Dies(v) PROVE on' = on
    BY <2>4, DeathWrites
  <2> QED BY <2>1, <2>2, <2>3, <2>4, WhoSteps
<1>2. ThisRow(w) \notin disk \/ cmd[w].dev \in dead
  BY <1>1 DEF RemoveFileOn, Goto, CareBefore, CareInv, RemovesDone, DeleterSteps
<1>3. <<f, d>> = ThisRow(w) /\ UNCHANGED <<disk, dead>>
  BY <1>1 DEF RemoveFileOn, NotTheDeleters
<1>4. cmd[w].dev = d
  BY <1>3 DEF ThisRow
<1> QED BY <1>2, <1>3, <1>4

LEMMA RecordedStays ==
  ASSUME CareBefore, NEW f \in Fids, opened[f] = {}, Recorded(f)
  PROVE  Recorded(f)'
BY OnlyUploadsWrite, RowGoesLast DEF Recorded

\* Content comes from the client only.
LEMMA ContentStays ==
  ASSUME CareBefore, NEW f \in Fids, opened[f] = {}, HasContent(f)'
  PROVE  HasContent(f)
BY OnlyUploadsWrite DEF HasContent

\* A row of `file` comes with create_close's statement, and goes with delete_fidid's, or is
\* displaced.
LEMMA FileMoves ==
  ASSUME CareBefore, NEW f \in Fids
  PROVE  /\ Live(f)' /\ ~Live(f) => \E w \in Queryworkers :
              QuerySteps(w) /\ at[w] = "replace_file" /\ Holds(w, f) /\ cmd[w].op = "close" /\ Recorded(f)
         /\ Live(f) /\ ~Live(f)' =>
              \/ f \in hit'
              \/ \E w \in Queryworkers : /\ QuerySteps(w) /\ at[w] = "delete_file"
                                         /\ at'[w] = "delete_file_temp" /\ cmd'[w] = cmd[w]
                                         /\ cmd[w] # None /\ cmd[w].victim = f
<1>0. FileType /\ file \in [Fids -> Keys \cup {None}] /\ None \notin Keys
  BY CalmFacts, NoneAssumption DEF FileType, TableType
<1>1. ASSUME NEW w, QuerySteps(w), ReplaceFile(w), Live(f)' # Live(f)
      PROVE  /\ Live(f)' => /\ w \in Queryworkers /\ at[w] = "replace_file" /\ Holds(w, f)
                            /\ cmd[w].op = "close" /\ Recorded(f)
             /\ ~Live(f)' => f \in hit'
  <2>1. w \in Queryworkers /\ at[w] = "replace_file" /\ file' = ReplaceIntoFile(cmd[w].fid, cmd[w].key)
    BY <1>1 DEF QuerySteps, ReplaceFile, Goto
  <2>2. cmd[w] # None /\ cmd[w].op = "close" /\ cmd[w].key \in Keys
    BY <2>1, CommandRuns DEF QueryFits, StoreSteps
  <2>3. Recorded(cmd[w].fid)
    BY <2>1 DEF CareBefore, CareInv, StoredIsRecorded
  <2>4. file'[f] = IF f = cmd[w].fid THEN cmd[w].key ELSE IF file[f] = cmd[w].key THEN None ELSE file[f]
    BY <2>1 DEF ReplaceIntoFile
  <2>5. Live(f)' => f = cmd[w].fid
    BY <1>1, <2>4 DEF Live
  <2>6. ~Live(f)' => f \in hit'
    <3>1. ASSUME ~Live(f)' PROVE Displaced(f)
      BY <1>0, <1>1, <2>1, <2>2, <2>4, <3>1 DEF Live, Displaced
    <3> QED BY <3>1 DEF CareBefore, CareNext
  <2> QED BY <2>1, <2>2, <2>3, <2>5, <2>6 DEF Holds
<1>2. ASSUME NEW w, QuerySteps(w), DeleteFileRow(w), Live(f)' # Live(f)
      PROVE  /\ w \in Queryworkers /\ at[w] = "delete_file" /\ at'[w] = "delete_file_temp"
             /\ cmd'[w] = cmd[w] /\ cmd[w] # None /\ cmd[w].victim = f /\ Live(f)
  <2>1. w \in Queryworkers /\ w \in Workers /\ at[w] = "delete_file"
    BY <1>2 DEF QuerySteps, DeleteFileRow, Goto
  <2>2. /\ at'[w] = "delete_file_temp" /\ cmd' = cmd
        /\ file' = [file EXCEPT ![cmd[w].victim] = None]
    BY <1>0, <1>2, <2>1 DEF DeleteFileRow, Goto, FileType, ProcessType
  <2> QED BY <1>0, <1>2, <2>1, <2>2, CommandRuns DEF Live
<1>3. ASSUME NEW w, QuerySteps(w), UpdateKey(w) PROVE Live(f)' = Live(f)
  <2>1. w \in Queryworkers /\ at[w] = "update_key"
    BY <1>3 DEF QuerySteps, UpdateKey, Finish, Goto
  <2>2. cmd[w].to \in Keys
    BY <2>1, CommandRuns DEF QueryFits
  <2>3. file' = file \/ (file[cmd[w].victim] # None /\ file' = [file EXCEPT ![cmd[w].victim] = cmd[w].to])
    BY <1>3 DEF UpdateKey
  <2> QED BY <1>0, <2>2, <2>3 DEF Live
<1>4. ASSUME NEW w, DeleterSteps(w) \/ Dies(w) PROVE file' = file
  BY <1>4, DeleterWrites, DeathWrites
<1>5. CASE TimeSteps
  BY <1>0, <1>5, TimeWrites DEF Live
<1>6. CASE \E w : QuerySteps(w)
  <2>1. PICK w : QuerySteps(w)
    BY <1>6
  <2>2. CASE UNCHANGED file
    BY <2>2 DEF Live
  <2>3. CASE ReplaceFile(w)
    BY <1>1, <2>1, <2>3
  <2>4. CASE DeleteFileRow(w)
    BY <1>2, <2>1, <2>4
  <2> QED BY <1>3, <2>1, <2>2, <2>3, <2>4, QueryWrites
<1>7. CASE \E w : DeleterSteps(w) \/ Dies(w)
  BY <1>4, <1>7 DEF Live
<1> QED BY <1>5, <1>6, <1>7, WhoSteps

\* A row of `tempfile` comes with create_open's INSERT and goes with one of four DELETEs.
LEMMA TempfileMoves ==
  ASSUME CareBefore, NEW f \in Fids
  PROVE  \/ tempfile'[f] = tempfile[f]
         \/ \E w \in Queryworkers : /\ QuerySteps(w) /\ Registers(w) /\ f = autoinc /\ tempfile[f] = {}
                                    /\ Holds(w, f)' /\ tempfile'[f] = {cmd[w].dev}
         \/ \E w \in Queryworkers : /\ QuerySteps(w) /\ at[w] = "delete_tempfile" /\ Ends(w)
                                    /\ Holds(w, f) /\ tempfile'[f] = {}
         \/ \E w \in Queryworkers : /\ QuerySteps(w) /\ at[w] = "delete_file_temp" /\ Follows(w)
                                    /\ cmd[w].victim = f /\ tempfile'[f] = {}
         \/ \E w \in Deleters : /\ DeletePurged(w) /\ at[w] = "delete_purged"
                                /\ f \in FidsOf(purge[w]) /\ tempfile'[f] = {}
         \/ \E w \in Deleters : /\ DropRow(w) /\ at[w] = "drop_row"
                                /\ f = cmd[w].fid /\ tempfile'[f] = {}
<1>0. FileType /\ tempfile \in [Fids -> SUBSET Devs]
  BY CalmFacts DEF FileType, TableType
<1>1. ASSUME NEW w, QuerySteps(w), Registers(w), tempfile'[f] # tempfile[f]
      PROVE  f = autoinc /\ tempfile[f] = {} /\ Holds(w, f)' /\ tempfile'[f] = {cmd[w].dev}
  <2>1. f = autoinc /\ tempfile'[f] = {cmd[w].dev} /\ Holds(w, f)'
    BY <1>0, <1>1 DEF Registers, Holds
  <2>2. autoinc \in Int
    BY <1>0 DEF FileType, TableType
  <2> QED BY <2>1, <2>2, OverIsClosed
<1>2. ASSUME NEW w, QuerySteps(w), Ends(w), DeleteTempfileRow(w), tempfile'[f] # tempfile[f]
      PROVE  at[w] = "delete_tempfile" /\ Holds(w, f) /\ tempfile'[f] = {}
  <2>1. w \in Queryworkers /\ at[w] = "delete_tempfile" /\ tempfile' = [tempfile EXCEPT ![cmd[w].fid] = {}]
    BY <1>2 DEF QuerySteps, DeleteTempfileRow, Finish, Goto
  <2> QED BY <1>0, <1>2, <2>1, CommandRuns DEF Holds
<1>3. ASSUME NEW w, QuerySteps(w), DeleteFileTemp(w), tempfile'[f] # tempfile[f]
      PROVE  at[w] = "delete_file_temp" /\ cmd[w].victim = f /\ tempfile'[f] = {}
  <2>1. at[w] = "delete_file_temp" /\ tempfile' = [tempfile EXCEPT ![cmd[w].victim] = {}]
    BY <1>3 DEF DeleteFileTemp, Goto
  <2> QED BY <1>0, <1>3, <2>1
<1>4. CASE \E w : QuerySteps(w)
  <2>1. PICK w : QuerySteps(w)
    BY <1>4
  <2>2. w \in Queryworkers
    BY <2>1 DEF QuerySteps
  <2>3. \/ UNCHANGED tempfile
        \/ Registers(w)
        \/ Ends(w) /\ DeleteTempfileRow(w)
        \/ Follows(w) /\ DeleteFileTemp(w)
    BY <2>1, QueryMoves
  <2> QED BY <1>1, <1>2, <1>3, <2>1, <2>2, <2>3
<1>5. CASE \E w : DeleterSteps(w)
  <2>1. PICK w : DeleterSteps(w)
    BY <1>5
  <2>2. w \in Deleters
    BY <2>1 DEF DeleterSteps
  <2>3. CASE DeletePurged(w)
    <3>1. at[w] = "delete_purged" /\ tempfile' = [g \in Fids |-> IF g \in FidsOf(purge[w]) THEN {} ELSE tempfile[g]]
      BY <2>3 DEF DeletePurged, Goto
    <3> QED BY <2>2, <2>3, <3>1
  <2>4. CASE DropRow(w)
    <3>1. at[w] = "drop_row" /\ tempfile' = [tempfile EXCEPT ![cmd[w].fid] = {}]
      BY <2>4 DEF DropRow, Goto
    <3> QED BY <1>0, <2>2, <2>4, <3>1
  <2> QED BY <2>1, <2>3, <2>4, DeleterWrites
<1>6. CASE TimeSteps
  BY <1>0, <1>6, TimeWrites
<1>7. CASE \E w : Dies(w)
  BY <1>7, DeathWrites
<1> QED BY <1>4, <1>5, <1>6, <1>7, WhoSteps

\* A fid leaves a queue when it waits in the other or has no content left, or in an accident.
LEMMA QueuedStays ==
  ASSUME CareBefore, NEW f \in Fids, Queued(f), HasContent(f)', f \notin hit'
  PROVE  Queued(f)'
<1>0. HasContent(f) /\ f \notin hit
  BY OverIsClosed, ContentStays, CalmFacts
<1>1. ASSUME NEW w, QuerySteps(w) PROVE later' = later /\ todelete \subseteq todelete'
  BY <1>1, QueryWrites DEF EnqueueDelete
<1>2. ASSUME NEW w, DeleterSteps(w), RemoveFid(w) PROVE Queued(f)'
  <2>1. todelete' = todelete \ {cmd[w].fid} /\ UNCHANGED later
    BY <1>2 DEF RemoveFid
  <2>2. cmd[w].fid \in later \cup hit \/ ~HasContent(cmd[w].fid)
    BY <1>2 DEF RemoveFid, Goto, CareBefore, CareInv, RemovesDone, DeleterSteps
  <2> QED BY <1>0, <2>1, <2>2 DEF Queued
<1>3. ASSUME NEW w, DeleterSteps(w), DeleteLater(w) PROVE Queued(f)'
  <2>1. later' = later \ FidsOf(rows[w]) /\ UNCHANGED todelete
    BY <1>3 DEF DeleteLater
  <2>2. \A g \in FidsOf(rows[w]) : g \in todelete \cup hit
    BY <1>3 DEF DeleteLater, Goto, CareBefore, CareInv, RemovesDone, DeleterSteps
  <2> QED BY <1>0, <2>1, <2>2 DEF Queued
<1>4. ASSUME NEW w, DeleterSteps(w), ~RemoveFid(w), ~DeleteLater(w)
      PROVE  later \subseteq later' /\ todelete \subseteq todelete'
  BY <1>4, DeleterWrites DEF EnqueuePurge, Reenqueue, Reschedule
<1>5. CASE TimeSteps
  BY <1>5, TimeWrites, CalmFacts DEF Queued
<1>6. ASSUME NEW w, Dies(w) PROVE UNCHANGED <<later, todelete>>
  BY <1>6, DeathWrites
<1> QED BY <1>1, <1>2, <1>3, <1>4, <1>5, <1>6, WhoSteps DEF Queued

\* What is over and kept stays so, but for an accident.
LEMMA SafeStays ==
  ASSUME CareBefore, NEW f \in Fids, opened[f] = {}, Safe(f)
  PROVE  Safe(f)'
<1> SUFFICES ASSUME HasContent(f)', f \notin hit' PROVE Kept(f)'
  BY DEF Safe
<1>0. HasContent(f) /\ f \notin hit /\ Kept(f)
  BY ContentStays, CalmFacts DEF Safe
<1>1. CASE Live(f)
  <2>1. CASE Live(f)'
    BY <2>1 DEF Kept
  <2>2. CASE \E w \in Queryworkers :
               /\ at'[w] = "delete_file_temp" /\ cmd'[w] = cmd[w] /\ cmd[w].victim = f
    BY <2>2 DEF Kept, BeingDeleted
  <2> QED BY <1>1, <2>1, <2>2, FileMoves
<1>2. CASE Queued(f)
  BY <1>2, QueuedStays DEF Kept
<1>3. CASE BeingDeleted(f)
  <2>1. PICK w \in Queryworkers : at[w] \in {"delete_file_temp", "enqueue_delete"} /\ cmd[w].victim = f
    BY <1>3 DEF BeingDeleted
  <2>2. CASE at'[w] = at[w] /\ cmd'[w] = cmd[w]
    BY <2>1, <2>2 DEF Kept, BeingDeleted
  <2>3. CASE QuerySteps(w) /\ at[w] = "enqueue_delete"
    <3>1. EnqueueDelete(w)
      BY <2>3, StatementAt
    <3>2. f \in todelete'
      BY <2>1, <3>1 DEF EnqueueDelete
    <3> QED BY <3>2 DEF Kept, Queued
  <2>4. CASE QuerySteps(w) /\ at[w] = "delete_file_temp"
    <3>1. at'[w] = "enqueue_delete" /\ cmd'[w] = cmd[w]
      BY <2>4, QueryMoves DEF Ends, Follows, Targets, Starts, Registers, Closes
    <3> QED BY <2>1, <3>1 DEF Kept, BeingDeleted
  <2>5. ~Dies(w)
    BY <2>1, DeathWrites
  <2> QED BY <2>1, <2>2, <2>3, <2>4, <2>5, StepsOrRests
<1> QED BY <1>0, <1>1, <1>2, <1>3 DEF Kept

--------------------------------------------------------------------------------
\* No step breaks a part of CareInv

LEMMA ContentStep ==
  ASSUME CareBefore
  PROVE  ContentIsFound'
<1>0. disk' \subseteq Places /\ ContentIsFound /\ UploadsHaveRows /\ StoredIsRecorded
  BY CalmFacts DEF FileType, WorldType, CareBefore, CareInv
<1> SUFFICES ASSUME NEW f \in Fids, NEW d \in Devs, <<f, d>> \in disk'
             PROVE  d \in dead' \/ <<f, d>> \in on' \/ d \in tempfile'[f]
  BY <1>0 DEF ContentIsFound, Places
<1>1. CASE <<f, d>> \notin disk
  <2>1. d \in opened[f] /\ UNCHANGED <<on, tempfile>>
    BY <1>1, OnlyUploadsWrite
  <2> QED BY <1>0, <2>1 DEF UploadsHaveRows
<1>2. CASE <<f, d>> \in disk /\ (d \in dead \/ <<f, d>> \in on)
  BY <1>2, OnlyUploadsWrite, RowGoesLast
<1>3. CASE <<f, d>> \in disk /\ d \in tempfile[f] /\ tempfile'[f] # tempfile[f]
  <2>1. Recorded(f)
    <3>1. ASSUME NEW w \in Queryworkers, at[w] = "delete_tempfile", Holds(w, f) PROVE Recorded(f)
      BY <1>0, <3>1 DEF StoredIsRecorded, Holds
    <3>2. ASSUME NEW w \in Queryworkers, at[w] = "delete_file_temp", cmd[w].victim = f PROVE Recorded(f)
      BY <1>0, <3>2 DEF StoredIsRecorded, DeleteSteps
    <3>3. ASSUME NEW w \in Deleters, at[w] = "delete_purged", f \in FidsOf(purge[w]) PROVE Recorded(f)
      BY <1>0, <3>3 DEF StoredIsRecorded, DeleterHas
    <3>4. ASSUME NEW w \in Deleters, at[w] = "drop_row", f = cmd[w].fid PROVE Recorded(f)
      BY <1>0, <3>4 DEF StoredIsRecorded, DeleterHas
    <3> QED BY <1>3, <3>1, <3>2, <3>3, <3>4, TempfileMoves
  <2> QED BY <1>3, <2>1, OnlyUploadsWrite, RowGoesLast DEF Recorded
<1> QED BY <1>0, <1>1, <1>2, <1>3 DEF ContentIsFound

\* With the location of an upload that has content only there, all is recorded.
LEMMA LocationRecords ==
  ASSUME CareBefore, NEW w \in Queryworkers, QuerySteps(w), at[w] \in {"add_aborted", "add_fidid"},
         NEW f \in Fids, cmd[w].fid = f
  PROVE  Recorded(f)'
<1>1. cmd[w] # None /\ cmd[w].op \in {"close", "abort"}
  BY CommandRuns DEF QueryFits, StoreSteps
<1>2. Holds(w, f) /\ Uploading(w)
  BY <1>1 DEF Holds, Uploading
<1>3. tempfile[f] = {cmd[w].dev} /\ ContentIsFound
  BY <1>1, <1>2 DEF CareBefore, CareInv, UploadsHaveRows
<1>4. on' = on \cup {<<f, cmd[w].dev>>}
  BY StatementAt DEF AddAborted, AddFididToDevid
<1>5. UNCHANGED <<disk, dead>>
  BY QueryWrites
<1>6. \A d \in Devs : <<f, d>> \in disk => d \in dead \/ <<f, d>> \in on \/ d \in tempfile[f]
  BY <1>3 DEF ContentIsFound
<1> QED BY <1>3, <1>4, <1>5, <1>6 DEF Recorded

\* A deleter that rests finds its locals as it left them.
LEMMA DeleterRests ==
  ASSUME CareBefore, NEW w \in Deleters
  PROVE  DeleterSteps(w) \/ (at'[w] = at[w] /\ cmd'[w] = cmd[w] /\ rows'[w] = rows[w] /\ purge'[w] = purge[w])
<1>0. w \in Workers /\ w \notin Queryworkers
  BY ProcessAssumption
<1>1. ASSUME NEW v, QuerySteps(v) \/ Dies(v)
      PROVE  at'[w] = at[w] /\ cmd'[w] = cmd[w] /\ rows'[w] = rows[w] /\ purge'[w] = purge[w]
  BY <1>0, <1>1, QueryWrites, DeathWrites DEF QuerySteps
<1>2. ASSUME NEW v, DeleterSteps(v), v # w
      PROVE  at'[w] = at[w] /\ cmd'[w] = cmd[w] /\ rows'[w] = rows[w] /\ purge'[w] = purge[w]
  BY <1>0, <1>2, DeleterWrites
<1>3. CASE TimeSteps
  BY <1>3, TimeWrites, CalmFacts
<1> QED BY <1>1, <1>2, <1>3, WhoSteps

\* What a deleter has in hand it had, or has just read from a queue, or has decided to purge
\* with its locations recorded, or found alive.
LEMMA DeleterTakes ==
  ASSUME CareBefore, NEW w \in Deleters, NEW f \in Fids, DeleterHas(w, f)'
  PROVE  \/ DeleterHas(w, f) \/ Queued(f)
         \/ MassInsertFileOn(w) /\ f \in FidsOf(purge[w])
         \/ RowExists(w) /\ Live(f) /\ f \in FidsOf(rows[w])
<1>0. /\ FileType /\ at \in [Workers -> Steps] /\ cmd \in [Workers -> Command \cup {None}]
      /\ rows \in [Deleters -> SUBSET (Fids \X (Devs \cup {None}))] /\ w \in Workers
      /\ purge \in [Deleters -> SUBSET Places]
  BY CalmFacts DEF FileType, ProcessType, RowType
<1>1. CASE at'[w] = at[w] /\ cmd'[w] = cmd[w] /\ rows'[w] = rows[w] /\ purge'[w] = purge[w]
  BY <1>1 DEF DeleterHas
<1>2. CASE DeleterSteps(w)
  <2>1. CASE \/ OldTempfiles(w) \/ DropRow(w) \/ NothingToPurge(w)
             \/ DeletePurged(w) \/ DeleteLater(w) \/ EndOfBatch(w) \/ DeleterDies(w)
    <3>1. at'[w] \in {"old_tempfiles", "row_exists", "fids_to_delete_again", "select_deletes"}
      BY <1>0, <2>1 DEF OldTempfiles, DropRow, NothingToPurge, DeletePurged, DeleteLater, EndOfBatch,
           DeleterDies, Restarts, Goto
    <3> QED BY <3>1 DEF DeleterHas, RowSteps
  <2>2. CASE \E due \in SUBSET later : FidsToDeleteAgain(w, due)
    <3>1. PICK due \in SUBSET later : FidsToDeleteAgain(w, due)
      BY <2>2
    <3>2. at'[w] \in {"select_deletes", "reenqueue"} /\ rows'[w] = due \X {None}
      BY <1>0, <3>1 DEF FidsToDeleteAgain, Goto
    <3>3. f \in due
      BY <3>2 DEF DeleterHas, RowSteps, FidsOf
    <3> QED BY <3>3 DEF Queued
  <2>3. CASE SelectDeletes(w)
    <3>1. at'[w] \in {"old_tempfiles", "next_row"} /\ rows'[w] = Joined
      BY <1>0, <2>3 DEF SelectDeletes, Goto
    <3>2. f \in FidsOf(Joined)
      BY <3>1 DEF DeleterHas, RowSteps
    <3>3. f \in todelete
      BY <3>2 DEF FidsOf, Joined
    <3> QED BY <3>3 DEF Queued
  <2>4. CASE \E p \in Fids \X (Devs \cup {None}) :
               \/ NoMoreLocations(w, p) \/ DeviceIsDead(w, p) \/ DeviceAnswers(w, p)
               \/ DeviceRefuses(w, p) \/ RowSkipped(w, p)
    <3>1. PICK p \in Fids \X (Devs \cup {None}), step \in {"next_row"} \cup RowSteps : NextRow(w, p, step)
      BY <2>4 DEF NoMoreLocations, DeviceIsDead, DeviceAnswers, DeviceRefuses, RowSkipped, RowSteps
    <3>2. /\ p \in rows[w] /\ at[w] = "next_row" /\ at'[w] = step /\ rows'[w] = rows[w] \ {p}
          /\ cmd'[w] = IF step = "next_row" THEN None ELSE Row(p)
      BY <1>0, <3>1 DEF NextRow, Goto
    <3>3. step \in RowSteps => cmd'[w].fid = p[1]
      BY <3>2, RowIsCommand DEF RowSteps
    <3>4. f \in FidsOf(rows[w])
      BY <3>1, <3>2, <3>3 DEF DeleterHas, FidsOf, RowSteps
    <3> QED BY <3>2, <3>4 DEF DeleterHas
  <2>5. CASE Reenqueue(w) \/ HttpDelete(w) \/ Reschedule(w)
    BY <1>0, <2>5 DEF Reenqueue, HttpDelete, Reschedule, Goto, DeleterHas, RowSteps, deleterVars
  <2>6. CASE AnswerLost(w) \/ RemoveFileOn(w) \/ RemoveFid(w)
    BY <1>0, <2>6 DEF AnswerLost, RemoveFileOn, RemoveFid, Goto, DeleterHas, RowSteps, deleterVars
  <2>7. CASE MassInsertFileOn(w) \/ EnqueuePurge(w)
    BY <1>0, <2>7 DEF MassInsertFileOn, EnqueuePurge, Goto, DeleterHas, RowSteps, deleterVars
  <2>8. CASE RowExists(w)
    <3>1. PICK g \in FidsOf(rows[w]) :
            \/ file[g] # None /\ Goto(w, "row_exists", "drop_row")
                 /\ cmd' = [cmd EXCEPT ![w] = Row(<<g, None>>)]
            \/ at[w] = "row_exists" /\ UNCHANGED <<at, cmd>>
      BY <2>8 DEF RowExists
    <3>2. CASE at[w] = "row_exists" /\ UNCHANGED <<at, cmd>>
      BY <3>2 DEF DeleterHas, RowSteps
    <3>3. CASE file[g] # None /\ Goto(w, "row_exists", "drop_row")
                 /\ cmd' = [cmd EXCEPT ![w] = Row(<<g, None>>)]
      <4>1. g \in Fids
        BY <1>0, RowsAreFids
      <4>2. at'[w] = "drop_row" /\ cmd'[w] = Row(<<g, None>>)
        BY <1>0, <3>3 DEF Goto
      <4>3. cmd'[w].fid = g
        BY <4>1, <4>2, RowIsCommand
      <4>4. f = g
        BY <4>2, <4>3 DEF DeleterHas, RowSteps
      <4> QED BY <2>8, <3>3, <4>4 DEF Live
    <3> QED BY <3>1, <3>2, <3>3
  <2> QED BY <1>2, <2>1, <2>2, <2>3, <2>4, <2>5, <2>6, <2>7, <2>8 DEF DeleterSteps, RunDeleter
<1> QED BY <1>1, <1>2, DeleterRests

LEMMA StoredStep ==
  ASSUME CareBefore
  PROVE  StoredIsRecorded'
<1>0. StoredIsRecorded /\ PurgesCover /\ FileType
  BY CalmFacts DEF CareBefore, CareInv
<1>1. ASSUME NEW f \in Fids, Live(f)' PROVE Recorded(f)'
  <2>1. Recorded(f) /\ opened[f] = {}
    <3>1. CASE Live(f)
      BY <1>0, <3>1, OverIsClosed DEF StoredIsRecorded
    <3>2. CASE ~Live(f)
      BY <1>1, <3>2, FileMoves, OverIsClosed
    <3> QED BY <3>1, <3>2
  <2> QED BY <2>1, RecordedStays
<1>2. ASSUME NEW w \in Queryworkers, NEW f \in Fids, cmd'[w].fid = f,
             at'[w] \in {"replace_file", "enqueue_replication", "delete_tempfile"}
      PROVE  Recorded(f)'
  <2>1. CASE /\ at[w] \in {"replace_file", "enqueue_replication", "delete_tempfile"}
             /\ cmd'[w] = cmd[w]
    <3>1. cmd[w] # None /\ cmd[w].fid = f /\ Recorded(f)
      BY <1>0, <1>2, <2>1, CommandRuns DEF StoredIsRecorded
    <3>2. opened[f] = {}
      BY <3>1, OverIsClosed DEF Holds
    <3> QED BY <3>1, <3>2, RecordedStays
  <2>2. CASE QuerySteps(w) /\ at[w] = "add_fidid" /\ cmd'[w] = cmd[w]
    BY <1>2, <2>2, LocationRecords
  <2>3. CASE QuerySteps(w)
    <3>1. cmd'[w] = cmd[w] /\ at[w] \in {"add_fidid", "replace_file", "enqueue_replication"}
      BY <1>2, <2>3, QueryMoves DEF Ends, Follows, Targets, Starts, Registers, Closes
    <3> QED BY <2>1, <2>2, <2>3, <3>1
  <2>4. ~Dies(w)
    BY <1>2, DeathWrites
  <2> QED BY <1>2, <2>1, <2>3, <2>4, StepsOrRests
<1>3. ASSUME NEW w \in Queryworkers, NEW f \in Fids, cmd'[w].victim = f, at'[w] \in DeleteSteps
      PROVE  Recorded(f)'
  <2>1. CASE at[w] \in DeleteSteps /\ cmd'[w] = cmd[w]
    <3>1. cmd[w] # None /\ cmd[w].victim = f /\ Recorded(f)
      BY <1>0, <1>3, <2>1, CommandRuns DEF StoredIsRecorded, DeleteSteps
    <3>2. opened[f] = {}
      BY <3>1, OverIsClosed
    <3> QED BY <3>1, <3>2, RecordedStays
  <2>2. CASE QuerySteps(w) /\ Targets(w)
    <3>1. CASE at[w] = "add_aborted"
      <4>1. cmd[w].fid = f
        BY <1>3, <2>2, <3>1 DEF Targets
      <4> QED BY <2>2, <3>1, <4>1, LocationRecords
    <3>2. CASE at[w] # "add_aborted"
      <4>1. Live(f)
        BY <1>3, <2>2, <3>2 DEF Targets
      <4>2. Recorded(f) /\ opened[f] = {}
        BY <1>0, <4>1, OverIsClosed DEF StoredIsRecorded
      <4> QED BY <4>2, RecordedStays
    <3> QED BY <3>1, <3>2
  <2>3. CASE QuerySteps(w) /\ ~Targets(w)
    <3>1. at[w] \in DeleteSteps /\ cmd'[w] = cmd[w]
      BY <1>3, <2>3, QueryMoves DEF Ends, Follows, Starts, Registers, Closes, DeleteSteps
    <3> QED BY <2>1, <3>1
  <2>4. ~Dies(w)
    BY <1>3, DeathWrites DEF DeleteSteps
  <2> QED BY <1>3, <2>1, <2>2, <2>3, <2>4, StepsOrRests
<1>4. ASSUME NEW w \in Deleters, NEW f \in Fids, DeleterHas(w, f) PROVE Recorded(f)'
  BY <1>0, <1>4, OverIsClosed, RecordedStays DEF StoredIsRecorded
<1>5. ASSUME NEW f \in Fids, Queued(f) PROVE Recorded(f)'
  BY <1>0, <1>5, OverIsClosed, RecordedStays DEF StoredIsRecorded
<1>6. ASSUME NEW f \in Fids, Queued(f)', ~Queued(f) PROVE Recorded(f)'
  <2>1. ASSUME NEW w, QuerySteps(w) PROVE Recorded(f)'
    <3>1. w \in Queryworkers /\ at[w] = "enqueue_delete" /\ cmd[w].victim = f
      BY <1>6, <2>1, QueryWrites DEF QuerySteps, EnqueueDelete, Queued
    <3>2. Recorded(f) /\ cmd[w] # None
      BY <1>0, <3>1, CommandRuns DEF StoredIsRecorded, DeleteSteps
    <3>3. opened[f] = {}
      BY <3>1, <3>2, OverIsClosed
    <3> QED BY <3>2, <3>3, RecordedStays
  <2>2. ASSUME NEW w, DeleterSteps(w) PROVE DeleterHas(w, f)
    <3>1. CASE EnqueuePurge(w)
      BY <1>6, <3>1 DEF EnqueuePurge, Goto, Queued, DeleterHas
    <3>2. CASE Reenqueue(w)
      BY <1>6, <3>2 DEF Reenqueue, Goto, Queued, DeleterHas
    <3>3. CASE Reschedule(w)
      BY <1>6, <3>3 DEF Reschedule, Goto, Queued, DeleterHas, RowSteps
    <3>4. CASE ~EnqueuePurge(w) /\ ~Reenqueue(w) /\ ~Reschedule(w)
      BY <1>6, <2>2, <3>4, DeleterWrites DEF RemoveFid, DeleteLater, Queued
    <3> QED BY <3>1, <3>2, <3>3, <3>4
  <2>3. ASSUME NEW w, Dies(w) PROVE FALSE
    BY <1>6, <2>3, DeathWrites DEF Queued
  <2>4. ~TimeSteps
    BY <1>6, TimeWrites, CalmFacts DEF Queued
  <2> QED BY <1>4, <2>1, <2>2, <2>3, <2>4, WhoSteps DEF DeleterSteps
<1>7. ASSUME NEW w \in Deleters, NEW f \in Fids, DeleterHas(w, f)' PROVE Recorded(f)'
  <2>1. CASE MassInsertFileOn(w) /\ f \in FidsOf(purge[w])
    <3>1. on' = on \cup purge[w] /\ UNCHANGED <<disk, dead>>
      BY <2>1 DEF MassInsertFileOn, NotTheDeleters
    <3>2. \A d \in tempfile[f] : <<f, d>> \in purge[w]
      BY <1>0, <2>1 DEF PurgesCover
    <3>3. \A d \in Devs : <<f, d>> \in disk => d \in dead \/ <<f, d>> \in on \/ d \in tempfile[f]
      BY DEF CareBefore, CareInv, ContentIsFound
    <3> QED BY <3>1, <3>2, <3>3 DEF Recorded
  <2>2. CASE RowExists(w) /\ Live(f)
    BY <1>0, <2>2, OverIsClosed, RecordedStays DEF StoredIsRecorded
  <2> QED BY <1>4, <1>5, <1>7, <2>1, <2>2, DeleterTakes
<1>8. \A w \in Queryworkers :
        /\ at'[w] \in {"replace_file", "enqueue_replication", "delete_tempfile"} => cmd'[w].fid \in Fids
        /\ at'[w] \in DeleteSteps => cmd'[w].victim \in Fids
  BY CommandRuns DEF QueryFits, StoreSteps, DeleteSteps
<1> QED BY <1>1, <1>2, <1>3, <1>5, <1>6, <1>7, <1>8 DEF StoredIsRecorded

\* A command changes hands only between a client and a query worker.
LEMMA HolderMoves ==
  ASSUME CareBefore, NEW w \in Queryworkers, NEW f \in Fids
  PROVE  /\ Holds(w, f)' /\ ~Holds(w, f) => QuerySteps(w) /\ (Registers(w) \/ Closes(w))
         /\ Holds(w, f)' /\ Holds(w, f) => cmd'[w].op = cmd[w].op /\ cmd'[w].dev = cmd[w].dev
<1>0. f # None /\ NoCollision
  BY NoneAssumption DEF CareBefore, CareInv
<1>1. CASE at'[w] = at[w] /\ cmd'[w] = cmd[w]
  BY <1>1 DEF Holds
<1>2. CASE QuerySteps(w) /\ Ends(w)
  BY <1>2 DEF Ends, Holds
<1>3. CASE QuerySteps(w) /\ (Follows(w) \/ Targets(w))
  BY <1>3 DEF Follows, Targets, Holds
<1>4. CASE QuerySteps(w) /\ Starts(w)
  BY <1>0, <1>4, CommandRuns DEF Starts, Holds
<1>5. CASE QuerySteps(w) /\ (Registers(w) \/ Closes(w))
  <2>1. ~Holds(w, f)
    BY <1>0, <1>5, CommandRuns DEF Registers, Closes, Holds, NoCollision
  <2> QED BY <1>5, <2>1
<1>6. CASE Dies(w)
  BY <1>6, DeathWrites DEF Holds
<1> QED BY <1>1, <1>2, <1>3, <1>4, <1>5, <1>6, StepsOrRests, QueryMoves

LEMMA CollisionStep ==
  ASSUME CareBefore
  PROVE  NoCollision'
<1>0. NoCollision
  BY DEF CareBefore, CareInv
<1> SUFFICES ASSUME NEW w \in Queryworkers
             PROVE  /\ at'[w] \notin {"drop_colliding", "reseed"}
                    /\ at'[w] = "insert_tempfile" \/ (cmd'[w] # None /\ cmd'[w].op \in {"delete", "rename"})
                         => cmd'[w].fid = None
  BY DEF NoCollision
<1>1. CASE at'[w] = at[w] /\ cmd'[w] = cmd[w]
  BY <1>0, <1>1 DEF NoCollision
<1>2. CASE QuerySteps(w) /\ (Ends(w) \/ Starts(w) \/ Registers(w) \/ Closes(w))
  BY <1>2 DEF Ends, Starts, Registers, Closes
<1>3. CASE QuerySteps(w) /\ (Follows(w) \/ Targets(w))
  BY <1>0, <1>3 DEF NoCollision, Follows, Targets
<1>4. CASE Dies(w)
  BY <1>4, DeathWrites
<1> QED BY <1>1, <1>2, <1>3, <1>4, StepsOrRests, QueryMoves

LEMMA AbortsStep ==
  ASSUME CareBefore
  PROVE  AbortsAreAlone'
<1>0. AbortsAreAlone
  BY DEF CareBefore, CareInv
<1> SUFFICES ASSUME NEW w \in Queryworkers, NEW f \in Fids, Holds(w, f)', cmd'[w].op = "abort"
             PROVE  /\ ~Live(f)'
                    /\ \A v \in Queryworkers \ {w} : cmd'[v] # None => cmd'[v].victim # f
  BY DEF AbortsAreAlone
<1>1. /\ ~Live(f)
      /\ \A v \in Queryworkers \ {w} : cmd[v] # None => cmd[v].victim # f
      /\ \A v \in Queryworkers : Holds(v, f) => v = w /\ cmd[w].op = "abort"
  <2>1. CASE Holds(w, f)
    <3>1. cmd[w].op = "abort"
      BY <2>1, HolderMoves
    <3> QED BY <1>0, <2>1, <3>1, OverIsClosed DEF AbortsAreAlone
  <2>2. CASE ~Holds(w, f)
    <3>1. Registers(w) \/ Closes(w)
      BY <2>2, HolderMoves
    <3>2. Closes(w) /\ cmd'[w].fid = f
      BY <3>1 DEF Registers, Holds
    <3>3. opened[f] # {}
      BY <3>2 DEF Closes
    <3> QED BY <3>3, OverIsClosed
  <2> QED BY <2>1, <2>2
<1>2. ~Live(f)'
  BY <1>1, FileMoves
<1>3. ASSUME NEW v \in Queryworkers \ {w}, cmd'[v] # None, cmd'[v].victim = f
      PROVE  FALSE
  <2>1. f # None
    BY NoneAssumption
  <2>2. CASE cmd'[v] = cmd[v]
    BY <1>1, <1>3, <2>2
  <2>3. CASE QuerySteps(v) /\ Targets(v)
    <3>1. CASE at[v] = "add_aborted"
      <4>1. Holds(v, f)
        BY <1>3, <2>3, <3>1 DEF Targets, Holds
      <4> QED BY <1>1, <1>3, <4>1
    <3>2. CASE at[v] # "add_aborted"
      BY <1>1, <1>3, <2>3, <3>2 DEF Targets
    <3> QED BY <3>1, <3>2
  <2>4. CASE QuerySteps(v) /\ ~Targets(v)
    <3>1. cmd'[v] = cmd[v] \/ cmd'[v] = None \/ cmd'[v].victim = None
      BY <2>4, QueryMoves DEF Ends, Follows, Starts, Registers, Closes
    <3> QED BY <1>3, <2>1, <2>2, <3>1
  <2>5. ~Dies(v)
    BY <1>3, DeathWrites
  <2> QED BY <2>2, <2>3, <2>4, <2>5, StepsOrRests
<1> QED BY <1>2, <1>3

LEMMA UploadsStep ==
  ASSUME CareBefore
  PROVE  UploadsHaveRows'
<1>0. /\ UploadsHaveRows /\ AbortsAreAlone /\ NoCollision /\ PurgesCover /\ FileType /\ autoinc \in Int
      /\ old \subseteq Fids
  BY CalmFacts DEF CareBefore, CareInv, FileType, TableType, WorldType
\* A row somebody is going to write under, or uploads under, is not taken away.
<1>4. ASSUME NEW f \in Fids, NEW v \in Deleters,
             f \in FidsOf(purge[v]) \/ (at[v] = "drop_row" /\ f = cmd[v].fid)
      PROVE  f \in old
  BY <1>0, <1>4 DEF PurgesCover
<1>1. ASSUME NEW f \in Fids, opened'[f] # {}
      PROVE  \E d \in Devs : opened'[f] = {d} /\ tempfile'[f] = {d}
  <2>1. CASE opened'[f] = opened[f]
    <3>1. PICK d \in Devs : opened[f] = {d} /\ tempfile[f] = {d}
      BY <1>0, <1>1, <2>1 DEF UploadsHaveRows
    <3>2. ~Over(f) /\ f \notin old /\ f < autoinc /\ \A w \in Queryworkers : ~Holds(w, f)
      BY <3>1, OverIsClosed
    <3>3. tempfile'[f] = tempfile[f]
      <4>1. ASSUME NEW w \in Queryworkers, at[w] = "delete_file_temp", cmd[w].victim = f PROVE FALSE
        BY <3>2, <4>1, OverIsClosed, CommandRuns
      <4> QED BY <1>0, <1>4, <3>1, <3>2, <4>1, TempfileMoves
    <3> QED BY <2>1, <3>1, <3>3
  <2>2. CASE opened'[f] # opened[f]
    <3>1. opened \in [Fids -> SUBSET Devs]
      BY <1>0 DEF FileType, WorldType
    <3>2. ASSUME NEW g \in Fids, opened' = [opened EXCEPT ![g] = {}] PROVE FALSE
      BY <1>1, <2>2, <3>1, <3>2
    <3>3. \A w : DeleterSteps(w) \/ Dies(w) => opened' = opened
      BY DeleterWrites, DeathWrites
    <3>4. TimeSteps => opened' = opened \/ \E g \in Fids : opened' = [opened EXCEPT ![g] = {}]
      BY CalmFacts DEF TimeSteps, Age, Upload, MarkDead, clientVars
    <3>5. ASSUME NEW w, QuerySteps(w)
          PROVE  opened' = opened \/ FidIsFree(w) \/ \E g \in Fids : opened' = [opened EXCEPT ![g] = {}]
      <4>1. \A g, k : CreateClose(w, g, k) => opened' = [opened EXCEPT ![g] = {}]
        BY Zenon DEF CreateClose
      <4> QED BY <3>5, <4>1, QueryWrites
    <3>6. PICK w : QuerySteps(w) /\ FidIsFree(w)
      BY <2>2, <3>2, <3>3, <3>4, <3>5, WhoSteps
    <3>7. w \in Queryworkers /\ at[w] = "fid_in_use"
      BY <3>6 DEF QuerySteps, FidIsFree, Finish, Goto
    <3>8. cmd[w] # None /\ cmd[w].op = "open" /\ cmd[w].fid \in Fids /\ cmd[w].dev \in Devs
      BY <3>7, CommandRuns DEF QueryFits, OpenSteps
    <3>9. opened' = [opened EXCEPT ![cmd[w].fid] = {cmd[w].dev}] /\ UNCHANGED tempfile
      BY <3>6 DEF FidIsFree, tableVars
    <3>10. f = cmd[w].fid /\ opened'[f] = {cmd[w].dev}
      BY <2>2, <3>1, <3>8, <3>9
    <3>11. tempfile[f] = {cmd[w].dev}
      BY <1>0, <3>7, <3>8, <3>10 DEF UploadsHaveRows, Holds, Uploading
    <3> QED BY <3>8, <3>9, <3>10, <3>11
  <2> QED BY <2>1, <2>2
<1>2. ASSUME NEW w \in Queryworkers, NEW f \in Fids, Holds(w, f), Uploading(w), Uploading(w)', Holds(w, f)'
      PROVE  tempfile'[f] = tempfile[f]
  <2>1. f < autoinc /\ f \notin old
    BY <1>2, OverIsClosed
  <2>2. ASSUME NEW v \in Queryworkers, at[v] = "delete_tempfile", Holds(v, f) PROVE FALSE
    BY <1>2, <2>2, OverIsClosed DEF Uploading
  <2>3. ASSUME NEW v \in Queryworkers, QuerySteps(v), at[v] = "delete_file_temp", Follows(v),
               cmd[v].victim = f
        PROVE  FALSE
    <3>1. cmd[v] # None /\ Over(f)
      BY <2>3, CommandRuns, OverIsClosed
    <3>2. cmd[w].op = "abort"
      BY <1>2, <3>1, OverIsClosed DEF MayStore, Uploading
    <3>3. v = w
      BY <1>0, <1>2, <2>3, <3>1, <3>2 DEF AbortsAreAlone
    <3>4. at'[w] = "enqueue_delete" /\ cmd'[w] = cmd[w]
      BY <2>3, <3>3 DEF Follows
    <3> QED BY <1>2, <3>2, <3>4 DEF Uploading
  <2>4. f # autoinc
    BY <1>0, <2>1
  <2> QED BY <1>4, <2>1, <2>2, <2>3, <2>4, TempfileMoves
<1>3. ASSUME NEW w \in Queryworkers, NEW f \in Fids, Holds(w, f)', Uploading(w)'
      PROVE  tempfile'[f] = {cmd'[w].dev}
  <2>1. CASE Holds(w, f)
    <3>1. Uploading(w)
      <4>1. CASE at'[w] = at[w] /\ cmd'[w] = cmd[w]
        BY <1>3, <4>1 DEF Uploading
      <4>2. CASE QuerySteps(w) /\ (Ends(w) \/ Starts(w) \/ Registers(w) \/ Closes(w))
        BY <1>3, <2>1, <4>2, CommandRuns DEF Ends, Starts, Registers, Closes, Holds, Uploading
      <4>3. CASE QuerySteps(w) /\ (Follows(w) \/ Targets(w))
        BY <1>3, <4>3 DEF Follows, Targets, Uploading
      <4>4. ~Dies(w)
        BY <1>3, DeathWrites DEF Holds
      <4> QED BY <4>1, <4>2, <4>3, <4>4, StepsOrRests, QueryMoves
    <3>2. cmd'[w].dev = cmd[w].dev /\ tempfile[f] = {cmd[w].dev}
      BY <1>0, <1>3, <2>1, <3>1, HolderMoves DEF UploadsHaveRows
    <3> QED BY <1>2, <1>3, <2>1, <3>1, <3>2
  <2>2. CASE ~Holds(w, f) /\ Registers(w)
    <3>1. f = autoinc /\ tempfile'[f] = {cmd[w].dev} /\ cmd'[w].dev = cmd[w].dev
      BY <1>0, <1>3, <2>2 DEF Registers, Holds, FileType, TableType
    <3> QED BY <3>1
  <2>3. CASE ~Holds(w, f) /\ QuerySteps(w) /\ Closes(w)
    <3>1. cmd'[w].fid = f /\ cmd'[w].dev \in opened[f]
      BY <1>3, <2>3 DEF Closes, Holds
    <3>2. tempfile[f] = {cmd'[w].dev}
      BY <1>0, <3>1 DEF UploadsHaveRows
    <3>3. tempfile'[f] = tempfile[f]
      BY <2>3, QueryMoves DEF Closes, Registers, Ends, Follows
    <3> QED BY <3>2, <3>3
  <2> QED BY <1>3, <2>1, <2>2, <2>3, HolderMoves
<1> QED BY <1>1, <1>3 DEF UploadsHaveRows

\* The rows of one fid go together.
LEMMA RowsOfFid ==
  ASSUME NEW R, NEW f, NEW g, NEW d
  PROVE  /\ g \in FidsOf(R \ RowsOf(R, f)) => g \in FidsOf(R) /\ g # f
         /\ g # f /\ <<g, d>> \in R => <<g, d>> \in R \ RowsOf(R, f)
         /\ <<f, d>> \in R => <<f, d>> \in RowsOf(R, f)
         /\ g \in FidsOf(RowsOf(R, f)) => g = f
BY DEF FidsOf, RowsOf

LEMMA PurgesStep ==
  ASSUME CareBefore
  PROVE  PurgesCover'
<1>0. /\ FileType /\ PurgesCover /\ old \subseteq old' /\ RowsGone
      /\ at \in [Workers -> Steps] /\ cmd \in [Workers -> Command \cup {None}]
      /\ rows \in [Deleters -> SUBSET (Fids \X (Devs \cup {None}))]
      /\ purge \in [Deleters -> SUBSET Places] /\ tempfile \in [Fids -> SUBSET Devs]
      /\ old \subseteq Fids /\ autoinc \in Int
  BY CalmFacts DEF CareBefore, CareInv, DoomInv, FileType, ProcessType, RowType, TableType, WorldType
<1> SUFFICES ASSUME NEW w \in Deleters
             PROVE  /\ at'[w] \in {"row_exists", "drop_row"} =>
                         \A f \in FidsOf(rows'[w]) : \A d \in tempfile'[f] : <<f, d>> \in rows'[w]
                    /\ \A f \in FidsOf(purge'[w]) :
                         f \in old' /\ \A d \in tempfile'[f] : <<f, d>> \in purge'[w]
                    /\ at'[w] = "drop_row" => cmd'[w].fid \in old'
  BY DEF PurgesCover, FidsOf
<1>1. w \in Workers
  OBVIOUS
<1>2. ASSUME NEW f \in old PROVE tempfile'[f] \subseteq tempfile[f]
  <2>1. f \in Fids /\ f # autoinc
    BY <1>0, OverIsClosed
  <2> QED BY <2>1, TempfileMoves
<1>3. \A f \in FidsOf(purge[w]) : f \in old' /\ \A d \in tempfile'[f] : <<f, d>> \in purge[w]
  BY <1>0, <1>2 DEF PurgesCover
<1>4. at[w] \in {"row_exists", "drop_row"} =>
        \A f \in FidsOf(rows[w]) : f \in old /\ \A d \in tempfile'[f] : <<f, d>> \in rows[w]
  BY <1>0, <1>2 DEF PurgesCover, RowsGone
<1>5. at[w] = "drop_row" => cmd[w].fid \in old'
  BY <1>0 DEF PurgesCover
<1>6. CASE at'[w] = at[w] /\ cmd'[w] = cmd[w] /\ rows'[w] = rows[w] /\ purge'[w] = purge[w]
  BY <1>3, <1>4, <1>5, <1>6
<1>7. CASE OldTempfiles(w)
  <2>1. PICK found : /\ found = {p \in Places : p[1] \in old /\ p[2] \in tempfile[p[1]]}
                     /\ rows' = [rows EXCEPT ![w] = found]
    BY <1>7 DEF OldTempfiles
  <2>2. at'[w] # "drop_row" /\ rows'[w] = found /\ UNCHANGED <<purge, tempfile>>
    BY <1>0, <1>1, <1>7, <2>1 DEF OldTempfiles, Goto, tableVars
  <2>3. ASSUME NEW f \in FidsOf(found), NEW d \in tempfile[f] PROVE <<f, d>> \in found
    <3>1. f \in Fids /\ f \in old /\ tempfile[f] \subseteq Devs
      BY <1>0, <2>1, <2>3 DEF FidsOf, Places
    <3> QED BY <2>1, <2>3, <3>1 DEF Places
  <2> QED BY <1>3, <2>2, <2>3
<1>8. CASE RowExists(w)
  <2>1. PICK f \in FidsOf(rows[w]) :
           /\ \/ /\ Goto(w, "row_exists", "drop_row")
                 /\ cmd' = [cmd EXCEPT ![w] = Row(<<f, None>>)]
                 /\ UNCHANGED purge
              \/ /\ at[w] = "row_exists" /\ UNCHANGED <<at, cmd>>
                 /\ purge' = [purge EXCEPT ![w] = purge[w] \cup RowsOf(rows[w], f)]
           /\ rows' = [rows EXCEPT ![w] = rows[w] \ RowsOf(rows[w], f)]
    BY <1>0, <1>8 DEF RowExists
  <2>2. at[w] = "row_exists" /\ rows'[w] = rows[w] \ RowsOf(rows[w], f)
    BY <1>0, <2>1 DEF Goto
  <2>3. f \in old /\ f \in Fids /\ \A d \in tempfile'[f] : <<f, d>> \in rows[w]
    BY <1>0, <1>4, <2>1, <2>2
  <2>4. ASSUME NEW g \in FidsOf(rows'[w]) PROVE \A d \in tempfile'[g] : <<g, d>> \in rows'[w]
    <3>1. g \in FidsOf(rows[w]) /\ g # f
      BY <2>2, <2>4, RowsOfFid
    <3>2. \A d \in tempfile'[g] : <<g, d>> \in rows[w]
      BY <1>4, <2>2, <3>1
    <3> QED BY <2>2, <3>1, <3>2, RowsOfFid
  <2>5. CASE Goto(w, "row_exists", "drop_row") /\ cmd' = [cmd EXCEPT ![w] = Row(<<f, None>>)] /\ UNCHANGED purge
    <3>1. cmd'[w].fid = f
      BY <1>0, <2>3, <2>5, RowIsCommand
    <3> QED BY <1>0, <1>3, <2>3, <2>4, <2>5, <3>1
  <2>6. CASE /\ at[w] = "row_exists" /\ UNCHANGED <<at, cmd>>
             /\ purge' = [purge EXCEPT ![w] = purge[w] \cup RowsOf(rows[w], f)]
    <3>1. purge'[w] = purge[w] \cup RowsOf(rows[w], f) /\ at'[w] = "row_exists"
      BY <1>0, <2>6
    <3>2. ASSUME NEW g \in FidsOf(purge'[w])
          PROVE  g \in old' /\ \A d \in tempfile'[g] : <<g, d>> \in purge'[w]
      <4>1. g \in FidsOf(purge[w]) \/ g = f
        <5>1. PICK p \in purge[w] \cup RowsOf(rows[w], f) : p[1] = g
          BY <3>1, <3>2 DEF FidsOf
        <5> QED BY <5>1 DEF FidsOf, RowsOf
      <4>2. CASE g \in FidsOf(purge[w])
        BY <1>3, <3>1, <4>2
      <4>3. CASE g = f
        BY <1>0, <2>3, <3>1, <4>3, RowsOfFid
      <4> QED BY <4>1, <4>2, <4>3
    <3> QED BY <2>4, <3>1, <3>2
  <2> QED BY <2>1, <2>5, <2>6
<1>9. CASE DropRow(w)
  <2>1. at[w] = "drop_row" /\ at'[w] = "row_exists" /\ rows'[w] = rows[w] /\ purge'[w] = purge[w]
    BY <1>0, <1>1, <1>9 DEF DropRow, Goto, deleterVars
  <2> QED BY <1>3, <1>4, <2>1
<1>10. CASE NothingToPurge(w) \/ DeletePurged(w) \/ DeleterDies(w)
  <2>1. purge'[w] = {} /\ at'[w] \in {"old_tempfiles", "fids_to_delete_again"}
    BY <1>0, <1>1, <1>10 DEF NothingToPurge, DeletePurged, DeleterDies, Restarts, Goto
  <2>2. FidsOf(purge'[w]) = {}
    BY <2>1 DEF FidsOf
  <2> QED BY <2>1, <2>2
<1>11. CASE \/ MassInsertFileOn(w) \/ EnqueuePurge(w)
            \/ (\E due \in SUBSET later : FidsToDeleteAgain(w, due)) \/ Reenqueue(w)
            \/ DeleteLater(w) \/ SelectDeletes(w) \/ EndOfBatch(w)
            \/ HttpDelete(w) \/ AnswerLost(w) \/ RemoveFileOn(w) \/ Reschedule(w)
            \/ RemoveFid(w)
  <2>1. at'[w] \notin {"drop_row", "row_exists"} /\ UNCHANGED purge
    <3>1. CASE \/ MassInsertFileOn(w) \/ EnqueuePurge(w)
               \/ (\E due \in SUBSET later : FidsToDeleteAgain(w, due)) \/ Reenqueue(w)
               \/ DeleteLater(w) \/ SelectDeletes(w) \/ EndOfBatch(w)
      BY <1>0, <1>1, <3>1 DEF MassInsertFileOn, EnqueuePurge, FidsToDeleteAgain, Reenqueue, DeleteLater,
           SelectDeletes, EndOfBatch, Goto, deleterVars
    <3>2. CASE \/ HttpDelete(w) \/ AnswerLost(w) \/ RemoveFileOn(w) \/ Reschedule(w)
               \/ RemoveFid(w)
      BY <1>0, <1>1, <3>2 DEF HttpDelete, AnswerLost, RemoveFileOn, Reschedule, RemoveFid, Goto,
           deleterVars
    <3> QED BY <1>11, <3>1, <3>2
  <2> QED BY <1>3, <2>1
<1>12. CASE \E p \in Fids \X (Devs \cup {None}) :
              \/ NoMoreLocations(w, p) \/ DeviceIsDead(w, p) \/ DeviceAnswers(w, p)
              \/ DeviceRefuses(w, p) \/ RowSkipped(w, p)
  <2>1. at'[w] \notin {"drop_row", "row_exists"} /\ UNCHANGED purge
    BY <1>0, <1>1, <1>12 DEF NoMoreLocations, DeviceIsDead, DeviceAnswers, DeviceRefuses, RowSkipped,
         NextRow, Goto
  <2> QED BY <1>3, <2>1
<1> QED BY <1>6, <1>7, <1>8, <1>9, <1>10, <1>11, <1>12, DeleterRests DEF DeleterSteps, RunDeleter

\* Who takes a fid out of a queue while another deleter counts on it there crosses that one.
LEMMA QueueLeft ==
  ASSUME CareBefore, NEW f \in Fids
  PROVE  /\ f \in todelete /\ f \notin todelete' =>
              \E v \in Deleters : at[v] = "remove_fid" /\ cmd[v].fid = f
         /\ f \in later /\ f \notin later' =>
              \E v \in Deleters : at[v] = "delete_later" /\ f \in FidsOf(rows[v])
<1>1. ASSUME NEW w, QuerySteps(w) PROVE later' = later /\ todelete \subseteq todelete'
  BY <1>1, QueryWrites DEF EnqueueDelete
<1>2. ASSUME NEW w, Dies(w) PROVE UNCHANGED <<later, todelete>>
  BY <1>2, DeathWrites
<1>3. CASE TimeSteps
  BY <1>3, TimeWrites, CalmFacts
<1>4. ASSUME NEW w, DeleterSteps(w), f \in todelete, f \notin todelete'
      PROVE  w \in Deleters /\ at[w] = "remove_fid" /\ cmd[w].fid = f
  BY <1>4, DeleterWrites DEF EnqueuePurge, Reenqueue, RemoveFid, Goto, DeleterSteps
<1>5. ASSUME NEW w, DeleterSteps(w), f \in later, f \notin later'
      PROVE  w \in Deleters /\ at[w] = "delete_later" /\ f \in FidsOf(rows[w])
  BY <1>5, DeleterWrites DEF Reschedule, DeleteLater, Goto, DeleterSteps
<1> QED BY <1>1, <1>2, <1>3, <1>4, <1>5, WhoSteps

LEMMA RemovesStep ==
  ASSUME CareBefore
  PROVE  RemovesDone'
<1>0. /\ FileType /\ RemovesDone /\ RowsGone /\ StoredIsRecorded /\ CrossingsAreHit /\ hit \subseteq hit'
      /\ at \in [Workers -> Steps] /\ cmd \in [Workers -> Command \cup {None}]
      /\ rows \in [Deleters -> SUBSET (Fids \X (Devs \cup {None}))]
      /\ None \notin Devs /\ disk' \subseteq Places
  BY CalmFacts, NoneAssumption
     DEF CareBefore, CareInv, DoomInv, FileType, ProcessType, RowType, WorldType
<1> SUFFICES ASSUME NEW w \in Deleters
             PROVE  /\ at'[w] = "delete_later" => \A f \in FidsOf(rows'[w]) : f \in todelete' \cup hit'
                    /\ at'[w] \in {"next_row"} \cup RowSteps =>
                         \A f \in Fids : <<f, None>> \in rows'[w] => ~HasContent(f)'
                    /\ at'[w] = "remove_fid" => \A f \in Fids : f = cmd'[w].fid =>
                         f \in later' \cup hit' \/ ~HasContent(f)'
                    /\ at'[w] = "remove_file_on" =>
                         <<cmd'[w].fid, cmd'[w].dev>> \notin disk' \/ cmd'[w].dev \in dead'
  <2>1. \A v \in Deleters : at'[v] = "remove_fid" => cmd'[v].fid \in Fids
    BY CalmFacts DEF FileType, ProcessType, DeleterFits, RowSteps
  <2>2. \A w \in Deleters : at'[w] = "remove_fid" =>
          cmd'[w].fid \in later' \cup hit' \/ ~HasContent(cmd[w].fid)'
    BY <2>1 DEF HasContent
  <2>3. \A w \in Deleters : FidsOf(rows[w])' = FidsOf(rows'[w]) /\ ThisRow(w)' = <<cmd'[w].fid, cmd'[w].dev>>
    BY DEF FidsOf, ThisRow
  <2> QED BY <2>2, <2>3 DEF RemovesDone
<1>1. w \in Workers
  OBVIOUS
<1>2. \A f \in Fids : Gone(f) /\ ~HasContent(f) => ~HasContent(f)'
  BY ContentStays DEF Gone, Over
<1>3. at[w] \in RowSteps => Gone(cmd[w].fid) /\ cmd[w].fid \in Fids
  BY <1>0, RowsAreFids DEF RowsGone
<1>4. at[w] \in {"next_row"} \cup RowSteps => \A f \in Fids : <<f, None>> \in rows[w] => ~HasContent(f)'
  <2> SUFFICES ASSUME at[w] \in {"next_row"} \cup RowSteps, NEW f \in Fids, <<f, None>> \in rows[w]
               PROVE  ~HasContent(f)'
    OBVIOUS
  <2>1. f \in FidsOf(rows[w])
    BY DEF FidsOf
  <2>2. Gone(f) /\ ~HasContent(f)
    BY <1>0, <2>1 DEF RowsGone, RemovesDone
  <2> QED BY <1>2, <2>2
<1>5. CASE at'[w] = at[w] /\ cmd'[w] = cmd[w] /\ rows'[w] = rows[w]
  <2>1. ASSUME at[w] = "delete_later", NEW f \in FidsOf(rows[w]) PROVE f \in todelete' \cup hit'
    <3>1. f \in todelete \cup hit /\ f \in Fids
      BY <1>0, <2>1, RowsAreFids DEF RemovesDone
    <3>2. CASE f \in todelete /\ f \notin todelete'
      <4>1. QueuesCross(f)
        BY <2>1, <3>1, <3>2, QueueLeft DEF QueuesCross
      <4> QED BY <1>0, <3>1, <4>1 DEF CrossingsAreHit
    <3> QED BY <1>0, <3>1, <3>2
  <2>2. ASSUME at[w] = "remove_fid", NEW f \in Fids, f = cmd[w].fid
        PROVE  f \in later' \cup hit' \/ ~HasContent(f)'
    <3>1. f \in later \cup hit \/ ~HasContent(f)
      BY <1>0, <2>2 DEF RemovesDone
    <3>2. Gone(f)
      BY <1>3, <2>2 DEF RowSteps
    <3>3. CASE f \in later /\ f \notin later'
      <4>1. QueuesCross(f)
        BY <2>2, <3>3, QueueLeft DEF QueuesCross
      <4> QED BY <1>0, <4>1 DEF CrossingsAreHit
    <3> QED BY <1>0, <1>2, <3>1, <3>2, <3>3
  <2>3. ASSUME at[w] = "remove_file_on"
        PROVE  <<cmd[w].fid, cmd[w].dev>> \notin disk' \/ cmd[w].dev \in dead'
    <3>1. PICK f \in Fids : f = cmd[w].fid /\ Gone(f)
      BY <1>3, <2>3 DEF RowSteps
    <3>2. <<f, cmd[w].dev>> \notin disk \/ cmd[w].dev \in dead
      BY <1>0, <2>3, <3>1 DEF RemovesDone, ThisRow
    <3>3. opened[f] = {}
      BY <3>1 DEF Gone, Over
    <3>4. <<f, cmd[w].dev>> \in disk' => cmd[w].dev \in Devs
      BY <1>0 DEF Places
    <3> QED BY <3>1, <3>2, <3>3, <3>4, OnlyUploadsWrite
  <2> QED BY <1>4, <1>5, <2>1, <2>2, <2>3
<1>6. CASE \/ OldTempfiles(w) \/ NothingToPurge(w) \/ MassInsertFileOn(w)
           \/ EnqueuePurge(w) \/ DeletePurged(w) \/ DeleteLater(w) \/ EndOfBatch(w) \/ DeleterDies(w)
           \/ (\E due \in SUBSET later : FidsToDeleteAgain(w, due))
  <2>1. at'[w] \notin {"delete_later", "next_row"} \cup RowSteps
    BY <1>0, <1>1, <1>6 DEF OldTempfiles, NothingToPurge, MassInsertFileOn, EnqueuePurge,
         DeletePurged, DeleteLater, EndOfBatch, DeleterDies, FidsToDeleteAgain, Restarts, Goto, RowSteps
  <2> QED BY <2>1 DEF RowSteps
<1>7. CASE RowExists(w) \/ DropRow(w)
  <2>1. at'[w] \in {"drop_row", "row_exists"}
    BY <1>0, <1>1, <1>7 DEF RowExists, DropRow, Goto
  <2> QED BY <2>1 DEF RowSteps
<1>8. CASE Reenqueue(w)
  <2>1. at'[w] = "delete_later" /\ rows'[w] = rows[w] /\ todelete' = todelete \cup FidsOf(rows[w])
    BY <1>0, <1>1, <1>8 DEF Reenqueue, Goto, deleterVars
  <2> QED BY <2>1 DEF RowSteps
<1>9. CASE SelectDeletes(w)
  <2>1. at'[w] \in {"old_tempfiles", "next_row"} /\ rows'[w] = Joined /\ UNCHANGED <<disk, dead>>
    BY <1>0, <1>1, <1>9 DEF SelectDeletes, Goto, NotTheDeleters
  <2>2. ASSUME NEW f \in Fids, <<f, None>> \in Joined PROVE ~HasContent(f)'
    <3>1. f \in todelete /\ \A d \in Devs : <<f, d>> \notin on
      BY <1>0, <2>2 DEF Joined, Places
    <3>2. Recorded(f)
      BY <1>0, <3>1 DEF StoredIsRecorded, Queued
    <3> QED BY <2>1, <3>1, <3>2 DEF Recorded, HasContent
  <2> QED BY <2>1, <2>2 DEF RowSteps
<1>10. CASE \E p \in Fids \X (Devs \cup {None}) :
              \/ NoMoreLocations(w, p) \/ DeviceIsDead(w, p) \/ DeviceAnswers(w, p)
              \/ DeviceRefuses(w, p) \/ RowSkipped(w, p)
  <2>1. PICK p \in Fids \X (Devs \cup {None}), step \in {"next_row"} \cup RowSteps :
          /\ NextRow(w, p, step)
          /\ step = "remove_fid" => p[2] = None
          /\ step = "remove_file_on" => p[2] \in dead
    BY <1>10 DEF NoMoreLocations, DeviceIsDead, DeviceAnswers, DeviceRefuses, RowSkipped, RowSteps
  <2>2. /\ p \in rows[w] /\ at[w] = "next_row" /\ at'[w] = step /\ rows'[w] = rows[w] \ {p}
        /\ UNCHANGED dead /\ cmd'[w] = IF step = "next_row" THEN None ELSE Row(p)
    BY <1>0, <1>1, <2>1 DEF NextRow, Goto, NotTheDeleters
  <2>3. step \in RowSteps => cmd'[w].fid = p[1] /\ cmd'[w].dev = p[2]
    BY <2>2, RowIsCommand DEF RowSteps
  <2>4. p = <<p[1], p[2]>> /\ p[1] \in Fids
    OBVIOUS
  <2>5. step = "remove_fid" => ~HasContent(p[1])'
    BY <1>4, <2>1, <2>2, <2>4
  <2>6. step = "remove_file_on" => cmd'[w].dev \in dead'
    BY <2>1, <2>2, <2>3 DEF RowSteps
  <2>7. step \notin {"delete_later"}
    BY DEF RowSteps
  <2>8. step = "remove_fid" => \A f \in Fids : f = cmd'[w].fid => ~HasContent(f)'
    <3>1. step = "remove_fid" => cmd'[w].fid = p[1]
      BY <2>3 DEF RowSteps
    <3> QED BY <2>5, <3>1
  <2>9. \A f \in Fids : <<f, None>> \in rows'[w] => ~HasContent(f)'
    BY <1>4, <2>2
  <2> QED BY <2>2, <2>6, <2>7, <2>8, <2>9
<1>11. CASE HttpDelete(w)
  <2>1. /\ at[w] \in RowSteps /\ at'[w] = "remove_file_on" /\ rows'[w] = rows[w] /\ cmd'[w] = cmd[w]
        /\ disk' = disk \ {<<cmd[w].fid, cmd[w].dev>>}
    BY <1>0, <1>1, <1>11 DEF HttpDelete, Goto, deleterVars, ThisRow, RowSteps
  <2> QED BY <1>4, <2>1
<1>12. CASE AnswerLost(w) \/ RemoveFileOn(w) \/ RemoveFid(w)
  <2>1. at[w] \in RowSteps /\ at'[w] = "next_row" /\ rows'[w] = rows[w]
    BY <1>0, <1>1, <1>12 DEF AnswerLost, RemoveFileOn, RemoveFid, Goto, deleterVars, RowSteps
  <2> QED BY <1>4, <2>1
<1>13. CASE Reschedule(w)
  <2>1. /\ at[w] \in RowSteps /\ at'[w] = "remove_fid" /\ rows'[w] = rows[w]
        /\ cmd'[w] = cmd[w] /\ cmd[w].fid \in later'
    BY <1>0, <1>1, <1>13 DEF Reschedule, Goto, deleterVars, RowSteps
  <2> QED BY <1>4, <2>1
<1> QED BY <1>5, <1>6, <1>7, <1>8, <1>9, <1>10, <1>11, <1>12, <1>13, DeleterRests
        DEF DeleterSteps, RunDeleter

\* Who is going to take a row of `tempfile` away has queued the fid, given it a key or found one.
LEMMA RowsSafeStep ==
  ASSUME CareBefore
  PROVE  RowsGoSafely'
<1>0. /\ FileType /\ RowsGoSafely /\ RowsGone
      /\ at \in [Workers -> Steps] /\ cmd \in [Workers -> Command \cup {None}]
      /\ purge \in [Deleters -> SUBSET Places]
  BY CalmFacts DEF CareBefore, CareInv, DoomInv, FileType, ProcessType, RowType
<1>1. ASSUME NEW w \in Queryworkers, NEW f \in Fids, cmd'[w].fid = f,
             at'[w] \in {"enqueue_replication", "delete_tempfile"}
      PROVE  Safe(f)'
  <2>1. CASE at[w] \in {"enqueue_replication", "delete_tempfile"} /\ cmd'[w] = cmd[w]
    <3>1. Safe(f) /\ Holds(w, f)
      BY <1>0, <1>1, <2>1, CommandRuns DEF RowsGoSafely, Holds
    <3> QED BY <3>1, SafeStays, OverIsClosed
  <2>2. CASE QuerySteps(w) /\ at[w] = "replace_file" /\ cmd'[w] = cmd[w]
    <3>1. ReplaceFile(w) /\ cmd[w].key \in Keys /\ cmd[w].fid = f
      BY <1>1, <2>2, StatementAt, CommandRuns DEF QueryFits, StoreSteps
    <3>2. file'[f] = cmd[w].key
      BY <3>1 DEF ReplaceFile, ReplaceIntoFile
    <3>3. cmd[w].key # None
      BY <3>1, NoneAssumption
    <3> QED BY <3>2, <3>3 DEF Safe, Kept, Live
  <2>3. CASE QuerySteps(w)
    <3>1. cmd'[w] = cmd[w] /\ at[w] \in {"replace_file", "enqueue_replication"}
      BY <1>1, <2>3, QueryMoves DEF Ends, Follows, Targets, Starts, Registers, Closes
    <3> QED BY <2>1, <2>2, <2>3, <3>1
  <2>4. ~Dies(w)
    BY <1>1, DeathWrites
  <2> QED BY <1>1, <2>1, <2>3, <2>4, StepsOrRests
<1>2. ASSUME NEW w \in Deleters, NEW f \in FidsOf(purge'[w]), at'[w] = "delete_purged"
      PROVE  Safe(f)'
  <2>1. CASE at'[w] = at[w] /\ purge'[w] = purge[w]
    <3>1. f \in Fids /\ Safe(f) /\ Gone(f)
      BY <1>0, <1>2, <2>1, RowsAreFids DEF RowsGoSafely, RowsGone
    <3> QED BY <3>1, SafeStays DEF Gone, Over
  <2>2. CASE DeleterSteps(w)
    <3>1. EnqueuePurge(w)
      <4>1. CASE OldTempfiles(w) \/ RowExists(w) \/ DropRow(w) \/ NothingToPurge(w)
                 \/ MassInsertFileOn(w) \/ DeletePurged(w) \/ DeleterDies(w)
        BY <1>0, <1>2, <4>1 DEF OldTempfiles, RowExists, DropRow, NothingToPurge, MassInsertFileOn,
             DeletePurged, DeleterDies, Restarts, Goto
      <4>2. CASE \/ (\E due \in SUBSET later : FidsToDeleteAgain(w, due)) \/ Reenqueue(w)
                 \/ DeleteLater(w) \/ SelectDeletes(w) \/ EndOfBatch(w)
        BY <1>0, <1>2, <4>2 DEF FidsToDeleteAgain, Reenqueue, DeleteLater, SelectDeletes, EndOfBatch, Goto
      <4>3. CASE \/ HttpDelete(w) \/ AnswerLost(w) \/ RemoveFileOn(w) \/ Reschedule(w) \/ RemoveFid(w)
        BY <1>0, <1>2, <4>3 DEF HttpDelete, AnswerLost, RemoveFileOn, Reschedule, RemoveFid, Goto
      <4>4. CASE \E p \in Fids \X (Devs \cup {None}) :
                   \/ NoMoreLocations(w, p) \/ DeviceIsDead(w, p) \/ DeviceAnswers(w, p)
                   \/ DeviceRefuses(w, p) \/ RowSkipped(w, p)
        BY <1>0, <1>2, <4>4 DEF NoMoreLocations, DeviceIsDead, DeviceAnswers, DeviceRefuses, RowSkipped,
             NextRow, Goto
      <4> QED BY <2>2, <4>1, <4>2, <4>3, <4>4 DEF DeleterSteps, RunDeleter
    <3>2. purge' = purge /\ todelete' = todelete \cup FidsOf(purge[w])
      BY <3>1 DEF EnqueuePurge, deleterVars
    <3>3. f \in todelete'
      BY <1>2, <3>2
    <3> QED BY <3>3 DEF Safe, Kept, Queued
  <2> QED BY <2>1, <2>2, DeleterRests
<1>3. ASSUME NEW w \in Deleters, NEW f \in Fids, cmd'[w].fid = f, at'[w] = "drop_row"
      PROVE  Safe(f)'
  <2>1. CASE at'[w] = at[w] /\ cmd'[w] = cmd[w]
    <3>1. Safe(f) /\ DeleterHas(w, f)
      BY <1>0, <1>3, <2>1 DEF RowsGoSafely, DeleterHas
    <3> QED BY <3>1, SafeStays, OverIsClosed
  <2>2. CASE DeleterSteps(w) /\ ~RowExists(w)
    <3>1. CASE OldTempfiles(w) \/ EnqueuePurge(w) \/ DropRow(w) \/ NothingToPurge(w)
               \/ MassInsertFileOn(w) \/ DeletePurged(w) \/ DeleterDies(w)
      BY <1>0, <1>3, <3>1 DEF OldTempfiles, EnqueuePurge, DropRow, NothingToPurge, MassInsertFileOn,
           DeletePurged, DeleterDies, Restarts, Goto
    <3>2. CASE \/ (\E due \in SUBSET later : FidsToDeleteAgain(w, due)) \/ Reenqueue(w)
               \/ DeleteLater(w) \/ SelectDeletes(w) \/ EndOfBatch(w)
      BY <1>0, <1>3, <3>2 DEF FidsToDeleteAgain, Reenqueue, DeleteLater, SelectDeletes, EndOfBatch, Goto
    <3>3. CASE \/ HttpDelete(w) \/ AnswerLost(w) \/ RemoveFileOn(w) \/ Reschedule(w) \/ RemoveFid(w)
      BY <1>0, <1>3, <3>3 DEF HttpDelete, AnswerLost, RemoveFileOn, Reschedule, RemoveFid, Goto
    <3>4. CASE \E p \in Fids \X (Devs \cup {None}) :
                 \/ NoMoreLocations(w, p) \/ DeviceIsDead(w, p) \/ DeviceAnswers(w, p)
                 \/ DeviceRefuses(w, p) \/ RowSkipped(w, p)
      BY <1>0, <1>3, <3>4 DEF NoMoreLocations, DeviceIsDead, DeviceAnswers, DeviceRefuses, RowSkipped,
           NextRow, Goto
    <3> QED BY <2>2, <3>1, <3>2, <3>3, <3>4 DEF DeleterSteps, RunDeleter
  <2>3. CASE RowExists(w)
    <3>1. PICK g \in FidsOf(rows[w]) :
            \/ file[g] # None /\ cmd' = [cmd EXCEPT ![w] = Row(<<g, None>>)]
            \/ at[w] = "row_exists" /\ UNCHANGED at
      BY <2>3 DEF RowExists
    <3>2. g \in Fids
      BY <1>0, RowsAreFids
    <3>3. file[g] # None /\ cmd'[w] = Row(<<g, None>>)
      BY <1>0, <1>3, <3>1
    <3>4. g = f
      BY <1>3, <3>2, <3>3, RowIsCommand
    <3>5. file' = file
      BY <2>3 DEF RowExists, tableVars
    <3> QED BY <3>3, <3>4, <3>5 DEF Safe, Kept, Live
  <2> QED BY <2>1, <2>2, <2>3, DeleterRests
<1>4. /\ \A w \in Queryworkers :
           at'[w] \in {"enqueue_replication", "delete_tempfile"} => cmd'[w].fid \in Fids
      /\ \A w \in Deleters : at'[w] = "drop_row" => cmd'[w].fid \in Fids
  BY CommandRuns, CalmFacts DEF QueryFits, StoreSteps, FileType, ProcessType, DeleterFits
<1> QED BY <1>1, <1>2, <1>3, <1>4 DEF RowsGoSafely

\* A fid's row in `tempfile` goes when there is no content, or somebody else cares for it.
LEMMA CaredStep ==
  ASSUME CareBefore
  PROVE  ContentIsCared'
<1>0. /\ ContentIsCared /\ UploadsHaveRows /\ PurgesCover /\ RowsGoSafely /\ RowsGone
  BY CalmFacts DEF CareBefore, CareInv, DoomInv
<1> SUFFICES ASSUME NEW f \in Fids, tempfile'[f] = {}
             PROVE  Safe(f)'
  BY DEF ContentIsCared
<1>1. opened[f] = {} /\ Safe(f)
  <2>1. CASE tempfile[f] = {}
    <3>1. opened[f] = {}
      BY <1>0, <2>1 DEF UploadsHaveRows
    <3> QED BY <1>0, <2>1, <3>1 DEF ContentIsCared
  <2>2. ASSUME NEW w \in Queryworkers, at[w] = "delete_tempfile", Holds(w, f)
        PROVE  opened[f] = {} /\ Safe(f)
    BY <1>0, <2>2, OverIsClosed DEF RowsGoSafely, Holds
  <2>3. ASSUME NEW w \in Queryworkers, at[w] = "delete_file_temp", cmd[w].victim = f
        PROVE  opened[f] = {} /\ Safe(f)
    <3>1. cmd[w] # None
      BY <2>3, CommandRuns
    <3>2. Safe(f)
      BY <2>3 DEF Safe, Kept, BeingDeleted
    <3> QED BY <2>3, <3>1, <3>2, OverIsClosed
  <2>4. ASSUME NEW w \in Deleters, at[w] = "delete_purged", f \in FidsOf(purge[w])
        PROVE  opened[f] = {} /\ Safe(f)
    BY <1>0, <2>4, OverIsClosed DEF RowsGoSafely, PurgesCover
  <2>5. ASSUME NEW w \in Deleters, at[w] = "drop_row", f = cmd[w].fid
        PROVE  opened[f] = {} /\ Safe(f)
    BY <1>0, <2>5, OverIsClosed DEF RowsGoSafely, PurgesCover
  <2> QED BY <2>1, <2>2, <2>3, <2>4, <2>5, TempfileMoves
<1> QED BY <1>1, SafeStays

LEMMA CareStep ==
  ASSUME CareBefore
  PROVE  CareInv'
<1>1. CrossingsAreHit'
  BY DEF CareBefore, CareNext, CrossingsAreHit
<1> QED BY <1>1, CollisionStep, UploadsStep, AbortsStep, PurgesStep, RemovesStep, StoredStep, RowsSafeStep,
           ContentStep, CaredStep DEF CareInv

LEMMA InitCare == FileInit => CareInv
<1> SUFFICES ASSUME FileInit PROVE CareInv
  OBVIOUS
<1>1. /\ \A f \in Fids : file[f] = None /\ tempfile[f] = {} /\ opened[f] = {}
      /\ \A w \in Queryworkers : at[w] = "idle" /\ cmd[w] = None
      /\ \A w \in Deleters : at[w] = "old_tempfiles" /\ purge[w] = {} /\ rows[w] = {}
      /\ on = {} /\ disk = {} /\ todelete = {} /\ later = {}
  BY ProcessAssumption DEF FileInit
<1>2. FidsOf({}) = {}
  BY DEF FidsOf
<1>3. NoCollision /\ UploadsHaveRows /\ AbortsAreAlone
  BY <1>1 DEF NoCollision, UploadsHaveRows, AbortsAreAlone, Holds, Live
<1>4. PurgesCover /\ RemovesDone /\ StoredIsRecorded
  BY <1>1, <1>2 DEF PurgesCover, RemovesDone, StoredIsRecorded, Live, Queued, DeleterHas, DeleteSteps, RowSteps
<1>5. RowsGoSafely /\ CrossingsAreHit /\ ContentIsFound /\ ContentIsCared
  BY <1>1, <1>2 DEF RowsGoSafely, CrossingsAreHit, QueuesCross, ContentIsFound, ContentIsCared, Safe, HasContent
<1> QED BY <1>3, <1>4, <1>5 DEF CareInv

LEMMA CareRests ==
  ASSUME CareInv, UNCHANGED careVars
  PROVE  CareInv'
<1>1. UNCHANGED <<file, tempfile, on, todelete, later, disk, dead, opened, old, at, cmd, rows, purge, hit>>
  BY DEF careVars, fileVars, tableVars, clientVars, deleterVars
<1>2. NoCollision' /\ UploadsHaveRows' /\ AbortsAreAlone' /\ PurgesCover'
  BY <1>1 DEF CareInv, NoCollision, UploadsHaveRows, AbortsAreAlone, PurgesCover, Holds, Uploading, Live
<1>3. \A f \in Fids : Recorded(f)' = Recorded(f) /\ HasContent(f)' = HasContent(f) /\ Live(f)' = Live(f)
                      /\ Queued(f)' = Queued(f) /\ Kept(f)' = Kept(f) /\ Safe(f)' = Safe(f)
  BY <1>1 DEF Recorded, HasContent, Live, Queued, Kept, BeingDeleted, Safe
<1>4. RemovesDone' /\ StoredIsRecorded'
  BY <1>1 DEF CareInv, RemovesDone, StoredIsRecorded, Recorded, HasContent, ThisRow, Live, Queued, DeleterHas
<1>5. RowsGoSafely'
  BY <1>1 DEF CareInv, RowsGoSafely, Safe, HasContent, Kept, BeingDeleted, Live, Queued
<1>6. CrossingsAreHit' /\ ContentIsFound' /\ ContentIsCared'
  BY <1>1, <1>3 DEF CareInv, CrossingsAreHit, QueuesCross, ContentIsFound, ContentIsCared
<1> QED BY <1>2, <1>4, <1>5, <1>6 DEF CareInv

\* Of what CareInv keeps count, NothingForgotten tells the outcome.
LEMMA CaredIsPending ==
  ASSUME FileType, CareInv
  PROVE  NothingForgotten
<1> SUFFICES ASSUME NEW f \in Fids, NEW d \in Devs, <<f, d>> \in disk, d \notin dead
             PROVE  /\ <<f, d>> \in on \/ d \in tempfile[f]
                    /\ Live(f) \/ Pending(f) \/ f \in hit
  BY DEF NothingForgotten, FileType, WorldType, Places
<1>1. <<f, d>> \in on \/ d \in tempfile[f]
  BY DEF CareInv, ContentIsFound
<1>2. HasContent(f)
  BY DEF HasContent
<1>3. Kept(f) \/ f \in hit \/ tempfile[f] # {}
  BY <1>2 DEF CareInv, ContentIsCared, Safe
<1>4. ASSUME BeingDeleted(f) PROVE Pending(f)
  <2>1. PICK w \in Queryworkers : at[w] \in {"delete_file_temp", "enqueue_delete"} /\ cmd[w].victim = f
    BY <1>4 DEF BeingDeleted
  <2>2. cmd[w] # None
    BY <2>1, RunningFits
  <2> QED BY <2>1, <2>2 DEF Pending
<1> QED BY <1>1, <1>3, <1>4 DEF Kept, Queued, Pending

\* NothingForgotten: all content on a living device is recorded where a deleter looks, and
\* belongs to a file with a key or to a fid that somebody still has to deal with, or that met
\* one of three accidents: two deleters crossed on it between the two deletion queues, another
\* file took its key by REPLACE INTO, or a query worker died in a command about it.  However
\* many query workers and deleters interleave their statements, upload to the same key, delete
\* and rename, and however often a deleter dies, nothing else loses a fid.
THEOREM NothingIsForgotten == ASSUME Orderly PROVE CareSpec => []NothingForgotten
<1> DEFINE Inv == FileInv /\ CareInv
<1>1. CareInit => Inv
  BY InitInv, InitCare DEF CareInit
<1>2. Inv /\ [CareNext]_careVars => Inv'
  <2> SUFFICES ASSUME Inv, [CareNext]_careVars PROVE Inv'
    OBVIOUS
  <2>1. CASE UNCHANGED careVars
    BY <2>1, CareRests, RestsInv DEF careVars
  <2>2. CASE CareNext
    BY <2>2, CareStep, CalmFacts DEF CareBefore
  <2> QED BY <2>1, <2>2
<1>3. Inv => NothingForgotten
  BY CaredIsPending DEF FileInv, DoomInv
<1> QED BY <1>1, <1>2, <1>3, PTL DEF CareSpec

================================================================================
