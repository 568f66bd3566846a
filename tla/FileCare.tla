-------------------------------- MODULE FileCare --------------------------------
(***************************************************************************)
(* What the query workers and deleters of FileLife do not forget.  The     *)
(* steps are FileLife's; a history variable collects the fids that met one *)
(* of three accidents, each a window between two statements or a death:    *)
(*   - two deleters move the fid between the two deletion queues, in       *)
(*     opposite directions (process_deletes and reenqueue_delayed_deletes);*)
(*   - a file gets a key between create_close's search for the old file of *)
(*     that key and its REPLACE INTO file;                                 *)
(*   - a query worker dies in a command about the fid.                     *)
(***************************************************************************)
EXTENDS FileLife

VARIABLE hit    \* the fids that met an accident

careVars == <<fileVars, hit>>

\* One deleter is about to take the fid out of file_to_delete, for it has just rescheduled it
\* (or has found no location); another is about to take it out of file_to_delete_later, for
\* it has just put it into file_to_delete again.
QueuesCross(f) ==
  \E v, w \in Deleters :
    /\ at[v] = "remove_fid" /\ cmd[v].fid = f
    /\ at[w] = "delete_later" /\ f \in FidsOf(rows[w])

\* REPLACE INTO file takes away the row of a file that the command has not deleted.
Displaced(f) ==
  \E w \in Queryworkers : ReplaceFile(w) /\ cmd[w].fid # f /\ file[f] = cmd[w].key

LeftBehind(f) == \E w \in Queryworkers : QueryworkerDies(w) /\ f \in {cmd[w].fid, cmd[w].victim}

CareInit == FileInit /\ hit = {}
CareNext ==
  /\ FileNext
  /\ hit' = hit \cup {f \in Fids : QueuesCross(f)' \/ Displaced(f) \/ LeftBehind(f)}
CareSpec == CareInit /\ [][CareNext]_careVars

--------------------------------------------------------------------------------
(******************************* properties *******************************)

\* Somebody still has to do something about the fid.
Pending(f) ==
  \/ tempfile[f] # {}
  \/ f \in todelete \cup later
  \/ \E w \in Queryworkers : cmd[w] # None /\ f \in {cmd[w].fid, cmd[w].victim}

\* Content on a living device is recorded in file_on or in tempfile, whatever has happened to
\* its fid (the comment in cmd_create_close, Query.pm 384-388, wants no content whose place
\* nobody knows); and it belongs to a file with a key or to a fid that is in tempfile, in a
\* deletion queue or in a command that is running, unless that fid met one of the three
\* accidents.  Several deleters at the same rows, late answers, deaths of deleters, uploads
\* given up, overwrites and renames are none.
NothingForgotten ==
  \A p \in disk : p[2] \notin dead =>
    /\ p \in on \/ p[2] \in tempfile[p[1]]
    /\ Live(p[1]) \/ Pending(p[1]) \/ p[1] \in hit

================================================================================
