------------------------------ MODULE StorageNode ------------------------------
(***************************************************************************)
(* A storage node: lighttpd's worker processes, which answer HTTP requests *)
(* on one tree of files through mod_webdav and mod_staticfile.  Nothing    *)
(* keeps the workers apart but the kernel: one step is one system call (or *)
(* a few on one name), and each worker has a cache of stat() results of    *)
(* its own.  The build is YLEM's: without properties and locks (configure  *)
(* is run without --with-webdav-props), stat-cache-engine "simple".        *)
(* A path is the sequence of its components, the first a mounted device.   *)
(***************************************************************************)
EXTENDS Integers, Sequences, FiniteSets, SequencesExt, FiniteSetsExt

CONSTANTS
  Procs,       \* lighttpd's worker processes
  Paths,       \* the names below a device that exist or may come to exist
  Inodes,      \* files the disks can hold, deleted and still open ones included
  Hash,        \* the key of a name in the stat cache
  MaxBody,     \* the longest body of a request
  MaxFaults    \* bound on full disks, deaths of workers and failing connections

ASSUME HashAssumption == Hash \in [Paths -> Nat]
ASSUME NodeAssumption == Inodes \subseteq Nat \ {0} /\ {MaxBody, MaxFaults} \subseteq Nat

VARIABLES
  entry,   \* what each name is: Absent, Directory or an inode
  data,    \* contents of files, a sequence of units (pages); 0 is a hole
  job,     \* what each worker is doing
  cache,   \* each worker's stat cache, an entry under each key
  faults   \* how many things failed

nodeVars == <<entry, data, job, cache, faults>>

Absent    == 0       \* of an entry
Directory == -1
NoFd      == 0
Idle      == [pc |-> "idle"]
NotCached == [name |-> <<>>, size |-> 0, fresh |-> FALSE]
Whole     == -1      \* the offset of a PUT without Content-Range
IsADir    == -1      \* the size that stands for a directory in a stat result

Requests == [method : {"PUT", "GET", "HEAD", "DELETE", "MKCOL", "COPY", "MOVE"},
             path : Paths, off : Nat \cup {Whole}, body : Seq(Nat),
             to : Paths, overwrite : BOOLEAN]

-------------------------------------------------------------------------------
(* The tree *)

\* A device is mounted: its directory is always there.
IsDir(p)  == IF Len(p) = 1 THEN TRUE ELSE entry[p] = Directory
IsFile(p) == entry[p] \in Inodes
InDir(p)  == IsDir(Front(p))
InFile(p) == Len(p) > 2 /\ IsFile(Front(p))
Children(p) == {c \in Paths : Len(c) = Len(p) + 1 /\ IsPrefix(p, c) /\ entry[c] # Absent}
Below(p)    == {c \in Paths : c # p /\ IsPrefix(p, c)}

\* What readers can see of a tree.
Nothing      == [is |-> "absent", has |-> <<>>]
Collection   == [is |-> "directory", has |-> <<>>]
File(units)  == [is |-> "file", has |-> units]
ViewOf(e, d) == [p \in Paths |-> CASE e[p] = Absent    -> Nothing
                                   [] e[p] = Directory -> Collection
                                   [] OTHER            -> File(d[e[p]])]
View == ViewOf(entry, data)

\* A file no name and no worker refers to.
NewInode == Min({i \in Inodes : /\ \A p \in Paths : entry[p] # i
                                /\ \A w \in Procs : job[w] = Idle \/ i \notin {job[w].fd, job[w].src}})

\* The tree becomes e with contents d; files that were deleted are emptied.
Becomes(e, d) ==
  LET kept == {e[p] : p \in Paths} \cup UNION {{job[w].fd, job[w].src} : w \in {v \in Procs : job[v] # Idle}}
      tidy == [i \in Inodes |-> IF i \in kept THEN d[i] ELSE <<>>]
  IN  entry' = e /\ data' = tidy

Unchanged == UNCHANGED <<entry, data>>

\* Content s after write() of units us at offset o: what is skipped is a hole.
Overlay(s, o, us) ==
  [i \in 1..(IF us = <<>> \/ Len(s) >= o + Len(us) THEN Len(s) ELSE o + Len(us)) |->
     IF i > o /\ i <= o + Len(us) THEN us[i - o] ELSE IF i <= Len(s) THEN s[i] ELSE 0]

-------------------------------------------------------------------------------
(* Requests *)

Ranged(r) == r.method = "PUT" /\ r.off # Whole
ForgetsSeek(r) == 0                                                         \* mutant
Offset(r) == IF r.off = Whole THEN 0 ELSE r.off
ReadOnly(r) == r.method \in {"GET", "HEAD"}
\* A worker has read a request with its whole body.
FirstCall(r) == CASE r.method = "PUT"   -> "open"
                  [] r.method = "MKCOL" -> "mkdir"
                  [] ReadOnly(r)        -> "cache"
                  [] OTHER              -> "stat"

Take(w, r) ==
  /\ job[w] = Idle
  /\ job' = [job EXCEPT ![w] =
       [req |-> r, pc |-> FirstCall(r), status |-> 0, fd |-> NoFd, src |-> NoFd, done |-> 0,
        got |-> <<>>, size |-> 0, to |-> r.to, todo |-> {}, dirs |-> {}, bad |-> FALSE]]
  /\ Unchanged /\ UNCHANGED <<cache, faults>>

At(w, pc, methods) == job[w] # Idle /\ job[w].pc = pc /\ job[w].req.method \in methods
Goto(w, pc)        == job' = [job EXCEPT ![w].pc = pc]
Finish(w, status)  == job' = [job EXCEPT ![w].pc = "answer", ![w].status = status, ![w].fd = NoFd,
                                         ![w].src = NoFd]

\* The answer is written, and the worker may take another request.
Answer(w) ==
  /\ job[w] # Idle /\ job[w].pc = "answer"
  /\ job' = [job EXCEPT ![w] = Idle]
  /\ Becomes(entry, data)
  /\ UNCHANGED <<cache, faults>>

-------------------------------------------------------------------------------
(* PUT *)

\* The file is opened; a body of no bytes needs no write.
Opened(w, i, status) ==
  job' = [job EXCEPT ![w].pc = IF job[w].req.body = <<>> THEN "answer" ELSE "write",
                     ![w].status = status,
                     ![w].fd = IF job[w].req.body = <<>> THEN NoFd ELSE i]

AlwaysTruncated(r) == [data EXCEPT ![entry[r.path]] = <<>>]                 \* mutant
Truncated(r) == IF Ranged(r) THEN data ELSE [data EXCEPT ![entry[r.path]] = <<>>]

\* open() of what exists, with O_TRUNC unless the request has a Content-Range.  A PUT of a
\* whole file where there cannot be one goes on without a file.
OpenForPut(w) ==
  LET r == job[w].req IN
  /\ At(w, "open", {"PUT"})
  /\ \/ /\ IsFile(r.path) /\ Opened(w, entry[r.path], 200)
        /\ Becomes(entry, Truncated(r))
     \/ /\ IsDir(r.path) \/ InFile(r.path)
        /\ IF Ranged(r) THEN Finish(w, 403) ELSE Opened(w, NoFd, 201)
        /\ Unchanged
     \/ /\ entry[r.path] = Absent /\ ~InFile(r.path) /\ Goto(w, "create")
        /\ Unchanged
  /\ UNCHANGED <<cache, faults>>

\* open() again with O_CREAT and O_EXCL, after ENOENT: another worker may have been faster.
CreateForPut(w) ==
  LET r == job[w].req
      i == NewInode
  IN
  /\ At(w, "create", {"PUT"})
  /\ IF entry[r.path] = Absent /\ InDir(r.path)
     THEN /\ Opened(w, i, IF Ranged(r) THEN 200 ELSE 201)
          /\ Becomes([entry EXCEPT ![r.path] = i], [data EXCEPT ![i] = <<>>])
     ELSE /\ Finish(w, IF Ranged(r) THEN 404 ELSE 403)
          /\ Unchanged
  /\ UNCHANGED <<cache, faults>>

\* write() of n units at the place of the descriptor.
WriteBody(w, n) ==
  LET j == job[w]
      r == j.req
      us == SubSeq(r.body, j.done + 1, j.done + n)
  IN
  /\ At(w, "write", {"PUT"}) /\ j.fd # NoFd
  /\ n \in 1..(Len(r.body) - j.done)
  /\ Becomes(entry, [data EXCEPT ![j.fd] = Overlay(@, Offset(r) + j.done, us)])
  /\ IF j.done + n = Len(r.body)
     THEN Finish(w, j.status)
     ELSE job' = [job EXCEPT ![w].done = @ + n]
  /\ UNCHANGED <<cache, faults>>

\* write() fails: the disk is full, or there was no file to write to.
WriteFails(w) ==
  /\ At(w, "write", {"PUT"})
  /\ \/ job[w].fd = NoFd /\ Finish(w, 403) /\ UNCHANGED faults
     \/ /\ job[w].fd # NoFd /\ faults < MaxFaults /\ faults' = faults + 1
        /\ Finish(w, 507)
  /\ Unchanged /\ UNCHANGED cache

-------------------------------------------------------------------------------
(* MKCOL and DELETE *)

MakeCollection(w) ==
  LET p == job[w].req.path IN
  /\ At(w, "mkdir", {"MKCOL"})
  /\ \/ /\ entry[p] = Absent /\ InDir(p) /\ Finish(w, 201)
        /\ Becomes([entry EXCEPT ![p] = Directory], data)
     \/ /\ entry[p] = Absent /\ ~InDir(p) /\ Finish(w, 409) /\ Unchanged
     \/ /\ entry[p] # Absent /\ Finish(w, 405) /\ Unchanged
  /\ UNCHANGED <<cache, faults>>

StatForDelete(w) ==
  LET p == job[w].req.path IN
  /\ At(w, "stat", {"DELETE"})
  /\ CASE entry[p] = Absent -> Finish(w, IF InFile(p) THEN 403 ELSE 404)
       [] IsDir(p)          -> job' = [job EXCEPT ![w].pc = "empty", ![w].todo = Children(p)]
       [] OTHER             -> Goto(w, "unlink")
  /\ Unchanged /\ UNCHANGED <<cache, faults>>

Without(p) == [entry EXCEPT ![p] = Absent]

Unlink(w) ==
  LET p == job[w].req.path IN
  /\ At(w, "unlink", {"DELETE"})
  /\ \/ IsFile(p) /\ Finish(w, 204) /\ Becomes(Without(p), data)
     \/ entry[p] = Absent /\ Finish(w, 404) /\ Unchanged
     \/ IsDir(p) /\ Finish(w, 501) /\ Unchanged
  /\ UNCHANGED <<cache, faults>>

\* webdav_delete_dir at one name of the listing; what it returns is of the last name.
DeleteChild(w, c) ==
  /\ At(w, "empty", {"DELETE", "MOVE"}) /\ c \in job[w].todo
  /\ \/ /\ IsFile(c)
        /\ job' = [job EXCEPT ![w].todo = @ \ {c}, ![w].bad = FALSE]
        /\ Becomes(Without(c), data)
     \/ /\ IsDir(c) /\ Unchanged
        /\ job' = [job EXCEPT ![w].todo = (@ \ {c}) \cup Children(c), ![w].dirs = @ \cup {c}]
     \/ /\ entry[c] = Absent /\ Unchanged
        /\ job' = [job EXCEPT ![w].todo = @ \ {c}]
  /\ UNCHANGED <<cache, faults>>

\* rmdir() of a directory in it, when everything listed in it has been tried.
RemoveInner(w, c) ==
  /\ At(w, "empty", {"DELETE", "MOVE"}) /\ c \in job[w].dirs
  /\ (job[w].todo \cup job[w].dirs) \cap Below(c) = {}
  /\ IF IsDir(c) /\ Children(c) = {}
     THEN /\ Becomes(Without(c), data)
          /\ job' = [job EXCEPT ![w].dirs = @ \ {c}]
     ELSE /\ Unchanged
          /\ job' = [job EXCEPT ![w].dirs = @ \ {c}, ![w].bad = TRUE]
  /\ UNCHANGED <<cache, faults>>

\* rmdir() of the directory itself, which DELETE leaves if something in it could not be
\* deleted; MOVE does not look at the result.
RemoveOuter(w) ==
  LET p == job[w].req.path
      removes == IsDir(p) /\ Children(p) = {}
  IN
  /\ At(w, "empty", {"DELETE", "MOVE"}) /\ job[w].todo = {} /\ job[w].dirs = {}
  /\ \/ /\ job[w].req.method = "DELETE" /\ job[w].bad
        /\ Finish(w, 207) /\ Unchanged
     \/ /\ job[w].req.method = "MOVE" \/ ~job[w].bad
        /\ Finish(w, IF job[w].req.method = "MOVE" THEN 201 ELSE IF removes THEN 204
                     ELSE IF entry[p] = Absent THEN 404 ELSE 501)
        /\ IF removes THEN Becomes(Without(p), data) ELSE Unchanged
  /\ UNCHANGED <<cache, faults>>

-------------------------------------------------------------------------------
(* COPY and MOVE *)

StatSource(w) ==
  LET p == job[w].req.path IN
  /\ At(w, "stat", {"COPY", "MOVE"})
  /\ IF entry[p] = Absent THEN Finish(w, IF InFile(p) THEN 403 ELSE 404)
     ELSE Goto(w, IF IsDir(p) THEN "destdir" ELSE "dest")
  /\ Unchanged /\ UNCHANGED <<cache, faults>>

\* The destination of a file: in a directory, the name of the source is appended.
Target(w) == LET r == job[w].req IN IF IsDir(r.to) THEN Append(r.to, Last(r.path)) ELSE r.to

StatDestination(w) ==
  LET r == job[w].req
      t == Target(w)
  IN
  /\ At(w, "dest", {"COPY", "MOVE"})
  /\ CASE entry[t] = Absent /\ InFile(t)    -> Finish(w, 409)
       [] entry[t] # Absent /\ ~r.overwrite -> Finish(w, 412)
       [] OTHER -> job' = [job EXCEPT ![w].pc = IF r.method = "MOVE" THEN "rename" ELSE "copy",
                                      ![w].to = t,
                                      ![w].status = IF entry[t] = Absent THEN 201 ELSE 204]
  /\ Unchanged /\ UNCHANGED <<cache, faults>>

\* rename() works on one device; when it fails the file is copied and then deleted.
Rename(w) ==
  LET p == job[w].req.path
      t == job[w].to
      fits == /\ p[1] = t[1] /\ IsFile(p) /\ ~IsDir(t) /\ InDir(t)
  IN
  /\ At(w, "rename", {"MOVE"})
  /\ IF fits
     THEN /\ Finish(w, job[w].status)
          /\ Becomes(IF p = t THEN entry ELSE [Without(p) EXCEPT ![t] = entry[p]], data)
     ELSE Goto(w, "copy") /\ Unchanged
  /\ UNCHANGED <<cache, faults>>

\* webdav_copy_file opens: what it says of a source that cannot be mapped, and a file of no
\* bytes cannot, or of a destination that cannot be opened.
Refusal(p, t, overwrite) ==
  IF ~IsFile(p) \/ data[entry[p]] = <<>> THEN 403
  ELSE IF entry[t] # Absent /\ ~overwrite THEN 412
  ELSE IF IsDir(t) THEN 409
  ELSE IF entry[t] = Absent /\ ~InDir(t) THEN IF InFile(t) THEN 403 ELSE 409
  ELSE 0

OpenForCopy(w) ==
  LET r == job[w].req
      t == job[w].to
      no == Refusal(r.path, t, r.overwrite)
      i == IF IsFile(t) THEN entry[t] ELSE NewInode
  IN
  /\ At(w, "copy", {"COPY", "MOVE"})
  /\ IF no # 0 THEN Finish(w, no) /\ Unchanged
     ELSE /\ job' = [job EXCEPT ![w].pc = "copydata", ![w].src = entry[r.path], ![w].fd = i,
                                ![w].size = Len(data[entry[r.path]])]
          /\ Becomes([entry EXCEPT ![t] = i], [data EXCEPT ![i] = <<>>])
  /\ UNCHANGED <<cache, faults>>

\* One write() of the source, mapped when it was opened; a file that has become shorter
\* since cannot be read behind its end, and a full disk takes only a part, which is success.
Readable(j) == Min({j.size, Len(data[j.src])})

WriteCopy(w, n) ==
  LET j == job[w] IN
  /\ At(w, "copydata", {"COPY", "MOVE"})
  /\ n \in 1..Readable(j)
  /\ \/ n = Readable(j) /\ UNCHANGED faults
     \/ n < Readable(j) /\ faults < MaxFaults /\ faults' = faults + 1
  /\ Becomes(entry, [data EXCEPT ![j.fd] = Overlay(@, 0, SubSeq(data[j.src], 1, n))])
  /\ IF j.req.method = "MOVE"
     THEN job' = [job EXCEPT ![w].pc = "unlinksource", ![w].fd = NoFd, ![w].src = NoFd]
     ELSE Finish(w, j.status)
  /\ UNCHANGED cache

\* A write of nothing is an error: the disk is full, or there is nothing left to read.
AbandonsSource(w) == job' = [job EXCEPT ![w].pc = "unlinksource", ![w].status = 507] \* mutant
GiveUpCopy(w) == Finish(w, IF Readable(job[w]) = 0 THEN 403 ELSE 507)
CopyFails(w) ==
  /\ At(w, "copydata", {"COPY", "MOVE"})
  /\ \/ Readable(job[w]) = 0 /\ UNCHANGED faults
     \/ Readable(job[w]) > 0 /\ faults < MaxFaults /\ faults' = faults + 1
  /\ GiveUpCopy(w)
  /\ Unchanged /\ UNCHANGED cache

UnlinkSource(w) ==
  LET p == job[w].req.path IN
  /\ At(w, "unlinksource", {"MOVE"})
  /\ Finish(w, job[w].status)
  /\ IF IsFile(p) THEN Becomes(Without(p), data) ELSE Unchanged
  /\ UNCHANGED <<cache, faults>>

\* A directory: the destination is made a directory, its files are copied one by one.
MakeDestination(w) ==
  LET r == job[w].req
      makes == entry[r.to] = Absent \/ (IsFile(r.to) /\ r.overwrite)
  IN
  /\ At(w, "destdir", {"COPY", "MOVE"})
  /\ CASE IsFile(r.to) /\ ~r.overwrite -> Finish(w, 409) /\ Unchanged
       [] makes /\ ~InDir(r.to)        -> Finish(w, 403) /\ Unchanged
       [] OTHER ->
            /\ job' = [job EXCEPT ![w].pc = "copydir", ![w].todo = Children(r.path)]
            /\ IF makes THEN Becomes([entry EXCEPT ![r.to] = Directory], data) ELSE Unchanged
  /\ UNCHANGED <<cache, faults>>

\* webdav_copy_dir at one name of the listing.  An inner directory is made, but what is in it
\* is copied only by a build with properties.  A file copied onto itself is emptied by open()
\* with O_TRUNC, and write() has nothing to read.
CopyChild(w, c) ==
  LET r == job[w].req
      t == Append(r.to, Last(c))
      no == Refusal(c, t, r.overwrite)
      i == IF IsFile(t) THEN entry[t] ELSE NewInode
      goesOn == job' = [job EXCEPT ![w].todo = @ \ {c}]
  IN
  /\ At(w, "copydir", {"COPY", "MOVE"}) /\ c \in job[w].todo
  /\ \/ entry[c] = Absent /\ Unchanged /\ goesOn
     \/ /\ IsDir(c)
        /\ IF entry[t] = Absent /\ InDir(t) THEN Becomes([entry EXCEPT ![t] = Directory], data)
           ELSE Unchanged
        /\ goesOn
     \/ /\ IsFile(c) /\ no # 0 /\ Finish(w, no) /\ Unchanged
     \/ /\ IsFile(c) /\ no = 0 /\ t = c /\ Finish(w, 403)
        /\ Becomes(entry, [data EXCEPT ![i] = <<>>])
     \/ /\ IsFile(c) /\ no = 0 /\ t # c
        /\ Becomes([entry EXCEPT ![t] = i], [data EXCEPT ![i] = data[entry[c]]])
        /\ goesOn
  /\ UNCHANGED <<cache, faults>>

CopiedDir(w) ==
  /\ At(w, "copydir", {"COPY", "MOVE"}) /\ job[w].todo = {}
  /\ IF job[w].req.method = "COPY" THEN Finish(w, 201)
     ELSE job' = [job EXCEPT ![w].pc = "empty", ![w].todo = Children(job[w].req.path)]
  /\ Unchanged /\ UNCHANGED <<cache, faults>>

-------------------------------------------------------------------------------
(* GET and HEAD, the stat cache *)

Stat(p) == IF IsDir(p) THEN IsADir ELSE Len(data[entry[p]])

\* stat_cache_get_entry.  An entry found under the key of another name stays under that
\* name, with the new result in it.
StillThere(w, p) == cache[w][Hash[p]].name = p                              \* mutant
Hit(w, p) == cache[w][Hash[p]].name = p /\ cache[w][Hash[p]].fresh
Entered(w, p) ==
  LET e == cache[w][Hash[p]]
  IN  [name |-> IF e = NotCached THEN p ELSE e.name, size |-> Stat(p), fresh |-> TRUE]

\* http_response_prepare and mod_staticfile: what is served has the size of the cache.
StatCached(w) ==
  LET r == job[w].req
      size == IF Hit(w, r.path) THEN cache[w][Hash[r.path]].size ELSE Stat(r.path)
  IN
  /\ At(w, "cache", {"GET", "HEAD"})
  /\ IF ~Hit(w, r.path) /\ entry[r.path] = Absent
     THEN Finish(w, 404) /\ UNCHANGED cache
     ELSE /\ job' = [job EXCEPT
               ![w].pc = IF r.method = "GET" /\ size > 0 THEN "sendopen" ELSE "answer",
               ![w].status = IF size = IsADir THEN 301 ELSE 200,
               ![w].size = size]
          /\ IF Hit(w, r.path) THEN UNCHANGED cache
             ELSE cache' = [cache EXCEPT ![w][Hash[r.path]] = Entered(w, r.path)]
  /\ Unchanged /\ UNCHANGED faults

\* The connection is closed before the answer is complete.
Cut(w) == Finish(w, 0)

OpenToSend(w) ==
  LET p == job[w].req.path IN
  /\ At(w, "sendopen", {"GET"})
  /\ IF IsFile(p) THEN job' = [job EXCEPT ![w].pc = "send", ![w].fd = entry[p]] ELSE Cut(w)
  /\ Unchanged /\ UNCHANGED <<cache, faults>>

\* sendfile() of n units; if the file has become shorter the connection is closed.
SendBody(w, n) ==
  LET j == job[w]
      us == SubSeq(data[j.fd], j.done + 1, j.done + n)
      there == Min({j.size, Len(data[j.fd])}) - j.done
  IN
  /\ At(w, "send", {"GET"})
  /\ \/ /\ n \in 1..there
        /\ job' = [job EXCEPT ![w].got = @ \o us, ![w].done = @ + n,
                              ![w].pc = IF j.done + n = j.size THEN "answer" ELSE @,
                              ![w].fd = IF j.done + n = j.size THEN NoFd ELSE @]
     \/ there <= 0 /\ n = 0 /\ Cut(w)
  /\ Unchanged /\ UNCHANGED <<cache, faults>>

\* The worker's clock: in a new second every entry is checked again when it is used.
Second(w) ==
  /\ job[w] = Idle \/ job[w].pc \in {"send", "answer"}
  /\ \E k \in DOMAIN cache[w] : cache[w][k].fresh
  /\ cache' = [cache EXCEPT ![w] = [k \in DOMAIN @ |-> [@[k] EXCEPT !.fresh = FALSE]]]
  /\ UNCHANGED <<entry, data, job, faults>>

\* stat_cache_trigger_cleanup, once a second: entries not used for some seconds go.
Cleanup(w, k) ==
  /\ job[w] = Idle \/ job[w].pc \in {"send", "answer"}
  /\ cache[w][k] # NotCached /\ ~cache[w][k].fresh
  /\ cache' = [cache EXCEPT ![w][k] = NotCached]
  /\ UNCHANGED <<entry, data, job, faults>>

-------------------------------------------------------------------------------
(* The node *)

WorkerStep(w) ==
  \/ OpenForPut(w) \/ CreateForPut(w) \/ (\E n \in 1..MaxBody : WriteBody(w, n)) \/ WriteFails(w)
  \/ MakeCollection(w) \/ StatForDelete(w) \/ Unlink(w)
  \/ (\E c \in Paths : DeleteChild(w, c) \/ RemoveInner(w, c)) \/ RemoveOuter(w)
  \/ StatSource(w) \/ StatDestination(w) \/ Rename(w) \/ OpenForCopy(w)
  \/ (\E n \in 1..MaxBody : WriteCopy(w, n)) \/ CopyFails(w) \/ UnlinkSource(w)
  \/ MakeDestination(w) \/ (\E c \in Paths : CopyChild(w, c)) \/ CopiedDir(w)
  \/ StatCached(w) \/ OpenToSend(w) \/ (\E n \in 0..MaxBody : SendBody(w, n))

\* A worker dies and the parent forks another, without a cache and without its connections.
Dies(w) ==
  /\ job[w] # Idle /\ faults < MaxFaults /\ faults' = faults + 1
  /\ job' = [job EXCEPT ![w] = Idle]
  /\ cache' = [cache EXCEPT ![w] = [k \in DOMAIN @ |-> NotCached]]
  /\ Unchanged

Clock(w) == Second(w) \/ \E k \in DOMAIN cache[w] : Cleanup(w, k)

NodeInit ==
  /\ job = [w \in Procs |-> Idle]
  /\ cache = [w \in Procs |-> [k \in {Hash[p] : p \in Paths} |-> NotCached]]
  /\ faults = 0

\* The state's types; and a name is no other name's file: links are never made.
NodeTypeOK ==
  /\ entry \in [Paths -> Inodes \cup {Absent, Directory}]
  /\ \A p, q \in Paths : IsFile(p) /\ entry[p] = entry[q] => p = q
  /\ DOMAIN data = Inodes
  /\ \A w \in Procs : job[w] # Idle =>
       /\ {job[w].fd, job[w].src} \subseteq Inodes \cup {NoFd}
       /\ job[w].status \in {0, 200, 201, 204, 207, 301, 403, 404, 405, 409, 412, 501, 507}
       /\ job[w].todo \cup job[w].dirs \subseteq Paths
  /\ faults \in 0..MaxFaults
================================================================================
