# A verification project for YLEM

YLEM is a distributed store for files, a fork of MogileFS. *Trackers* keep the metadata in
an SQL database and answer clients; *storage nodes* serve file contents over HTTP. A client
asks a tracker where to put a file (`create_open`), PUTs the content on a storage node and
reports back (`create_close`); replicate workers of the trackers then copy the file until
its class's policy is satisfied. This directory holds TLA+ models of the tracker, of the
storage node (YLEM's modified lighttpd) and of the C++ client, the TLC runs that check them
and TLAPS proofs about them. Everything is translated from the Perl under
`src/tracker/src/server/lib/MogileFS`, the C under `src/storage/src/lighttpd/src` and the C++
under `src/client/old/src/common`; `PROJECT.json` names the lines of every definition, the
hazards each property is for, and what is not covered.

Contents: [inventory](#inventory), [modules](#modules), [runs](#runs),
[fairness](#fairness), [proofs](#proofs), [where the code falls short](#divergences),
[what is not modelled](#limits), [plan](#plan).

<a name="inventory"></a>
## 1. Inventory

| component (source) | state it keeps | operations | interacts with | hard behaviour | what makes it correct |
|---|---|---|---|---|---|
| parent process (`ProcManager.pm`, `Connection/*.pm`) | `@PendingQueries`, `@IdleQueryWorkers`, `%Mappings`, `%jobs`, `%child`, `%todie`, `$allkidsup` | accept a query, pair it with a worker, relay its answer; fork, reap, register, cull; `!want`, `:ping` | pipes to its workers, sockets to clients | deaths at any point, requeueing, hang-ups, late lines of earlier queries, a fork failing half way through a loop, idle entries that outlive their connection | an answer reaches the client that asked; no query is lost or doubled; no query waits beside an idle worker; the counts are right and jobs are staffed again |
| query worker, files (`Worker/Query.pm`, `Store.pm`, `FID.pm`, `DevFID.pm`) | rows of `file`, `tempfile`, `file_on`, `file_to_replicate`, `file_to_delete`; locals between statements | `create_open`, `create_close`, `delete`, `rename` (and `edit_file`) | database, storage nodes | no transactions: every statement interleaves; a command is started over after a death; a database that forgets its counter | a live file is in no deletion queue and has content where `file_on` says; no content is forgotten |
| delete worker (`Worker/Delete.pm`) | its result rows; `file_to_delete`, `file_to_delete_later` | clean up old `tempfile` rows, re-enqueue delayed deletes, delete content and rows | the same, and device states | stale rows, several deleters, refusing or dead devices, lost answers | it deletes what is dead, all of it in the end, and nothing else |
| replicate worker (`Worker/Replicate.pm`) | locals of `replicate()`, a cached device table, `GET_LOCK` | table-driven replication, rebalancing, draining | database, storage nodes, the policy | races for one file, stale caches, failing copies, deaths between the HTTP DELETE and the row | the last copy survives; a file that needs copies keeps its row and gets them; drained devices empty |
| replication policy (`ReplicationPolicy/MultipleHosts.pm`) | none | `replicate_to` | called in a loop by `replicate()` | comparisons of counts over different sets of devices | spreads over hosts, gives up only when nothing helps, wastes no copy |
| reap worker (`Worker/Reaper.pm`) | `%all_empty` | enqueue for replication, forget a dead device's rows | replicators through the database | a delay instead of a handshake | whatever it forgets is queued |
| rebalance policies (`RebalancePolicy/*.pm`) | `device_is_empty` cache | choose what to move, and where not | replicate worker | | covered as parameters of the replicator |
| fsck worker (`Worker/Fsck.pm`) | a batch of fids with their devids, size maps of devices; `fsck` settings, place in the scan | check every fid, search for lost content, note and forget `file_on` rows, queue it again | replicators through the database, storage nodes | no lock, size maps as old as the batch, unreachable devices; a scan moved between trackers | what has content is put right in the end; no last copy is forgotten; the scan skips nothing |
| monitor worker, caches (`Worker/Monitor.pm`, `Device.pm`, `Host.pm`, `Class.pm`, `Domain.pm`) | observed states, cached tables | probe, broadcast through the parent | every worker | late and reordered broadcasts | |
| store (`Store.pm`, `Store/*.pm`) | the tables, named locks | one method per query | the database | `INSERT IGNORE`, `REPLACE`, read-then-write counts (`devcount`), ids by `MAX + 1` | |
| network policies, zone plugin (`server-plugins`) | cached zones | `replicate_to`, path order | policy callers | | as MultipleHosts |
| client library (`src/tracker/src/utils/lib`) | cached socket, dead-host table | `do_request` | the parent | a second send of a request that was already sent | |
| storage node: files (`mod_webdav.c`, `stat_cache.c`, `mod_staticfile.c`, `network_linux_sendfile.c`) | the tree of files, open descriptors, a stat cache in each worker process | PUT (whole, and ranged with YLEM's creation of the file), GET, HEAD, DELETE, MKCOL, COPY, MOVE | trackers and clients over HTTP; the workers of one node only through the kernel | several system calls to a request, no locks, other workers in between; full disks, deaths; a length served that was taken up to a second ago | requests that do not conflict are all or nothing; sections land where they belong; a refused MOVE keeps its source; what is served is the file |
| storage node: connections (`connections.c`, `server.c`, `fdevent*.c`, `joblist.c`, `network.c`) | connection objects and their states, `conns->ptr`, registrations, job list, `sockets_disabled`, `graceful_shutdown` | accept, read, parse, write, keep alive, close, time out, disable and enable accepting, stop | clients' sockets, the kernel | events in batches, partial writes, pipelining, half-closed and reset connections, connection objects and descriptors used again, limits | no connection is leaked, forgotten, or cut off without a reason; all end; SIGINT ends the worker |
| C++ client (`YlemClient.cc`, `YlemPutfile.cc`, `YlemTracker.cc`) | locals of `putfile`, the tracker's connection | `ylem_putfile`: create_open, the sections, create_close | tracker and storage node | sections sent without awaiting their answers, three tries of each and of create_close, a lost answer | what it reports is true; what is stored is whole |
| storage monitor, monitors, PHP frontend, PHP client, other lighttpd modules | small, or vendored and not loaded | | | | |

Query worker and deleter share the tables of a file (`FileLife`); replicators, reaper and
deleter share `file_on` and the contents (`Replication`); all workers live and die under the
parent (`ProcManager`). `ClientUpload` composes client, tracker and a whole `StorageNode`. The
models overlap where the code does: `ProcManager` shows
that a query whose worker died is given to another one, and `FileLife` takes that as its
environment (`"requeue"`); `FileLife` shows how a doomed file is purged, and `Replication`
takes the outcome as two steps. `FileLife` takes an uploaded content as there or not;
`ClientUpload` shows when it is.

<a name="modules"></a>
## 2. Modules

    QueryService ── ProcManager ── ProcManager_proofs   MCProcManager      (dispatch, staffing)
    FileLife ─── FileCare ── FileLife_proofs            MCFileLife         (file_reset, file_live)
                                                        MCFileCare         (file_life)
    MultipleHosts ─┬─ MultipleHosts_proofs
                   ├─ PolicyWalk ── PolicyWalk_proofs   MCPolicyWalk       (policy)
                   └─ Replication ─┬─ Replication_proofs
                                   │  (also of Fsck)    MCReplication      (repl_life, repl_rebalance)
                                   └─ Fsck              MCFsck             (fsck)
    StorageNode ─┬─ NodeLoad ── NodeLoad_proofs         MCNodeLoad         (node_files)
                 └─ ClientUpload ── ClientUpload_proofs MCClientUpload     (upload)
    NodeConnections ── NodeConnections_proofs           MCNodeConnections  (node_conns)

The MC modules only hold model values, functions over them and symmetry sets; the `_proofs`
modules hold the theorems of section 5 and change nothing.

### QueryService, ProcManager

`QueryService` is what clients of the parent may rely on, without queues or workers: each
client is quiet, waiting or gone, `Ask`, `Reply` (with the answer to that very question) and
`Leave` are the only steps. `ProcManager` implements it: `Phase` reads a client's phase off
`status`, `asked` and `replies`, and `Serves` is the instance's specification, a property of
`dispatch` and a theorem.

One action per handler of the parent, which is a single-threaded event loop; worker
processes and the pipes to and from them interleave freely. `PostEventLoopChecker` is walked
step by step (`pc`: `"loop"`, `"spawn"`, `"register"`), since a forked process runs while
the loop goes on: `ReapChild`, `NobodyToReap`, `Fork`, `RegisterWorkerConn`, `ForkFails`,
`AllJobsVisited`. `visit` is what Perl's `each %jobs` iterator has still to return; it
survives a `return` from the middle of the loop, as in Perl.

- A worker's name stands for its pid and its connection. A name is reused when the process
  has been reaped and no table mentions it; among unused names `Fork` takes a fixed one
  (`NextName`), because names are alike. A pid that is reused while `%todie` still holds it is
  outside the model.
- `ProcessQueues` is one pairing instead of a loop. This is justified by `OneQueueEmpty`,
  which is checked and proved: every handler adds one entry to one queue, so at most one
  pair can be formed. Entries of closed connections and of clients that left are skipped, as
  the code skips them.
- A query may write two lines (`MaxLines = 2`): `check_domain` sends an error line and
  returns, and many callers go on to send their own. The first line clears
  `querystarttime`, so the second has no time field, the parent's pattern does not match and
  its id is not found: 0 in the model.
- Clients send one query at a time, as `Backend::do_request` does. Pipelining clients are
  not modelled.
- `Crash` stands for a crash and for the `kill -9` of `WatchDog`. Danga::Socket is external:
  `close` happens once, writing to a closed socket does nothing.

### FileLife

One SQL statement is one action (AutoCommit, no transaction in these commands). The location
of a process in its command is `at[w]`, its locals are `cmd[w]`, and for a deleter `rows[w]`
and `purge[w]`. The three passes of the delete worker run in a cycle.

- `Environment` says what happens beyond the quiet case: `"slow"` (an upload closed after
  `TEMPFILE_TOO_OLD_TIMESPAN`, 3600 s, while comments speak of 86400), `"same_key"` (two uploads
  to one key at once), `"requeue"` (a worker dies, its command is started over by another),
  `"abandon"` (a worker dies and nobody goes on), `"reset"` (the database re-seeds
  `AUTO_INCREMENT` from the rows left), `"renames"`.
- `Reseed` merges the `SELECT MAX`, the dummy `INSERT` and the `DELETE` of
  `register_tempfile`. The device table a deleter sees may be stale, so a dead device may
  still be asked. `LIMIT`s and `PER_BATCH` are not reached by two fids.
- `multi_dest` is off, so until it is replicated a file's content is on one device; that is
  why the runs have one. Explicit `fid` parameters, plugins' hooks and `devcount` are left out.

### FileCare

`FileLife` with a history variable, `hit`, and the property `NothingForgotten`. The tracker does lose fids: without
transactions a fid can slip through between two statements. `hit` collects those that met one of three accidents, defined by the
statements that make them:

- `QueuesCross`: a deleter is about to take the fid out of `file_to_delete`, for it has just rescheduled it, while another is
  about to take it out of `file_to_delete_later`, for it has just put it back (`Delete.pm` 172-176 against 275-279);
- `Displaced`: `REPLACE INTO file` takes away a row that `create_close` did not see when it looked for the old file of the
  key, so that nobody deletes the file it belonged to (two uploads to one key, or a rename);
- `LeftBehind`: a query worker dies in a command about the fid, between `delete_fidid`'s statements for one.

For all other fids nothing is lost, and for these, too, content stays recorded in `file_on` or `tempfile`. Several
deleters are what the shipped `tracker.conf` starts (`delete_jobs 2`) and what `Delete.pm` 8-9 is made for ("to allow for stateless
parallelism"); section 6 has how each accident comes about.

### MultipleHosts, PolicyWalk

`MultipleHosts` gives `replicate_to` as an operator on a world (host and state of each
device, and which of them have room) and the device state table. The weighted shuffle
becomes a set; `weighted_list` drops items of weight 0, which the demand for free space
excludes. `PolicyWalk` is the caller's loop: ask, copy to an ideal device or else a
desperate one, or fail there, and ask again, from every placement in every small cluster.

### Replication

One database statement or HTTP request is one action: fetch, lock, re-read, ask the policy,
copy, record, finish; pick, check, lock, move, destroy for rebalancing. The state is one
file, because the lock, the row and the queue entries are per file.

- `view[r]` is a replicator's cached device table. It is reloaded when files are picked and when
  `replicate()` takes its map of the devices, just before it asks for the lock; through the rest
  of `replicate()` it stays what it was (`BetweenFiles`). The reaper's delay (`DelayPasses`) is over only
  when no cache is older than the death: it outlasts the cache, and a replicator that has been at
  this file all the time has its lock. Dead devices stay dead and lose their content.
- `RebalanceFrom`, `RebalanceAvoid` stand for the policies: `Random` takes from everywhere and
  avoids nothing, `PercentFree` takes from full devices and avoids them. Drained devices are
  emptied whatever they are. The 50 files a worker holds back make its picks stale: `"picked"`.
- The lock is the set of its holders, released when a holder dies (`GET_LOCK` belongs to the
  connection). An `INSERT IGNORE` leaves an existing row; a reschedule of a deleted row is
  an `UPDATE` of nothing.
- A partial copy leaves no row and is not counted. The hint `repl_starting` of other
  replicators, `unreachable_fids` and the older `replicate_using_devcounts` (off by default)
  are not modelled.

### Fsck

`Fsck` extends `Replication` by the fsck worker at the same file: `check_fid` and `fix_fid`, a
step for each statement and each question to a storage node, interleaved with everything the
replicators, the reaper and clients do. It starts from every disagreement of `file_on` and the
disks; a file whose content is lost everywhere stays lost (`CantFix`).

- `fsck.devids` is what `mass_load_devids` read, `fsck.cached` whether it still counts (a row
  noted or forgotten drops it). `fsck.sizes` are the maps of `fid_sizes`, which a device gives
  once per batch: `BulkStat` may come with an earlier file of the batch, so what
  `Verify` and `Search` go by may be old. Without a map each file is asked for (`HEAD`).
- `Stalled` is a device that does not answer: the file is checked again with the next batch. So it
  is after a death. In both cases nothing is undone.
- A wrong size and a missing file are the same here. The worker's device cache is taken to be
  fresh. Other files, the place in the scan, the settings and the log are not modelled.

### StorageNode, NodeLoad

`StorageNode` is the requests of a tree of files, at the granularity of system calls (or of a
few on one name that fail or succeed together), in any number of worker processes. `job[w]` is the
request a worker has and where it is in its handler; `entry` and `data` are the disks.

- A path is the sequence of its components, the first a device, which is a file system of its own:
  `rename()` across devices fails and MOVE falls back to copy and delete. A file lives while a
  name or a descriptor refers to it.
- The order of the code is kept where it shows: YLEM's ranged PUT opens without `O_CREAT` and
  creates with `O_EXCL` after `ENOENT` (`CreateForPut`); a PUT of a directory goes on with no
  descriptor; `webdav_delete_dir` returns the result of the last name; `webdav_copy_dir` does not
  recurse, because the recursion is inside `USE_PROPPATCH`, which the build leaves out.
- `write()` may take a part of a body; for `webdav_copy_file` a part is success, for PUT the loop goes on.
- `webdav_copy_file` maps its source, and a file of no bytes cannot be mapped: 403 (`Refusal`). `CopyChild` copies
  one file of a directory in one step, so a disk that fills up inside a copied directory is not modelled.
- The stat cache is a table by hash with a name in each entry; `fresh` says that `stat_ts` is the
  worker's `cur_ts`. `cur_ts` moves between requests and while a body is being sent (`Second`). The
  comment of `stat_cache_tag_old_entries` speaks of 10 seconds, the code of 2; in the model any time.
- A GET of a path below a file (`PATH_INFO`) is not among the requests.
- `DeleteChild` is one step for the `stat` and `unlink` of a name, and keeps one result through inner directories, where the walk
  of each starts with its own (`mod_webdav.c` 612). Only with a rival does either show, and `AllOrNothing` excepts these.
- `SendBody` sends at least a unit: a `sendfile()` of no bytes, after which the file is looked at again
  (`network_linux_sendfile.c` 183-196), ends the connection and is left out here; `NodeConnections` has it as a failing write.

`NodeLoad` lets clients make any requests of a set and says what each means to a client
(`After`), as if it were one step; `seen` remembers whether a rival came in between: a request for names that
conflict, or one that still writes to a file which another request has given one of these names (`WritesTo`).
`LoadAssumption` says what a load may be: whatever a COPY or MOVE may make has a name among `Paths`, and so has every directory a name
is in; there are inodes enough for every name and every open file; in the trees at first there are no hard links, and what a name is in is
a directory. `AllOrNothing` leaves out what the code does not promise (section 6): copies onto or into themselves, copies of a directory that
cannot be complete (`Stops`), and a PUT of no bytes where there cannot be a file (`Hollow`).

### ClientUpload

`YlemClient::ylem_putfile` with `sendfile()`, the tracker's `create_close` up to the row, and a
`StorageNode` whose workers take the sections in any order. A unit is a byte and `Block` stands
for 1 MB, so that the comparison of a number of bytes with `LOOPNUMBER` happens.

- Only a section that is not full is followed by a `recv`; its answer is read and not looked at. After a short `sendfile()` of
  such a section the code still waits there (`YlemPutfile.cc` 516-527) until the node gives the connection up; `SendShort` ends
  the section at once, for nothing is learned from that answer.
- `lost` remembers which sections a reader of the code would call lost: refused, cut short by
  `sendfile()`, given up after three tries, or taken by a worker that died.
- The tracker performs a `CREATE_CLOSE` to its end when the client's connection breaks.
- `fidid` and path are taken to be new, as the tracker makes them.

### NodeConnections

One run of `connection_state_machine` for one connection is one step (nothing can come between);
the walk over timeouts, each event, each accept and each job are steps of their own, and clients
act between the events as they like. `StateMachine` is the set of what a connection may become: a `read()` that
filled the buffer leaves it readable or not. It is the result of as many turns of the code's `while` as can be needed
(`MaxTurns`; section 5 proves that they are enough), and a machine that is `done` stays as it is.

- A request is a unit: `"put"` needs its `"body"`, `"last"` ends keep-alive, `"huge"` has a header without an end and is
  answered with 414, a body that cannot be kept with 413; both end the connection. An answer is a number of
  units, and `Room` of them fit into the socket.
- `ok` is the server's own luck in a turn: where it is false the body is not kept, the handler answers `HANDLER_ERROR`, or the
  write fails "on our side" (a file that was deleted or has shrunk meanwhile). The last two give up a complete request of a
  client that is there; `failed` remembers it, and `MaxFailures` bounds it. What of a failing write had gone out before it failed is left out.
- Failures of `accept()`, and of `fcntl` behind it (`connections.c` 1336-1338: the connection has been counted and is driven no
  more), and the limit of 100 accepts to an event (`network.c` 48) are left out; with a limit the rest is accepted at the next turn,
  for the event is level-triggered.
- The listening socket is an event like the others (`Accepting`) and its handler takes as many
  connections as there are objects for.
- `in_joblist` is never set by the code, so `jobs` may hold a connection several times, and one
  that was closed, or reused for a new client, since.
- `CON_STATE_CLOSE` (the lingering close) ends in the same turn: `keep_alive` is 0 by then and
  `close_timeout_ts` is cleared. So it is part of `CloseFd`.
- Ages are counted up to the longest limit. `Second` is SIGALRM, `Interrupt` SIGINT; a second SIGINT
  ends the process at once and is not modelled. What the parent process does on SIGINT is not either.

<a name="runs"></a>
## 3. Runs

| run | shows | size |
|---|---|---|
| `dispatch` | `Serves` (the refinement of `QueryService`), `RepliesMatch`, `OutstandingOnce`, `OneQueueEmpty`, `NoWorkerLost`, `TypeOK` with queries of one or two lines, a crash, hang-ups and a failing fork | 2 clients with 2 queries, 3 worker names for 2 workers, 325 thousand states |
| `staffing` | `NeverOvercounted`, `AllKidsUp`, `NoMismatch`, and `Answered`, `Staffed`, `Obeyed` under fairness, with `!want`, `:ping` and a crash | 1 client, 2 jobs, 3 workers and one replacement, 120 thousand states |
| `file_life` | `LiveIsNotDoomed`, `CopySurvives`, `NothingForgotten`: uploads, also two for one key, overwrites, failed uploads, deletes and renames against deleters; a process may die | 2 keys, 2 fids; 2 query workers and a deleter with 5 commands, or with 4 and a death, or a query worker and 2 deleters with 2 commands; 1.6 million states |
| `file_reset` | `LiveIsNotOpen` through one failure: the database forgets its counter or a command is started over; with renames | 2 keys, 4 commands, 1.8 million states |
| `file_live` | `Purged` under fairness, through a death, refusals and lost answers | 1 query worker, 3 commands, 68 thousand states |
| `policy` | `Spread`, `NothingBetter` from every placement | 4 devices in 5 states, full or not, up to 3 hosts, mindevcount 1 to 3, 23 thousand states up to symmetry |
| `repl_life` | `OwedIsQueued`, and `Replicated`, `Drained` under fairness: a device is drained at any time or dies at rest, a copy fails, a worker dies | 2 replicators, 3 devices on 2 hosts, 143 thousand states |
| `repl_rebalance` | `CopyRemains`, `NoWastedCopy`: any copy may be moved anywhere while another replicator has the row, two deaths, a failure, the file may be deleted | as above, 1.5 million states |
| `fsck` | `KeepsACopy`, and `Repaired` under fairness: every disagreement of rows and disks is put right by fsck and a replicator, through a request that fails or a death of fsck | 1 replicator, 3 devices on 2 hosts, 128 initial states, 304 thousand states |
| `node_files` | `AllOrNothing`, `RefusedKeepsSource`, `ServedIsCurrent`: any two changing or four reading requests of sixteen, on names that nest and collide, over six trees, in one of which a MOVE merges two directories; a full disk or a death | 2 workers, 14 names on 2 devices, files of 2 units, 348 thousand states |
| `upload` | `SectionsInPlace`, `WholeOnceServed`, `LengthRight`, `ReportedTruly`, and `Returns` under fairness: one failure anywhere between client, node and tracker | files of 2 to 9 bytes in sections of 4, 2 workers, 377 thousand states |
| `node_conns` | `ListsAgree`, `EventsHaveHandlers`, `NobodyForgotten`, `CutOffForAReason`, and `ConnectionsEnd`, `GracefulStops` under fairness: a second request sent behind an upload, slow readers, one client that closes early, a failure of the server, timeouts, SIGINT | 3 clients, two of which only connect, 2 connection objects, 708 thousand states |

**Bounds.** Every bound is a constant (`MaxReqs`, `MaxCrashes`, ...) that guards the action it
limits. Two clients and two workers are the least for an answer to go astray, and a second
query by one client the least for a late answer to meet a later query of the same client;
the third name lets a replacement be forked while the dead worker's entries are still in
`@IdleQueryWorkers`. Two fids let one be live while the other is being deleted, and five
commands cover upload, overwrite and delete or rename with two of them at once. Three devices on two hosts
are the least where the policy prefers one of two destinations, and mindevcount 2 the least for a move to be
wrong. Two replicators are enough for every race for one lock. Two workers of a storage node
are the least for a race, and two changing requests the least for a conflict; a third request that
changes names makes half a million states and no new kind of overlap, since no handler reads what
two others wrote. Three sections are the least with one in the middle; 2, 5, 7, 8 and 9 bytes are less than a section,
a section and a byte, `LOOPNUMBER` bytes behind a section, two whole sections, and two and a byte. Three
clients for two connection objects fill the table, move the last object into a gap and use one again;
a client that only connects is the least that must time out. Liveness
keeps `node_conns` to one client with requests; its four invariants were also checked with a `"last"` and a `"huge"` of the other two and
`MaxWriteIdle = 1`, which makes 4.5 million states and is not repeated. Liveness runs use no symmetry.
`CHECK_DEADLOCK FALSE` in every cfg: with its bounds used up, a system with nothing to do
stops, rightly.

`FileTypeOK`, `Replication`'s `TypeOK` and `NodeTypeOK` of `StorageNode` are parts of what is proved (section 5), and no
run repeats them.

Each property of a passing run is shown to have teeth by a mutation (`mutants` in `PROJECT.json`,
`\* mutant` in the modules): a plausible bug in a mapped definition that breaks it.

`NothingForgotten` excepts the fids in `hit`, and no others. Its run is larger than two query workers and two deleters would allow at
once, so `MCFileCare` gives each behaviour a `crew` of three with bounds of its own. Two commands are enough for two deleters to lose a fid
(section 6): uploads that are given up or grow old put both fids into the queues.
`AllKidsUp` is checked with forks that succeed and queries of one line, `NoMismatch` with
queries of one line: the sections below say what happens otherwise. Under `"requeue"` and `"reset"` only
`LiveIsNotOpen` is claimed, and with `"reset"` only through one failure: there `MaxDeaths = 1` is part of the
claim and not only a bound (section 6 has two ways to break it with two).

<a name="fairness"></a>
## 4. Fairness

- `ProcManager`: weak fairness of the parent's reading of each pipe (`epoll` is level-triggered and
  the loop serves every readable descriptor), of each worker process (the scheduler runs it), and of the
  post-loop callback (called in every round). Clients, `!want`, crashes and failing forks are
  never obliged. Crashes are bounded: `Answered` would be false for a query that kills
  every worker that takes it, since it goes back to the head of the queue each time.
- `FileLife`: weak fairness of each query worker's running command and each deleter's loop, of
  time (`Age`). Strong fairness that all due delays are served once again and again
  (`FidsToDeleteAgain` with everything due) and that a storage node asked again and again
  once answers: the deleter retries for ever, which helps only if the node comes back.
- `Replication`: weak fairness of each replicator's work, of the reaper, the purge and the two
  delays; strong fairness of the cache refresh, which can only happen between two files but
  is done there whenever the cache has expired (`check_cache` at every pass of `every()`). Failures and deaths are bounded. `Drained` with a death
  needs `IgnoreMissing` (`rebalance_ignore_missing`): without it the 404 of a copy deleted
  before the death keeps the row for ever. It speaks of live files.
- `Fsck`: the same, and weak fairness of fsck's steps, which includes loading the file again: fsck
  is run over and over, as an administrator does who starts it whenever it ends. It need not
  get an answer in any given round; failures and deaths are bounded.

- `StorageNode` in `ClientUpload`: weak fairness of each worker (it serves what comes in until it
  is answered) and of the client, which never waits for anything but an answer or the end of its connection. Failures
  are bounded and never obliged; a node that is down when a section is tried stays down for the three
  tries. The stat cache's clock need not move.
- `NodeConnections`: weak fairness of the loop, which never waits without a timeout
  (`fdevent_poll` with 1000 ms), and strong fairness of `Second`: the clock goes on whatever the loop does, and
  the model looks at it in one place only. Clients need do nothing: what ends a connection then is the timeout.

<a name="proofs"></a>
## 5. Proofs

`ProcManager_proofs` proves, for all finite or infinite sets of clients, workers and jobs and
all bounds, from the named assumptions of `ProcManager` only (the query worker is a job, the
configured numbers are naturals, `None` is no query):

- `TypeCorrect`: `Spec => []TypeOK`. `TypeOK` is inductive by itself; one lemma per helper that
  several actions share.
- `AnswersReachTheirClient`: `Spec => []RepliesMatch`. `RepliesMatch` is not inductive: that the
  answer now in a pipe is right depends on what was put into it. `RepliesInv` adds
  - `QueueOK`: the query an open client waits for is the last it asked, and waits in one place;
    else a reply would be appended in the wrong position or twice;
  - `PoolOK`: an idle entry whose connection is up is listed once and has no query; else
    `ProcessQueues` would overwrite a mapping and orphan a query;
  - `AnswersLabelled`: a message with the worker's newest number carries the query that
    is mapped to it now, and none has a greater number. This is what the id test of
    `HandleQueryWorkerResponse` buys: an answer whose id passes is the answer to the mapped query;
  - `NamesFree`: a name that is given to a new process has nothing left in its pipes.

  One lemma per kind of step shows `RepliesInv /\ [Next]_vars => RepliesInv'`, over lemmas on what
  `ProcessQueues`, `NoteIdleQueryWorker` and `NoteDeadWorkerConn` do to each conjunct.
- `NoQueryWaitsBesideAnIdleWorker`: `Spec => []OneQueueEmpty`. The cases that matter are the
  handlers that append to one queue, and the cull, which only shortens the idle queue.
- `ImplementsQueryService`: `Spec => Serves`, a refinement. Each action of `ProcManager` is shown to be a
  step of `QueryService` or a stutter under the mapping `phase <- Phase`, `got <- replies`.
  `RepliesInv` is needed for one case, the relayed answer: `QueueOK` and `AnswersLabelled` say that
  it is the answer to the question the client waits for, which is why `Reply` appends the right number (`RelayReplies`).
  The other cases need that questions come from quiet clients (`EnqueueAsks`), that a closed client
  stays closed (`ClosingLeaves`), and that nothing else touches `asked`, `replies`, `status` (`OtherStepsStutter`).
- `NobodyIsForgotten` and `EveryQueryIsInOnePlace`: `Spec => []NoWorkerLost` and `[]OutstandingOnce`. `RepliesInv` says that
  nothing is in two places; `PlacesInv` adds that everything is in one: `AllPlaced`, a connected query worker is listed, mapped
  or asked to die, and `AllWait`, an open client's unanswered query is pending or mapped. That `ProcessQueues` drops only closed
  connections and queries of clients that left is `ProcessQueuesForgetsNone`.
- `CountsDoNotExceed`: `Spec => []NeverOvercounted`. The count goes up for a worker that is new to the job, so `NewIsFresh`: a process not yet
  registered has a name that is neither in `%todie` nor listed. It goes down for each entry a cull takes, and those are query workers
  (`PoolServes`), at most as many as are taken (`CullCounts`, by a surjection).
- `NoClientIsClosedForNothing`: `MaxLines = 1` implies `Spec => []NoMismatch`. `OneMessageEach` follows a query through the pipes: it is in the
  inbox (`Handed`), in the task (`Working`) or answered in the outbox (`Replied`), under the worker's newest number, or there is no message
  at all (`Settled`), which is so whenever the worker has no query. Section 6 has what a second line does.
- `KidsAreUp`: `MaxLines = 1` and `MaxForkFails = 0` imply `Spec => []AllKidsUp`. What could break it is a worker that is asked to die
  twice, for it is subtracted twice and dies once. `Told` says that one that was asked has no query, is not idle, has said all it had to say, and
  will say no more, since the order is in its inbox until it obeys (`InboxStep`, `SilentStep`); `Pings` is what this needs of the other jobs.
  Section 6 has the failing `fork`.

`FileLife_proofs` proves `FileTyped`: `FileSpec => []FileTypeOK`, in every environment and for all bounds, from
`FileLife`'s assumptions. The type of a process (`ProcessType`) depends on where it is: `QueryFits` and `DeleterFits` say
which of its locals are set at which statement. `TempfileRows` adds that the rows in the hands of a deleter that
cleans up `tempfile` are places. The counter after a reset is the maximum of a bounded set, whose existence is
shown by the library's well-foundedness of the naturals (`MaxExists`).

The same module has, for any sets of keys, devices, query workers and deleters:

- `NoLiveFileIsDoomed` and `ContentSurvives`: `FileSpec => []LiveIsNotDoomed` and `[]CopySurvives`, under `Orderly`, which
  leaves out the environments `"slow"`, `"requeue"` and `"reset"`; section 6 has a violation of `LiveIsNotDoomed` for each
  of them, while two uploads to a key, renames, deaths and any number of deleters are covered. What a
  deleter does rests on rows it read long ago, so the invariant says what cannot come back: `Over(f)`, nobody will give
  the fid a key (again), and `Gone(f)`, it has none and is over. `OneHolder` makes this stable: a fid is new, open at a client, or in
  the hands of one process. Then everything a deleter may hold is gone (`RowsGone`, `QueuesGone`), the victims of
  overwrites and deletes are over before they are queued (`VictimsOver`), and a live file is over
  (`LivesAreOver`), so that nobody closes it again. `HolderStep`, `GoneStays` and `NewLife` carry the rest. `CopySurvives` needs
  `Verified` besides: between its check of the content and the row of the file, `create_close` knows the content to be there.
- `NoLiveFileIsOpen`: `FileSpec => []LiveIsNotOpen`, under `OneFailure`: no late closes, and at most one death where the counter may be
  forgotten; otherwise any number of deaths and restarted commands. `OpenInv` needs less about deleters: who may still
  store a fid is alone with it (`OneStorer`), and until the first failure `RowsKeepFids`: a fid somebody may store has its
  row in `tempfile`, from which the database takes its counter after a reset.

- `NothingIsForgotten`: `CareSpec => []NothingForgotten`, under `Orderly`, for any number of query workers and deleters, with uploads
  racing for a key, renames, and deaths of both. It is an argument about hand-over. Content on a living device is in `file_on`, or in
  `tempfile` (`ContentIsFound`); a fid with content is live, or in somebody's care, or `hit` (`ContentIsCared`). `CareInv` adds what makes
  each hand-over safe: an upload keeps its row until it is stored (`UploadsHaveRows`), one that is aborted is known to its command alone
  (`AbortsAreAlone`), a fid that is handed out collides with nothing (`NoCollision`), what is live, queued or in the hands of a deleter is
  recorded (`StoredIsRecorded`), `process_tempfiles` has every row of a fid it goes on with (`PurgesCover`), and a fid is taken out of
  a queue only if it is in the other, is `hit`, or has no content left (`RemovesDone`); `CrossingsAreHit` says that the deleters
  who could take it out of both have been noticed. `RowsGoSafely` asks the same of whoever is going to take away a row of `tempfile`. `FileInv`, the
  invariant of the two theorems above, is used for what is over and who holds what.

`MultipleHosts_proofs` has the lemmas on `ReplicateTo` that the proofs about its callers need, for every
finite world: it is satisfied exactly by `HasEnough` (`GoodMeansEnough`), whatever failed before
(`GoodIgnoresFailed`); a satisfied file stays so with more copies (`GoodIsMonotone`, by the
cardinalities of sets of hosts); what it suggests takes replicas, has no copy and was not tried (`SuggestionsAreNew`).

`PolicyWalk_proofs`, for every finite set of devices, any hosts, states and `mindevcount`: `SatisfiedIsSpread`
(`Spec => []Spread`) and `GivesUpOnlyInVain` (`Spec => []NothingBetter`).

`Replication_proofs`, for every finite set of devices, any hosts, any set of replicators and all
bounds, from `ReplicationAssumption` only:

- `LockedWork` and `ReplicationTyped`: types, and that exactly the replicator that works under the named lock
  holds it. `RowType`, `Exclusive` and `MovesOne` (one device is moved at a time, with no
  fixed source) are inductive with the types and serve everything below.
- `RebalanceKeepsACopy`: `Spec => []CopyRemains`, with any rebalance policy, device states that change behind the
  replicators' caches, crashes and failing requests. `CopyRemains` is not inductive: the copy is deleted some steps
  after the decision. `CopyInv` adds what a replicator knows meanwhile while no device is lost: the policy
  was told of all recorded copies it counts but the one that is moved (`Knows`), and the copy just made is
  on the disk of another device than the moved one (`Moved`). Other replicators cannot disturb that, since whoever
  changes `file_on` holds the lock; the reaper has nothing to do and the purge only comes to files that are
  not live.
- `CopiesAreWanted`: `Changes = {} => (Spec => NoWastedCopy)`. The hypothesis is the setting of
  `repl_rebalance`; without it a copy may be recorded for a device that was drained meanwhile, which the policy does not
  count. The proof is `GoodIsMonotone` once more: if the policy was not content with what it was told, it
  is not with the recorded copies, which are among them.
- `NoFileIsForgotten`: `Spec => []OwedIsQueued`, under `OnlyDrainsAndDeaths`, which is the setting
  of `repl_life` with all its bounds left open: nothing is moved but off drained devices, and devices die only
  while nobody is at the file and no row waits. Section 6 has runs that violate `OwedIsQueued` when either
  part is dropped. `OwedIsQueued` speaks of a system at rest; `QueueInv` says what holds on the way there: `Owed` (a row, or content
  with what there is, or a dead copy the reaper has still to see), `Told` (what the policy was told of
  is still recorded, or it died and the reaper left a row), `Found` (what a replicator is about to conclude is true), and
  `DeathsKnown`, which is what the reaper's delay is for: whoever is at a row that is due has
  heard of all deaths. That a drained or dead device cannot make the policy discontent with the rest is `GoodAfterLosses`.

`Replication_proofs` also proves `FsckKeepsACopy`: `FsckSpec => KeepsACopy`, and `FsckTyped`, with any number of replicators and all bounds
open, under `NothingToMove`: no rebalance policy and no state `drain`, so that no copy is ever moved. Both parts are needed
(section 6); devices may die, go down or become read-only, requests fail and workers die. fsck goes by answers as old as its batch, and by a list of
devices it read before. `StillTrue` says why that does no harm as long as the file is live and no device is lost: whoever
was seen to have the content still has it, since replicators only add copies (`NothingIsLost`); no device is both good and
bad, since each is asked once; and when the first row is forgotten some good device is recorded: it
was among the rows read at first, which nobody but fsck takes away, or its row was noted before.
The replicators' part is `LockInv`, which holds from these initial states as well.

`ClientUpload_proofs`, for every size of file, section and `LOOPNUMBER`, any number of tries, of workers, of faults and of
stat cache keys, from the assumptions of `StorageNode` and `ClientUpload` (the file's name is a path, there is an inode):
`SectionsAlwaysInPlace`, `AlwaysWholeOnceServed`, `LengthAlwaysRight` and `AlwaysReportedTruly`, `UploadSpec` implying `[]` of
`SectionsInPlace`, `WholeOnceServed`, `LengthRight` and `ReportedTruly`. All rest on `UploadInv`:

- `Position`: while the client cuts the file, what it has sent and what is left add up, and labels are whole sections.
- `Labels`: the label of a section under way or lost is of a section before this one, or of this one; so a loss is told from a success.
- `InPlace`: as long as the client is in step, a byte of the stored file is its own number or a gap, and so is what is on its way. This is
  what `lseek` before each `write` buys, with other workers writing other sections of the same inode in between.
- `Accounted`: each byte that was sent is stored, with a section nobody has taken, in the hands of a worker, or part of a lost section; there
  is no fifth place. `WholeOnceServed` is this with nothing on its way and nothing lost.
- `OneQuestion`: the tracker asks for the size once, after all sections went out; a client with its session is there to hear the answer.
- `LengthKnown`: a stat cache entry that counts was made by that question, so when the last section was answered it says the file's size.

`NodeLoad_proofs`, for every load, tree, number of workers and faults that `LoadAssumption` allows:

- `RefusedSourceKept`: `TreeSpec => []RefusedKeepsSource`. `Kept` says where a COPY or MOVE is in its handler and what it cannot have
  touched there: nothing before the first copy, the source until the copy is made, and by then no status of 400 and more can follow
  (`KeptOf`). That others do not touch it either is `Separate`: the names of a request that has met no rival are no other's,
  and nobody writes to a file under them. It is stable because of what a step may touch at most (`Foot`): names of its own
  request, contents under these names, and the file its worker has open. The rival of `WritesTo` came out of this proof (section 6).
- `ServedAlwaysCurrent`: `DistinctHash` implies `TreeSpec => []ServedIsCurrent`; section 6 has what happens when two names share a key. `CacheTrue` says that what is in a
  cache and counts was so when it was put there, and is, unless the name is in `stale`; `Served` follows a GET from there through
  the pieces it is sent in.
- `NodeInvariant`: `TreeSpec => []TreeInv`, the invariant of both, with the types: no two names are one file, and what a worker has open is an
  inode that stays one while it is open. That `NewInode` finds a free inode is counted (`NewInodeIsFree`).
- `AllOrNothingHolds`: `TreeSpec => []AllOrNothing`, from `WholeInv`, which adds three things to `TreeInv`. `SoFar` says of every place in every
  handler what the names of the request (`Scope`) have to do there with `b`, the tree it found: untouched up to the first change; so much of
  the body written (`Writing`, `Copying`); the names of a listing that were taken from `todo` copied, the others as they were (`CopyingDir`); those
  taken away gone, with the directories above them to follow (`Emptying`); and at the answer `After(b, r)` or `b` (`Outcome`). Each handler has a lemma (`...Whole`)
  that its steps lead from one of these to the next. That others leave these names alone is `Separate` and `Foot` again, and `Nested` (what a name
  is in is a directory, through all steps) is why below a file there is nothing a rename or an unlink could lose.
  Sections of one file are not separate: `SectionsApart` says that whoever else has the file writes to another part of it, so that what
  one section has put in its place stays there (`Placed`, `Calm`, `MoreInPlace`); a section that is refused finds no file. For all this
  `faults = 0`: a disk that is full leaves half a body.

`NodeConnections_proofs`, for any clients and requests, any number of connection objects and any limits, from `PlanAssumption` and
`LimitsAssumption`: `ListsAlwaysAgree`, `EventsAlwaysHaveHandlers`, `NobodyIsForgotten` and `CutOffOnlyForAReason`, `Spec` implying `[]` of
`ListsAgree`, `EventsHaveHandlers`, `NobodyForgotten` and `CutOffForAReason`. The argument has two halves.

- One run of the machine (`StateMachineIs`). `Left` counts eight for each unit not read or not used yet and adds the state's place in its round
  (`Rank`); every turn that changes the state makes it smaller, since a turn back to an earlier place takes a unit. So the machine is done after
  `MaxTurns`, and what is done reads with an empty read queue, writes into a socket that is full, or is closed (`Waits`). On the way it has what
  it is given up for (`Sound`: in `"error"` the client has gone, was silent, or the server failed) and its descriptor (`Placed`). The function over turns is
  shown to exist first (`FirstTurns`, `TurnsExist`).
- The loop (`ConnInv`). `Ordered`: `ptr` is a permutation, which `connection_del` keeps (`RemovedIs`). `Linked`: descriptor, object and client
  lead to each other, and `epoll` holds what is registered. `AllServed`: each connection is as its socket allows. `LoopInv`: an event that
  waits to be handled belongs to an open connection; a connection in use is `Parked` (watched for what it waits for) or `InJobs`. At
  `"poll"` the job list is empty, so all are parked. `RunsKeep` is the one lemma that timeouts, accepts and jobs share; `Fit` says when they may use it.
  That an accepted client finds a free descriptor and that the counters are right is counted (`FreeFd`, `InUseCounted`, `OpenCounted`).

The invariants, the strengthened ones too, were checked by TLC before they were proved. Every safety property the runs check is the
statement of a theorem (for some of them under a hypothesis, named above). Only model-checked: the liveness properties, which TLAPS does not prove.

<a name="divergences"></a>
## 6. Where the code falls short of what it says

These were met while the models were written. Each can be had by changing a cfg as told, where
one can; the others show in the source lines named.

| behaviour | how to see it |
|---|---|
| `process_tempfiles` asks `$fid->exists` and queues the fid for deletion two statements later; a `create_close` of an upload over an hour old that comes in between makes the file live, and it is deleted | `file_life` with `Environment = {"slow"}`: `LiveIsNotDoomed` |
| `tracker.conf` ships `delete_jobs 2`: one deleter copies a due fid from `file_to_delete_later` to `file_to_delete`; before it deletes the former row the other picks the fid up and reschedules it (`INSERT IGNORE` meets the old row, the row of `file_to_delete` goes); the first one's `DELETE` then removes the last trace | `file_life` with `MaxDeaths = 0`, `Environment = {}`: `NothingForgotten` without `hit` (with one deleter it holds) |
| rebalancing hides the copy to be moved from the policy; if the only ideal destination is that very device, `replicate()` answers `lost_race`, which the caller takes for over-replication and deletes the copy the policy had just missed | `repl_life` with 1 replicator, `RebalanceFrom` and `RebalanceAvoid` the second host's device: `OwedIsQueued` |
| `create_close` started over after its worker died behind `replace_into_file` takes its own fid for the old file under the key, deletes it and stores it again: live and in `file_to_delete` | `file_life` with `Environment = {"requeue"}`: `LiveIsNotDoomed` |
| two uploads under one key that both looked for the old file: `REPLACE` drops the first one's row and nobody queues its fid | `file_life` with 1 deleter, `MaxDeaths = 0`, `{"same_key"}`: `NothingForgotten` without `hit` |
| a rename to the key between `create_close`'s look for the old file and its `REPLACE`: the renamed file's row is dropped and nobody queues its fid | the same with `{"renames"}` |
| the slow `create_close` and the forgotten counter (see the rows on `LiveIsNotDoomed`) leave content without an owner, too | `file_life` with 1 deleter, `{"slow"}` or `{"reset"}`: `NothingForgotten` |
| a worker dies inside `delete_fidid` (row gone, fid not queued): content without an owner | `file_life` with 1 deleter, `{"abandon"}`: `NothingForgotten` without `hit` |
| a fid waiting in `file_to_delete` is given out again after a reset, since `register_tempfile` looks in `file` only | `file_life` with `{"reset"}`: `LiveIsNotDoomed` |
| a fid forgotten by the counter is given out while the file is still being closed: a second failure is enough, because the first one has cost the `tempfile` row that kept the counter up | `file_reset` with 1 key, 3 commands, `MaxDeaths = 2`, `Environment = {"reset", "requeue"}` (a restarted `create_close` deletes its own row); or with 1 key, 1 fid, 2 deleters, `MaxDeaths = 2`, `Environment = {"reset"}` (a deleter's late `DeletePurged` removes the row of the fid's new upload): `LiveIsNotOpen` |
| `cmd_delete` after a rename in between deletes a file whose key is another one by now | `file_reset`: compare `cmd[w].key` and `file` in `DeleteFileRow` |
| when `fork` fails, the callback returns from the middle of `each %jobs`; the next call resumes the iterator *after* the failing job, comes to the end and sets `$allkidsup = 1` with the job short of a worker, until some other child dies | `staffing` with `MaxForkFails = 1`: `AllKidsUp` |
| `!want` culls the idle entry of a worker that died and was reaped: it is counted down twice, and one worker more than wanted is forked | `staffing` with `NeverOvercounted` strengthened to equality |
| after a query of two lines, the second line closes an innocent client with `worker_mismatch` | `staffing` with `MaxLines = 2`: `NoMismatch` (`AllKidsUp` still holds with its one client) |
| with two copies on read-only devices of one host the policy is satisfied although another host is free: it compares numbers taken over different sets | `policy` without `Spread`'s condition |
| the reaper's `INSERT IGNORE` meets the row that a replicator is about to delete: the file stays short of a copy | `repl_life` with `Environment = {"meddle"}`, `Changes = {"dead"}`: `OwedIsQueued` |
| a copy that ends after its destination died and was noted empty leaves a row no reaper pass sees | same, row on a device in `allEmpty` |
| the row of a file half replicated when its first device died names that device as its source for ever | same with 1 replicator on three hosts, `MinDevcount = 3`: that `row.from` is dead, the file unsatisfied and `row.next # "never"` can become true for good, copies failing at most once |
| a file deleted and purged while it is being copied gets a `file_on` row that belongs to no file; drained devices keep picking it up | `repl_rebalance`: `file = "gone" /\ on # {}` |
| a file without rows that the replicators gave up (`nexttry` at `ENDOFTIME`) is found by fsck and queued by `INSERT IGNORE`, which leaves the row: it is never replicated, though fsck logs that it is | `fsck`: `Repaired` without its exception for `"never"` |
| fsck, going by an answer older than a move, forgets the copy a rebalancer has just made while the rebalancer relies on it and deletes the other: content without a row | `fsck` with `RebalanceFrom` all devices, or with `Changes = {"drain"}`, `MaxChanges = 1`: `KeepsACopy` |
| fsck notes a file on a device that died and was noted empty: every later round of fsck stalls at this file | `fsck` with `Changes = {"dead"}`, `MaxChanges = 1`: `Repaired` |
| `cmd_fsck_start` after a finished scan says it resets the position (`Query.pm` 1412) but `_do_fsck_reset` leaves `fsck_highest_fid_checked`: nothing is scanned | by reading; `mogadm` tells users to call `fsck reset` |
| a file that has as many bytes in its last section as there are tries (3) is never stored: `iTemp` is compared with `LOOPNUMBER` where `loopNum` is meant (`YlemPutfile.cc` 250) | `upload`: size 7 ends in `"err"` |
| for the same reason a section that failed three times is left out (-1 is added to the sum) and the upload goes on to `create_close`; so it does after a short `sendfile()`, and then later sections carry labels that are ahead of the content | `upload`: `WholeOnceServed` without `lost = {}`; `SectionsInPlace` without `InStep` |
| no answer is awaited for full sections, so a file of whole sections can be closed, and its length taken, before its content is there | `upload`: `LengthRight` without `up.size % Block # 0` |
| two sections that both find no file race for `O_EXCL`: the loser answers 404 and its section is gone, which the client does not read | `upload`: `WholeOnceServed` without `lost = {}`, `MaxFaults = 0` |
| `create_close` deletes the older file of the key before it has asked for the size of the new one | `upload`: `tracker.key = NoFile` while `up.pc = "err"` |
| the tracker stored the file, the answer was lost: the client reports an error | `upload`: `ReportedTruly` without `up.session` |
| COPY or MOVE (by copying) of a file onto itself truncates it before reading it | `node_files`: `AllOrNothing` without its exception, with a COPY of `a` to `a` among the requests |
| COPY or MOVE of a directory onto itself empties the files in it and answers 403; into itself it copies what it is just making | `node_files`, which has a COPY of `d` to `d`: `AllOrNothing` without its exception |
| a file of no bytes cannot be mapped: it cannot be copied, nor moved to another device (403), and a COPY or MOVE of a directory stops at it, half done | `node_files` with such a file in a tree: `AllOrNothing` without `Stops` |
| a COPY or MOVE into a directory that has entries stops, half done, at a file that has a directory's name there or one it must not replace; an inner directory that has a file's name there is left out, and a MOVE then deletes it | `node_files` with a MOVE of `d` to `e` and trees in which both have a name `x` (and `d` a file `a`): two files and `overwrite` false, a file and a directory, a directory and a file: `AllOrNothing` without `Stops` |
| a PUT that still has its file open while the file is MOVEd writes on under the new name, where it changes what a request to that name, which came later, has read | `node_files` with PUT of `a`, MOVE of `a` to `c` and GET of `c` as its requests, `MaxRequests = 5`: `AllOrNothing` without `WritesTo` in `Rival` |
| a `write()` that takes a part of a copy is success; MOVE across devices then deletes the source | `node_files`: `AllOrNothing` without `faults = 0` |
| MOVE of a directory that has a directory in it loses what is in the inner one: `webdav_copy_dir` recurses in builds with properties only, `webdav_delete_dir` always | `node_files`: `AllOrNothing` with all of `Below(r.path)` in `Copies`, and the name of the inner file under `e` in `ThePaths` |
| a PUT with an empty body on a directory, or below a file, answers 201 | `node_files` with such a request: `AllOrNothing` without `Hollow` |
| DELETE of a directory answers by the last name of the listing: what could not be deleted before it goes unreported until `rmdir` fails with 501 | `DeleteChild` resets `bad` |
| two names with one hash share a stat cache entry, whose result each overwrites under the other's name | `node_files` with a constant `Hash`: `ServedIsCurrent` |
| within a second a worker serves the old length of a file another worker has just written, or answers 301/200 for what is gone | `node_files`: `ServedIsCurrent` without `outdated` |
| `conns->used > max_conns` (`server.c` 1324) never holds, since accepting stops at `>=`: at the limit the sockets stay enabled, and the loop spins on a level-triggered event it cannot serve | `node_conns`: `Accepting \in batch /\ used = MaxConns` is reached, and holds again at every turn of the loop until a connection ends |
| SIGINT while the sockets are disabled for want of descriptors leaves the listening socket open until the end, so waiting connections are not refused and a new server cannot take over | `Sockets`, first disjuncts; `server.c` 1306-1368 |
| the timeout walk does not look at the connection it moved into the gap until the next second | `Walk` |
| the lingering close never lingers: data the client has not read may be lost in a reset | `connections.c` 1524-1580, 1592-1628 |

<a name="limits"></a>
## 7. What is not modelled

State broadcasts and caches other than the device table, fsck's scan and settings, `devcount`, administration
(ids of hosts, classes, domains), `edit_file`, replication by device counts, the network
policies, the Perl client library's retry: planned below. Out of reach or without a protocol of
their own: parsing, logging, headers, chunked HTTP, the weights of random choices, the
watchdog's clock (a kill at any time covers it), schema upgrades, back ends other than MySQL,
the frontend and the monitors.

Of lighttpd's 50 thousand lines most are never run by YLEM: `src/storage/conf/lighttpd.conf` loads
`mod_webdav` and `mod_accesslog`; FastCGI, SCGI, CGI, proxying, SSL, compression, rewriting,
authentication and the like are vendored as they came, and so is the generated configuration
parser. They are left out on purpose, though they are a large part of the lines of C here. Of
what runs, these are left out: PROPFIND and PROPPATCH (they only read, as built), LOCK (compiled out),
range requests and validators of GET, request headers, access to symbolic links, FAM, the
queue for descriptors (only gateways wait in it), traffic shaping, and the parent of the workers, which forks
one for each that dies. On SIGINT that parent signals its whole group, itself included; a second SIGINT at a
worker ends it at once (`server.c` 85-93), so whether a stop through the parent is
graceful depends on which signal arrives when.

The component list in `PROJECT.json` has the reason for each part, and its hazards say what no
property covers.

<a name="plan"></a>
## 8. Plan

Order: what loses data first, then what loses service, then what wastes space.

1. *done*: `ProcManager` (queries and workers) with type and safety proofs, `QueryService` and the
   proof that `ProcManager` implements it; `FileLife` (upload to purge) with `FileCare`; `MultipleHosts` with
   `PolicyWalk`; `Replication`; `Fsck` at one file; `StorageNode` with `NodeLoad`, `ClientUpload`, `NodeConnections`.
   Proofs about `MultipleHosts`, `PolicyWalk`, and of all safety properties of `ProcManager`, `FileLife`, `Replication`, `Fsck`,
   `ClientUpload`, `NodeLoad` and `NodeConnections`.
2. `CopyChild` in steps of its own (a disk that fills up inside a copied directory), and `AllOrNothing` for it.
3. `Backend::do_request` with its second send, composed with `QueryService`.
4. `Namespace`: a map from keys to contents, with `FileLife`'s commands as atomic steps; where no
   refinement exists the differences of section 6 are its exceptions. `edit_file` joins `FileLife`.
5. `FsckScan`: position and settings of the scan across trackers (stop, reset, start, a late
   writer), every fid checked since the reset; `DevCount` (`update_devcount`, its lock).
6. `Broadcast`: observed states and metadata invalidations through the parent of one tracker,
   composed with the caches of several.
7. `MultipleNetworks`, `HostsPerNetwork` over `PolicyWalk`'s loop; ids of administration commands;
   revived devices.

Runs to come take the bounds of this section's predecessors: two of each actor that races,
one death, one failure, two of each thing that can be confused.
