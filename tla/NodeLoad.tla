-------------------------------- MODULE NodeLoad --------------------------------
(***************************************************************************)
(* A storage node and clients that make any of a set of requests at any    *)
(* time, and what its answers promise them.                                *)
(***************************************************************************)
EXTENDS StorageNode

CONSTANTS
  Load,        \* the requests clients of this node make
  Trees,       \* what may be on the disks at first
  MaxRequests  \* bound on the requests

\* The names a listing of a directory can have.
Listed(p) == {c \in Paths : Len(c) = Len(p) + 1 /\ IsPrefix(p, c)}

\* Names are below a device, and a name's directories are names.  Load is closed: what a COPY or
\* MOVE may make has a name here.  There are inodes enough for every name and every open file;
\* there are no links, and what a name is in is a directory.
ASSUME LoadAssumption ==
  /\ MaxRequests \in Nat
  /\ \A p \in Paths : p \in Seq(STRING) /\ Len(p) > 1 /\ \A n \in 2..Len(p) : SubSeq(p, 1, n) \in Paths
  /\ Load \subseteq Requests
  /\ \A r \in Load : r.method \in {"COPY", "MOVE"} =>
       \A c \in Listed(r.path) \cup {r.path} : Append(r.to, Last(c)) \in Paths
  /\ \A S \in {Paths, Procs, Inodes} : IsFiniteSet(S)
  /\ Cardinality(Inodes) > Cardinality(Paths) + 2 * Cardinality(Procs)
  /\ \A t \in Trees : /\ t \in [Paths -> Inodes \cup {Absent, Directory}]
                      /\ \A p, q \in Paths : t[p] \in Inodes /\ t[p] = t[q] => p = q
                      /\ \A p \in Paths : \A q \in Below(p) : t[q] # Absent => t[p] = Directory

VARIABLES
  asked,   \* how many requests came
  stale,   \* history: the names that changed since a worker put them into its cache
  seen     \* history: of each request, the tree when it came, whether it met a rival, ...

vars == <<nodeVars, asked, stale, seen>>

NamesOf(r) == {r.path} \cup IF r.method \in {"COPY", "MOVE"} THEN {r.to} ELSE {}

\* Two requests that must not be expected to be independent: one changes names the other
\* uses.  Sections of one file that exists may be written at the same time.
Conflict(r, s) ==
  /\ ~(ReadOnly(r) /\ ReadOnly(s))
  /\ \E a \in NamesOf(r), b \in NamesOf(s) : IsPrefix(a, b) \/ IsPrefix(b, a)
  /\ ~(/\ Ranged(r) /\ Ranged(s) /\ r.path = s.path /\ IsFile(r.path)
       /\ \/ r.off + Len(r.body) <= s.off
          \/ s.off + Len(s.body) <= r.off)

\* The names a request may change.
Scope(r) == UNION {{q \in Paths : IsPrefix(n, q)} : n \in NamesOf(r)}

\* A worker still writes to a file that another request has given one of r's names.
WritesTo(v, r) ==
  ~ReadOnly(job[v].req) /\ \E q \in Scope(r) \ Scope(job[v].req) : IsFile(q) /\ job[v].fd = entry[q]
Rival(v, r) == job[v] # Idle /\ (Conflict(r, job[v].req) \/ WritesTo(v, r))

Starts(w) == job[w] = Idle /\ job'[w] # Idle

\* What is remembered of a step, for the properties.
Remember ==
  /\ stale' = [w \in Procs |-> {p \in stale[w] \cup {q \in Paths : View'[q] # View[q]} :
                                     cache'[w][Hash[p]].fresh}]
  /\ seen' = [w \in Procs |->
       CASE job'[w] = Idle -> <<>>
         [] Starts(w) -> [before |-> View, outdated |-> FALSE,
                          alone |-> \A v \in Procs : ~Rival(v, job'[w].req)]
         [] OTHER -> [seen[w] EXCEPT
                        !.alone = @ /\ \A v \in Procs : Starts(v) => ~Conflict(job'[v].req, job[w].req),
                        !.outdated = @ \/ (job[w].pc = "cache" /\ job[w].req.path \in stale[w])]]

\* One of the requests of Load comes in.  One that changes names counts twice.
Cost(r) == IF ReadOnly(r) THEN 1 ELSE 2
Request == \E w \in Procs, r \in Load : /\ asked' = asked + Cost(r) /\ asked' <= MaxRequests
                                       /\ Take(w, r)

TreeInit ==
  /\ NodeInit /\ asked = 0
  /\ stale = [w \in Procs |-> {}] /\ seen = [w \in Procs |-> <<>>]
  /\ entry \in Trees
  /\ data = [i \in Inodes |-> IF \E p \in Paths : entry[p] = i THEN [u \in 1..MaxBody |-> i] ELSE <<>>]

Serve(w)  == (WorkerStep(w) \/ Answer(w) \/ Clock(w) \/ Dies(w)) /\ UNCHANGED asked
TreeNext == (Request \/ \E w \in Procs : Serve(w)) /\ Remember

TreeSpec == TreeInit /\ [][TreeNext]_vars

-------------------------------------------------------------------------------
(* What a request means to a client: the tree v becomes After(v, r). *)

\* The destination of a COPY or MOVE.
Into(v, r) == IF v[r.path].is = "file" /\ v[r.to] = Collection
              THEN Append(r.to, Last(r.path)) ELSE r.to

IntoItself(v, r) == r.method \in {"COPY", "MOVE"} /\ (Into(v, r) = r.path \/ r.to \in Below(r.path))

\* The names a copy of r.path to t makes, with what they are copies of.  Of a directory only
\* the files in it and empty directories are copied.
Copies(v, r, t) ==
  {<<r.path, t>>} \cup {<<c, Append(t, Last(c))>> :
                          c \in {q \in Below(r.path) : Len(q) = Len(r.path) + 1 /\ v[q] # Nothing}}

Copied(v, r) ==
  LET made == Copies(v, r, Into(v, r))
  IN  [q \in Paths |-> IF \E m \in made : m[2] = q
                       THEN v[(CHOOSE m \in made : m[2] = q)[1]] ELSE v[q]]

Removed(v, p) == [q \in Paths |-> IF IsPrefix(p, q) THEN Nothing ELSE v[q]]

After(v, r) ==
  CASE r.method = "PUT"    -> [v EXCEPT ![r.path] =
                                 File(IF Ranged(r) THEN Overlay(@.has, r.off, r.body) ELSE r.body)]
    [] r.method = "MKCOL"  -> [v EXCEPT ![r.path] = Collection]
    [] r.method = "DELETE" -> Removed(v, r.path)
    [] r.method = "COPY"   -> Copied(v, r)
    [] r.method = "MOVE"   -> IF Into(v, r) = r.path THEN v ELSE Removed(Copied(v, r), r.path)
    [] OTHER               -> v

\* A copy of a directory leaves out or stops at what is in it: a file of no bytes, which cannot be
\* mapped, or a name that something of another kind, or that must not be replaced, has there.
Stops(v, r) ==
  /\ r.method \in {"COPY", "MOVE"}
  /\ \E c \in Listed(r.path) :
       LET t == Append(r.to, Last(c)) IN
       /\ v[c] # Nothing
       /\ v[c] = File(<<>>) \/ v[t].is \notin {"absent", v[c].is} \/ (v[t].is = "file" /\ ~r.overwrite)

\* A PUT of no bytes where there cannot be a file.
Hollow(v, r) ==
  /\ r.method = "PUT" /\ ~Ranged(r) /\ r.body = <<>>
  /\ v[r.path] = Collection \/ (Len(r.path) > 2 /\ v[Front(r.path)].is = "file")

\* The worker has an answer to a request that no conflicting request overlapped.
Undisturbed(w) == job[w] # Idle /\ job[w].pc = "answer" /\ seen[w].alone

\* A request that overlaps with no request that conflicts with it is all or nothing: if it is
\* answered with success its effect is there, and if it is refused nothing has changed,
\* whatever the other workers do in between their system calls.  (subrequest handler of
\* mod_webdav.c.)  The exceptions: a full disk; a copy onto or into itself: open() with O_TRUNC
\* empties a file that is its own source; a copy of a directory that cannot be complete; and
\* a PUT of no bytes that is answered 201 though there is no file.
AllOrNothing ==
  \A w \in Procs : Undisturbed(w) /\ faults = 0 =>
    LET j == job[w]
        r == j.req
        b == seen[w].before
        done == j.status \in 200..206
        want == IF done THEN After(b, r) ELSE b
        renames == r.method = "MOVE" /\ b[r.path].is = "file"
    IN  ~Stops(b, r) /\ ~Hollow(b, r) /\ (IntoItself(b, r) => renames) =>
          IF Ranged(r) /\ done
          THEN \A u \in DOMAIN r.body : /\ r.off + u <= Len(View[r.path].has)
                                        /\ View[r.path].has[r.off + u] = r.body[u]
          ELSE \A q \in Scope(r) : View[q] = want[q]

\* Whatever fails, a COPY or MOVE that is refused leaves the source as it was; only a copy
\* onto or into itself may not.  (mod_webdav.c 1926-2010, webdav_copy_file: the source is deleted
\* after the copy, by a request of many steps.)
RefusedKeepsSource ==
  \A w \in Procs : Undisturbed(w) /\ job[w].req.method \in {"COPY", "MOVE"} /\ job[w].status >= 400 =>
    LET r == job[w].req IN
    ~IntoItself(seen[w].before, r) => \A q \in Below(r.path) \cup {r.path} : View[q] = seen[w].before[q]

\* What is served of a file that has not changed in the worker's current second, nor while it
\* was served, is the file: its size, and for a GET all of it.  (stat_cache_get_entry and
\* mod_staticfile_subrequest, which serve as many bytes as the cache says.)
ServedIsCurrent ==
  \A w \in Procs : Undisturbed(w) /\ ReadOnly(job[w].req) /\ ~seen[w].outdated =>
    LET j == job[w]
        now == View[j.req.path]
    IN  CASE now.is = "file"      -> j.status = 200 /\ j.size = Len(now.has)
                                     /\ (j.req.method = "GET" => j.got = now.has)
          [] now.is = "directory" -> j.status = 301
          [] now.is = "absent"    -> j.status = 404
================================================================================
