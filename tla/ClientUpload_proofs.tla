-------------------------- MODULE ClientUpload_proofs --------------------------
(***************************************************************************)
(* Proofs about ClientUpload: what becomes of the sections of a file, for  *)
(* every size, section length and number of tries, any number of workers   *)
(* and any number of faults.                                               *)
(***************************************************************************)
EXTENDS ClientUpload, SequenceTheorems, WellFoundedInduction, TLAPS

\* The requests of this client and the tracker, and what a worker knows while it serves one.
Sections == {r \in [method : {"PUT"}, path : {Name}, off : Nat, to : {Name}, overwrite : {TRUE},
                    body : Seq(Nat)] : Len(r.body) <= Block}
Writing   == {"open", "create", "write"}
Jobs      == [req : Sections \cup {SizeRequest}, pc : Writing \cup {"cache", "answer"}, status : Nat,
              fd : Inodes \cup {NoFd}, src : {NoFd}, done : Nat, got : {<<>>}, size : Int, to : {Name},
              todo : {{}}, dirs : {{}}, bad : {FALSE}]
CacheKeys == {Hash[p] : p \in Paths}
CacheEntries == [name : Paths \cup {<<>>}, size : Int, fresh : BOOLEAN]

Busy(w)      == job[w] # Idle
AtSection(w) == Busy(w) /\ job[w].req # SizeRequest
Content      == IF entry[Name] = Absent THEN <<>> ELSE data[entry[Name]]

\* Which requests are where; there is one file, once it is there, and no other.
JobFits(j) ==
  /\ j.req # SizeRequest => j.pc \in Writing \cup {"answer"} /\ j.done <= Len(j.req.body)
  /\ j.req = SizeRequest => j.pc \in {"cache", "answer"}
  /\ j.fd \in {NoFd, entry[Name]}
  /\ j.pc = "write" => j.fd # NoFd /\ j.status = 200

NodeType ==
  /\ entry \in [Paths -> Inodes \cup {Absent}] /\ \A p \in Paths : p # Name => entry[p] = Absent
  /\ data \in [Inodes -> Seq(Nat)]
  /\ job \in [Procs -> {Idle} \cup Jobs] /\ \A w \in Procs : Busy(w) => JobFits(job[w])
  /\ cache \in [Procs -> [CacheKeys -> CacheEntries]]
  /\ faults \in Nat

Clients == [pc : {"open", "section", "recv", "close", "closing", "ok", "err"}, size : Nat, left : Int,
            at : Nat, off : Nat, tries : Nat, total : Int, session : BOOLEAN]

ClientType ==
  /\ up \in Clients
  /\ sent \subseteq Sections \cup {SizeRequest} /\ lost \subseteq Nat
  /\ tracker \in [pc : {"idle", "head"}, temp : BOOLEAN, key : {OldFile, NoFile} \cup (Nat \ {0})]

\* Where the client is in its file: labels are counted by whole sections.
Position ==
  /\ up.pc = "open" => up.left = up.size /\ up.at = 0 /\ up.off = 0
  /\ up.pc \in {"section", "recv"} =>
       up.left >= 0 /\ up.at = up.size - up.left /\ \E k \in 0..up.at : up.at = k * Block
  /\ up.pc = "recv" => up.left < Block
  /\ up.pc \in {"close", "closing", "ok"} => up.at = up.size
  /\ up.at <= up.size /\ up.off <= up.at + IF up.pc = "recv" THEN SendSize ELSE 0
  /\ lost = {} => InStep

\* A label is of a section before this one, of this one, or of the last.
Apart(o) == \/ o + Block <= up.at
            \/ o = up.at
            \/ up.left <= 0 /\ o = up.at - (up.left + Block)
OnTheWay == {r \in sent : r # SizeRequest} \cup {job[w].req : w \in {v \in Procs : AtSection(v)}}
Labels ==
  /\ \A o \in lost : Apart(o)
  /\ \A r \in OnTheWay : \/ Len(r.body) = Block /\ r.off + Block <= up.at
                         \/ r.off = up.at /\ up.pc = "recv"

\* As long as the client is in step: what is under way and what is there are the file's.
InPlace ==
  InStep =>
    /\ Len(Content) <= up.off /\ \A x \in 1..Len(Content) : Content[x] \in {0, x}
    /\ \A r \in OnTheWay : r.off + Len(r.body) <= up.off /\ \A i \in 1..Len(r.body) : r.body[i] = r.off + i

\* Where the byte x that the client has sent is.
Written(x)   == x <= Len(Content) /\ Content[x] = x
Within(r, done, x) == r.off + done < x /\ x <= r.off + Len(r.body)
Pending(j, x) == ~(j.pc = "answer" /\ j.status \in {200, 201}) /\ Within(j.req, j.done, x)
Accounted ==
  InStep => \A x \in 1..up.off :
    \/ Written(x)
    \/ \E r \in sent : r # SizeRequest /\ Within(r, 0, x)
    \/ \E w \in Procs : AtSection(w) /\ Pending(job[w], x)
    \/ \E o \in lost : o < x /\ x <= o + Block

\* The tracker has one question to the node, asked after the client has sent everything.
Sizing(w) == Busy(w) /\ job[w].req = SizeRequest
OneQuestion ==
  /\ SizeRequest \in sent => tracker.pc = "head" /\ \A w \in Procs : ~Sizing(w)
  /\ \A w \in Procs : Sizing(w) => tracker.pc = "head" /\ \A v \in Procs : Sizing(v) => v = w
  /\ tracker.pc = "head" => tracker.key = NoFile
  /\ tracker.key # OldFile => up.pc \in {"close", "closing", "ok", "err"} /\ up.at = up.size
  /\ up.pc = "closing" => up.session
  /\ up.session => (tracker.pc = "head" <=> up.pc = "closing")
  /\ up.pc = "ok" => Stored
  /\ Stored => up.pc = "ok" \/ ~up.session

\* Was the last section answered and not lost?
LastServed == InStep /\ up.size % Block # 0 /\ LastLabel \notin lost
SizeRight(n) == (InStep => n <= up.size) /\ (LastServed => n = up.size)
LengthKnown ==
  /\ (up.pc \in {"close", "closing", "ok"} \/ tracker.key # OldFile) /\ LastServed => Len(Content) = up.size
  /\ \A w \in Procs : \A k \in CacheKeys : cache[w][k].fresh =>
       tracker.key # OldFile /\ (cache[w][k].size = IsADir \/ SizeRight(cache[w][k].size))
  /\ \A w \in Procs : Sizing(w) /\ job[w].pc = "answer" /\ job[w].status = 200 => SizeRight(job[w].size)
  /\ Stored => SizeRight(tracker.key)

UploadInv == /\ NodeType /\ ClientType /\ Position /\ Labels /\ InPlace /\ Accounted
             /\ OneQuestion /\ LengthKnown

-------------------------------------------------------------------------------
\* Numbers and sequences

LEMMA MinIsLeast ==
  ASSUME NEW S \in SUBSET Nat, S # {}
  PROVE  Min(S) \in S /\ \A x \in S : Min(S) <= x
<1> DEFINE Less == {ss \in Nat \X Nat : ss[1] < ss[2]}
<1>1. IsWellFoundedOn(Less, Nat)
  BY NatLessThanWellFounded DEF OpToRel
<1>2. PICK m \in S : \A y \in S : <<y, m>> \notin Less
  <2> HIDE DEF Less
  <2> QED BY <1>1, WFMin
<1>3. ASSUME NEW y \in S PROVE m <= y
  <2>1. m \in Nat /\ y \in Nat /\ (y < m => <<y, m>> \in Less)
    OBVIOUS
  <2> QED BY <1>2, <2>1
<1> QED BY <1>3 DEF Min

LEMMA MinIs ==
  ASSUME NEW a \in Int, NEW b \in Int
  PROVE  Min({a, b}) = IF a <= b THEN a ELSE b
<1>1. \E x \in {a, b} : \A y \in {a, b} : x =< y
  OBVIOUS
<1>2. Min({a, b}) \in {a, b} /\ Min({a, b}) <= a /\ Min({a, b}) <= b
  BY <1>1 DEF Min
<1> QED BY <1>2

LEMMA SendSizeIs ==
  ASSUME ClientType
  PROVE  /\ up.left \in Int /\ SendSize = IF up.left <= Block THEN up.left ELSE Block
         /\ SendSize \in Int /\ Block \in Nat \ {0}
         /\ up.at \in Nat /\ up.off \in Nat /\ up.size \in Nat
<1>1. Block \in Nat \ {0} /\ up.left \in Int /\ up.at \in Nat /\ up.off \in Nat /\ up.size \in Nat
  BY UploadAssumption DEF ClientType, Clients
<1>2. SendSize = IF up.left <= Block THEN up.left ELSE Block
  BY <1>1, MinIs DEF SendSize
<1> QED BY <1>1, <1>2

\* What a write() makes of a file.
LEMMA OverlayIs ==
  ASSUME NEW s \in Seq(Nat), NEW o \in Nat, NEW us \in Seq(Nat), Len(us) > 0
  PROVE  /\ Overlay(s, o, us) \in Seq(Nat)
         /\ Len(Overlay(s, o, us)) = IF Len(s) >= o + Len(us) THEN Len(s) ELSE o + Len(us)
         /\ \A i \in 1..Len(Overlay(s, o, us)) :
              Overlay(s, o, us)[i] = IF i > o /\ i <= o + Len(us) THEN us[i - o]
                                     ELSE IF i <= Len(s) THEN s[i] ELSE 0
<1> DEFINE n == IF Len(s) >= o + Len(us) THEN Len(s) ELSE o + Len(us)
           at(i) == IF i > o /\ i <= o + Len(us) THEN us[i - o] ELSE IF i <= Len(s) THEN s[i] ELSE 0
<1>1. n \in Nat
  BY LenProperties
<1>2. us # <<>>
  BY EmptySeq
<1>3. Overlay(s, o, us) = [i \in 1..n |-> at(i)]
  BY <1>2 DEF Overlay
<1>4. \A i \in 1..n : at(i) \in Nat
  <2> SUFFICES ASSUME NEW i \in 1..n PROVE at(i) \in Nat
    OBVIOUS
  <2>1. CASE i > o /\ i <= o + Len(us)
    BY <2>1, LenProperties, ElementOfSeq
  <2>2. CASE ~(i > o /\ i <= o + Len(us)) /\ i <= Len(s)
    BY <2>2, LenProperties, ElementOfSeq
  <2> QED BY <2>1, <2>2
<1>5. Overlay(s, o, us) \in Seq(Nat)
  BY <1>1, <1>3, <1>4
<1>6. Len(Overlay(s, o, us)) = n
  <2> HIDE DEF n, at
  <2> QED BY <1>1, <1>3, <1>5, LenProperties
<1> QED BY <1>3, <1>5, <1>6

-------------------------------------------------------------------------------
\* The node

\* What a worker's step does to what the client relies on: nothing that is there gets lost, and
\* what the worker had to write it has still to write, or has written.
Serving(w) ==
  /\ Busy(w) /\ Busy(w)' /\ job'[w].req = job[w].req
  /\ \A v \in Procs : v # w => job'[v] = job[v]
  /\ InStep =>
       /\ Len(Content) <= Len(Content') /\ Len(Content') <= up.off
       /\ \A x \in 1..Len(Content') : Content'[x] \in {0, x}
       /\ \A x \in 1..up.off : Written(x) => Written(x)'
       /\ AtSection(w) =>
            \A x \in 1..up.off : Pending(job[w], x) => Pending(job'[w], x) \/ Written(x)'

LEMMA BecomesKeeps ==
  ASSUME NodeType, NEW e \in [Paths -> Inodes \cup {Absent}], NEW d \in [Inodes -> Seq(Nat)], Becomes(e, d)
  PROVE  /\ entry' = e /\ data' \in [Inodes -> Seq(Nat)]
         /\ e[Name] # Absent => data'[e[Name]] = d[e[Name]]
<1> DEFINE kept == {e[p] : p \in Paths} \cup UNION {{job[w].fd, job[w].src} : w \in {v \in Procs : job[v] # Idle}}
<1>1. entry' = e /\ data' = [i \in Inodes |-> IF i \in kept THEN d[i] ELSE <<>>]
  BY DEF Becomes
<1>2. e[Name] \in kept /\ e[Name] \in Inodes \cup {Absent}
  BY UploadAssumption
<1>3. <<>> \in Seq(Nat)
  BY EmptySeq
<1> HIDE DEF kept
<1> QED BY <1>1, <1>2, <1>3

LEMMA ContentTyped ==
  ASSUME NodeType
  PROVE  /\ entry[Name] \in Inodes \cup {Absent} /\ Content \in Seq(Nat) /\ Len(Content) \in Nat
         /\ Absent \notin Inodes /\ Directory \notin Inodes
<1>1. entry[Name] \in Inodes \cup {Absent}
  BY UploadAssumption DEF NodeType
<1>2. Content \in Seq(Nat)
  BY <1>1, EmptySeq DEF Content, NodeType
<1> QED BY <1>1, <1>2, LenProperties, NodeAssumption DEF Absent, Directory

LEMMA JobTyped ==
  ASSUME NodeType, NEW w \in Procs, Busy(w)
  PROVE  job[w] \in Jobs /\ JobFits(job[w]) /\ job[w].pc \in Writing \cup {"cache", "answer"}
         /\ job[w].req \in Sections \cup {SizeRequest}
BY DEF NodeType, Busy, Jobs

LEMMA JobIsBusy ==
  ASSUME NEW j \in Jobs
  PROVE  j # Idle
<1>1. j.pc # "idle"
  BY DEF Jobs, Writing
<1>2. Idle.pc = "idle"
  BY DEF Idle
<1> QED BY <1>1, <1>2

LEMMA RequestsDiffer ==
  ASSUME NEW r \in Sections
  PROVE  /\ r # SizeRequest /\ r.method = "PUT" /\ r.path = Name /\ r.to = Name /\ r.off \in Nat
         /\ r.body \in Seq(Nat) /\ Len(r.body) \in Nat /\ Len(r.body) <= Block
         /\ Ranged(r) /\ Offset(r) = r.off /\ ~ReadOnly(r)
<1>1. r.method = "PUT" /\ r.path = Name /\ r.to = Name /\ r.off \in Nat /\ r.body \in Seq(Nat) /\ Len(r.body) <= Block
  BY DEF Sections
<1>2. SizeRequest.method = "HEAD"
  BY DEF SizeRequest
<1>3. r.off # -1
  BY <1>1
<1> QED BY <1>1, <1>2, <1>3, LenProperties DEF Ranged, Offset, ReadOnly, Whole

\* Of all the node can do, these steps serve sections and the question for the size.
LEMMA NodeMoves ==
  ASSUME NodeType, NEW w \in Procs, WorkerStep(w)
  PROVE  /\ Busy(w)
         /\ \/ OpenForPut(w) \/ CreateForPut(w) \/ (\E n \in 1..MaxBody : WriteBody(w, n)) \/ WriteFails(w)
            \/ StatCached(w)
<1>1. Busy(w)
  BY DEF WorkerStep, Busy, At, OpenForPut, CreateForPut, WriteBody, WriteFails, MakeCollection,
         StatForDelete, Unlink, DeleteChild, RemoveInner, RemoveOuter, StatSource, StatDestination,
         Rename, OpenForCopy, WriteCopy, CopyFails, UnlinkSource, MakeDestination, CopyChild,
         CopiedDir, StatCached, OpenToSend, SendBody
<1>2. job[w].pc \in {"open", "create", "write", "cache", "answer"}
  BY <1>1, JobTyped DEF Writing
<1> QED BY <1>1, <1>2
  DEF WorkerStep, At, MakeCollection,
         StatForDelete, Unlink, DeleteChild, RemoveInner, RemoveOuter, StatSource, StatDestination,
         Rename, OpenForCopy, WriteCopy, CopyFails, UnlinkSource, MakeDestination, CopyChild,
         CopiedDir, OpenToSend, SendBody

\* A worker goes on with the same file.
LEMMA JobStep ==
  ASSUME NodeType, NEW w \in Procs, Busy(w), NEW j \in Jobs, job' = [job EXCEPT ![w] = j], JobFits(j)',
         entry[Name] = Absent \/ entry'[Name] = entry[Name]
  PROVE  /\ job' \in [Procs -> {Idle} \cup Jobs] /\ (\A v \in Procs : Busy(v) => JobFits(job[v]))'
         /\ Busy(w)' /\ job'[w] = j /\ \A v \in Procs : v # w => job'[v] = job[v]
<1>1. job' \in [Procs -> {Idle} \cup Jobs] /\ job'[w] = j /\ \A v \in Procs : v # w => job'[v] = job[v]
  BY DEF NodeType
<1>2. ASSUME NEW v \in Procs, Busy(v)' PROVE JobFits(job[v])'
  <2>1. CASE v = w
    BY <1>1, <2>1
  <2>2. CASE v # w
    <3>1. Busy(v) /\ JobFits(job[v]) /\ job'[v] = job[v]
      BY <1>1, <1>2, <2>2, JobTyped DEF Busy
    <3>2. job[v].fd = NoFd \/ job[v].fd = entry'[Name]
      BY <3>1 DEF JobFits, NoFd, Absent
    <3> QED BY <3>1, <3>2 DEF JobFits
  <2> QED BY <2>1, <2>2
<1>3. Busy(w)'
  BY <1>1, JobIsBusy DEF Busy
<1> QED BY <1>1, <1>2, <1>3

\* A step that leaves the content alone.
LEMMA LeavesContent ==
  ASSUME NodeType, InPlace, NEW w \in Procs, Busy(w), NEW j \in Jobs, job' = [job EXCEPT ![w] = j],
         JobFits(j)', entry[Name] = Absent \/ entry'[Name] = entry[Name],
         j.req = job[w].req, j.done = job[w].done, Content' = Content,
         AtSection(w) => job[w].done = Len(job[w].req.body) \/ ~(j.pc = "answer" /\ j.status \in {200, 201})
  PROVE  Serving(w)
<1>1. Busy(w)' /\ job'[w] = j /\ \A v \in Procs : v # w => job'[v] = job[v]
  BY JobStep
<1>2. Len(Content) \in Nat
  BY ContentTyped
<1>3. \A x : Written(x)' <=> Written(x)
  BY DEF Written
<1>4. ASSUME AtSection(w), NEW x \in 1..up.off, Pending(job[w], x) PROVE Pending(j, x)
  <2>1. job[w].req \in Sections
    BY <1>4, JobTyped DEF AtSection
  <2>2. Len(job[w].req.body) \in Nat /\ job[w].req.off \in Nat
    BY <2>1, RequestsDiffer
  <2>3. x \in Int
    OBVIOUS
  <2> QED BY <1>4, <2>2, <2>3 DEF Pending, Within
<1> QED BY <1>1, <1>2, <1>3, <1>4 DEF Serving, InPlace


LEMMA Finishes ==
  ASSUME NodeType, NEW w \in Procs, Busy(w), NEW s \in Nat, Finish(w, s)
  PROVE  \E j \in Jobs : /\ job' = [job EXCEPT ![w] = j] /\ j.req = job[w].req /\ j.pc = "answer" /\ j.status = s
                         /\ j.fd = NoFd /\ j.done = job[w].done /\ j.size = job[w].size
<1>1. job[w] \in Jobs
  BY JobTyped
<1>2. PICK pc \in Writing \cup {"cache", "answer"}, fd \in {NoFd} : pc = "answer"
  OBVIOUS
<1>3. PICK k : k = [job[w] EXCEPT !.pc = pc, !.status = s, !.fd = fd, !.src = fd]
  OBVIOUS
<1>4. job' = [job EXCEPT ![w] = k]
  BY <1>2, <1>3 DEF Finish, NodeType
<1> HIDE DEF NoFd
<1>5. k \in Jobs
  BY <1>1, <1>3 DEF Jobs
<1>6. k.req = job[w].req /\ k.pc = pc /\ k.status = s /\ k.fd = NoFd /\ k.done = job[w].done /\ k.size = job[w].size
  BY <1>1, <1>3 DEF Jobs
<1> QED BY <1>2, <1>4, <1>5, <1>6

LEMMA GoesOn ==
  ASSUME NodeType, NEW w \in Procs, Busy(w), Goto(w, "create")
  PROVE  \E j \in Jobs : /\ job' = [job EXCEPT ![w] = j] /\ j.req = job[w].req /\ j.pc = "create"
                         /\ j.status = job[w].status
                         /\ j.fd = job[w].fd /\ j.done = job[w].done /\ j.size = job[w].size
<1>1. job[w] \in Jobs
  BY JobTyped
<1>2. PICK k : k = [job[w] EXCEPT !.pc = "create"]
  OBVIOUS
<1>3. job' = [job EXCEPT ![w] = k]
  BY <1>2 DEF Goto, NodeType
<1>4. k \in Jobs
  BY <1>1, <1>2 DEF Jobs, Writing
<1>5. /\ k.req = job[w].req /\ k.pc = "create" /\ k.status = job[w].status
      /\ k.fd = job[w].fd /\ k.done = job[w].done /\ k.size = job[w].size
  BY <1>1, <1>2 DEF Jobs
<1> QED BY <1>3, <1>4, <1>5

LEMMA IsOpened ==
  ASSUME NodeType, NEW w \in Procs, Busy(w), NEW i \in Inodes, Opened(w, i, 200)
  PROVE  \E j \in Jobs : /\ job' = [job EXCEPT ![w] = j] /\ j.req = job[w].req
                         /\ j.pc = IF job[w].req.body = <<>> THEN "answer" ELSE "write"
                         /\ j.status = 200
                         /\ j.fd = IF job[w].req.body = <<>> THEN NoFd ELSE i
                         /\ j.done = job[w].done /\ j.size = job[w].size
<1>1. job[w] \in Jobs
  BY JobTyped
<1>2. PICK pc : pc = IF job[w].req.body = <<>> THEN "answer" ELSE "write"
  OBVIOUS
<1>3. PICK fd : fd = IF job[w].req.body = <<>> THEN NoFd ELSE i
  OBVIOUS
<1>4. PICK k : k = [job[w] EXCEPT !.pc = pc, !.status = 200, !.fd = fd]
  OBVIOUS
<1>5. job' = [job EXCEPT ![w] = k]
  <2>1. job' = [job EXCEPT ![w].pc = pc, ![w].status = 200, ![w].fd = fd]
    BY <1>2, <1>3 DEF Opened
  <2> QED BY <1>4, <2>1 DEF NodeType
<1>6. pc \in Writing \cup {"cache", "answer"} /\ fd \in Inodes \cup {NoFd}
  BY <1>2, <1>3 DEF Writing
<1>7. k \in Jobs
  BY <1>1, <1>4, <1>6 DEF Jobs
<1>8. /\ k.req = job[w].req /\ k.pc = pc /\ k.status = 200
      /\ k.fd = fd /\ k.done = job[w].done /\ k.size = job[w].size
  BY <1>1, <1>4 DEF Jobs
<1>9. /\ k.pc = IF job[w].req.body = <<>> THEN "answer" ELSE "write"
      /\ k.fd = IF job[w].req.body = <<>> THEN NoFd ELSE i
  BY <1>2, <1>3, <1>8
<1> QED BY <1>5, <1>7, <1>8, <1>9

\* A worker that writes has a section to write.
LEMMA SectionAt ==
  ASSUME NodeType, NEW w \in Procs, Busy(w), job[w].req.method = "PUT"
  PROVE  /\ job[w] \in Jobs /\ JobFits(job[w]) /\ AtSection(w) /\ job[w].req \in Sections
         /\ job[w].req.path = Name /\ Ranged(job[w].req) /\ Offset(job[w].req) = job[w].req.off
         /\ job[w].req.off \in Nat /\ job[w].req.body \in Seq(Nat) /\ Len(job[w].req.body) \in Nat
         /\ job[w].done \in Nat /\ job[w].done <= Len(job[w].req.body)
<1>1. job[w].req # SizeRequest
  BY DEF SizeRequest
<1>2. job[w] \in Jobs /\ JobFits(job[w]) /\ AtSection(w) /\ job[w].req \in Sections
  BY <1>1, JobTyped DEF AtSection
<1>3. job[w].done \in Nat /\ job[w].done <= Len(job[w].req.body)
  BY <1>1, <1>2 DEF JobFits, Jobs
<1> QED BY <1>2, <1>3, RequestsDiffer

LEMMA OpenServes ==
  ASSUME NodeType, InPlace, NEW w \in Procs, OpenForPut(w)
  PROVE  NodeType' /\ Serving(w)
<1>1. Busy(w) /\ job[w].pc = "open" /\ job[w].req.method = "PUT" /\ UNCHANGED <<cache, faults>>
  BY DEF OpenForPut, At, Busy
<1>2. /\ job[w] \in Jobs /\ JobFits(job[w]) /\ AtSection(w) /\ job[w].req \in Sections
      /\ job[w].req.path = Name /\ Ranged(job[w].req) /\ job[w].req.body \in Seq(Nat)
      /\ job[w].done \in Nat /\ job[w].done <= Len(job[w].req.body)
  BY <1>1, SectionAt
<1>4. entry[Name] \in Inodes \cup {Absent} /\ Absent \notin Inodes /\ data \in [Inodes -> Seq(Nat)]
      /\ entry \in [Paths -> Inodes \cup {Absent}]
  BY ContentTyped DEF NodeType
<1>5. CASE IsFile(Name) /\ Opened(w, entry[Name], 200) /\ Becomes(entry, Truncated(job[w].req))
  <2>2. entry[Name] \in Inodes
    BY <1>5 DEF IsFile
  <2>3. PICK j \in Jobs : /\ job' = [job EXCEPT ![w] = j] /\ j.req = job[w].req
                          /\ j.pc = IF job[w].req.body = <<>> THEN "answer" ELSE "write"
                          /\ j.status = 200
                          /\ j.fd = IF job[w].req.body = <<>> THEN NoFd ELSE entry[Name]
                          /\ j.done = job[w].done
    BY <1>1, <1>5, <2>2, IsOpened
  <2>4. entry' = entry /\ data' \in [Inodes -> Seq(Nat)] /\ data'[entry[Name]] = data[entry[Name]]
    <3>1. Truncated(job[w].req) = data
      BY <1>2 DEF Truncated
    <3> QED BY <1>4, <1>5, <2>2, <3>1, BecomesKeeps
  <2>5. Content' = Content
    BY <2>4 DEF Content
  <2>6. JobFits(j)'
    BY <1>2, <2>2, <2>3, <2>4, <1>4 DEF JobFits, NoFd, Absent, AtSection, Writing
  <2>7. job[w].done = Len(job[w].req.body) \/ ~(j.pc = "answer" /\ j.status \in {200, 201})
    BY <1>2, <2>3, EmptySeq
  <2>8. Serving(w)
    BY <1>1, <2>3, <2>4, <2>5, <2>6, <2>7, LeavesContent
  <2>9. NodeType'
    BY <1>1, <2>3, <2>4, <2>6, JobStep DEF NodeType
  <2> QED BY <2>8, <2>9
<1>6. CASE UNCHANGED <<entry, data>> /\ (Finish(w, 403) \/ Goto(w, "create"))
  <2>1. PICK j \in Jobs :
           /\ job' = [job EXCEPT ![w] = j] /\ j.req = job[w].req /\ j.done = job[w].done
           /\ \/ j.pc = "answer" /\ j.status = 403 /\ j.fd = NoFd
              \/ j.pc = "create" /\ j.fd = job[w].fd
    <3>1. CASE Finish(w, 403)
      BY <1>1, <3>1, Finishes
    <3>2. CASE Goto(w, "create")
      BY <1>1, <3>2, GoesOn
    <3> QED BY <1>6, <3>1, <3>2
  <2>3. JobFits(j)'
    BY <1>2, <1>6, <2>1 DEF JobFits, AtSection, Writing
  <2>4. Content' = Content
    BY <1>6 DEF Content
  <2>5. Serving(w)
    <3>1. ~(j.pc = "answer" /\ j.status \in {200, 201})
      BY <2>1
    <3>2. entry' = entry
      BY <1>6
    <3> QED BY <1>1, <2>1, <2>3, <2>4, <3>1, <3>2, LeavesContent
  <2>6. NodeType'
    BY <1>1, <1>6, <2>1, <2>3, JobStep DEF NodeType
  <2> QED BY <2>5, <2>6
<1> QED BY <1>2, <1>5, <1>6 DEF OpenForPut, Unchanged

LEMMA CreateServes ==
  ASSUME NodeType, InPlace, NEW w \in Procs, CreateForPut(w)
  PROVE  NodeType' /\ Serving(w)
<1>1. Busy(w) /\ job[w].pc = "create" /\ job[w].req.method = "PUT" /\ UNCHANGED <<cache, faults>>
  BY DEF CreateForPut, At, Busy
<1>2. /\ job[w] \in Jobs /\ JobFits(job[w]) /\ AtSection(w) /\ job[w].req \in Sections
      /\ job[w].req.path = Name /\ Ranged(job[w].req) /\ job[w].req.body \in Seq(Nat)
      /\ job[w].done \in Nat /\ job[w].done <= Len(job[w].req.body)
  BY <1>1, SectionAt
<1>4. entry[Name] \in Inodes \cup {Absent} /\ Absent \notin Inodes /\ data \in [Inodes -> Seq(Nat)]
      /\ entry \in [Paths -> Inodes \cup {Absent}]
  BY ContentTyped DEF NodeType
<1>5. CASE entry[Name] = Absent /\ InDir(Name)
  <2>1. NewInode \in Inodes
    <3> DEFINE free == {k \in Inodes : /\ \A p \in Paths : entry[p] # k
                                       /\ \A v \in Procs : job[v] = Idle \/ k \notin {job[v].fd, job[v].src}}
    <3>1. \A p \in Paths : entry[p] = Absent
      BY <1>5 DEF NodeType
    <3>2. ASSUME NEW v \in Procs, job[v] # Idle PROVE job[v].fd = NoFd /\ job[v].src = NoFd
      <4>1. job[v] \in Jobs /\ JobFits(job[v])
        BY <3>2, JobTyped DEF Busy
      <4>2. job[v].src = NoFd
        BY <4>1 DEF Jobs
      <4>3. job[v].fd = NoFd
        BY <1>5, <4>1 DEF JobFits, Absent, NoFd
      <4> QED BY <4>2, <4>3
    <3>3. free = Inodes
      BY <1>4, <3>1, <3>2 DEF NoFd, Absent
    <3> HIDE DEF free
    <3>4. Min(free) \in free
      <4>1. free \in SUBSET Nat /\ free # {}
        BY <3>3, NodeAssumption, UploadAssumption
      <4> QED BY <4>1, MinIsLeast
    <3>5. NewInode = Min(free)
      BY DEF NewInode, free
    <3> QED BY <3>3, <3>4, <3>5
  <2>2. PICK i \in Inodes : i = NewInode
    BY <2>1
  <2>3. PICK e : e = [entry EXCEPT ![Name] = i]
    OBVIOUS
  <2>4. PICK d : d = [data EXCEPT ![i] = <<>>]
    OBVIOUS
  <2>5. Opened(w, i, 200) /\ Becomes(e, d)
    BY <1>2, <1>5, <2>2, <2>3, <2>4 DEF CreateForPut
  <2>6. PICK j \in Jobs : /\ job' = [job EXCEPT ![w] = j] /\ j.req = job[w].req
                          /\ j.pc = IF job[w].req.body = <<>> THEN "answer" ELSE "write"
                          /\ j.status = 200
                          /\ j.fd = IF job[w].req.body = <<>> THEN NoFd ELSE i
                          /\ j.done = job[w].done
    BY <1>1, <2>5, IsOpened
  <2>7. /\ entry' = e /\ data' \in [Inodes -> Seq(Nat)] /\ data'[i] = <<>> /\ entry'[Name] = i
        /\ e \in [Paths -> Inodes \cup {Absent}]
    <3>1. e \in [Paths -> Inodes \cup {Absent}] /\ e[Name] = i
      BY <1>4, <2>3, UploadAssumption
    <3>2. d \in [Inodes -> Seq(Nat)] /\ d[i] = <<>>
      BY <1>4, <2>4, EmptySeq
    <3>3. i # Absent
      BY <1>4
    <3> QED BY <2>5, <3>1, <3>2, <3>3, BecomesKeeps
  <2>8. Content' = Content
    BY <1>4, <1>5, <2>7 DEF Content
  <2>9. JobFits(j)'
    BY <1>2, <2>6, <2>7, <1>4 DEF JobFits, NoFd, Absent, AtSection, Writing
  <2>10. job[w].done = Len(job[w].req.body) \/ ~(j.pc = "answer" /\ j.status \in {200, 201})
    BY <1>2, <2>6, EmptySeq
  <2>11. Serving(w)
    BY <1>1, <1>5, <2>6, <2>8, <2>9, <2>10, LeavesContent
  <2>12. \A p \in Paths : p # Name => entry'[p] = Absent
    BY <2>3, <2>7 DEF NodeType
  <2>13. NodeType'
    BY <1>1, <1>5, <2>6, <2>7, <2>9, <2>12, JobStep DEF NodeType
  <2> QED BY <2>11, <2>13
<1>6. CASE ~(entry[Name] = Absent /\ InDir(Name))
  <2>1. Finish(w, 404) /\ UNCHANGED <<entry, data>>
    BY <1>2, <1>6 DEF CreateForPut, Unchanged
  <2>2. PICK j \in Jobs : /\ job' = [job EXCEPT ![w] = j] /\ j.req = job[w].req /\ j.pc = "answer"
                          /\ j.status = 404 /\ j.fd = NoFd /\ j.done = job[w].done
    BY <1>1, <2>1, Finishes
  <2>3. JobFits(j)'
    BY <1>2, <2>1, <2>2 DEF JobFits, AtSection
  <2>4. Content' = Content
    BY <2>1 DEF Content
  <2>5. Serving(w)
    <3>1. ~(j.pc = "answer" /\ j.status \in {200, 201})
      BY <2>2
    <3>2. entry' = entry
      BY <2>1
    <3> QED BY <1>1, <2>2, <2>3, <2>4, <3>1, <3>2, LeavesContent
  <2>6. NodeType'
    BY <1>1, <2>1, <2>2, <2>3, JobStep DEF NodeType
  <2> QED BY <2>5, <2>6
<1> QED BY <1>5, <1>6

LEMMA FailServes ==
  ASSUME NodeType, InPlace, NEW w \in Procs, WriteFails(w)
  PROVE  NodeType' /\ Serving(w)
<1>1. Busy(w) /\ job[w].pc = "write" /\ job[w].req.method = "PUT" /\ UNCHANGED <<entry, data, cache>>
  BY DEF WriteFails, At, Busy, Unchanged
<1>2. job[w] \in Jobs /\ JobFits(job[w]) /\ AtSection(w)
  BY <1>1, SectionAt
<1>3. PICK s \in {403, 507} : Finish(w, s)
  BY DEF WriteFails
<1>4. faults' \in Nat
  BY DEF WriteFails, NodeType
<1>5. PICK j \in Jobs : /\ job' = [job EXCEPT ![w] = j] /\ j.req = job[w].req /\ j.pc = "answer"
                        /\ j.status = s /\ j.fd = NoFd /\ j.done = job[w].done
  BY <1>1, <1>3, Finishes
<1>7. JobFits(j)'
  BY <1>2, <1>5 DEF JobFits, AtSection
<1>8. Content' = Content
  BY <1>1 DEF Content
<1>9. Serving(w)
  <2>1. ~(j.pc = "answer" /\ j.status \in {200, 201})
    BY <1>3, <1>5
  <2>2. entry' = entry
    BY <1>1
  <2>3. j.req = job[w].req /\ j.done = job[w].done /\ job' = [job EXCEPT ![w] = j]
    BY <1>5
  <2> QED BY <1>1, <1>7, <1>8, <2>1, <2>2, <2>3, LeavesContent
<1>10. NodeType'
  BY <1>1, <1>4, <1>5, <1>7, JobStep DEF NodeType
<1> QED BY <1>9, <1>10

LEMMA Written1 ==
  ASSUME NodeType, NEW w \in Procs, Busy(w), NEW n \in Nat, job' = [job EXCEPT ![w].done = @ + n]
  PROVE  \E j \in Jobs : /\ job' = [job EXCEPT ![w] = j] /\ j.req = job[w].req /\ j.pc = job[w].pc
                         /\ j.status = job[w].status /\ j.fd = job[w].fd /\ j.done = job[w].done + n
<1>1. job[w] \in Jobs /\ job[w].done \in Nat
  BY JobTyped DEF Jobs
<1>2. PICK m \in Nat : m = job[w].done + n
  BY <1>1
<1>3. PICK k : k = [job[w] EXCEPT !.done = m]
  OBVIOUS
<1>4. job' = [job EXCEPT ![w] = k]
  BY <1>2, <1>3 DEF NodeType
<1>5. k \in Jobs
  BY <1>1, <1>3 DEF Jobs
<1>6. k.req = job[w].req /\ k.pc = job[w].pc /\ k.status = job[w].status /\ k.fd = job[w].fd /\ k.done = m
  BY <1>1, <1>3 DEF Jobs
<1> QED BY <1>2, <1>4, <1>5, <1>6

\* A write() of some more of a section, where everything is in place.
MoreOf(s, top, from, body, done, n, lo, hi, us, t) ==
  /\ s \in Seq(Nat) /\ top \in Nat /\ Len(s) <= top /\ \A x \in 1..Len(s) : s[x] \in {0, x}
  /\ from \in Nat /\ body \in Seq(Nat) /\ from + Len(body) <= top
  /\ \A i \in 1..Len(body) : body[i] = from + i
  /\ done \in Nat /\ n \in Nat \ {0} /\ done + n <= Len(body)
  /\ us \in Seq(Nat) /\ Len(us) = n /\ \A i \in 1..n : us[i] = body[done + i]
  /\ lo = from + done /\ hi = lo + n /\ t = Overlay(s, lo, us)

LEMMA OverlayInPlace ==
  ASSUME NEW s, NEW top, NEW from, NEW body, NEW done, NEW n, NEW lo, NEW hi, NEW us, NEW t,
         MoreOf(s, top, from, body, done, n, lo, hi, us, t)
  PROVE  /\ t \in Seq(Nat) /\ Len(s) <= Len(t) /\ Len(t) <= top
         /\ \A x \in 1..Len(t) : t[x] \in {0, x}
         /\ \A x \in 1..Len(s) : s[x] = x => t[x] = x
         /\ \A x \in 1..top : lo < x /\ x <= hi => x <= Len(t) /\ t[x] = x
<1> USE DEF MoreOf
<1>1. PICK o \in Nat : o = lo /\ o = from + done
  OBVIOUS
<1>2. Len(s) \in Nat /\ Len(body) \in Nat
  BY LenProperties
<1>3. PICK ls \in Nat, lb \in Nat : ls = Len(s) /\ lb = Len(body)
  BY <1>2
<1>4. /\ t \in Seq(Nat) /\ Len(t) = IF ls >= o + n THEN ls ELSE o + n
      /\ \A i \in 1..Len(t) : t[i] = IF i > o /\ i <= o + n THEN us[i - o] ELSE IF i <= ls THEN s[i] ELSE 0
  <2>1. Len(us) > 0 /\ t = Overlay(s, o, us)
    BY <1>1
  <2>2. /\ t \in Seq(Nat)
        /\ Len(t) = IF Len(s) >= o + Len(us) THEN Len(s) ELSE o + Len(us)
        /\ \A i \in 1..Len(t) : t[i] = IF i > o /\ i <= o + Len(us) THEN us[i - o]
                                       ELSE IF i <= Len(s) THEN s[i] ELSE 0
    <3>1. s \in Seq(Nat) /\ us \in Seq(Nat) /\ o \in Nat
      BY <1>1
    <3> HIDE DEF MoreOf
    <3> QED BY <2>1, <3>1, OverlayIs
  <2> QED BY <1>3, <2>2
<1>5. PICK lt \in Nat : lt = Len(t) /\ ls <= lt /\ o + n <= lt /\ lt <= top
  <2>1. o + n <= top
    BY <1>1, <1>3
  <2>2. Len(t) \in Nat
    BY <1>4, LenProperties
  <2>3. ls <= Len(t) /\ o + n <= Len(t) /\ Len(t) <= top
    BY <1>3, <1>4, <2>1, <2>2
  <2> QED BY <2>2, <2>3
<1>6. ASSUME NEW x \in Int, o < x, x <= o + n PROVE t[x] = x
  <2>1. x \in 1..lt /\ x - o \in 1..n /\ done + (x - o) \in 1..lb /\ from + (done + (x - o)) = x
    BY <1>1, <1>3, <1>5, <1>6
  <2>2. t[x] = us[x - o] /\ us[x - o] = body[done + (x - o)] /\ body[done + (x - o)] = from + (done + (x - o))
    BY <1>3, <1>4, <1>5, <1>6, <2>1
  <2> QED BY <2>1, <2>2
<1>7. ASSUME NEW x \in 1..lt, ~(o < x /\ x <= o + n) PROVE t[x] = IF x <= ls THEN s[x] ELSE 0
  BY <1>4, <1>5, <1>7
<1>8. ASSUME NEW x \in 1..lt PROVE t[x] \in {0, x}
  <2>1. x <= ls => s[x] \in {0, x}
    BY <1>3
  <2>2. CASE o < x /\ x <= o + n
    BY <1>6, <2>2
  <2>3. CASE ~(o < x /\ x <= o + n)
    <3>1. t[x] = IF x <= ls THEN s[x] ELSE 0
      BY <1>7, <2>3
    <3> QED BY <2>1, <3>1
  <2> QED BY <2>2, <2>3
<1>9. ASSUME NEW x \in 1..ls, s[x] = x PROVE t[x] = x
  <2>1. x \in 1..lt /\ x <= ls
    BY <1>5
  <2>2. CASE o < x /\ x <= o + n
    BY <1>6, <2>2
  <2>3. CASE ~(o < x /\ x <= o + n)
    <3>1. t[x] = IF x <= ls THEN s[x] ELSE 0
      BY <1>7, <2>1, <2>3
    <3> QED BY <1>9, <2>1, <3>1
  <2> QED BY <2>2, <2>3
<1>10. ASSUME NEW x \in 1..top, lo < x, x <= hi PROVE x <= lt /\ t[x] = x
  <2>1. x <= lt /\ o < x /\ x <= o + n
    BY <1>1, <1>5, <1>10
  <2> QED BY <1>6, <2>1
<1> QED BY <1>3, <1>4, <1>5, <1>8, <1>9, <1>10

LEMMA WriteServes ==
  ASSUME NodeType, InPlace, ClientType, NEW w \in Procs, NEW n \in 1..MaxBody, WriteBody(w, n)
  PROVE  NodeType' /\ Serving(w)
<1>1. Busy(w) /\ job[w].pc = "write" /\ job[w].req.method = "PUT" /\ UNCHANGED <<cache, faults>>
  BY DEF WriteBody, At, Busy
<1>2. PICK r \in Sections, done \in Nat : r = job[w].req /\ done = job[w].done /\ done <= Len(r.body)
  BY <1>1, SectionAt
<1>3. /\ job[w] \in Jobs /\ JobFits(job[w]) /\ AtSection(w)
      /\ r.path = Name /\ Offset(r) = r.off /\ r.off \in Nat /\ r.body \in Seq(Nat) /\ Len(r.body) \in Nat
  BY <1>1, <1>2, SectionAt
<1>4. entry[Name] \in Inodes \cup {Absent} /\ Absent \notin Inodes /\ data \in [Inodes -> Seq(Nat)]
      /\ entry \in [Paths -> Inodes \cup {Absent}]
  BY ContentTyped DEF NodeType
<1>5. job[w].fd = entry[Name] /\ entry[Name] \in Inodes /\ job[w].status = 200
  BY <1>1, <1>3, <1>4 DEF JobFits, NoFd, Absent
<1>6. n \in Nat /\ n >= 1 /\ done + n <= Len(r.body)
  BY <1>1, <1>2, <1>3 DEF WriteBody
<1>7. PICK us : us = SubSeq(r.body, done + 1, done + n)
  OBVIOUS
<1>8. us \in Seq(Nat) /\ Len(us) = n /\ \A i \in 1..n : us[i] = r.body[done + i]
  <2>1. done + 1 \in 1..(Len(r.body) + 1) /\ done + n \in (done + 1 - 1)..Len(r.body)
    BY <1>3, <1>6
  <2>2. /\ us \in Seq(Nat) /\ Len(us) = (done + n) - (done + 1) + 1
        /\ \A i \in 1..((done + n) - (done + 1) + 1) : us[i] = r.body[(done + 1) + i - 1]
    <3>1. \A i \in (done + 1)..(done + n) : r.body[i] \in Nat
      BY <1>3, <1>6, ElementOfSeq
    <3> QED BY <1>7, <1>3, <1>6, <3>1, <2>1, SubSeqProperties
  <2>3. (done + n) - (done + 1) + 1 = n /\ \A i \in 1..n : (done + 1) + i - 1 = done + i
    BY <1>6
  <2> QED BY <2>2, <2>3
<1>9. PICK o \in Nat : o = r.off + done
  BY <1>3
<1>10. PICK s \in Seq(Nat) : s = data[entry[Name]] /\ s = Content
  BY <1>4, <1>5 DEF Content
<1>11. PICK t : t = Overlay(s, o, us)
  OBVIOUS
<1>12. /\ t \in Seq(Nat) /\ Len(t) = IF Len(s) >= o + n THEN Len(s) ELSE o + n
       /\ \A i \in 1..Len(t) : t[i] = IF i > o /\ i <= o + n THEN us[i - o]
                                      ELSE IF i <= Len(s) THEN s[i] ELSE 0
  <2>1. Len(us) > 0
    BY <1>6, <1>8
  <2> QED BY <1>8, <1>11, <2>1, OverlayIs
<1>13. PICK d : d = [data EXCEPT ![entry[Name]] = t]
  OBVIOUS
<1>14. Becomes(entry, d)
  BY <1>1, <1>2, <1>3, <1>5, <1>7, <1>9, <1>10, <1>11, <1>13 DEF WriteBody
<1>15. entry' = entry /\ data' \in [Inodes -> Seq(Nat)] /\ data'[entry[Name]] = t
  <2>1. d \in [Inodes -> Seq(Nat)] /\ d[entry[Name]] = t
    BY <1>4, <1>5, <1>12, <1>13
  <2>2. entry[Name] # Absent
    BY <1>4, <1>5
  <2> QED BY <1>4, <1>14, <2>1, <2>2, BecomesKeeps
<1>16. Content' = t
  BY <1>4, <1>5, <1>15 DEF Content
<1>17. PICK j \in Jobs :
         /\ job' = [job EXCEPT ![w] = j] /\ j.req = r /\ j.status = 200
         /\ \/ done + n = Len(r.body) /\ j.pc = "answer" /\ j.fd = NoFd /\ j.done = done
            \/ done + n # Len(r.body) /\ j.pc = "write" /\ j.fd = entry[Name] /\ j.done = done + n
  <2>1. CASE done + n = Len(r.body)
    <3>1. Finish(w, 200)
      BY <1>1, <1>2, <1>5, <2>1 DEF WriteBody
    <3> QED BY <1>1, <1>2, <2>1, <3>1, Finishes
  <2>2. CASE done + n # Len(r.body)
    <3>1. job' = [job EXCEPT ![w].done = @ + n]
      BY <1>1, <1>2, <1>5, <2>2 DEF WriteBody
    <3>2. PICK j \in Jobs : /\ job' = [job EXCEPT ![w] = j] /\ j.req = job[w].req /\ j.pc = job[w].pc
                            /\ j.status = job[w].status /\ j.fd = job[w].fd /\ j.done = job[w].done + n
      BY <1>1, <1>6, <3>1, Written1
    <3>3. j.req = r /\ j.pc = "write" /\ j.status = 200 /\ j.fd = entry[Name] /\ j.done = done + n
      BY <1>1, <1>2, <1>5, <3>2
    <3> QED BY <2>2, <3>2, <3>3
  <2> QED BY <2>1, <2>2
<1>18. JobFits(j)'
  <2>1. r # SizeRequest
    BY RequestsDiffer
  <2> QED BY <1>4, <1>5, <1>6, <1>15, <1>17, <2>1, <1>2 DEF JobFits, Writing, NoFd, Absent
<1>19. Busy(w)' /\ job'[w] = j /\ \A v \in Procs : v # w => job'[v] = job[v]
  <2>1. job'[w] = j /\ \A v \in Procs : v # w => job'[v] = job[v]
    BY <1>17 DEF NodeType
  <2>2. j # Idle
    BY JobIsBusy
  <2> QED BY <2>1, <2>2 DEF Busy
<1>20. NodeType'
  BY <1>1, <1>15, <1>17, <1>18, JobStep DEF NodeType
<1>21. ASSUME InStep
       PROVE  /\ Len(Content) <= Len(Content') /\ Len(Content') <= up.off
              /\ \A x \in 1..Len(Content') : Content'[x] \in {0, x}
              /\ \A x \in 1..up.off : Written(x) => Written(x)'
              /\ \A x \in 1..up.off : Pending(job[w], x) => Pending(job'[w], x) \/ Written(x)'
  <2>1. r \in OnTheWay
    BY <1>2, <1>3 DEF OnTheWay
  <2>2. /\ r.off + Len(r.body) <= up.off /\ (\A i \in 1..Len(r.body) : r.body[i] = r.off + i)
        /\ Len(s) <= up.off /\ \A x \in 1..Len(s) : s[x] \in {0, x}
    BY <1>21, <2>1, <1>10 DEF InPlace
  <2>3. up.off \in Nat /\ Len(s) \in Nat
    BY LenProperties DEF ClientType, Clients
  <2>4. t = Overlay(s, r.off + done, us)
    BY <1>9, <1>11
  <2>5. /\ Len(s) <= Len(t) /\ Len(t) <= up.off
        /\ \A x \in 1..Len(t) : t[x] \in {0, x}
        /\ \A x \in 1..Len(s) : s[x] = x => t[x] = x
        /\ \A x \in 1..up.off : r.off + done < x /\ x <= r.off + done + n => x <= Len(t) /\ t[x] = x
    <3>1. r.off \in Nat /\ r.body \in Seq(Nat) /\ done \in Nat /\ s \in Seq(Nat) /\ n \in Nat \ {0} /\ up.off \in Nat
          /\ done + n <= Len(r.body)
      BY <1>2, <1>3, <1>6, <1>10, <2>3
    <3>2. PICK from \in Nat, body \in Seq(Nat), top \in Nat : from = r.off /\ body = r.body /\ top = up.off
      BY <3>1
    <3>a. PICK lo, hi : lo = from + done /\ hi = lo + n
      OBVIOUS
    <3>3. /\ from + Len(body) <= top /\ Len(s) <= top /\ \A x \in 1..Len(s) : s[x] \in {0, x}
          /\ \A i \in 1..Len(body) : body[i] = from + i
          /\ done + n <= Len(body) /\ t = Overlay(s, lo, us)
      BY <2>2, <2>4, <3>1, <3>2, <3>a
    <3>4. us \in Seq(Nat) /\ Len(us) = n /\ \A i \in 1..n : us[i] = body[done + i]
      BY <1>8, <3>2
    <3>5. /\ Len(s) <= Len(t) /\ Len(t) <= top
          /\ \A x \in 1..Len(t) : t[x] \in {0, x}
          /\ \A x \in 1..Len(s) : s[x] = x => t[x] = x
          /\ \A x \in 1..top : from + done < x /\ x <= from + done + n => x <= Len(t) /\ t[x] = x
      <4>1. MoreOf(s, top, from, body, done, n, lo, hi, us, t)
        BY <1>10, <3>1, <3>2, <3>a, <3>3, <3>4 DEF MoreOf
      <4>2. Len(s) <= Len(t) /\ Len(t) <= top
        BY <4>1, OverlayInPlace
      <4>3. \A x \in 1..Len(t) : t[x] \in {0, x}
        BY <4>1, OverlayInPlace
      <4>4. \A x \in 1..Len(s) : s[x] = x => t[x] = x
        BY <4>1, OverlayInPlace
      <4>5. \A x \in 1..top : lo < x /\ x <= hi => x <= Len(t) /\ t[x] = x
        BY <4>1, OverlayInPlace
      <4> QED BY <4>2, <4>3, <4>4, <4>5, <3>a
    <3> QED BY <3>2, <3>5
  <2>6. ASSUME NEW x \in 1..up.off, x <= Len(s), s[x] = x PROVE x <= Len(t) /\ t[x] = x
    <3>1. x \in 1..Len(s) /\ x \in Int /\ Len(t) \in Nat
      BY <2>6, <2>3, <1>12, LenProperties
    <3>2. x <= Len(t)
      BY <2>6, <2>5, <3>1, <2>3
    <3> QED BY <2>5, <2>6, <3>1, <3>2
  <2>7. ASSUME NEW x \in 1..up.off, Within(r, done, x) PROVE Pending(j, x) \/ (x <= Len(t) /\ t[x] = x)
    <3>1. r.off + done < x /\ x <= r.off + Len(r.body) /\ x \in Nat
      BY <2>7, <2>3 DEF Within
    <3>2. CASE x <= r.off + done + n
      BY <2>5, <3>1, <3>2
    <3>3. CASE ~(x <= r.off + done + n)
      <4>1. r.off \in Nat /\ done \in Nat /\ n \in Nat /\ Len(r.body) \in Nat /\ x \in Nat
        BY <1>2, <1>3, <1>6, <3>1
      <4>2. r.off + (done + n) < x /\ done + n # Len(r.body)
        BY <3>1, <3>3, <4>1
      <4> QED BY <1>17, <3>1, <4>2 DEF Pending, Within
    <3> QED BY <3>2, <3>3
  <2>9. \A x : (Written(x) <=> x <= Len(s) /\ s[x] = x) /\ (Written(x)' <=> x <= Len(t) /\ t[x] = x)
    BY <1>10, <1>16 DEF Written
  <2>10. \A x : Pending(job[w], x) => Within(r, done, x)
    BY <1>2 DEF Pending
  <2>11. \A x \in 1..up.off : Written(x) => Written(x)'
    BY <2>6, <2>9
  <2>12. \A x \in 1..up.off : Pending(job[w], x) => Pending(job'[w], x) \/ Written(x)'
    BY <2>7, <2>9, <2>10, <1>19
  <2> QED BY <1>10, <1>16, <2>5, <2>11, <2>12
<1>22. Serving(w)
  BY <1>1, <1>2, <1>17, <1>19, <1>21 DEF Serving
<1> QED BY <1>20, <1>22

LEMMA NameCached ==
  ASSUME NodeType
  PROVE  /\ Hash[Name] \in CacheKeys
         /\ \A w \in Procs : cache[w] \in [CacheKeys -> CacheEntries] /\ DOMAIN cache[w] = CacheKeys
         /\ \A w \in Procs, k \in CacheKeys : cache[w][k] \in CacheEntries /\ cache[w][k].size \in Int
<1>1. Hash[Name] \in CacheKeys
  BY UploadAssumption DEF CacheKeys
<1>2. \A w \in Procs : cache[w] \in [CacheKeys -> CacheEntries]
  BY DEF NodeType
<1>3. \A e \in CacheEntries : e.size \in Int
  BY DEF CacheEntries
<1> QED BY <1>1, <1>2, <1>3

\* An answer to the question for the size, and what the worker keeps of it.
Tells(w, size) ==
  /\ size = IsADir \/ size = Len(Content) \/ \E k \in CacheKeys : cache[w][k].fresh /\ cache[w][k].size = size
  /\ job'[w].pc = "answer" /\ (job'[w].status = 200 => job'[w].size = size /\ size # IsADir)
  /\ \A v \in Procs : \A k \in CacheKeys : cache'[v][k].fresh =>
       (cache[v][k].fresh /\ cache'[v][k].size = cache[v][k].size) \/ (v = w /\ cache'[v][k].size = size)

LEMMA AskServes ==
  ASSUME NodeType, InPlace, NEW w \in Procs, StatCached(w)
  PROVE  NodeType' /\ Serving(w) /\ Sizing(w) /\ UNCHANGED <<entry, data>> /\ \E size \in Int : Tells(w, size)
<1>1. Busy(w) /\ job[w].pc = "cache" /\ job[w].req.method \in {"GET", "HEAD"} /\ UNCHANGED <<entry, data, faults>>
  BY DEF StatCached, At, Busy, Unchanged
<1>2. job[w] \in Jobs /\ JobFits(job[w]) /\ job[w].req = SizeRequest
  <2>1. job[w].req \notin Sections
    BY <1>1, RequestsDiffer
  <2> QED BY <1>1, <2>1, JobTyped
<1>3. job[w].req.path = Name /\ job[w].req.method = "HEAD" /\ Sizing(w) /\ ~AtSection(w)
  BY <1>1, <1>2 DEF SizeRequest, Sizing, AtSection
<1>4. entry[Name] \in Inodes \cup {Absent} /\ Absent \notin Inodes /\ Directory \notin Inodes /\ Len(Content) \in Nat
  BY ContentTyped
<1>5. PICK size : size = IF Hit(w, Name) THEN cache[w][Hash[Name]].size ELSE Stat(Name)
  OBVIOUS
<1>6. entry[Name] # Absent => Stat(Name) \in {IsADir, Len(Content)}
  BY <1>4 DEF Stat, IsDir, Content, IsADir, Directory, Absent
<1>7. Content' = Content
  BY <1>1 DEF Content
<1>8. CASE ~Hit(w, Name) /\ entry[Name] = Absent
  <2>1. Finish(w, 404) /\ UNCHANGED cache
    BY <1>3, <1>8 DEF StatCached
  <2>2. PICK j \in Jobs : /\ job' = [job EXCEPT ![w] = j] /\ j.req = job[w].req /\ j.pc = "answer"
                          /\ j.status = 404 /\ j.fd = NoFd /\ j.done = job[w].done
    BY <1>1, <2>1, Finishes
  <2>3. JobFits(j)'
    BY <1>2, <2>2 DEF JobFits
  <2>4. Busy(w)' /\ job'[w] = j
    BY <1>1, <2>2, <2>3, JobStep
  <2>5. Serving(w)
    BY <1>1, <1>3, <1>7, <2>2, <2>3, LeavesContent
  <2>6. NodeType'
    BY <1>1, <2>1, <2>2, <2>3, JobStep DEF NodeType
  <2>7. Tells(w, Len(Content))
    BY <2>1, <2>2, <2>4 DEF Tells
  <2> QED BY <1>1, <1>3, <1>4, <2>5, <2>6, <2>7
<1>9. CASE Hit(w, Name) \/ entry[Name] # Absent
  <2>1. size \in Int
    BY <1>4, <1>5, <1>6, <1>9, NameCached DEF IsADir
  <2>2. PICK status \in Nat : status = IF size = IsADir THEN 301 ELSE 200
    OBVIOUS
  <2>3. /\ job' = [job EXCEPT ![w].pc = "answer", ![w].status = status, ![w].size = size]
        /\ IF Hit(w, Name) THEN UNCHANGED cache
           ELSE cache' = [cache EXCEPT ![w][Hash[Name]] = Entered(w, Name)]
    BY <1>3, <1>5, <1>9, <2>2 DEF StatCached
  <2>4. PICK pc \in Writing \cup {"cache", "answer"} : pc = "answer"
    OBVIOUS
  <2>5. PICK j : j = [job[w] EXCEPT !.pc = pc, !.status = status, !.size = size]
    OBVIOUS
  <2>6. job' = [job EXCEPT ![w] = j]
    <3>1. job' = [job EXCEPT ![w].pc = pc, ![w].status = status, ![w].size = size]
      BY <2>3, <2>4
    <3> QED BY <2>5, <3>1 DEF NodeType
  <2>7. j \in Jobs
    <3>1. pc \in Writing \cup {"cache", "answer"} /\ status \in Nat
      BY <2>2, <2>4
    <3> QED BY <1>2, <2>1, <2>5, <3>1 DEF Jobs
  <2>8. j.req = job[w].req /\ j.pc = pc /\ j.status = status /\ j.fd = job[w].fd /\ j.done = job[w].done /\ j.size = size
    BY <1>2, <2>5 DEF Jobs
  <2>9. JobFits(j)'
    BY <1>1, <1>2, <2>4, <2>8 DEF JobFits
  <2>10. Busy(w)' /\ job'[w] = j
    <3>1. entry'[Name] = entry[Name]
      BY <1>1
    <3> QED BY <1>1, <2>6, <2>7, <2>9, <3>1, JobStep
  <2>11. Serving(w)
    BY <1>1, <1>3, <1>7, <2>6, <2>7, <2>8, <2>9, LeavesContent
  <2>12. /\ cache' \in [Procs -> [CacheKeys -> CacheEntries]]
         /\ \A v \in Procs : \A k \in CacheKeys : cache'[v][k].fresh =>
              (cache[v][k].fresh /\ cache'[v][k].size = cache[v][k].size) \/ (v = w /\ cache'[v][k].size = size)
    <3>1. CASE Hit(w, Name)
      BY <2>3, <3>1 DEF NodeType
    <3>2. CASE ~Hit(w, Name)
      <4>1. PICK e : e = Entered(w, Name)
        OBVIOUS
      <4>2. e \in CacheEntries /\ e.size = size
        <5>1. cache[w][Hash[Name]] \in CacheEntries
          BY NameCached
        <5> QED BY <1>5, <2>1, <3>2, <4>1, <5>1, UploadAssumption DEF Entered, CacheEntries
      <4>3. cache \in [Procs -> [CacheKeys -> CacheEntries]] /\ Hash[Name] \in CacheKeys
        BY NameCached DEF NodeType
      <4>4. cache' = [cache EXCEPT ![w][Hash[Name]] = e]
        BY <2>3, <3>2, <4>1
      <4>5. cache' \in [Procs -> [CacheKeys -> CacheEntries]]
        BY <4>2, <4>3, <4>4
      <4>6. ASSUME NEW v \in Procs, NEW k \in CacheKeys
            PROVE  cache'[v][k] = IF v = w /\ k = Hash[Name] THEN e ELSE cache[v][k]
        BY <4>3, <4>4
      <4> QED BY <4>2, <4>5, <4>6
    <3> QED BY <3>1, <3>2
  <2>13. NodeType'
    BY <1>1, <2>6, <2>7, <2>9, <2>12, JobStep DEF NodeType
  <2>14. Tells(w, size)
    <3>1. size = IsADir \/ size = Len(Content) \/ \E k \in CacheKeys : cache[w][k].fresh /\ cache[w][k].size = size
      BY <1>5, <1>6, <1>9, NameCached DEF Hit
    <3>2. job'[w].pc = "answer" /\ (job'[w].status = 200 => job'[w].size = size /\ size # IsADir)
      BY <2>2, <2>4, <2>8, <2>10
    <3> QED BY <2>12, <3>1, <3>2 DEF Tells
  <2> QED BY <1>1, <1>3, <2>1, <2>11, <2>13, <2>14
<1> QED BY <1>8, <1>9

\* A step of a worker: at a section it does not touch the cache, or it tells the size.
LEMMA StepServes ==
  ASSUME NodeType, InPlace, ClientType, NEW w \in Procs, WorkerStep(w)
  PROVE  /\ NodeType' /\ Serving(w)
         /\ \/ AtSection(w) /\ UNCHANGED cache
            \/ Sizing(w) /\ UNCHANGED <<entry, data>> /\ \E size \in Int : Tells(w, size)
<1>1. CASE OpenForPut(w) \/ CreateForPut(w) \/ (\E n \in 1..MaxBody : WriteBody(w, n)) \/ WriteFails(w)
  <2>1. Busy(w) /\ job[w].req.method = "PUT" /\ UNCHANGED cache
    BY <1>1 DEF OpenForPut, CreateForPut, WriteBody, WriteFails, At, Busy
  <2>2. AtSection(w)
    BY <2>1, SectionAt
  <2>3. NodeType' /\ Serving(w)
    BY <1>1, OpenServes, CreateServes, WriteServes, FailServes
  <2> QED BY <2>1, <2>2, <2>3
<1>2. CASE StatCached(w)
  BY <1>2, AskServes
<1> QED BY <1>1, <1>2, NodeMoves

-------------------------------------------------------------------------------
\* The client

LEMMA LastLabelIs ==
  ASSUME NEW at \in Nat, NEW left \in Nat \ {0}, left < Block, NEW k \in Nat, at = k * Block
  PROVE  ((at + left - 1) \div Block) * Block = at
<1>1. Block \in Nat \ {0}
  BY UploadAssumption
<1>2. PICK m \in Nat : m = left - 1 /\ m < Block
  BY <1>1
<1>3. (k * Block + m) \div Block = k
  BY <1>1, <1>2
<1>4. at + left - 1 = k * Block + m
  BY <1>2
<1> QED BY <1>3, <1>4

LEMMA WholeSections ==
  ASSUME NEW k \in Nat
  PROVE  (k * Block) % Block = 0 /\ k * Block + Block = (k + 1) * Block /\ k * Block \in Nat /\ k <= k * Block
<1>1. Block \in Nat \ {0}
  BY UploadAssumption
<1> QED BY <1>1

\* The fields after the end of a section.
LEMMA Ends ==
  ASSUME ClientType, NEW u \in Clients, u.left = up.left, 0 <= up.left, NEW isz \in Int, NEW e, e = EndSection(u, isz)
  PROVE  /\ e \in Clients /\ e.size = u.size /\ e.left = u.left - Block /\ e.at = u.at + SendSize /\ e.off = u.off
         /\ e.session = u.session /\ e.pc \in {"section", "err", "close"}
         /\ e.pc = "section" => up.left > Block
         /\ e.pc = "close" => up.left <= Block
<1>1. /\ up.left \in Int /\ SendSize = IF up.left <= Block THEN up.left ELSE Block
      /\ SendSize \in Nat /\ Block \in Nat \ {0}
  BY SendSizeIs
<1>2. PICK total \in Int : total = IF u.left = LoopNumber THEN -1 ELSE u.total + isz
  BY DEF Clients
<1>3. PICK pc : pc = IF ~(u.left = LoopNumber) /\ More(u.left) THEN "section" ELSE IF total < 0 THEN "err" ELSE "close"
  OBVIOUS
<1>4. PICK left \in Int, at \in Nat, one \in Nat : left = u.left - Block /\ at = u.at + SendSize /\ one = 1
  BY <1>1 DEF Clients
<1>5. e = [u EXCEPT !.total = total, !.left = left, !.at = at, !.tries = one, !.pc = pc]
  BY <1>2, <1>3, <1>4 DEF EndSection
<1>6. pc \in {"section", "err", "close"} /\ (pc = "section" => up.left > Block)
      /\ (pc = "close" => up.left <= Block)
  BY <1>1, <1>2, <1>3 DEF More
<1>7. pc \in {"open", "section", "recv", "close", "closing", "ok", "err"}
  BY <1>6
<1>8. e \in Clients
  BY <1>4, <1>5, <1>7 DEF Clients
<1>9. e.size = u.size /\ e.left = left /\ e.at = at /\ e.off = u.off /\ e.session = u.session /\ e.pc = pc
  BY <1>5 DEF Clients
<1> QED BY <1>4, <1>6, <1>8, <1>9

\* While sections go out, nobody has asked for the size.
LEMMA Early ==
  ASSUME OneQuestion, LengthKnown, up.pc \in {"open", "section", "recv"}
  PROVE  /\ tracker.key = OldFile /\ tracker.pc # "head" /\ SizeRequest \notin sent /\ ~Stored
         /\ \A w \in Procs : ~Sizing(w) /\ \A k \in CacheKeys : ~cache[w][k].fresh
<1>1. tracker.key = OldFile
  BY DEF OneQuestion
<1>2. tracker.pc # "head" /\ ~Stored
  BY <1>1 DEF OneQuestion, OldFile, NoFile, Stored
<1>3. SizeRequest \notin sent /\ \A w \in Procs : ~Sizing(w)
  BY <1>2 DEF OneQuestion
<1>4. \A w \in Procs, k \in CacheKeys : ~cache[w][k].fresh
  BY <1>1 DEF LengthKnown
<1> QED BY <1>1, <1>2, <1>3, <1>4

SameNode == UNCHANGED <<entry, data, job, cache>>

LEMMA NodeRests ==
  ASSUME NodeType, SameNode
  PROVE  /\ Content' = Content /\ (faults' \in Nat => NodeType')
         /\ \A w \in Procs : (Busy(w)' <=> Busy(w)) /\ (AtSection(w)' <=> AtSection(w)) /\ (Sizing(w)' <=> Sizing(w))
BY DEF SameNode, Content, NodeType, Busy, AtSection, Sizing, JobFits, Writing

LEMMA StillEarly ==
  ASSUME NodeType, OneQuestion, LengthKnown, SameNode, up.pc \in {"open", "section", "recv"},
         up'.pc \in {"section", "recv", "err", "close"}, SizeRequest \notin sent',
         tracker'.pc = tracker.pc, tracker'.key = tracker.key,
         up'.pc = "close" /\ LastServed' => Len(Content) = up'.size
  PROVE  OneQuestion' /\ LengthKnown'
<1>1. /\ tracker'.key = OldFile /\ tracker'.pc # "head"
      /\ \A w \in Procs : ~Sizing(w)' /\ \A k \in CacheKeys : ~cache'[w][k].fresh
  <2>1. \A w \in Procs : ~Sizing(w)' /\ cache' = cache
    BY Early, NodeRests DEF SameNode
  <2> QED BY <2>1, Early
<1>2. OneQuestion'
  BY <1>1 DEF OneQuestion, OldFile, NoFile, Stored
<1>3. Content' = Content
  BY NodeRests
<1>4. ~Stored'
  BY <1>1 DEF Stored, OldFile
<1>5. (up'.pc \in {"close", "closing", "ok"} \/ tracker'.key # OldFile) /\ LastServed' => Len(Content') = up'.size
  BY <1>1, <1>3
<1> QED BY <1>1, <1>2, <1>4, <1>5 DEF LengthKnown

LEMMA CreateOpenKeeps ==
  ASSUME UploadInv, CreateOpen
  PROVE  UploadInv'
<1> USE DEF UploadInv
<1>1. /\ up.pc = "open" /\ SameNode /\ UNCHANGED <<sent, lost>>
      /\ up' = [up EXCEPT !.pc = "section"] \/ up' = [up EXCEPT !.pc = "err", !.session = FALSE]
      /\ tracker' = tracker \/ tracker' = [tracker EXCEPT !.temp = TRUE]
      /\ faults' = faults \/ faults' = faults + 1
  BY DEF CreateOpen, SameNode, Fault
<1>2. up' \in Clients /\ tracker'.pc = tracker.pc /\ tracker'.key = tracker.key /\ ClientType'
  BY <1>1 DEF ClientType, Clients
<1>3. /\ up'.size = up.size /\ up'.left = up.left /\ up'.at = up.at /\ up'.off = up.off
      /\ up'.pc = "section" \/ up'.pc = "err"
  BY <1>1 DEF ClientType, Clients
<1>4. up.left = up.size /\ up.at = 0 /\ up.off = 0 /\ up.size \in Nat
  BY <1>1, SendSizeIs DEF Position
<1>5. NodeType' /\ Content' = Content /\ OnTheWay' = OnTheWay
  <2>1. faults' \in Nat
    BY <1>1 DEF NodeType
  <2> QED BY <1>1, <2>1, NodeRests DEF OnTheWay, SameNode, AtSection, Busy
<1>6. InStep' /\ InStep
  BY <1>1, <1>3, <1>4 DEF InStep
<1>7. Position'
  <2>1. \E k \in 0..up'.at : up'.at = k * Block
    <3>1. Block \in Nat
      BY UploadAssumption
    <3> QED BY <1>3, <1>4, <3>1
  <2> QED BY <1>3, <1>4, <1>6, <2>1 DEF Position
<1>8. Labels'
  BY <1>1, <1>3, <1>5 DEF Labels, Apart
<1>9. InPlace' /\ Accounted'
  <2>1. InPlace'
    BY <1>1, <1>3, <1>5, <1>6 DEF InPlace
  <2>2. Accounted'
    <3>1. up'.off = 0
      BY <1>3, <1>4
    <3> QED BY <3>1 DEF Accounted
  <2> QED BY <2>1, <2>2
<1>10. OneQuestion' /\ LengthKnown'
  <2>1. SizeRequest \notin sent'
    BY <1>1, Early
  <2> QED BY <1>1, <1>2, <1>3, <2>1, StillEarly
<1> QED BY <1>2, <1>5, <1>7, <1>8, <1>9, <1>10

\* The section that is sent.
LEMMA SectionIs ==
  ASSUME ClientType, 0 <= up.left
  PROVE  /\ Section \in Sections /\ Section.off = up.at /\ Len(Section.body) = SendSize
         /\ \A i \in 1..SendSize : Section.body[i] = up.off + i
<1>1. SendSize \in Nat /\ SendSize <= Block /\ up.off \in Nat /\ up.at \in Nat
  BY SendSizeIs
<1>2. PICK n \in Nat, f \in Nat : n = SendSize /\ f = up.off
  BY <1>1
<1>3. PICK b : b = [i \in 1..n |-> f + i]
  OBVIOUS
<1>4. \A i \in 1..n : f + i \in Nat
  OBVIOUS
<1>5. b \in Seq(Nat) /\ Len(b) = n /\ \A i \in 1..n : b[i] = f + i
  BY <1>3, <1>4
<1>6. Section = [method |-> "PUT", path |-> Name, off |-> up.at, to |-> Name, overwrite |-> TRUE, body |-> b]
  BY <1>2, <1>3 DEF Section, Byte
<1>7. Section.body = b /\ Section.off = up.at
  BY <1>6
<1>8. Section \in Sections
  BY <1>1, <1>2, <1>5, <1>6 DEF Sections
<1> QED BY <1>2, <1>5, <1>7, <1>8

\* After whole sections comes no answer that has been awaited.
LEMMA NoLastOne ==
  ASSUME NEW size \in Nat, NEW n \in Nat, size = n * Block, size % Block # 0
  PROVE  FALSE
BY WholeSections

\* What a section changes for the labels behind it.
LEMMA LabelsMove ==
  ASSUME ClientType, Labels, 0 <= up.left, NEW o \in lost, up'.left = up.left - Block, up'.at = up.at + SendSize
  PROVE  Apart(o)'
<1>1. /\ up.left \in Int /\ SendSize = IF up.left <= Block THEN up.left ELSE Block
      /\ SendSize \in Int /\ Block \in Nat \ {0} /\ up.at \in Nat /\ o \in Nat
  BY SendSizeIs DEF ClientType
<1>2. o + Block <= up.at \/ o = up.at \/ (up.left <= 0 /\ o = up.at - (up.left + Block))
  BY DEF Labels, Apart
<1>3. PICK left \in Int, at \in Nat, b \in Nat \ {0}, n \in Int :
         left = up.left /\ at = up.at /\ b = Block /\ n = SendSize
  BY <1>1
<1>4. o + b <= at + n \/ (left - b <= 0 /\ o = at + n - ((left - b) + b))
  BY <1>1, <1>2, <1>3
<1> QED BY <1>3, <1>4 DEF Apart

LEMMA LabelHere ==
  ASSUME ClientType, 0 <= up.left, up'.left = up.left - Block, up'.at = up.at + SendSize, NEW o, o = up.at
  PROVE  Apart(o)'
<1>1. /\ up.left \in Int /\ SendSize = IF up.left <= Block THEN up.left ELSE Block
      /\ SendSize \in Int /\ Block \in Nat \ {0} /\ up.at \in Nat
  BY SendSizeIs
<1>3. PICK left \in Int, at \in Nat, b \in Nat \ {0}, n \in Int :
         left = up.left /\ at = up.at /\ b = Block /\ n = SendSize
  BY <1>1
<1>4. at + b <= at + n \/ (left - b <= 0 /\ at = at + n - ((left - b) + b))
  BY <1>1, <1>3
<1> QED BY <1>3, <1>4 DEF Apart

\* Where the client is after the end of a section.
LEMMA PositionMoves ==
  ASSUME UploadInv, up.pc \in {"section", "recv"}, up' \in Clients,
         up'.size = up.size, up'.left = up.left - Block, up'.at = up.at + SendSize,
         up'.pc \in {"section", "err", "close"}, up'.pc = "section" => up.left > Block,
         up'.pc = "close" => up.left <= Block,
         up'.off <= up'.at, lost' = {} => InStep'
  PROVE  Position'
<1>1. /\ up.left \in Int /\ SendSize = IF up.left <= Block THEN up.left ELSE Block
      /\ Block \in Nat \ {0} /\ up.at \in Nat /\ up.size \in Nat
  BY SendSizeIs DEF UploadInv
<1>2. PICK k \in Nat : /\ up.left >= 0 /\ up.at = up.size - up.left /\ up.at = k * Block
  BY DEF UploadInv, Position
<1>3. up'.at <= up'.size /\ (up'.pc = "close" => up'.at = up'.size)
  BY <1>1, <1>2
<1>4. up'.pc = "section" => up'.left >= 0 /\ up'.at = up'.size - up'.left /\ \E m \in 0..up'.at : up'.at = m * Block
  <2> SUFFICES ASSUME up'.pc = "section"
               PROVE  up'.left >= 0 /\ up'.at = up'.size - up'.left /\ \E m \in 0..up'.at : up'.at = m * Block
    OBVIOUS
  <2>1. up.left > Block /\ SendSize = Block
    BY <1>1
  <2>2. up'.left >= 0 /\ up'.at = up'.size - up'.left
    BY <1>1, <1>2, <2>1
  <2>3. up'.at = (k + 1) * Block /\ up'.at \in Nat /\ k + 1 <= up'.at
    <3>1. k * Block + Block = (k + 1) * Block /\ (k + 1) * Block \in Nat /\ k + 1 <= (k + 1) * Block
      BY WholeSections
    <3> QED BY <1>2, <2>1, <3>1
  <2>4. k + 1 \in 0..up'.at
    BY <2>3
  <2> QED BY <2>2, <2>3, <2>4
<1>5. up'.off <= up'.at + IF up'.pc = "recv" THEN SendSize' ELSE 0
  BY <1>1
<1> QED BY <1>3, <1>4, <1>5 DEF Position

LEMMA SendSectionKeeps ==
  ASSUME UploadInv, SendSection
  PROVE  UploadInv'
<1> USE DEF UploadInv
<1>1. up.pc = "section" /\ sent' = sent \cup {Section} /\ SameNode /\ UNCHANGED <<tracker, lost, faults>>
  BY DEF SendSection, NodeUnchanged, nodeVars, SameNode
<1>2. /\ up.left \in Int /\ SendSize = IF up.left <= Block THEN up.left ELSE Block
      /\ Block \in Nat \ {0} /\ up.at \in Nat /\ up.off \in Nat /\ up.size \in Nat
  BY SendSizeIs
<1>3. 0 <= up.left /\ up.at = up.size - up.left /\ up.off <= up.at
  BY <1>1, <1>2 DEF Position
<1>4. PICK n \in Nat : n = SendSize /\ n <= Block /\ n <= up.left
  BY <1>2, <1>3
<1>5. PICK r \in Sections : /\ r = Section /\ r.off = up.at /\ Len(r.body) = n
                            /\ \A i \in 1..n : r.body[i] = up.off + i
  BY <1>3, <1>4, SectionIs
<1>6. r # SizeRequest
  BY RequestsDiffer
<1>7. PICK off \in Nat : off = up.off + n
  BY <1>2
<1>8. PICK u \in Clients : /\ u = [up EXCEPT !.off = off] /\ u.size = up.size /\ u.left = up.left /\ u.at = up.at
                           /\ u.off = off /\ u.pc = up.pc /\ u.session = up.session
  <2>1. PICK v : v = [up EXCEPT !.off = off]
    OBVIOUS
  <2>2. v \in Clients
    BY <1>7, <2>1 DEF ClientType, Clients
  <2>3. /\ v.size = up.size /\ v.left = up.left /\ v.at = up.at
        /\ v.off = off /\ v.pc = up.pc /\ v.session = up.session
    BY <2>1 DEF ClientType, Clients
  <2> QED BY <2>1, <2>2, <2>3
<1>9. up' = IF n # Block THEN [u EXCEPT !.pc = "recv"] ELSE EndSection(u, n)
  BY <1>4, <1>7, <1>8 DEF SendSection
<1>10. Content' = Content /\ NodeType' /\ OnTheWay' = OnTheWay \cup {r}
  <2>1. faults' \in Nat
    BY <1>1 DEF NodeType
  <2> QED BY <1>1, <1>5, <1>6, <2>1, NodeRests DEF OnTheWay, SameNode, AtSection, Busy
<1>11. \/ /\ n # Block /\ up'.pc = "recv" /\ up'.size = up.size /\ up'.left = up.left /\ up'.at = up.at
          /\ up'.off = off /\ up' \in Clients
       \/ /\ n = Block /\ up'.size = up.size /\ up'.left = up.left - Block /\ up'.at = up.at + n /\ up'.off = off
          /\ up'.pc \in {"section", "err", "close"} /\ (up'.pc = "section" => up.left > Block) /\ up' \in Clients
          /\ (up'.pc = "close" => up.left <= Block)
  <2>1. CASE n # Block
    <3>1. up' = [u EXCEPT !.pc = "recv"]
      BY <1>9, <2>1
    <3> QED BY <1>8, <2>1, <3>1 DEF Clients
  <2>2. CASE n = Block
    <3>1. up' = EndSection(u, n)
      BY <1>9, <2>2
    <3>2. u \in Clients /\ u.left = up.left /\ n \in Int
      BY <1>8
    <3>3. /\ up' \in Clients /\ up'.size = u.size /\ up'.left = u.left - Block /\ up'.at = u.at + SendSize
          /\ up'.off = u.off /\ up'.pc \in {"section", "err", "close"}
          /\ (up'.pc = "section" => up.left > Block) /\ (up'.pc = "close" => up.left <= Block)
      BY <1>3, <3>1, <3>2, Ends
    <3> QED BY <1>4, <1>8, <2>2, <3>3
  <2> QED BY <2>1, <2>2
<1>12. InStep' <=> InStep
  <2>1. InStep <=> up.off = up.at
    BY <1>1, <1>2 DEF InStep
  <2>2. CASE n # Block /\ up'.pc = "recv" /\ up'.left = up.left /\ up'.at = up.at /\ up'.off = off
    <3>1. SendSize' = n
      BY <1>4, <2>2 DEF SendSize
    <3> QED BY <1>2, <1>7, <2>1, <2>2, <3>1 DEF InStep
  <2>3. CASE up'.pc # "recv" /\ up'.at = up.at + n /\ up'.off = off
    BY <1>2, <1>7, <2>1, <2>3 DEF InStep
  <2> QED BY <1>11, <2>2, <2>3
<1>13. ClientType'
  BY <1>1, <1>5, <1>11 DEF ClientType
<1>14. Position'
  <2>1. CASE n # Block
    <3>1. SendSize' = n /\ n = up.left
      BY <1>2, <1>4, <1>11, <2>1 DEF SendSize
    <3>2. up'.left < Block /\ up'.left >= 0
      BY <1>2, <1>3, <1>4, <1>11, <2>1, <3>1
    <3> QED BY <1>1, <1>2, <1>3, <1>4, <1>7, <1>11, <1>12, <2>1, <3>1, <3>2 DEF Position
  <2>2. CASE n = Block
    <3>1. up'.off <= up'.at
      BY <1>2, <1>3, <1>7, <1>11, <2>2
    <3>2. lost' = {} => InStep'
      BY <1>1, <1>12 DEF Position
    <3> QED BY <1>1, <1>4, <1>11, <2>2, <3>1, <3>2, PositionMoves
  <2> QED BY <2>1, <2>2
<1>15. Labels'
  <2>1. ASSUME NEW q \in OnTheWay' PROVE (Len(q.body) = Block /\ q.off + Block <= up'.at) \/ (q.off = up'.at /\ up'.pc = "recv")
    <3>1. CASE q = r
      BY <1>2, <1>4, <1>5, <1>11, <3>1
    <3>2. CASE q # r
      <4>1. Len(q.body) = Block /\ q.off + Block <= up.at
        BY <1>1, <1>10, <3>2 DEF Labels
      <4>2. q \in Sections
        BY <1>10, <3>2, JobTyped DEF OnTheWay, ClientType, AtSection
      <4>3. up'.at \in Nat /\ up.at <= up'.at /\ q.off \in Nat
        BY <1>2, <1>4, <1>11, <4>2, RequestsDiffer
      <4> QED BY <1>2, <4>1, <4>3
    <3> QED BY <3>1, <3>2
  <2>2. ASSUME NEW o \in lost PROVE Apart(o)'
    <3>1. CASE n # Block
      BY <1>11, <3>1 DEF Labels, Apart
    <3>2. CASE n = Block
      <4>1. up'.left = up.left - Block /\ up'.at = up.at + SendSize
        BY <1>4, <1>11, <3>2
      <4> QED BY <1>3, <4>1, LabelsMove
    <3> QED BY <3>1, <3>2
  <2> QED BY <1>1, <2>1, <2>2 DEF Labels
<1>16. up'.off = off /\ up.off <= off
  BY <1>2, <1>7, <1>11
<1>17. InPlace'
  <2> SUFFICES ASSUME InStep
               PROVE  /\ Len(Content) <= off /\ \A x \in 1..Len(Content) : Content[x] \in {0, x}
                      /\ \A q \in OnTheWay \cup {r} :
                           q.off + Len(q.body) <= off /\ \A i \in 1..Len(q.body) : q.body[i] = q.off + i
    BY <1>10, <1>12, <1>16 DEF InPlace
  <2>1. up.off = up.at
    BY <1>1, <1>2 DEF InStep
  <2>2. Len(Content) <= off /\ \A x \in 1..Len(Content) : Content[x] \in {0, x}
    <3>1. Len(Content) \in Nat
      BY ContentTyped
    <3> QED BY <1>2, <1>16, <3>1 DEF InPlace
  <2>3. ASSUME NEW q \in OnTheWay PROVE q.off + Len(q.body) <= off /\ \A i \in 1..Len(q.body) : q.body[i] = q.off + i
    <3>1. q.off + Len(q.body) <= up.off /\ \A i \in 1..Len(q.body) : q.body[i] = q.off + i
      BY DEF InPlace
    <3>2. q \in Sections
      BY JobTyped DEF OnTheWay, ClientType, AtSection
    <3>3. q.off \in Nat /\ Len(q.body) \in Nat
      BY <3>2, RequestsDiffer
    <3> QED BY <1>2, <1>16, <3>1, <3>3
  <2>4. r.off + Len(r.body) <= off /\ \A i \in 1..Len(r.body) : r.body[i] = r.off + i
    BY <1>2, <1>5, <1>7, <2>1
  <2> QED BY <2>2, <2>3, <2>4
<1>18. Accounted'
  <2> SUFFICES ASSUME InStep, NEW x \in 1..off
               PROVE  \/ Written(x)'
                      \/ \E q \in sent' : q # SizeRequest /\ Within(q, 0, x)
                      \/ \E w \in Procs : AtSection(w)' /\ Pending(job'[w], x)
                      \/ \E o \in lost' : o < x /\ x <= o + Block
    BY <1>12, <1>16 DEF Accounted
  <2>1. CASE x <= up.off
    <3>1. x \in 1..up.off
      BY <1>2, <2>1
    <3>2. \/ Written(x)
          \/ \E q \in sent : q # SizeRequest /\ Within(q, 0, x)
          \/ \E w \in Procs : AtSection(w) /\ Pending(job[w], x)
          \/ \E o \in lost : o < x /\ x <= o + Block
      BY <3>1 DEF Accounted
    <3>3. Written(x)' <=> Written(x)
      BY <1>10 DEF Written
    <3>4. job' = job /\ \A w \in Procs : AtSection(w)' <=> AtSection(w)
      BY <1>1, NodeRests DEF SameNode
    <3> QED BY <1>1, <3>2, <3>3, <3>4
  <2>2. CASE ~(x <= up.off)
    <3>1. up.off = up.at
      BY <1>1, <1>2 DEF InStep
    <3>2. Within(r, 0, x)
      BY <1>2, <1>5, <1>7, <2>2, <3>1 DEF Within
    <3> QED BY <1>1, <1>5, <1>6, <3>2
  <2> QED BY <2>1, <2>2
<1>19. OneQuestion' /\ LengthKnown'
  <2>1. SizeRequest \notin sent'
    BY <1>1, <1>5, <1>6, Early
  <2>2. ~(up'.pc = "close" /\ LastServed')
    <3> SUFFICES ASSUME up'.pc = "close", up'.size % Block # 0 PROVE FALSE
      BY DEF LastServed
    <3>1. n = Block /\ up.left = Block /\ up'.size = up.size
      BY <1>2, <1>4, <1>11
    <3>2. PICK k \in Nat : up.at = k * Block
      BY <1>1 DEF Position
    <3>3. up.size = (k + 1) * Block
      BY <1>2, <1>3, <3>1, <3>2, WholeSections
    <3>4. k + 1 \in Nat
      OBVIOUS
    <3> QED BY <1>2, <3>1, <3>3, <3>4, NoLastOne
  <2> QED BY <1>1, <1>11, <2>1, <2>2, StillEarly
<1> QED BY <1>10, <1>13, <1>14, <1>15, <1>17, <1>18, <1>19

LEMMA UnderWay ==
  ASSUME NodeType, ClientType, NEW q \in OnTheWay
  PROVE  q \in Sections /\ q.off \in Nat /\ Len(q.body) \in Nat /\ q.off \in Unanswered
<1>1. q \in Sections
  BY JobTyped DEF OnTheWay, ClientType, AtSection
<1>2. q \in {r \in sent \cup {job[w].req : w \in {v \in Procs : job[v] # Idle}} : r # SizeRequest}
  BY DEF OnTheWay, AtSection, Busy
<1>3. q.off \in Unanswered
  BY <1>2 DEF Unanswered
<1> QED BY <1>1, <1>3, RequestsDiffer

LEMMA LabelsMoved ==
  ASSUME NodeType, ClientType, Labels, 0 <= up.left, OnTheWay' = OnTheWay,
         up.pc # "recv" \/ up.at \notin Unanswered,
         up'.left = up.left - Block, up'.at = up.at + SendSize, lost' \subseteq lost \cup {up.at}
  PROVE  Labels'
<1>1. ASSUME NEW o \in lost' PROVE Apart(o)'
  <2>1. CASE o = up.at
    BY <2>1, LabelHere
  <2>2. CASE o # up.at
    <3>1. o \in lost
      BY <2>2
    <3> QED BY <3>1, LabelsMove
  <2> QED BY <2>1, <2>2
<1>2. ASSUME NEW q \in OnTheWay PROVE Len(q.body) = Block /\ q.off + Block <= up'.at
  <2>1. q.off \in Nat /\ q.off \in Unanswered
    BY UnderWay
  <2>2. Len(q.body) = Block /\ q.off + Block <= up.at
    BY <2>1 DEF Labels
  <2>3. /\ SendSize = IF up.left <= Block THEN up.left ELSE Block
        /\ Block \in Nat \ {0} /\ up.at \in Nat /\ up.left \in Int
    BY SendSizeIs
  <2> QED BY <2>1, <2>2, <2>3
<1> QED BY <1>1, <1>2 DEF Labels

LEMMA ReadAnswerKeeps ==
  ASSUME UploadInv, ReadAnswer
  PROVE  UploadInv'
<1> USE DEF UploadInv
<1>1. /\ up.pc = "recv" /\ up.at \notin Unanswered /\ SameNode /\ UNCHANGED <<tracker, sent, lost, faults>>
      /\ up' = EndSection(up, SendSize)
  BY DEF ReadAnswer, NodeUnchanged, nodeVars, SameNode
<1>2. /\ up.left \in Int /\ SendSize = IF up.left <= Block THEN up.left ELSE Block
      /\ Block \in Nat \ {0} /\ up.at \in Nat /\ up.off \in Nat /\ up.size \in Nat /\ SendSize \in Int
  BY SendSizeIs
<1>3. PICK k \in Nat : /\ 0 <= up.left /\ up.at = up.size - up.left /\ up.left < Block /\ up.at = k * Block
                       /\ up.off <= up.at + SendSize
  <2>1. PICK k \in 0..up.at : up.at = k * Block
    BY <1>1 DEF Position
  <2>2. 0 <= up.left /\ up.at = up.size - up.left /\ up.left < Block /\ up.off <= up.at + SendSize
    BY <1>1, <1>2 DEF Position
  <2> QED BY <1>2, <2>1, <2>2
<1>4. SendSize = up.left
  BY <1>2, <1>3
<1>5. /\ up' \in Clients /\ up'.size = up.size /\ up'.left = up.left - Block /\ up'.at = up.at + SendSize
      /\ up'.off = up.off /\ up'.pc \in {"err", "close"}
  <2>1. up \in Clients
    BY DEF ClientType
  <2>2. /\ up' \in Clients /\ up'.size = up.size /\ up'.left = up.left - Block /\ up'.at = up.at + SendSize
        /\ up'.off = up.off /\ up'.pc \in {"section", "err", "close"} /\ (up'.pc = "section" => up.left > Block)
    BY <1>1, <1>2, <1>3, <2>1, Ends
  <2> QED BY <1>2, <1>3, <2>2
<1>6. Content' = Content /\ NodeType' /\ OnTheWay' = OnTheWay
  <2>1. faults' \in Nat
    BY <1>1 DEF NodeType
  <2> QED BY <1>1, <2>1, NodeRests DEF OnTheWay, SameNode, AtSection, Busy
<1>7. InStep' <=> InStep
  BY <1>1, <1>2, <1>5 DEF InStep
<1>8. ClientType'
  BY <1>1, <1>5 DEF ClientType
<1>9. Position'
  <2>1. up'.off <= up'.at /\ up.left <= Block
    BY <1>2, <1>3, <1>5
  <2>2. lost' = {} => InStep'
    BY <1>1, <1>7 DEF Position
  <2> QED BY <1>1, <1>5, <2>1, <2>2, PositionMoves
<1>10. Labels'
  BY <1>1, <1>3, <1>5, <1>6, LabelsMoved
<1>11. InPlace'
  BY <1>5, <1>6, <1>7 DEF InPlace
<1>12. Accounted'
  <2>1. \A x : Written(x)' <=> Written(x)
    BY <1>6 DEF Written
  <2>2. job' = job /\ \A w \in Procs : AtSection(w)' <=> AtSection(w)
    BY <1>1, NodeRests DEF SameNode
  <2> QED BY <1>1, <1>5, <1>7, <2>1, <2>2 DEF Accounted
<1>13. ASSUME up'.pc = "close", LastServed' PROVE Len(Content) = up'.size
  <2>1. InStep /\ up.size % Block # 0 /\ LastLabel' \notin lost
    BY <1>1, <1>5, <1>7, <1>13 DEF LastServed
  <2>2. up.left # 0
    <3> SUFFICES ASSUME up.left = 0 PROVE FALSE
      OBVIOUS
    <3>1. up.size = k * Block
      BY <1>2, <1>3
    <3> QED BY <1>2, <2>1, <3>1, NoLastOne
  <2>3. LastLabel' = up.at
    <3>1. up.left \in Nat \ {0} /\ up.size = up.at + up.left
      BY <1>2, <1>3, <2>2
    <3>2. ((up.at + up.left - 1) \div Block) * Block = up.at
      BY <1>2, <1>3, <3>1, LastLabelIs
    <3>3. up'.size - 1 = up.at + up.left - 1
      BY <1>2, <1>5, <3>1
    <3> QED BY <3>2, <3>3 DEF LastLabel
  <2>4. up.off = up.size /\ up.size \in 1..up.off /\ up.at < up.size
    BY <1>1, <1>2, <1>3, <1>4, <2>1, <2>2 DEF InStep
  <2>5. Len(Content) \in Nat /\ Len(Content) <= up.size
    BY <2>1, <2>4, ContentTyped DEF InPlace
  <2>6. ASSUME NEW q \in OnTheWay PROVE q.off + Len(q.body) < up.size /\ Len(q.body) \in Nat /\ q.off \in Nat
    <3>1. q.off \in Nat /\ q.off \in Unanswered /\ Len(q.body) \in Nat
      BY UnderWay
    <3>2. Len(q.body) = Block /\ q.off + Block <= up.at
      BY <1>1, <3>1 DEF Labels
    <3> QED BY <1>2, <2>4, <3>1, <3>2
  <2>7. ~\E q \in sent : q # SizeRequest /\ Within(q, 0, up.size)
    <3> SUFFICES ASSUME NEW q \in sent, q # SizeRequest, Within(q, 0, up.size) PROVE FALSE
      OBVIOUS
    <3>1. q \in OnTheWay
      BY DEF OnTheWay
    <3>2. q.off + Len(q.body) < up.size /\ Len(q.body) \in Nat /\ q.off \in Nat
      BY <2>6, <3>1
    <3> QED BY <1>2, <3>2 DEF Within
  <2>8. ~\E w \in Procs : AtSection(w) /\ Pending(job[w], up.size)
    <3> SUFFICES ASSUME NEW w \in Procs, AtSection(w), Pending(job[w], up.size) PROVE FALSE
      OBVIOUS
    <3>1. job[w].req \in OnTheWay
      BY DEF OnTheWay
    <3>2. job[w].req.off + Len(job[w].req.body) < up.size /\ Len(job[w].req.body) \in Nat /\ job[w].req.off \in Nat
      BY <2>6, <3>1
    <3> QED BY <1>2, <3>2 DEF Pending, Within
  <2>9. ~\E o \in lost : o < up.size /\ up.size <= o + Block
    <3> SUFFICES ASSUME NEW o \in lost, o < up.size, up.size <= o + Block PROVE FALSE
      OBVIOUS
    <3>1. o + Block <= up.at \/ o = up.at
      BY <1>2, <1>3, <2>2 DEF Labels, Apart
    <3>2. o # up.at /\ o \in Nat
      BY <1>1, <2>1, <2>3 DEF ClientType
    <3> QED BY <1>2, <2>4, <3>1, <3>2
  <2>10. Written(up.size)
    BY <2>1, <2>4, <2>7, <2>8, <2>9 DEF Accounted
  <2> QED BY <1>2, <1>5, <2>5, <2>10 DEF Written
<1>14. OneQuestion' /\ LengthKnown'
  <2>1. SizeRequest \notin sent'
    BY <1>1, Early
  <2> QED BY <1>1, <1>5, <1>13, <2>1, StillEarly
<1> QED BY <1>6, <1>8, <1>9, <1>10, <1>11, <1>12, <1>14

\* A section of which not all was sent: from there on the client is behind its labels.
LEMMA SendShortKeeps ==
  ASSUME UploadInv, NEW n \in 1..Block, SendShort(n)
  PROVE  UploadInv'
<1> USE DEF UploadInv
<1>1. /\ up.pc = "section" /\ n \in 1..(SendSize - 1) /\ SameNode /\ UNCHANGED <<tracker, sent>>
      /\ lost' = lost \cup {up.at} /\ faults' = faults + 1
      /\ up' = EndSection([up EXCEPT !.off = @ + n], n)
  BY DEF SendShort, Fault, SameNode
<1>2. /\ up.left \in Int /\ SendSize = IF up.left <= Block THEN up.left ELSE Block
      /\ Block \in Nat \ {0} /\ up.at \in Nat /\ up.off \in Nat /\ up.size \in Nat /\ SendSize \in Int
  BY SendSizeIs
<1>3. 0 <= up.left /\ up.at = up.size - up.left /\ up.off <= up.at
  BY <1>1, <1>2 DEF Position
<1>4. PICK off \in Nat : off = up.off + n /\ off < up.at + SendSize
  BY <1>1, <1>2, <1>3
<1>5. PICK u : u = [up EXCEPT !.off = off]
  OBVIOUS
<1>6. u \in Clients
  BY <1>4, <1>5 DEF ClientType, Clients
<1>7. u.size = up.size /\ u.left = up.left /\ u.at = up.at /\ u.off = off /\ u.session = up.session
  BY <1>5 DEF ClientType, Clients
<1>8. /\ up' \in Clients /\ up'.size = up.size /\ up'.left = up.left - Block /\ up'.at = up.at + SendSize
      /\ up'.off = off /\ up'.pc \in {"section", "err", "close"} /\ (up'.pc = "section" => up.left > Block)
      /\ (up'.pc = "close" => up.left <= Block)
  <2>1. up' = EndSection(u, n) /\ n \in Int
    BY <1>1, <1>2, <1>4, <1>5
  <2>2. /\ up' \in Clients /\ up'.size = u.size /\ up'.left = u.left - Block /\ up'.at = u.at + SendSize
        /\ up'.off = u.off /\ up'.pc \in {"section", "err", "close"} /\ (up'.pc = "section" => up.left > Block)
        /\ (up'.pc = "close" => up.left <= Block)
    BY <1>3, <1>6, <1>7, <2>1, Ends
  <2> QED BY <1>7, <2>2
<1>9. ~InStep'
  BY <1>2, <1>4, <1>8 DEF InStep
<1>10. Content' = Content /\ NodeType' /\ OnTheWay' = OnTheWay
  <2>1. faults' \in Nat
    BY <1>1 DEF NodeType
  <2> QED BY <1>1, <2>1, NodeRests DEF OnTheWay, SameNode, AtSection, Busy
<1>11. ClientType'
  BY <1>1, <1>2, <1>8 DEF ClientType
<1>12. Position'
  <2>1. up'.off <= up'.at
    BY <1>2, <1>4, <1>8
  <2> QED BY <1>1, <1>8, <2>1, PositionMoves
<1>13. Labels'
  BY <1>1, <1>3, <1>8, <1>10, LabelsMoved
<1>14. InPlace' /\ Accounted'
  BY <1>9 DEF InPlace, Accounted
<1>15. OneQuestion' /\ LengthKnown'
  <2>1. SizeRequest \notin sent'
    BY <1>1, Early
  <2> QED BY <1>1, <1>8, <1>9, <2>1, StillEarly DEF LastServed
<1> QED BY <1>10, <1>11, <1>12, <1>13, <1>14, <1>15

LEMMA SendFailsKeeps ==
  ASSUME UploadInv, SendFails
  PROVE  UploadInv'
<1> USE DEF UploadInv
<1>1. /\ up.pc = "section" /\ SameNode /\ UNCHANGED <<tracker, sent>> /\ faults' \in Nat
      /\ \/ up' = Retried(up) /\ lost' = lost
         \/ up' = EndSection(up, -1) /\ lost' = lost \cup {up.at}
  BY DEF SendFails, Fault, SameNode, NodeType
<1>2. /\ up.left \in Int /\ SendSize = IF up.left <= Block THEN up.left ELSE Block
      /\ Block \in Nat \ {0} /\ up.at \in Nat /\ up.off \in Nat /\ up.size \in Nat /\ SendSize \in Int
  BY SendSizeIs
<1>3. PICK k \in Nat : 0 <= up.left /\ up.at = up.size - up.left /\ up.off <= up.at /\ up.at = k * Block
  BY <1>1, <1>2 DEF Position
<1>4. Content' = Content /\ NodeType' /\ OnTheWay' = OnTheWay
  BY <1>1, NodeRests DEF OnTheWay, SameNode, AtSection, Busy
<1>5. \A x : Written(x)' <=> Written(x)
  BY <1>4 DEF Written
<1>6. job' = job /\ \A w \in Procs : AtSection(w)' <=> AtSection(w)
  BY <1>1, NodeRests DEF SameNode
<1>7. SizeRequest \notin sent'
  BY <1>1, Early
<1>8. CASE up' = Retried(up) /\ lost' = lost
  <2>1. /\ up' \in Clients /\ up'.size = up.size /\ up'.left = up.left /\ up'.at = up.at /\ up'.off = up.off
        /\ up'.pc = up.pc
    BY <1>8 DEF Retried, ClientType, Clients
  <2>2. InStep' <=> InStep
    BY <1>1, <2>1 DEF InStep
  <2>3. ClientType' /\ Position'
    <3>1. ClientType'
      BY <1>1, <1>8, <2>1 DEF ClientType
    <3>2. Position'
      BY <1>1, <1>8, <2>1, <2>2 DEF Position
    <3> QED BY <3>1, <3>2
  <2>4. Labels' /\ InPlace' /\ Accounted'
    <3>1. Labels'
      BY <1>4, <1>8, <2>1 DEF Labels, Apart
    <3>2. InPlace'
      BY <1>4, <2>1, <2>2 DEF InPlace
    <3>3. Accounted'
      BY <1>1, <1>5, <1>6, <1>8, <2>1, <2>2 DEF Accounted
    <3> QED BY <3>1, <3>2, <3>3
  <2>5. OneQuestion' /\ LengthKnown'
    BY <1>1, <1>7, <2>1, StillEarly
  <2> QED BY <1>4, <2>3, <2>4, <2>5
<1>9. CASE up' = EndSection(up, -1) /\ lost' = lost \cup {up.at}
  <2>1. /\ up' \in Clients /\ up'.size = up.size /\ up'.left = up.left - Block /\ up'.at = up.at + SendSize
        /\ up'.off = up.off /\ up'.pc \in {"section", "err", "close"} /\ (up'.pc = "section" => up.left > Block)
        /\ (up'.pc = "close" => up.left <= Block)
    <3>1. up \in Clients /\ -1 \in Int
      BY DEF ClientType
    <3> QED BY <1>3, <1>9, <3>1, Ends
  <2>2. InStep' => InStep /\ up.left = 0
    <3>1. InStep' <=> up.off = up.at + SendSize
      BY <1>2, <2>1 DEF InStep
    <3>2. InStep <=> up.off = up.at
      BY <1>1, <1>2 DEF InStep
    <3> QED BY <1>2, <1>3, <3>1, <3>2
  <2>3. ClientType'
    BY <1>1, <1>2, <1>9, <2>1 DEF ClientType
  <2>4. Position'
    <3>1. up'.off <= up'.at
      BY <1>2, <1>3, <2>1
    <3>2. lost' # {}
      BY <1>9
    <3> QED BY <1>1, <2>1, <3>1, <3>2, PositionMoves
  <2>5. Labels'
    BY <1>1, <1>3, <1>4, <1>9, <2>1, LabelsMoved
  <2>6. InPlace'
    BY <1>4, <2>1, <2>2 DEF InPlace
  <2>7. Accounted'
    <3>1. lost \subseteq lost'
      BY <1>9
    <3> QED BY <1>1, <1>5, <1>6, <2>1, <2>2, <3>1 DEF Accounted
  <2>8. OneQuestion' /\ LengthKnown'
    <3>1. ~LastServed'
      <4> SUFFICES ASSUME InStep', up.size % Block # 0 PROVE FALSE
        BY <2>1 DEF LastServed
      <4>1. up.size = k * Block
        BY <1>2, <1>3, <2>2
      <4> QED BY <1>2, <4>1, NoLastOne
    <3> QED BY <1>1, <1>7, <2>1, <3>1, StillEarly
  <2> QED BY <1>4, <2>3, <2>4, <2>5, <2>6, <2>7, <2>8
<1> QED BY <1>1, <1>8, <1>9

LEMMA ToldIs ==
  ASSUME NEW u \in Clients, NEW ok \in BOOLEAN, NEW e, e = Told(u, ok)
  PROVE  /\ e \in Clients /\ e.size = u.size /\ e.left = u.left /\ e.at = u.at /\ e.off = u.off
         /\ e.session = u.session /\ e.pc \in {"ok", "close", "err"} /\ (e.pc = "ok" <=> ok)
<1>1. PICK pc : pc = IF ok THEN "ok" ELSE IF u.tries < LoopNumber THEN "close" ELSE "err"
  OBVIOUS
<1>2. PICK t \in Nat : t = IF ok THEN u.tries ELSE u.tries + 1
  BY DEF Clients
<1>3. e = [u EXCEPT !.tries = t, !.pc = pc]
  BY <1>1, <1>2 DEF Told
<1>4. pc \in {"open", "section", "recv", "close", "closing", "ok", "err"}
  BY <1>1
<1>5. e \in Clients
  BY <1>2, <1>3, <1>4 DEF Clients
<1>6. e.size = u.size /\ e.left = u.left /\ e.at = u.at /\ e.off = u.off /\ e.session = u.session /\ e.pc = pc
  BY <1>3 DEF Clients
<1> QED BY <1>1, <1>5, <1>6

\* The client is where it was in its file.
SamePlace == /\ up'.size = up.size /\ up'.left = up.left /\ up'.at = up.at /\ up'.off = up.off
             /\ up'.pc = "recv" <=> up.pc = "recv"
             /\ lost' = lost

LEMMA PlaceKept ==
  ASSUME UploadInv, SamePlace
  PROVE  /\ (InStep' <=> InStep) /\ (LastServed' <=> LastServed)
         /\ OnTheWay' = OnTheWay => Labels'
         /\ OnTheWay' = OnTheWay /\ Content' = Content => InPlace'
<1> USE DEF UploadInv
<1>1. SendSize' = SendSize
  BY DEF SamePlace, SendSize
<1>2. InStep' <=> InStep
  BY <1>1 DEF SamePlace, InStep
<1>3. LastServed' <=> LastServed
  BY <1>2 DEF SamePlace, LastServed, LastLabel
<1>4. OnTheWay' = OnTheWay => Labels'
  BY DEF SamePlace, Labels, Apart
<1>5. OnTheWay' = OnTheWay /\ Content' = Content => InPlace'
  BY <1>2 DEF SamePlace, InPlace
<1> QED BY <1>2, <1>3, <1>4, <1>5

\* What keeps the position: the client stands still, or closes what it has sent.
LEMMA PositionKept ==
  ASSUME UploadInv, SamePlace, up'.pc = up.pc \/ (up.pc \in {"close", "closing"} /\ up'.pc \in {"close", "closing", "ok", "err"})
  PROVE  Position'
<1> USE DEF UploadInv
<1>1. SendSize' = SendSize
  BY DEF SamePlace, SendSize
<1>2. lost' = {} => InStep'
  BY PlaceKept DEF SamePlace, Position
<1> QED BY <1>1, <1>2 DEF SamePlace, Position

\* A step of the client or the tracker that leaves the node, the sections and the client's place.
LEMMA SectionsRest ==
  ASSUME UploadInv, SameNode, faults' \in Nat, SamePlace, sent' = sent \/ sent' = sent \cup {SizeRequest},
         up'.pc = up.pc \/ (up.pc \in {"close", "closing"} /\ up'.pc \in {"close", "closing", "ok", "err"})
  PROVE  /\ NodeType' /\ Position' /\ Labels' /\ InPlace' /\ Accounted'
         /\ Content' = Content /\ (InStep' <=> InStep) /\ (LastServed' <=> LastServed)
         /\ \A w \in Procs : (Sizing(w)' <=> Sizing(w)) /\ job'[w] = job[w]
<1> USE DEF UploadInv
<1>1. /\ Content' = Content /\ NodeType' /\ job' = job
      /\ \A w \in Procs : (AtSection(w)' <=> AtSection(w)) /\ (Sizing(w)' <=> Sizing(w))
  BY NodeRests DEF SameNode
<1>2. OnTheWay' = OnTheWay
  BY <1>1 DEF OnTheWay
<1>3. \A x : Written(x)' <=> Written(x)
  BY <1>1 DEF Written
<1>4. Accounted'
  <2>1. InStep' <=> InStep
    BY PlaceKept
  <2>2. sent \subseteq sent'
    OBVIOUS
  <2> QED BY <1>1, <1>3, <2>1, <2>2 DEF Accounted, SamePlace
<1> QED BY <1>1, <1>2, <1>4, PlaceKept, PositionKept

\* And that does not learn anything of the size.
LEMMA LengthRests ==
  ASSUME UploadInv, SameNode, Content' = Content, \A w \in Procs : (Sizing(w)' <=> Sizing(w)) /\ job'[w] = job[w],
         InStep' <=> InStep, LastServed' <=> LastServed, up'.size = up.size,
         tracker'.key = tracker.key \/ (tracker'.key = NoFile /\ up.pc = "close"),
         up'.pc \in {"close", "closing", "ok"} => up.pc \in {"close", "closing", "ok"}
  PROVE  LengthKnown'
<1> USE DEF UploadInv
<1>1. tracker.key # OldFile => tracker'.key # OldFile
  BY DEF NoFile, OldFile
<1>2. tracker'.key # OldFile => tracker.key # OldFile \/ up.pc = "close"
  OBVIOUS
<1>3. (up'.pc \in {"close", "closing", "ok"} \/ tracker'.key # OldFile) /\ LastServed' => Len(Content') = up'.size
  BY <1>2 DEF LengthKnown
<1>4. ASSUME NEW w \in Procs, NEW k \in CacheKeys, cache'[w][k].fresh
      PROVE  tracker'.key # OldFile /\ (cache'[w][k].size = IsADir \/ SizeRight(cache[w][k].size)')
  BY <1>1, <1>4 DEF LengthKnown, SizeRight, SameNode
<1>5. ASSUME NEW w \in Procs, Sizing(w)', job'[w].pc = "answer", job'[w].status = 200
      PROVE  SizeRight(job[w].size)'
  BY <1>5 DEF LengthKnown, SizeRight
<1>6. Stored' => SizeRight(tracker.key)'
  BY DEF LengthKnown, SizeRight, Stored, NoFile
<1> QED BY <1>3, <1>4, <1>5, <1>6 DEF LengthKnown

LEMMA CreateCloseKeeps ==
  ASSUME UploadInv, CreateClose
  PROVE  UploadInv'
<1> USE DEF UploadInv
<1>1. up.pc = "close" /\ up.session /\ tracker.pc = "idle" /\ SameNode /\ UNCHANGED <<lost, faults>>
  BY DEF CreateClose, NodeUnchanged, nodeVars, SameNode
<1>2. faults' \in Nat /\ up \in Clients
  BY <1>1 DEF NodeType, ClientType
<1>3. SizeRequest \notin sent /\ \A w \in Procs : ~Sizing(w)
  BY <1>1 DEF OneQuestion
<1>4. up.at = up.size
  BY <1>1 DEF Position
<1>5. CASE /\ up' = [up EXCEPT !.pc = "closing"] /\ sent' = sent \cup {SizeRequest}
           /\ tracker' = [tracker EXCEPT !.pc = "head", !.key = NoFile]
  <2>1. /\ up' \in Clients /\ up'.pc = "closing" /\ up'.session = up.session
        /\ up'.size = up.size /\ up'.left = up.left /\ up'.at = up.at /\ up'.off = up.off
    BY <1>2, <1>5 DEF Clients
  <2>2. tracker'.pc = "head" /\ tracker'.key = NoFile
    BY <1>5 DEF ClientType
  <2>3. SamePlace
    BY <1>1, <2>1 DEF SamePlace
  <2>4. /\ NodeType' /\ Position' /\ Labels' /\ InPlace' /\ Accounted'
        /\ Content' = Content /\ (InStep' <=> InStep) /\ (LastServed' <=> LastServed)
        /\ \A w \in Procs : (Sizing(w)' <=> Sizing(w)) /\ job'[w] = job[w]
    BY <1>1, <1>2, <1>5, <2>1, <2>3, SectionsRest
  <2>5. ClientType'
    BY <1>1, <1>5, <2>1 DEF ClientType, NoFile
  <2>6. OneQuestion'
    BY <1>1, <1>3, <1>4, <2>1, <2>2, <2>4 DEF OneQuestion, Stored, NoFile
  <2>7. LengthKnown'
    BY <1>1, <2>1, <2>2, <2>4, LengthRests
  <2> QED BY <2>4, <2>5, <2>6, <2>7
<1>6. CASE up' = Told(up, FALSE) /\ UNCHANGED <<sent, tracker>>
  <2>1. /\ up' \in Clients /\ up'.pc \in {"close", "err"} /\ up'.session = up.session
        /\ up'.size = up.size /\ up'.left = up.left /\ up'.at = up.at /\ up'.off = up.off
    BY <1>2, <1>6, ToldIs
  <2>3. SamePlace
    BY <1>1, <2>1 DEF SamePlace
  <2>4. /\ NodeType' /\ Position' /\ Labels' /\ InPlace' /\ Accounted'
        /\ Content' = Content /\ (InStep' <=> InStep) /\ (LastServed' <=> LastServed)
        /\ \A w \in Procs : (Sizing(w)' <=> Sizing(w)) /\ job'[w] = job[w]
    BY <1>1, <1>2, <1>6, <2>1, <2>3, SectionsRest
  <2>5. ClientType'
    BY <1>1, <1>6, <2>1 DEF ClientType
  <2>6. OneQuestion'
    BY <1>1, <1>3, <1>4, <1>6, <2>1, <2>4 DEF OneQuestion, Stored
  <2>7. LengthKnown'
    BY <1>1, <1>6, <2>1, <2>4, LengthRests
  <2> QED BY <2>4, <2>5, <2>6, <2>7
<1> QED BY <1>5, <1>6 DEF CreateClose

LEMMA CloseFailsKeeps ==
  ASSUME UploadInv, CloseFails \/ SessionBreaks
  PROVE  UploadInv'
<1> USE DEF UploadInv
<1>1. /\ SameNode /\ UNCHANGED <<sent, tracker, lost>> /\ faults' \in Nat /\ up.pc \in {"close", "closing"}
  <2>1. CASE CloseFails
    BY <2>1 DEF CloseFails, NodeUnchanged, nodeVars, SameNode, NodeType
  <2>2. CASE SessionBreaks
    BY <2>2 DEF SessionBreaks, SameNode, Fault, NodeType
  <2> QED BY <2>1, <2>2
<1>2. /\ up' \in Clients /\ up'.pc \in {"close", "err"} /\ ~up'.session
      /\ up'.size = up.size /\ up'.left = up.left /\ up'.at = up.at /\ up'.off = up.off
  <2>1. up \in Clients
    BY DEF ClientType
  <2>2. CASE CloseFails
    BY <2>1, <2>2, ToldIs DEF CloseFails
  <2>3. CASE SessionBreaks
    <3>1. PICK u : u = [up EXCEPT !.session = FALSE]
      OBVIOUS
    <3>2. u \in Clients
      BY <2>1, <3>1 DEF Clients
    <3>3. /\ u.size = up.size /\ u.left = up.left /\ u.at = up.at /\ u.off = up.off
          /\ u.pc = up.pc /\ ~u.session
      BY <2>1, <3>1 DEF Clients
    <3>4. up' = Told(u, FALSE) \/ (up' = u /\ up.pc = "close")
      BY <2>3, <3>1 DEF SessionBreaks
    <3>5. CASE up' = Told(u, FALSE)
      <4>1. /\ up' \in Clients /\ up'.size = u.size /\ up'.left = u.left /\ up'.at = u.at /\ up'.off = u.off
            /\ up'.session = u.session /\ up'.pc \in {"ok", "close", "err"} /\ up'.pc # "ok"
        BY <3>2, <3>5, ToldIs
      <4> QED BY <3>3, <4>1
    <3>6. CASE up' = u /\ up.pc = "close"
      BY <3>2, <3>3, <3>6
    <3> QED BY <3>4, <3>5, <3>6
  <2> QED BY <2>2, <2>3
<1>3. SamePlace
  BY <1>1, <1>2 DEF SamePlace
<1>4. /\ NodeType' /\ Position' /\ Labels' /\ InPlace' /\ Accounted'
      /\ Content' = Content /\ (InStep' <=> InStep) /\ (LastServed' <=> LastServed)
      /\ \A w \in Procs : (Sizing(w)' <=> Sizing(w)) /\ job'[w] = job[w]
  BY <1>1, <1>2, <1>3, SectionsRest
<1>5. ClientType'
  BY <1>1, <1>2 DEF ClientType
<1>6. OneQuestion'
  <2>1. up.at = up.size
    BY <1>1 DEF Position
  <2> QED BY <1>1, <1>2, <1>4, <2>1 DEF OneQuestion, Stored
<1>7. LengthKnown'
  BY <1>1, <1>2, <1>4, LengthRests
<1> QED BY <1>4, <1>5, <1>6, <1>7

LEMMA ExpiryKeeps ==
  ASSUME UploadInv, TempfileExpires
  PROVE  UploadInv'
<1> USE DEF UploadInv
<1>1. /\ SameNode /\ UNCHANGED <<up, sent, lost>> /\ faults' \in Nat
      /\ tracker' = [tracker EXCEPT !.temp = FALSE]
  BY DEF TempfileExpires, SameNode, Fault, NodeType
<1>2. tracker'.pc = tracker.pc /\ tracker'.key = tracker.key
  BY <1>1 DEF ClientType
<1>3. SamePlace
  BY <1>1 DEF SamePlace
<1>4. /\ NodeType' /\ Position' /\ Labels' /\ InPlace' /\ Accounted'
      /\ Content' = Content /\ (InStep' <=> InStep) /\ (LastServed' <=> LastServed)
      /\ \A w \in Procs : (Sizing(w)' <=> Sizing(w)) /\ job'[w] = job[w]
  BY <1>1, <1>3, SectionsRest
<1>5. ClientType'
  BY <1>1 DEF ClientType
<1>6. OneQuestion'
  BY <1>1, <1>2, <1>4 DEF OneQuestion, Stored
<1>7. LengthKnown'
  BY <1>1, <1>2, <1>4, LengthRests
<1> QED BY <1>4, <1>5, <1>6, <1>7

-------------------------------------------------------------------------------
\* The node serves the client

LEMMA TakenIs ==
  ASSUME NodeType, ClientType, NEW w \in Procs, NEW r \in sent, Take(w, r)
  PROVE  /\ ~Busy(w) /\ NodeType' /\ UNCHANGED <<entry, data, cache>>
         /\ \E j \in Jobs : /\ job' = [job EXCEPT ![w] = j] /\ job'[w] = j /\ Busy(w)'
                            /\ j.req = r /\ j.done = 0 /\ j.pc # "answer"
         /\ \A v \in Procs : v # w => job'[v] = job[v]
<1>1. ~Busy(w) /\ UNCHANGED <<entry, data, cache, faults>>
  BY DEF Take, Unchanged, Busy
<1>2. r \in Sections \/ r = SizeRequest
  BY DEF ClientType
<1>3. r.to = Name
  BY <1>2, RequestsDiffer DEF SizeRequest
<1>4. PICK pc \in Writing \cup {"cache", "answer"} : pc = FirstCall(r) /\ pc = IF r = SizeRequest THEN "cache" ELSE "open"
  <2>1. CASE r \in Sections
    <3>1. r # SizeRequest /\ r.method = "PUT"
      BY <2>1, RequestsDiffer
    <3>2. r.method # "MKCOL" /\ ~ReadOnly(r)
      BY <3>1 DEF ReadOnly
    <3>3. FirstCall(r) = "open"
      BY <3>1, <3>2 DEF FirstCall
    <3> QED BY <3>1, <3>3 DEF Writing
  <2>2. CASE r = SizeRequest
    <3>1. r.method = "HEAD"
      BY <2>2 DEF SizeRequest
    <3>2. ReadOnly(r) /\ r.method # "PUT" /\ r.method # "MKCOL"
      BY <3>1 DEF ReadOnly
    <3>3. FirstCall(r) = "cache"
      BY <3>2 DEF FirstCall
    <3> QED BY <2>2, <3>3
  <2> QED BY <1>2, <2>1, <2>2
<1>5. PICK j : j = [req |-> r, pc |-> pc, status |-> 0, fd |-> NoFd, src |-> NoFd, done |-> 0,
                    got |-> <<>>, size |-> 0, to |-> Name, todo |-> {}, dirs |-> {}, bad |-> FALSE]
  OBVIOUS
<1>6. job' = [job EXCEPT ![w] = j]
  BY <1>3, <1>4, <1>5 DEF Take
<1>7. j \in Jobs
  BY <1>2, <1>4, <1>5 DEF Jobs
<1>8. j.req = r /\ j.done = 0 /\ j.pc = pc /\ j.fd = NoFd
  BY <1>5
<1>9. job'[w] = j /\ (\A v \in Procs : v # w => job'[v] = job[v]) /\ job' \in [Procs -> {Idle} \cup Jobs]
  BY <1>6, <1>7 DEF NodeType
<1>10. Busy(w)'
  BY <1>7, <1>9, JobIsBusy DEF Busy
<1>11. JobFits(j)'
  <2>1. r # SizeRequest => Len(r.body) \in Nat
    BY <1>2, RequestsDiffer
  <2> QED BY <1>4, <1>8, <2>1 DEF JobFits, Writing
<1>12. ASSUME NEW v \in Procs, Busy(v)' PROVE JobFits(job[v])'
  <2>1. CASE v = w
    BY <1>9, <1>11, <2>1
  <2>2. CASE v # w
    BY <1>1, <1>9, <1>12, <2>2 DEF NodeType, Busy, JobFits
  <2> QED BY <2>1, <2>2
<1>13. NodeType'
  BY <1>1, <1>9, <1>12 DEF NodeType
<1>14. j.pc # "answer"
  BY <1>4, <1>8
<1> QED BY <1>1, <1>6, <1>7, <1>8, <1>9, <1>10, <1>13, <1>14

LEMMA TakeKeeps ==
  ASSUME UploadInv, NEW w \in Procs, TakeSent(w)
  PROVE  UploadInv'
<1> USE DEF UploadInv
<1>1. PICK r \in sent : Take(w, r) /\ sent' = sent \ {r}
  BY DEF TakeSent
<1>2. UNCHANGED <<up, tracker, lost>>
  BY DEF TakeSent
<1>3. /\ ~Busy(w) /\ NodeType' /\ UNCHANGED <<entry, data, cache>>
      /\ \A v \in Procs : v # w => job'[v] = job[v]
  BY <1>1, TakenIs
<1>4. PICK j \in Jobs : /\ job'[w] = j /\ Busy(w)' /\ j.req = r /\ j.done = 0 /\ j.pc # "answer"
  BY <1>1, TakenIs
<1>5. /\ \A v \in Procs : v # w => (Busy(v)' <=> Busy(v)) /\ (AtSection(v)' <=> AtSection(v)) /\ (Sizing(v)' <=> Sizing(v))
      /\ ~AtSection(w) /\ ~Sizing(w) /\ (AtSection(w)' <=> r # SizeRequest) /\ (Sizing(w)' <=> r = SizeRequest)
  BY <1>3, <1>4 DEF Busy, AtSection, Sizing
<1>6. OnTheWay' = OnTheWay
  <2>1. ASSUME NEW q \in OnTheWay PROVE q \in OnTheWay'
    <3>1. CASE q \in sent /\ q # SizeRequest
      BY <1>1, <1>4, <1>5, <3>1 DEF OnTheWay
    <3>2. CASE \E v \in Procs : AtSection(v) /\ q = job[v].req
      BY <1>3, <1>5, <3>2 DEF OnTheWay
    <3> QED BY <3>1, <3>2 DEF OnTheWay
  <2>2. ASSUME NEW q \in OnTheWay' PROVE q \in OnTheWay
    <3>1. CASE q \in sent' /\ q # SizeRequest
      BY <1>1, <3>1 DEF OnTheWay
    <3>2. CASE \E v \in Procs : AtSection(v)' /\ q = job'[v].req
      BY <1>1, <1>3, <1>4, <1>5, <3>2 DEF OnTheWay
    <3> QED BY <3>1, <3>2 DEF OnTheWay
  <2> QED BY <2>1, <2>2
<1>7. Content' = Content /\ SamePlace
  BY <1>2, <1>3 DEF Content, SamePlace
<1>8. (InStep' <=> InStep) /\ (LastServed' <=> LastServed) /\ Labels' /\ InPlace' /\ Position'
  BY <1>2, <1>6, <1>7, PlaceKept, PositionKept
<1>9. ClientType'
  BY <1>1, <1>2 DEF ClientType
<1>10. Accounted'
  <2> SUFFICES ASSUME InStep, NEW x \in 1..up.off
               PROVE  \/ Written(x)'
                      \/ \E q \in sent' : q # SizeRequest /\ Within(q, 0, x)
                      \/ \E v \in Procs : AtSection(v)' /\ Pending(job'[v], x)
                      \/ \E o \in lost' : o < x /\ x <= o + Block
    BY <1>2, <1>8 DEF Accounted
  <2>1. CASE Written(x) \/ \E o \in lost : o < x /\ x <= o + Block
    BY <1>2, <1>7, <2>1 DEF Written
  <2>2. CASE \E q \in sent : q # SizeRequest /\ Within(q, 0, x)
    <3>1. PICK q \in sent : q # SizeRequest /\ Within(q, 0, x)
      BY <2>2
    <3>2. CASE q = r
      <4>1. AtSection(w)' /\ Pending(job'[w], x)
        BY <1>4, <1>5, <3>1, <3>2 DEF Pending
      <4> QED BY <4>1
    <3>3. CASE q # r
      BY <1>1, <3>1, <3>3
    <3> QED BY <3>2, <3>3
  <2>3. CASE \E v \in Procs : AtSection(v) /\ Pending(job[v], x)
    BY <1>3, <1>5, <2>3
  <2> QED BY <2>1, <2>2, <2>3 DEF Accounted
<1>11. OneQuestion'
  <2>1. SizeRequest \in sent' => tracker'.pc = "head" /\ \A v \in Procs : ~Sizing(v)'
    <3>1. SizeRequest \in sent' => r # SizeRequest /\ SizeRequest \in sent
      BY <1>1
    <3> QED BY <1>2, <1>5, <3>1 DEF OneQuestion
  <2>2. ASSUME NEW v \in Procs, Sizing(v)' PROVE tracker'.pc = "head" /\ \A z \in Procs : Sizing(z)' => z = v
    <3>1. CASE r = SizeRequest
      <4>1. tracker.pc = "head" /\ \A z \in Procs : ~Sizing(z)
        BY <1>1, <3>1 DEF OneQuestion
      <4> QED BY <1>2, <1>5, <2>2, <4>1
    <3>2. CASE r # SizeRequest
      <4>1. \A z \in Procs : Sizing(z)' => Sizing(z)
        BY <1>5, <3>2
      <4> QED BY <1>2, <2>2, <4>1 DEF OneQuestion
    <3> QED BY <3>1, <3>2
  <2> QED BY <1>2, <2>1, <2>2 DEF OneQuestion, Stored
<1>12. LengthKnown'
  <2>1. ASSUME NEW v \in Procs, Sizing(v)', job'[v].pc = "answer", job'[v].status = 200 PROVE SizeRight(job'[v].size)
    <3>1. v # w
      BY <1>4, <2>1
    <3> QED BY <1>3, <1>5, <2>1, <3>1 DEF LengthKnown
  <2>2. \A n : SizeRight(n)' <=> SizeRight(n)
    BY <1>2, <1>8 DEF SizeRight
  <2>3. (up.pc \in {"close", "closing", "ok"} \/ tracker.key # OldFile) /\ LastServed' => Len(Content') = up.size
    BY <1>7, <1>8 DEF LengthKnown
  <2> QED BY <1>2, <1>3, <1>8, <2>1, <2>3 DEF LengthKnown, SizeRight, Stored
<1> QED BY <1>3, <1>8, <1>9, <1>10, <1>11, <1>12

\* A worker is done with a request.
Leaves(w) ==
  /\ Busy(w) /\ ~Busy(w)' /\ \A v \in Procs : v # w => job'[v] = job[v]
  /\ Content' = Content /\ NodeType'
  /\ \A v \in Procs, k \in CacheKeys : cache'[v][k].fresh => cache[v][k].fresh /\ cache'[v][k].size = cache[v][k].size

LEMMA AnswerLeaves ==
  ASSUME NodeType, NEW w \in Procs, Answer(w) \/ Dies(w)
  PROVE  Leaves(w)
<1>1. Busy(w) /\ job' = [job EXCEPT ![w] = Idle]
  BY DEF Answer, Dies, Busy
<1>2. job'[w] = Idle /\ (\A v \in Procs : v # w => job'[v] = job[v]) /\ job' \in [Procs -> {Idle} \cup Jobs]
  BY <1>1 DEF NodeType
<1>3. entry[Name] \in Inodes \cup {Absent} /\ Absent \notin Inodes /\ entry \in [Paths -> Inodes \cup {Absent}]
      /\ data \in [Inodes -> Seq(Nat)]
  BY ContentTyped DEF NodeType
<1>4. entry' = entry /\ data' \in [Inodes -> Seq(Nat)] /\ (entry[Name] # Absent => data'[entry[Name]] = data[entry[Name]])
  <2>1. CASE Answer(w)
    <3>1. Becomes(entry, data)
      BY <2>1 DEF Answer
    <3> QED BY <1>3, <3>1, BecomesKeeps
  <2>2. CASE Dies(w)
    BY <1>3, <2>2 DEF Dies, Unchanged
  <2> QED BY <2>1, <2>2
<1>5. Content' = Content
  BY <1>4 DEF Content
<1>6. ASSUME NEW v \in Procs, Busy(v)' PROVE JobFits(job[v])'
  <2>1. v # w /\ Busy(v) /\ job'[v] = job[v]
    BY <1>2, <1>6 DEF Busy
  <2> QED BY <1>4, <2>1 DEF NodeType, JobFits
<1>7. faults' \in Nat
  BY DEF Answer, Dies, NodeType
<1>8. /\ cache' \in [Procs -> [CacheKeys -> CacheEntries]]
      /\ \A v \in Procs, k \in CacheKeys : cache'[v][k].fresh => cache[v][k].fresh /\ cache'[v][k].size = cache[v][k].size
  <2>1. CASE Answer(w)
    BY <2>1 DEF Answer, NodeType
  <2>2. CASE Dies(w)
    <3>1. PICK e : e = NotCached
      OBVIOUS
    <3>2. e \in CacheEntries /\ ~e.fresh
      BY <3>1 DEF NotCached, CacheEntries
    <3>3. cache \in [Procs -> [CacheKeys -> CacheEntries]] /\ DOMAIN cache[w] = CacheKeys
      BY NameCached DEF NodeType
    <3>4. cache' = [cache EXCEPT ![w] = [k \in CacheKeys |-> e]]
      BY <2>2, <3>1, <3>3 DEF Dies
    <3>5. ASSUME NEW v \in Procs, NEW k \in CacheKeys PROVE cache'[v][k] = IF v = w THEN e ELSE cache[v][k]
      BY <3>3, <3>4
    <3>6. cache' \in [Procs -> [CacheKeys -> CacheEntries]]
      BY <3>2, <3>3, <3>4
    <3> QED BY <3>2, <3>5, <3>6
  <2> QED BY <2>1, <2>2
<1>9. NodeType'
  BY <1>2, <1>4, <1>6, <1>7, <1>8 DEF NodeType
<1> QED BY <1>1, <1>2, <1>5, <1>8, <1>9 DEF Leaves, Busy

\* A section is answered, or its worker dies: what it had not written is lost then.
LEMMA SectionLeaves ==
  ASSUME UploadInv, NEW w \in Procs, Leaves(w), AtSection(w), UNCHANGED <<up, sent, tracker>>,
         \/ lost' = lost \cup {job[w].req.off}
         \/ lost' = lost /\ job[w].pc = "answer" /\ job[w].status \in {200, 201}
  PROVE  UploadInv'
<1> USE DEF UploadInv
<1>1. /\ Busy(w) /\ ~Busy(w)' /\ Content' = Content /\ NodeType' /\ \A v \in Procs : v # w => job'[v] = job[v]
  BY DEF Leaves
<1>2. PICK r \in Sections : /\ r = job[w].req /\ r \in OnTheWay /\ r.off \in Nat /\ Len(r.body) \in Nat
                            /\ Len(r.body) <= Block
  <2>1. job[w].req \in Sections /\ job[w].req \in OnTheWay
    BY JobTyped DEF AtSection, OnTheWay
  <2> QED BY <2>1, RequestsDiffer
<1>3. /\ \A v \in Procs : v # w => (Busy(v)' <=> Busy(v)) /\ (AtSection(v)' <=> AtSection(v)) /\ (Sizing(v)' <=> Sizing(v))
      /\ ~AtSection(w)' /\ ~Sizing(w)' /\ ~Sizing(w)
  BY <1>1 DEF Busy, AtSection, Sizing
<1>4. OnTheWay' \subseteq OnTheWay
  <2> SUFFICES ASSUME NEW q \in OnTheWay' PROVE q \in OnTheWay
    OBVIOUS
  <2>1. CASE q \in sent' /\ q # SizeRequest
    BY <2>1 DEF OnTheWay
  <2>2. CASE \E v \in Procs : AtSection(v)' /\ q = job'[v].req
    BY <1>1, <1>3, <2>2 DEF OnTheWay
  <2> QED BY <2>1, <2>2 DEF OnTheWay
<1>5. /\ (InStep' <=> InStep) /\ (LastServed' => LastServed) /\ lost \subseteq lost' /\ lost' \subseteq lost \cup {r.off}
  BY <1>2 DEF InStep, SendSize, LastServed, LastLabel
<1>6. ClientType'
  BY <1>2, <1>5 DEF ClientType
<1>7. Position'
  <2>1. SendSize' = SendSize
    BY DEF SendSize
  <2>2. lost' = {} => InStep'
    BY <1>5 DEF Position
  <2> QED BY <2>1, <2>2 DEF Position
<1>8. Labels'
  <2>1. Apart(r.off)
    <3>1. (Len(r.body) = Block /\ r.off + Block <= up.at) \/ r.off = up.at
      BY <1>2 DEF Labels
    <3> QED BY <3>1 DEF Apart
  <2>2. \A o \in lost' : Apart(o)
    BY <1>5, <2>1 DEF Labels
  <2> QED BY <1>4, <2>2 DEF Labels, Apart
<1>9. InPlace'
  BY <1>1, <1>4, <1>5 DEF InPlace
<1>10. Accounted'
  <2> SUFFICES ASSUME InStep, NEW x \in 1..up.off
               PROVE  \/ Written(x)'
                      \/ \E q \in sent' : q # SizeRequest /\ Within(q, 0, x)
                      \/ \E v \in Procs : AtSection(v)' /\ Pending(job'[v], x)
                      \/ \E o \in lost' : o < x /\ x <= o + Block
    BY <1>5 DEF Accounted
  <2>1. CASE Written(x) \/ (\E o \in lost : o < x /\ x <= o + Block) \/ \E q \in sent : q # SizeRequest /\ Within(q, 0, x)
    BY <1>1, <1>5, <2>1 DEF Written
  <2>2. CASE \E v \in Procs : AtSection(v) /\ Pending(job[v], x)
    <3>1. PICK v \in Procs : AtSection(v) /\ Pending(job[v], x)
      BY <2>2
    <3>2. CASE v # w
      BY <1>1, <1>3, <3>1, <3>2
    <3>3. CASE v = w
      <4>1. lost' = lost \cup {r.off}
        BY <1>2, <3>1, <3>3 DEF Pending
      <4>2. r.off < x /\ x <= r.off + Block
        <5>1. r.off + job[w].done < x /\ x <= r.off + Len(r.body) /\ job[w].done \in Nat
          BY <1>1, <1>2, <3>1, <3>3, JobTyped DEF Pending, Within, Jobs
        <5>2. Block \in Nat /\ x \in Int
          BY UploadAssumption
        <5> QED BY <1>2, <5>1, <5>2
      <4> QED BY <4>1, <4>2
    <3> QED BY <3>2, <3>3
  <2> QED BY <2>1, <2>2 DEF Accounted
<1>11. OneQuestion'
  <2>1. \A v \in Procs : Sizing(v)' <=> Sizing(v)
    BY <1>3
  <2> QED BY <2>1 DEF OneQuestion, Stored
<1>12. LengthKnown'
  <2>1. ASSUME NEW v \in Procs, Sizing(v)' PROVE Sizing(v) /\ job'[v] = job[v]
    BY <1>1, <1>3, <2>1
  <2>2. \A n : SizeRight(n) => ((InStep' => n <= up.size) /\ (LastServed' => n = up.size))
    BY <1>5 DEF SizeRight
  <2>3. (up.pc \in {"close", "closing", "ok"} \/ tracker.key # OldFile) /\ LastServed' => Len(Content') = up.size
    BY <1>1, <1>5 DEF LengthKnown
  <2>4. ASSUME NEW v \in Procs, NEW k \in CacheKeys, cache'[v][k].fresh
        PROVE  tracker.key # OldFile /\ (cache'[v][k].size = IsADir \/ SizeRight(cache'[v][k].size))
    BY <2>4 DEF Leaves, LengthKnown
  <2>5. ASSUME NEW v \in Procs, Sizing(v)', job'[v].pc = "answer", job'[v].status = 200 PROVE SizeRight(job'[v].size)
    BY <2>1, <2>5 DEF LengthKnown
  <2>6. Stored => SizeRight(tracker.key)
    BY DEF LengthKnown
  <2> QED BY <2>2, <2>3, <2>4, <2>5, <2>6 DEF LengthKnown, SizeRight, Stored
<1> QED BY <1>1, <1>6, <1>7, <1>8, <1>9, <1>10, <1>11, <1>12

LEMMA SizedIs ==
  ASSUME ClientType, NEW n \in Int, Sized(n)
  PROVE  /\ tracker'.pc = "idle" /\ tracker'.key = (IF n > 0 THEN n ELSE tracker.key)
         /\ tracker' \in [pc : {"idle", "head"}, temp : BOOLEAN, key : {OldFile, NoFile} \cup (Nat \ {0})]
         /\ up' \in Clients /\ up'.size = up.size /\ up'.left = up.left /\ up'.at = up.at /\ up'.off = up.off
         /\ up'.session = up.session
         /\ \/ up.pc # "closing" /\ up' = up
            \/ up.pc = "closing" /\ up'.pc \in {"ok", "close", "err"} /\ (up'.pc = "ok" <=> n > 0)
<1>1. PICK key \in {OldFile, NoFile} \cup (Nat \ {0}) : key = IF n > 0 THEN n ELSE tracker.key
  BY DEF ClientType
<1>2. PICK temp \in BOOLEAN : temp = (tracker.temp /\ ~Committable(n))
  OBVIOUS
<1>3. tracker' = [tracker EXCEPT !.pc = "idle", !.temp = temp, !.key = key]
  BY <1>1, <1>2 DEF Sized, Committable, ClientType
<1>4. /\ tracker'.pc = "idle" /\ tracker'.key = key
      /\ tracker' \in [pc : {"idle", "head"}, temp : BOOLEAN, key : {OldFile, NoFile} \cup (Nat \ {0})]
  BY <1>1, <1>2, <1>3 DEF ClientType
<1>5. up \in Clients
  BY DEF ClientType
<1>6. CASE up.pc = "closing"
  <2>1. CASE n > 0
    <3>1. Committable(n) = TRUE
      BY <2>1 DEF Committable
    <3>2. up' = Told(up, TRUE)
      BY <1>6, <3>1 DEF Sized
    <3>3. /\ up' \in Clients /\ up'.size = up.size /\ up'.left = up.left /\ up'.at = up.at /\ up'.off = up.off
          /\ up'.session = up.session /\ up'.pc \in {"ok", "close", "err"} /\ (up'.pc = "ok" <=> TRUE)
      BY <1>5, <3>2, ToldIs
    <3> QED BY <1>1, <1>4, <1>6, <2>1, <3>3
  <2>2. CASE ~(n > 0)
    <3>1. Committable(n) = FALSE
      BY <2>2 DEF Committable
    <3>2. up' = Told(up, FALSE)
      BY <1>6, <3>1 DEF Sized
    <3>3. /\ up' \in Clients /\ up'.size = up.size /\ up'.left = up.left /\ up'.at = up.at /\ up'.off = up.off
          /\ up'.session = up.session /\ up'.pc \in {"ok", "close", "err"} /\ (up'.pc = "ok" <=> FALSE)
      BY <1>5, <3>2, ToldIs
    <3> QED BY <1>1, <1>4, <1>6, <2>2, <3>3
  <2> QED BY <2>1, <2>2
<1>7. CASE up.pc # "closing"
  BY <1>1, <1>4, <1>5, <1>7 DEF Sized
<1> QED BY <1>6, <1>7

\* The node's answer to the question for the size, or its failure to give one.
LEMMA SizeLeaves ==
  ASSUME UploadInv, NEW w \in Procs, Leaves(w), Sizing(w), UNCHANGED <<sent, lost>>, NEW n \in Int, Sized(n),
         n = NoSize \/ SizeRight(n)
  PROVE  UploadInv'
<1> USE DEF UploadInv
<1>1. /\ Busy(w) /\ ~Busy(w)' /\ Content' = Content /\ NodeType' /\ \A v \in Procs : v # w => job'[v] = job[v]
  BY DEF Leaves
<1>2. /\ tracker'.pc = "idle" /\ tracker'.key = (IF n > 0 THEN n ELSE tracker.key)
      /\ tracker' \in [pc : {"idle", "head"}, temp : BOOLEAN, key : {OldFile, NoFile} \cup (Nat \ {0})]
      /\ up' \in Clients /\ up'.size = up.size /\ up'.left = up.left /\ up'.at = up.at /\ up'.off = up.off
      /\ up'.session = up.session
      /\ \/ up.pc # "closing" /\ up' = up
         \/ up.pc = "closing" /\ up'.pc \in {"ok", "close", "err"} /\ (up'.pc = "ok" <=> n > 0)
  BY SizedIs
<1>3. /\ tracker.pc = "head" /\ tracker.key = NoFile /\ ~Stored /\ up.pc \in {"close", "closing", "err"} /\ up.at = up.size
      /\ SizeRequest \notin sent /\ \A v \in Procs : Sizing(v) => v = w
  <2>1. tracker.pc = "head" /\ tracker.key = NoFile /\ \A v \in Procs : Sizing(v) => v = w
    BY DEF OneQuestion
  <2>2. ~Stored
    BY <2>1 DEF Stored, NoFile
  <2> QED BY <2>1, <2>2 DEF OneQuestion, NoFile, OldFile
<1>4. /\ \A v \in Procs : (AtSection(v)' <=> AtSection(v)) /\ (AtSection(v) => job'[v] = job[v]) /\ ~Sizing(v)'
  BY <1>1, <1>3 DEF Busy, AtSection, Sizing
<1>5. OnTheWay' = OnTheWay
  BY <1>4 DEF OnTheWay
<1>6. SamePlace
  BY <1>2 DEF SamePlace
<1>7. (InStep' <=> InStep) /\ (LastServed' <=> LastServed) /\ Labels' /\ InPlace' /\ Position'
  BY <1>1, <1>2, <1>5, <1>6, PlaceKept, PositionKept
<1>8. ClientType'
  BY <1>2 DEF ClientType
<1>9. Accounted'
  <2>1. \A x : Written(x)' <=> Written(x)
    BY <1>1 DEF Written
  <2> QED BY <1>2, <1>4, <1>7, <2>1 DEF Accounted
<1>10. OneQuestion'
  BY <1>2, <1>3, <1>4 DEF OneQuestion, Stored, NoFile, OldFile
<1>11. LengthKnown'
  <2>1. \A m : SizeRight(m) => ((InStep' => m <= up'.size) /\ (LastServed' => m = up'.size))
    BY <1>2, <1>7 DEF SizeRight
  <2>2. LastServed' => Len(Content') = up'.size
    BY <1>1, <1>2, <1>3, <1>7 DEF LengthKnown, NoFile, OldFile
  <2>3. tracker'.key # OldFile
    BY <1>2, <1>3 DEF NoFile, OldFile
  <2>4. ASSUME NEW v \in Procs, NEW k \in CacheKeys, cache'[v][k].fresh
        PROVE  cache'[v][k].size = IsADir \/ SizeRight(cache'[v][k].size)
    BY <2>4 DEF Leaves, LengthKnown
  <2>5. Stored' => tracker'.key = n /\ SizeRight(n)
    BY <1>2, <1>3 DEF Stored, NoSize, NoFile
  <2> QED BY <1>4, <2>1, <2>2, <2>3, <2>4, <2>5 DEF LengthKnown, SizeRight
<1> QED BY <1>1, <1>7, <1>8, <1>9, <1>10, <1>11

LEMMA AnswerKeeps ==
  ASSUME UploadInv, NEW w \in Procs, AnswerSent(w) \/ DiesAtWork(w)
  PROVE  UploadInv'
<1> USE DEF UploadInv
<1>1. Answer(w) \/ Dies(w)
  BY DEF AnswerSent, DiesAtWork
<1>2. Leaves(w) /\ Busy(w)
  BY <1>1, AnswerLeaves DEF Leaves
<1>3. CASE job[w].req = SizeRequest
  <2>1. Sizing(w)
    BY <1>2, <1>3 DEF Sizing
  <2>2. UNCHANGED <<sent, lost>>
    BY <1>3 DEF AnswerSent, DiesAtWork
  <2>3. PICK n \in Int : Sized(n) /\ (n = NoSize \/ SizeRight(n))
    <3>1. CASE AnswerSent(w)
      <4>1. Sized(IF job[w].status = 200 THEN job[w].size ELSE NoSize) /\ job[w].pc = "answer"
        BY <1>3, <3>1 DEF AnswerSent, Answer
      <4>2. job[w].size \in Int
        BY <1>2, JobTyped DEF Jobs
      <4>3. CASE job[w].status = 200
        BY <2>1, <4>1, <4>2, <4>3 DEF LengthKnown
      <4>4. CASE job[w].status # 200
        <5>1. Sized(NoSize) /\ NoSize \in Int
          BY <4>1, <4>4 DEF NoSize
        <5> QED BY <5>1
      <4> QED BY <4>3, <4>4
    <3>2. CASE DiesAtWork(w)
      <4>1. Sized(NoSize) /\ NoSize \in Int
        BY <1>3, <3>2 DEF DiesAtWork, NoSize
      <4> QED BY <4>1
    <3> QED BY <3>1, <3>2
  <2> QED BY <1>2, <2>1, <2>2, <2>3, SizeLeaves
<1>4. CASE job[w].req # SizeRequest
  <2>1. AtSection(w)
    BY <1>2, <1>4 DEF AtSection
  <2>2. UNCHANGED <<up, sent, tracker>>
    BY <1>4 DEF AnswerSent, DiesAtWork
  <2>3. \/ lost' = lost \cup {job[w].req.off}
        \/ lost' = lost /\ job[w].pc = "answer" /\ job[w].status \in {200, 201}
    BY <1>4 DEF AnswerSent, DiesAtWork, Answer
  <2> QED BY <1>2, <2>1, <2>2, <2>3, SectionLeaves
<1> QED BY <1>3, <1>4

\* A system call of a worker.
LEMMA WorkKeeps ==
  ASSUME UploadInv, NEW w \in Procs, WorkerStep(w), UNCHANGED <<up, sent, tracker, lost>>
  PROVE  UploadInv'
<1> USE DEF UploadInv
<1>1. /\ NodeType' /\ Serving(w)
      /\ \/ AtSection(w) /\ UNCHANGED cache
         \/ Sizing(w) /\ UNCHANGED <<entry, data>> /\ \E size \in Int : Tells(w, size)
  BY StepServes
<1>2. /\ Busy(w) /\ Busy(w)' /\ job'[w].req = job[w].req /\ \A v \in Procs : v # w => job'[v] = job[v]
  BY <1>1 DEF Serving
<1>3. /\ \A v \in Procs : /\ (Busy(v)' <=> Busy(v)) /\ (AtSection(v)' <=> AtSection(v)) /\ (Sizing(v)' <=> Sizing(v))
                          /\ (Busy(v) => job'[v].req = job[v].req)
  BY <1>2 DEF Busy, AtSection, Sizing
<1>4. OnTheWay' = OnTheWay
  BY <1>3 DEF OnTheWay, AtSection
<1>5. SamePlace /\ ClientType'
  BY DEF SamePlace, ClientType
<1>6. (InStep' <=> InStep) /\ (LastServed' <=> LastServed) /\ Labels' /\ Position'
  BY <1>4, <1>5, PlaceKept, PositionKept
<1>7. InPlace'
  BY <1>1, <1>4, <1>6 DEF InPlace, Serving
<1>8. Accounted'
  <2> SUFFICES ASSUME InStep, NEW x \in 1..up.off
               PROVE  \/ Written(x)'
                      \/ \E q \in sent' : q # SizeRequest /\ Within(q, 0, x)
                      \/ \E v \in Procs : AtSection(v)' /\ Pending(job'[v], x)
                      \/ \E o \in lost' : o < x /\ x <= o + Block
    BY <1>6 DEF Accounted
  <2>1. CASE (\E o \in lost : o < x /\ x <= o + Block) \/ \E q \in sent : q # SizeRequest /\ Within(q, 0, x)
    BY <2>1
  <2>2. CASE Written(x)
    BY <1>1, <2>2 DEF Serving
  <2>3. CASE \E v \in Procs : AtSection(v) /\ Pending(job[v], x)
    <3>1. PICK v \in Procs : AtSection(v) /\ Pending(job[v], x)
      BY <2>3
    <3>2. CASE v # w
      BY <1>2, <1>3, <3>1, <3>2
    <3>3. CASE v = w
      <4>1. Pending(job'[w], x) \/ Written(x)'
        BY <1>1, <3>1, <3>3 DEF Serving
      <4> QED BY <1>3, <3>1, <3>3, <4>1
    <3> QED BY <3>2, <3>3
  <2> QED BY <2>1, <2>2, <2>3 DEF Accounted
<1>9. OneQuestion'
  BY <1>3 DEF OneQuestion, Stored
<1>10. LengthKnown'
  <2>1. (up.pc \in {"close", "closing", "ok"} \/ tracker.key # OldFile) /\ LastServed => up.off = up.size
    BY SendSizeIs DEF LastServed, InStep, Position, OneQuestion
  <2>2. (up.pc \in {"close", "closing", "ok"} \/ tracker.key # OldFile) /\ LastServed => Len(Content') = up.size
    <3> SUFFICES ASSUME up.pc \in {"close", "closing", "ok"} \/ tracker.key # OldFile, LastServed
                 PROVE  Len(Content') = up.size
      OBVIOUS
    <3>1. Len(Content) = up.size /\ InStep
      BY DEF LengthKnown, LastServed
    <3>2. Len(Content) <= Len(Content') /\ Len(Content') <= up.size
      BY <1>1, <2>1, <3>1 DEF Serving
    <3>3. Content' \in Seq(Nat)
      <4>1. entry'[Name] \in Inodes \cup {Absent}
        BY <1>1, UploadAssumption DEF NodeType
      <4> QED BY <1>1, <4>1, EmptySeq DEF Content, NodeType
    <3>4. Len(Content') \in Nat /\ up.size \in Nat
      BY <3>3, LenProperties, SendSizeIs
    <3> QED BY <3>1, <3>2, <3>4
  <2>3. \A m : SizeRight(m)' <=> SizeRight(m)
    BY <1>6 DEF SizeRight
  <2>4. CASE AtSection(w) /\ UNCHANGED cache
    <3>1. ASSUME NEW v \in Procs, Sizing(v)' PROVE Sizing(v) /\ job'[v] = job[v]
      BY <1>2, <1>3, <2>4, <3>1 DEF AtSection, Sizing
    <3>2. ASSUME NEW v \in Procs, Sizing(v)', job'[v].pc = "answer", job'[v].status = 200 PROVE SizeRight(job'[v].size)
      BY <3>1, <3>2 DEF LengthKnown
    <3> QED BY <1>6, <2>2, <2>4, <3>2 DEF LengthKnown, SizeRight, Stored
  <2>5. CASE Sizing(w) /\ \E size \in Int : Tells(w, size)
    <3>1. PICK size \in Int : Tells(w, size)
      BY <2>5
    <3>2. tracker.key # OldFile /\ up.at = up.size /\ up.pc # "recv"
      BY <2>5 DEF OneQuestion, NoFile, OldFile
    <3>3. size = IsADir \/ SizeRight(size)
      <4>1. CASE size = Len(Content)
        <5>1. InStep => Len(Content) <= up.size
          BY <3>2, SendSizeIs DEF InStep, InPlace
        <5>2. LastServed => Len(Content) = up.size
          BY <3>2 DEF LengthKnown
        <5> QED BY <4>1, <5>1, <5>2 DEF SizeRight
      <4>2. CASE \E k \in CacheKeys : cache[w][k].fresh /\ cache[w][k].size = size
        BY <4>2 DEF LengthKnown
      <4> QED BY <3>1, <4>1, <4>2 DEF Tells
    <3>4. ASSUME NEW v \in Procs, NEW k \in CacheKeys, cache'[v][k].fresh
          PROVE  cache'[v][k].size = IsADir \/ SizeRight(cache'[v][k].size)
      <4>1. (cache[v][k].fresh /\ cache'[v][k].size = cache[v][k].size) \/ cache'[v][k].size = size
        BY <3>1, <3>4 DEF Tells
      <4> QED BY <3>3, <4>1 DEF LengthKnown
    <3>5. ASSUME NEW v \in Procs, Sizing(v)', job'[v].pc = "answer", job'[v].status = 200 PROVE SizeRight(job'[v].size)
      <4>1. v = w
        BY <1>3, <2>5, <3>5 DEF OneQuestion
      <4> QED BY <3>1, <3>3, <3>5, <4>1 DEF Tells
    <3> QED BY <1>6, <2>2, <3>2, <3>4, <3>5 DEF LengthKnown, SizeRight, Stored
  <2> QED BY <1>1, <2>4, <2>5
<1> QED BY <1>1, <1>5, <1>6, <1>7, <1>8, <1>9, <1>10

\* A second goes by at a worker.
LEMMA ClockKeeps ==
  ASSUME UploadInv, NEW w \in Procs, Clock(w), UNCHANGED <<up, sent, tracker, lost>>
  PROVE  UploadInv'
<1> USE DEF UploadInv
<1>1. UNCHANGED <<entry, data, job, faults>>
  BY DEF Clock, Second, Cleanup
<1>2. cache \in [Procs -> [CacheKeys -> CacheEntries]] /\ DOMAIN cache[w] = CacheKeys
  BY NameCached DEF NodeType
<1>3. /\ cache' \in [Procs -> [CacheKeys -> CacheEntries]]
      /\ \A v \in Procs, k \in CacheKeys : cache'[v][k].fresh => cache[v][k].fresh /\ cache'[v][k].size = cache[v][k].size
  <2>1. CASE Second(w)
    <3>1. PICK f : f = [k \in CacheKeys |-> [cache[w][k] EXCEPT !.fresh = FALSE]]
      OBVIOUS
    <3>2. cache' = [cache EXCEPT ![w] = f]
      BY <1>2, <2>1, <3>1 DEF Second
    <3>3. ASSUME NEW k \in CacheKeys PROVE [cache[w][k] EXCEPT !.fresh = FALSE] \in CacheEntries /\ ~f[k].fresh
      <4>1. cache[w][k] \in CacheEntries
        BY <1>2
      <4> QED BY <3>1, <4>1 DEF CacheEntries
    <3>4. f \in [CacheKeys -> CacheEntries]
      BY <3>1, <3>3
    <3>5. ASSUME NEW v \in Procs PROVE cache'[v] = IF v = w THEN f ELSE cache[v]
      BY <1>2, <3>2
    <3> QED BY <1>2, <3>2, <3>3, <3>4, <3>5
  <2>2. CASE \E k \in CacheKeys : Cleanup(w, k)
    <3>1. PICK k \in CacheKeys : cache' = [cache EXCEPT ![w][k] = NotCached]
      BY <2>2 DEF Cleanup
    <3>2. PICK e : e = NotCached
      OBVIOUS
    <3>3. e \in CacheEntries /\ ~e.fresh
      BY <3>2 DEF NotCached, CacheEntries
    <3>4. ASSUME NEW v \in Procs, NEW j \in CacheKeys PROVE cache'[v][j] = IF v = w /\ j = k THEN e ELSE cache[v][j]
      BY <1>2, <3>1, <3>2
    <3>5. cache' \in [Procs -> [CacheKeys -> CacheEntries]]
      BY <1>2, <3>1, <3>2, <3>3
    <3> QED BY <3>3, <3>4, <3>5
  <2> QED BY <1>2, <2>1, <2>2 DEF Clock
<1>4. /\ Content' = Content /\ NodeType'
      /\ \A v \in Procs : (AtSection(v)' <=> AtSection(v)) /\ (Sizing(v)' <=> Sizing(v))
  BY <1>1, <1>3 DEF Content, NodeType, Busy, AtSection, Sizing, JobFits, Writing
<1>5. OnTheWay' = OnTheWay /\ job' = job /\ \A x : Written(x)' <=> Written(x)
  BY <1>1, <1>4 DEF OnTheWay, Written
<1>6. SamePlace /\ ClientType'
  BY DEF SamePlace, ClientType
<1>7. (InStep' <=> InStep) /\ (LastServed' <=> LastServed) /\ Labels' /\ InPlace' /\ Position'
  BY <1>4, <1>5, <1>6, PlaceKept, PositionKept
<1>8. Accounted'
  BY <1>4, <1>5, <1>7 DEF Accounted
<1>9. OneQuestion'
  BY <1>4 DEF OneQuestion, Stored
<1>10. LengthKnown'
  <2>1. ASSUME NEW v \in Procs, NEW k \in CacheKeys, cache'[v][k].fresh
        PROVE  tracker.key # OldFile /\ (cache'[v][k].size = IsADir \/ SizeRight(cache'[v][k].size))
    BY <1>3, <2>1 DEF LengthKnown
  <2> QED BY <1>1, <1>4, <1>5, <1>7, <2>1 DEF LengthKnown, SizeRight, Stored
<1> QED BY <1>4, <1>6, <1>7, <1>8, <1>9, <1>10

-------------------------------------------------------------------------------
\* The induction

LEMMA StutterKeeps ==
  ASSUME UploadInv, UNCHANGED uploadVars
  PROVE  UploadInv'
<1> USE DEF uploadVars, nodeVars
<1>1. NodeType' /\ ClientType'
  BY DEF UploadInv, NodeType, ClientType, Busy, JobFits
<1>2. SamePlace /\ OnTheWay' = OnTheWay
  BY DEF SamePlace, OnTheWay, AtSection, Busy
<1>3. (InStep' <=> InStep) /\ (LastServed' <=> LastServed) /\ Labels' /\ InPlace' /\ Position'
  <2>1. Content' = Content
    BY DEF Content
  <2> QED BY <1>2, <2>1, PlaceKept, PositionKept DEF UploadInv
<1>4. Accounted'
  <2>1. \A x : Written(x)' <=> Written(x)
    BY DEF Written, Content
  <2> QED BY <1>3, <2>1 DEF UploadInv, Accounted, AtSection, Busy
<1>5. OneQuestion'
  BY DEF UploadInv, OneQuestion, Sizing, Busy, Stored
<1>6. LengthKnown'
  <2>1. \A m : SizeRight(m)' <=> SizeRight(m)
    BY <1>3 DEF SizeRight
  <2> QED BY <1>3, <2>1 DEF UploadInv, LengthKnown, Content, Sizing, Busy, Stored
<1> QED BY <1>1, <1>3, <1>4, <1>5, <1>6 DEF UploadInv

LEMMA UploadStarts ==
  ASSUME UploadInit
  PROVE  UploadInv
<1>1. /\ entry = [p \in Paths |-> Absent] /\ data = [i \in Inodes |-> <<>>]
      /\ job = [w \in Procs |-> Idle] /\ faults = 0
      /\ cache = [w \in Procs |-> [k \in {Hash[p] : p \in Paths} |-> NotCached]]
      /\ sent = {} /\ lost = {}
      /\ tracker = [pc |-> "idle", temp |-> FALSE, key |-> OldFile]
  BY DEF UploadInit, NodeInit
<1>2. PICK s \in Sizes : up = [pc |-> "open", size |-> s, left |-> s, at |-> 0, off |-> 0, tries |-> 1,
                               total |-> 0, session |-> TRUE]
  BY DEF UploadInit
<1>3. s \in Nat /\ Block \in Nat \ {0} /\ Name \in Paths
  BY UploadAssumption
<1>4. \A w \in Procs : ~Busy(w) /\ ~AtSection(w) /\ ~Sizing(w)
  BY <1>1 DEF Busy, AtSection, Sizing
<1>5. OnTheWay = {}
  BY <1>1, <1>4 DEF OnTheWay
<1>6. Content = <<>> /\ Len(Content) = 0
  BY <1>1, <1>3 DEF Content
<1>7. NodeType
  <2>1. NotCached \in CacheEntries
    BY DEF NotCached, CacheEntries
  <2> QED BY <1>1, <1>4, <2>1, EmptySeq DEF NodeType, CacheKeys
<1>8. ClientType
  BY <1>1, <1>2, <1>3 DEF ClientType, Clients, OldFile, NoFile
<1>9. up.pc = "open" /\ up.left = s /\ up.size = s /\ up.at = 0 /\ up.off = 0 /\ up.session
  BY <1>2
<1>10. Position
  BY <1>3, <1>9 DEF Position, InStep
<1>11. Labels /\ InPlace
  BY <1>1, <1>5, <1>6, <1>9 DEF Labels, InPlace
<1>12. Accounted
  BY <1>9 DEF Accounted
<1>13. OneQuestion
  BY <1>1, <1>4, <1>9 DEF OneQuestion, Stored, OldFile
<1>14. LengthKnown
  <2>1. \A w \in Procs, k \in CacheKeys : ~cache[w][k].fresh
    BY <1>1 DEF CacheKeys, NotCached
  <2>2. tracker.key = OldFile /\ ~Stored
    BY <1>1 DEF Stored, OldFile
  <2>3. ~(up.pc \in {"close", "closing", "ok"} \/ tracker.key # OldFile)
    BY <1>9, <2>2
  <2> QED BY <1>4, <2>1, <2>2, <2>3, Zenon DEF LengthKnown
<1> QED BY <1>7, <1>8, <1>10, <1>11, <1>12, <1>13, <1>14 DEF UploadInv

LEMMA StepKeeps ==
  ASSUME UploadInv, UploadNext
  PROVE  UploadInv'
<1>1. CASE Client
  BY <1>1, CreateOpenKeeps, SendSectionKeeps, ReadAnswerKeeps, CreateCloseKeeps, CloseFailsKeeps DEF Client
<1>2. CASE Trouble
  BY <1>2, SendShortKeeps, SendFailsKeeps, CloseFailsKeeps, ExpiryKeeps, AnswerKeeps DEF Trouble
<1>3. ASSUME NEW w \in Procs, NodeAtWork(w) PROVE UploadInv'
  BY <1>3, TakeKeeps, AnswerKeeps, WorkKeeps DEF NodeAtWork
<1>4. ASSUME NEW w \in Procs, Clock(w) /\ UNCHANGED <<up, sent, tracker, lost>> PROVE UploadInv'
  BY <1>4, ClockKeeps
<1> QED BY <1>1, <1>2, <1>3, <1>4 DEF UploadNext

-------------------------------------------------------------------------------
\* What the invariant says of the file and of the answer

LEMMA ViewIs ==
  ASSUME UploadInv
  PROVE  View[Name].has = Content /\ (entry[Name] # Absent => View[Name] = File(Content))
<1>1. entry[Name] \in Inodes \cup {Absent} /\ Directory \notin Inodes /\ Absent \notin Inodes
  BY ContentTyped DEF UploadInv
<1>2. View[Name] = CASE entry[Name] = Absent    -> Nothing
                     [] entry[Name] = Directory -> Collection
                     [] OTHER                   -> File(data[entry[Name]])
  BY UploadAssumption DEF View, ViewOf
<1>3. CASE entry[Name] = Absent
  <2>1. View[Name] = Nothing
    <3>1. entry[Name] # Directory
      BY <1>3 DEF Absent, Directory
    <3> QED BY <1>2, <1>3, <3>1
  <2> QED BY <1>3, <2>1 DEF Nothing, Content
<1>4. CASE entry[Name] # Absent
  <2>1. entry[Name] # Directory
    BY <1>1, <1>4 DEF Absent, Directory
  <2>2. View[Name] = File(data[entry[Name]])
    BY <1>2, <1>4, <2>1
  <2>3. View[Name] = File(Content)
    BY <1>4, <2>2 DEF Content
  <2> QED BY <2>3 DEF File
<1> QED BY <1>3, <1>4

LEMMA InPlaceHolds ==
  ASSUME UploadInv
  PROVE  SectionsInPlace
<1> SUFFICES ASSUME InStep, NEW i \in DOMAIN Content PROVE Content[i] \in {0, i}
  BY ViewIs DEF SectionsInPlace, Byte
<1>1. i \in 1..Len(Content)
  BY ContentTyped, LenProperties DEF UploadInv
<1> QED BY <1>1 DEF UploadInv, InPlace

LEMMA WholeHolds ==
  ASSUME UploadInv
  PROVE  WholeOnceServed
<1> SUFFICES ASSUME up.pc = "ok", lost = {}, Unanswered = {}
             PROVE  View[Name] = File([i \in 1..up.size |-> Byte(i)])
  BY DEF WholeOnceServed
<1>1. InStep /\ up.off = up.size /\ up.size \in Nat
  <2>1. InStep /\ up.at = up.size /\ up.at \in Nat /\ up.size \in Nat
    BY SendSizeIs DEF UploadInv, Position
  <2> QED BY <2>1 DEF InStep
<1>2. up.size >= 1
  <2>1. Stored /\ tracker.key \in Int
    BY DEF UploadInv, OneQuestion, ClientType, OldFile, NoFile
  <2>2. tracker.key <= up.size
    BY <1>1, <2>1 DEF UploadInv, LengthKnown, SizeRight
  <2> QED BY <1>1, <2>1, <2>2 DEF Stored
<1>3. (\A r \in sent : r = SizeRequest) /\ \A w \in Procs : ~AtSection(w)
  <2> DEFINE open == {q \in sent \cup {job[w].req : w \in {v \in Procs : job[v] # Idle}} : q # SizeRequest}
  <2>1. \A q \in open : q.off \in Unanswered
    BY DEF Unanswered
  <2>2. open = {}
    BY <2>1
  <2>3. \A r \in sent : r = SizeRequest
    BY <2>2
  <2>4. ASSUME NEW w \in Procs, AtSection(w) PROVE FALSE
    BY <2>2, <2>4 DEF AtSection, Busy
  <2> QED BY <2>3, <2>4
<1>4. \A x \in 1..up.size : Written(x)
  BY <1>1, <1>3 DEF UploadInv, Accounted
<1>5. Content \in Seq(Nat) /\ Len(Content) \in Nat
  BY ContentTyped DEF UploadInv
<1>6. Len(Content) = up.size
  <2>1. Len(Content) <= up.size
    BY <1>1 DEF UploadInv, InPlace
  <2>2. up.size \in 1..up.size
    BY <1>1, <1>2
  <2>3. up.size <= Len(Content)
    BY <1>4, <2>2 DEF Written
  <2> QED BY <1>1, <1>5, <2>1, <2>3
<1>7. entry[Name] # Absent
  <2>1. Len(<<>>) = 0
    OBVIOUS
  <2> QED BY <1>1, <1>2, <1>6, <2>1 DEF Content
<1>8. Content = [i \in 1..up.size |-> Byte(i)]
  <2>1. \A x \in 1..up.size : Content[x] = x
    BY <1>4 DEF Written
  <2>2. DOMAIN Content = 1..up.size /\ Content = [i \in 1..Len(Content) |-> Content[i]]
    BY <1>5, <1>6, LenProperties
  <2>3. Content = [i \in 1..up.size |-> Content[i]]
    BY <1>6, <2>2
  <2>4. [i \in 1..up.size |-> Content[i]] = [i \in 1..up.size |-> i]
    BY <2>1
  <2> QED BY <2>3, <2>4 DEF Byte
<1> QED BY <1>7, <1>8, ViewIs

LEMMA LengthHolds ==
  ASSUME UploadInv
  PROVE  LengthRight
BY DEF UploadInv, LengthKnown, SizeRight, LastServed, LengthRight

LEMMA ReportHolds ==
  ASSUME UploadInv
  PROVE  ReportedTruly
<1>1. ClientType /\ OneQuestion
  BY DEF UploadInv
<1>2. tracker.pc \in {"idle", "head"}
  BY <1>1 DEF ClientType
<1> QED BY <1>1, <1>2 DEF OneQuestion, ReportedTruly

-------------------------------------------------------------------------------
\* The theorems

\* The inductive invariant (ylem_putfile, cmd_create_close and the node's workers together):
\* where the client is, which sections are where, and what of the file has been written.
THEOREM UploadInvariant == UploadSpec => []UploadInv
<1>1. UploadInit => UploadInv
  BY UploadStarts
<1>2. UploadInv /\ [UploadNext]_uploadVars => UploadInv'
  BY StepKeeps, StutterKeeps
<1> QED BY <1>1, <1>2, PTL DEF UploadSpec

\* Sections are written where they belong, in whatever order and by whatever worker
\* (YlemClient::ylem_putfile 231-257, mod_webdav's PUT), for every size, section length,
\* number of tries, of workers and of faults.
THEOREM SectionsAlwaysInPlace == UploadSpec => []SectionsInPlace
<1>1. UploadInv => SectionsInPlace
  BY InPlaceHolds
<1> QED BY <1>1, UploadInvariant, PTL

\* A file reported as stored is whole when its sections have been served and none was lost,
\* although the client does not read their answers (YlemClient::ylem_putfile).
THEOREM AlwaysWholeOnceServed == UploadSpec => []WholeOnceServed
<1>1. UploadInv => WholeOnceServed
  BY WholeHolds
<1> QED BY <1>1, UploadInvariant, PTL

\* The length the tracker gets from the node in cmd_create_close is the file's, if the answer
\* to a last section that is not full was awaited and the section was not lost.
THEOREM LengthAlwaysRight == UploadSpec => []LengthRight
<1>1. UploadInv => LengthRight
  BY LengthHolds
<1> QED BY <1>1, UploadInvariant, PTL

\* What ylem_putfile returns agrees with what the key leads to (ylem_createclose 301-327).
THEOREM AlwaysReportedTruly == UploadSpec => []ReportedTruly
<1>1. UploadInv => ReportedTruly
  BY ReportHolds
<1> QED BY <1>1, UploadInvariant, PTL
================================================================================
