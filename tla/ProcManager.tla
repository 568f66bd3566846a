------------------------------ MODULE ProcManager ------------------------------
(***************************************************************************)
(* The parent process of mogilefsd (MogileFS::ProcManager and the two      *)
(* MogileFS::Connection classes): one single-threaded event loop that      *)
(*                                                                         *)
(*   - takes query lines from clients, hands each to an idle query worker  *)
(*     and relays the worker's answer line to the client;                  *)
(*   - keeps every job ("queryworker", "delete", ...) at its wanted number *)
(*     of worker processes: forks, reaps, asks surplus workers to die.     *)
(*                                                                         *)
(* A parent handler is one action, except that the respawn part of         *)
(* PostEventLoopChecker is walked step by step under pc ("spawn",          *)
(* "register"), because the freshly forked process already runs then.      *)
(* Worker processes and the pipes to and from them interleave freely.      *)
(* A worker's name stands for its pid and its connection object; a name is *)
(* used again once the old process is reaped and nothing refers to it.     *)
(***************************************************************************)
EXTENDS Integers, Sequences, FiniteSets

CONSTANTS
  Clients,       \* client connections
  Workers,       \* names of worker processes (pids)
  Jobs,          \* job classes
  QueryWorker,   \* the job class that answers client queries
  InitMin,       \* [Jobs -> Nat]: the configured number of workers per job
  Wanted,        \* the counts an administrator may ask for with !want
  MaxReqs,       \* bound: queries one client sends
  MaxLines,      \* how many lines one query may write: 2 where an error path
                 \* of Worker/Query.pm goes on to write a second line
  MaxCrashes,    \* bound: processes that die without being asked to
  MaxForkFails,  \* bound: failing fork() calls
  MaxWants,      \* bound: !want commands
  None           \* no query

ASSUME JobAssumption    == QueryWorker \in Jobs
ASSUME MinAssumption    == InitMin \in [Jobs -> Nat]
ASSUME WantedAssumption == Wanted \subseteq Nat
ASSUME BoundAssumption  == /\ MaxReqs \in Nat
                           /\ MaxLines \in Nat \ {0}
                           /\ MaxCrashes \in Nat
                           /\ MaxForkFails \in Nat
                           /\ MaxWants \in Nat

VARIABLES
  \* clients
  asked,      \* number of queries each client has sent
  replies,    \* the answers written to each client, in order
  status,     \* "open", "hung_up", or "mismatch" when the parent closed it
  \* the parent's tables
  pending,    \* @PendingQueries
  idle,       \* @IdleQueryWorkers
  mapping,    \* %Mappings: the query a worker is answering, or None
  reqid,      \* the number of the last query given to each worker
  wanted,     \* $jobs{job}->[0]
  current,    \* $jobs{job}->[1]
  todie,      \* %todie
  child,      \* the keys of %child
  allkidsup,  \* $allkidsup
  visit,      \* the jobs the `each %jobs` iterator has still to return
  pc,         \* where PostEventLoopChecker is: "loop" when not in it
  \* worker connections and processes
  job,        \* job class of each worker
  closed,     \* connections that are {closed}
  proc,       \* "none", "alive" or "dead" (a zombie not yet waited for)
  inbox,      \* lines from the parent the process has not read
  outbox,     \* lines to the parent it has not read
  task,       \* the query a worker is working on, or None
  \* what is left of the bounds
  crashes, forkfails, wants

clientVars == <<asked, replies, status>>
queueVars  == <<pending, idle, mapping, reqid>>
staffVars  == <<wanted, current, todie, child, allkidsup, visit, pc>>
connVars   == <<job, closed, proc>>
pipeVars   == <<inbox, outbox, task>>
boundVars  == <<crashes, forkfails, wants>>
vars       == <<clientVars, queueVars, staffVars, connVars, pipeVars, boundVars>>

Query    == [client : Clients, n : Nat]
Task     == [id : Nat, query : Query, left : Nat \ {0}]
Line     == [id : Nat, query : Query]
ToWorker == [kind : {"query"}, id : Nat, query : Query]
              \cup [kind : {"shutdown", "stay_alive"}]
ToParent == [kind : {"answer"}, line : Line] \cup [kind : {":ping"}]

ASSUME NoneAssumption == None \notin Query \cup Task

IsFirst(s, Test(_), i) ==
  i \in 1..Len(s) /\ Test(s[i]) /\ \A k \in 1..(i - 1) : ~Test(s[k])

TypeOK ==
  /\ asked \in [Clients -> Nat]
  /\ replies \in [Clients -> Seq(Query)]
  /\ status \in [Clients -> {"open", "hung_up", "mismatch"}]
  /\ pending \in Seq(Query)
  /\ idle \in Seq(Workers)
  /\ mapping \in [Workers -> Query \cup {None}]
  /\ reqid \in [Workers -> Nat]
  /\ wanted \in [Jobs -> Nat]
  /\ current \in [Jobs -> Int]
  /\ todie \subseteq Workers
  /\ child \subseteq Workers
  /\ allkidsup \in BOOLEAN
  /\ visit \subseteq Jobs
  /\ pc \in {"loop", "spawn", "register"}
  /\ job \in [Workers -> Jobs]
  /\ closed \subseteq Workers
  /\ proc \in [Workers -> {"none", "alive", "dead"}]
  /\ inbox \in [Workers -> Seq(ToWorker)]
  /\ outbox \in [Workers -> Seq(ToParent)]
  /\ task \in [Workers -> Task \cup {None}]
  /\ crashes \in 0..MaxCrashes
  /\ forkfails \in 0..MaxForkFails
  /\ wants \in 0..MaxWants

\* The program starts with no children: the first PostEventLoopChecker forks them.
Init ==
  /\ asked = [c \in Clients |-> 0]
  /\ replies = [c \in Clients |-> <<>>]
  /\ status = [c \in Clients |-> "open"]
  /\ pending = <<>>
  /\ idle = <<>>
  /\ mapping = [w \in Workers |-> None]
  /\ reqid = [w \in Workers |-> 0]
  /\ wanted = InitMin
  /\ current = [j \in Jobs |-> 0]
  /\ todie = {}
  /\ child = {}
  /\ allkidsup = FALSE
  /\ visit = Jobs
  /\ pc = "loop"
  /\ job = [w \in Workers |-> QueryWorker]
  /\ closed = {}
  /\ proc = [w \in Workers |-> "none"]
  /\ inbox = [w \in Workers |-> <<>>]
  /\ outbox = [w \in Workers |-> <<>>]
  /\ task = [w \in Workers |-> None]
  /\ crashes = MaxCrashes
  /\ forkfails = MaxForkFails
  /\ wants = MaxWants

--------------------------------------------------------------------------------
(***************************** the parent's tables ************************)

\* A line written to a process that has died is lost.
Send(box, w, m) == IF proc[w] = "alive" THEN [box EXCEPT ![w] = Append(@, m)] ELSE box

Open(q)      == status[q.client] = "open"
Connected(w) == w \notin closed

\* "<pid>-<reqid> <query>": the id is the counter after its increment.
QueryLineUncounted(w, q) == [kind |-> "query", id |-> reqid[w], query |-> q]  \* mutant
QueryLine(w, q) == [kind |-> "query", id |-> reqid[w] + 1, query |-> q]

(***************************************************************************)
(* ProcessQueues, called with the queues and the mappings its caller left: *)
(* entries of clients that are gone and of workers whose connection is     *)
(* closed are dropped on the way to the first pair that can be matched.    *)
(* The code loops until a queue is empty.  Each caller adds one element to *)
(* one queue while the other one is empty (OneQueueEmpty), so the first    *)
(* pair is also the last.                                                  *)
(***************************************************************************)
ProcessQueues(I, P, M) ==
  \/ /\ I = <<>> \/ P = <<>>
     /\ idle' = I /\ pending' = P /\ mapping' = M
     /\ UNCHANGED <<reqid, inbox>>
  \/ /\ I # <<>> /\ P # <<>>
     /\ \A i \in 1..Len(P) : ~Open(P[i])
     /\ idle' = I /\ pending' = <<>> /\ mapping' = M
     /\ UNCHANGED <<reqid, inbox>>
  \/ /\ I # <<>>
     /\ \A i \in 1..Len(I) : ~Connected(I[i])
     /\ \E p \in 1..Len(P) :
          /\ IsFirst(P, Open, p)
          /\ idle' = <<>> /\ pending' = SubSeq(P, p, Len(P)) /\ mapping' = M
     /\ UNCHANGED <<reqid, inbox>>
  \/ \E p \in 1..Len(P), i \in 1..Len(I) :
       /\ IsFirst(P, Open, p) /\ IsFirst(I, Connected, i)
       /\ idle' = SubSeq(I, i + 1, Len(I))
       /\ pending' = SubSeq(P, p + 1, Len(P))
       /\ mapping' = [M EXCEPT ![I[i]] = P[p]]
       /\ reqid' = [reqid EXCEPT ![I[i]] = @ + 1]
       /\ inbox' = Send(inbox, I[i], QueryLine(I[i], P[p]))

JobNeedsReduction(j) == wanted[j] < current[j]

AskWorkerToDieSilently(w) ==                                             \* mutant
  /\ todie' = todie \cup {w}
  /\ current' = [current EXCEPT ![job[w]] = @ - 1]
  /\ inbox' = inbox

AskWorkerToDie(w) ==
  /\ todie' = todie \cup {w}
  /\ current' = [current EXCEPT ![job[w]] = @ - 1]
  /\ inbox' = Send(inbox, w, [kind |-> "shutdown"])

NoteIdleWithoutQueueing(w) ==                                            \* mutant
  LET M == [mapping EXCEPT ![w] = None]
  IN  \/ /\ JobNeedsReduction(QueryWorker)
         /\ AskWorkerToDie(w)
         /\ mapping' = M
         /\ UNCHANGED <<idle, pending, reqid>>
      \/ /\ ~JobNeedsReduction(QueryWorker)
         /\ ProcessQueues(idle, pending, M)
         /\ UNCHANGED <<todie, current>>

NoteIdleQueryWorker(w) ==
  LET M == [mapping EXCEPT ![w] = None]
  IN  \/ /\ JobNeedsReduction(QueryWorker)
         /\ AskWorkerToDie(w)
         /\ mapping' = M
         /\ UNCHANGED <<idle, pending, reqid>>
      \/ /\ ~JobNeedsReduction(QueryWorker)
         /\ ProcessQueues(Append(idle, w), pending, M)
         /\ UNCHANGED <<todie, current>>

DropDeadWorkersQuery(w) ==                                               \* mutant
  /\ mapping' = [mapping EXCEPT ![w] = None]
  /\ UNCHANGED <<idle, pending, reqid, inbox>>

\* A dead worker's query goes back to the front of the queue.
NoteDeadWorkerConn(w) ==
  \/ /\ mapping[w] = None
     /\ UNCHANGED <<queueVars, inbox>>
  \/ /\ mapping[w] # None
     /\ ProcessQueues(idle, <<mapping[w]>> \o pending, [mapping EXCEPT ![w] = None])

--------------------------------------------------------------------------------
(******************************* client events ****************************)

EnqueueOnly(c) ==                                                        \* mutant
  /\ pc = "loop" /\ status[c] = "open"
  /\ asked[c] = Len(replies[c]) /\ asked[c] < MaxReqs
  /\ asked' = [asked EXCEPT ![c] = @ + 1]
  /\ pending' = Append(pending, [client |-> c, n |-> asked[c] + 1])
  /\ UNCHANGED <<replies, status, idle, mapping, reqid, staffVars, connVars, pipeVars,
                 boundVars>>

\* A client sends its next query once the last one is answered, as
\* Backend::do_request does.  Connection::Client::event_read, handle_request.
EnqueueCommandRequest(c) ==
  /\ pc = "loop" /\ status[c] = "open"
  /\ asked[c] = Len(replies[c]) /\ asked[c] < MaxReqs
  /\ asked' = [asked EXCEPT ![c] = @ + 1]
  /\ ProcessQueues(idle, Append(pending, [client |-> c, n |-> asked[c] + 1]), mapping)
  /\ UNCHANGED <<replies, status, staffVars, connVars, outbox, task, boundVars>>

\* The client hangs up.  Nothing but {closed} changes: its query stays queued.
ClientClose(c) ==
  /\ pc = "loop" /\ status[c] = "open"
  /\ status' = [status EXCEPT ![c] = "hung_up"]
  /\ UNCHANGED <<asked, replies, queueVars, staffVars, connVars, pipeVars, boundVars>>

\* CullQueryWorkers: how many idle workers it shifts off the list.
CullCount(n) ==
  IF current[QueryWorker] - n <= 0 THEN 0
  ELSE IF current[QueryWorker] - n < Len(idle) THEN current[QueryWorker] - n
  ELSE Len(idle)

\* !want n j, an administrator's command: request_job_process and CullQueryWorkers.
RequestJobProcess(j, n) ==
  LET k     == IF j = QueryWorker THEN CullCount(n) ELSE 0
      culled == {idle[i] : i \in 1..k}
  IN  /\ pc = "loop" /\ wants > 0
      /\ wants' = wants - 1
      /\ wanted' = [wanted EXCEPT ![j] = n]
      /\ allkidsup' = FALSE
      /\ idle' = SubSeq(idle, k + 1, Len(idle))
      /\ todie' = todie \cup culled
      /\ current' = [current EXCEPT ![QueryWorker] = @ - k]
      /\ inbox' = [w \in Workers |-> IF w \in culled
                                     THEN Send(inbox, w, [kind |-> "shutdown"])[w]
                                     ELSE inbox[w]]
      /\ UNCHANGED <<clientVars, pending, mapping, reqid, child, visit, pc, connVars,
                     outbox, task, crashes, forkfails>>

--------------------------------------------------------------------------------
(************************ lines from the workers **************************)

\* Connection::Worker::event_read takes the next line off a worker's pipe.
ReadLine(w, kind) ==
  /\ pc = "loop" /\ w \in child /\ Connected(w)
  /\ outbox[w] # <<>> /\ Head(outbox[w]).kind = kind
  /\ outbox' = [outbox EXCEPT ![w] = Tail(@)]

Answer(w) == Head(outbox[w]).line
Asker(w)  == mapping[w].client

\* HandleQueryWorkerResponse, in the order of its returns.
\* A line of a worker that has no query mapped is ignored.
IgnoreAnswer(w) ==
  /\ ReadLine(w, "answer")
  /\ mapping[w] = None
  /\ UNCHANGED <<clientVars, queueVars, staffVars, connVars, inbox, task, boundVars>>

\* The client is gone: the worker counts as idle, whatever query the line answers.
DropAnswer(w) ==
  /\ ReadLine(w, "answer")
  /\ mapping[w] # None /\ ~Open(mapping[w])
  /\ NoteIdleQueryWorker(w)
  /\ UNCHANGED <<clientVars, wanted, child, allkidsup, visit, pc, connVars, task, boundVars>>

IdIsNotRead(w) == TRUE                                                   \* mutant
IdMatches(w) == Answer(w).id = reqid[w]

\* The line answers another query (or carries no time, so that it does not parse):
\* the client is closed and the worker asked to die.  The mapping stays.
MismatchedAnswer(w) ==
  /\ ReadLine(w, "answer")
  /\ mapping[w] # None /\ Open(mapping[w]) /\ ~IdMatches(w)
  /\ status' = [status EXCEPT ![Asker(w)] = "mismatch"]
  /\ AskWorkerToDie(w)
  /\ UNCHANGED <<asked, replies, queueVars, wanted, child, allkidsup, visit, pc, connVars,
                 task, boundVars>>

RelayAnswer(w) ==
  /\ ReadLine(w, "answer")
  /\ mapping[w] # None /\ Open(mapping[w]) /\ IdMatches(w)
  /\ replies' = [replies EXCEPT ![Asker(w)] = Append(@, Answer(w).query)]
  /\ NoteIdleQueryWorker(w)
  /\ UNCHANGED <<asked, status, wanted, child, allkidsup, visit, pc, connVars, task,
                 boundVars>>

\* HandleChildRequest for ":ping": stay, or die when the job has too many workers.
AnswerPing(w) ==
  /\ ReadLine(w, ":ping")
  /\ \/ /\ JobNeedsReduction(job[w])
        /\ AskWorkerToDie(w)
     \/ /\ ~JobNeedsReduction(job[w])
        /\ inbox' = Send(inbox, w, [kind |-> "stay_alive"])
        /\ UNCHANGED <<todie, current>>
  /\ UNCHANGED <<clientVars, queueVars, wanted, child, allkidsup, visit, pc, connVars, task,
                 boundVars>>

\* The event loop sees the end of a dead worker's pipe, which may hide unread lines.
CloseDeadConn(w) ==
  /\ pc = "loop" /\ proc[w] = "dead" /\ w \in child /\ Connected(w)
  /\ NoteDeadWorkerConn(w)
  /\ closed' = closed \cup {w}
  /\ outbox' = [outbox EXCEPT ![w] = <<>>]
  /\ UNCHANGED <<clientVars, staffVars, job, proc, task, boundVars>>

--------------------------------------------------------------------------------
(************************ PostEventLoopChecker ****************************)

ForgetsADeath(w) == current                                              \* mutant
DeathCounted(w) == IF w \in todie THEN current
                   ELSE [current EXCEPT ![job[w]] = @ - 1]

\* waitpid returns a dead child.  Its death is subtracted from the job's count
\* unless it was when the parent asked for it.
ReapChild(w) ==
  /\ pc = "loop" /\ proc[w] = "dead" /\ w \in child
  /\ proc' = [proc EXCEPT ![w] = "none"]
  /\ child' = child \ {w}
  /\ IF Connected(w) THEN NoteDeadWorkerConn(w) ELSE UNCHANGED <<queueVars, inbox>>
  /\ closed' = closed \cup {w}
  /\ outbox' = [outbox EXCEPT ![w] = <<>>]
  /\ current' = DeathCounted(w)
  /\ todie' = todie \ {w}
  /\ allkidsup' = FALSE
  /\ pc' = "spawn"
  /\ UNCHANGED <<clientVars, wanted, visit, job, task, boundVars>>

\* waitpid returns nobody, but not all kids are known to be up.
NobodyToReap ==
  /\ pc = "loop" /\ ~allkidsup
  /\ \A w \in child : proc[w] # "dead"
  /\ pc' = "spawn"
  /\ UNCHANGED <<clientVars, queueVars, wanted, current, todie, child, allkidsup, visit,
                 connVars, pipeVars, boundVars>>

MissingLessOne(j) == wanted[j] - current[j] - 1                          \* mutant
Missing(j) == wanted[j] - current[j]

\* A name nothing refers to.  They are all alike, so which one a new process gets
\* is fixed.
Unused(w) == proc[w] = "none" /\ w \notin todie /\ \A i \in 1..Len(idle) : idle[i] # w
NextName  == CHOOSE w \in Workers : Unused(w)

\* make_new_child up to the fork.
Fork(j, w) ==
  /\ pc = "spawn" /\ j \in visit /\ Missing(j) > 0
  /\ Unused(w) /\ w = NextName
  /\ pc' = "register"
  /\ proc' = [proc EXCEPT ![w] = "alive"]
  /\ job' = [job EXCEPT ![w] = j]
  /\ closed' = closed \ {w}
  /\ reqid' = [reqid EXCEPT ![w] = 0]
  /\ UNCHANGED <<clientVars, pending, idle, mapping, wanted, current, todie, child,
                 allkidsup, visit, pipeVars, boundVars>>

\* RegisterWorkerConn, and the two lines after make_new_child returns.  The job is
\* still one short while the worker is noted idle, so no reduction is due.
RegisterWorkerConn(w) ==
  /\ pc = "register" /\ proc[w] # "none" /\ w \notin child
  /\ pc' = "spawn"
  /\ IF job[w] = QueryWorker THEN ProcessQueues(Append(idle, w), pending, mapping)
                             ELSE UNCHANGED <<queueVars, inbox>>
  /\ child' = child \cup {w}
  /\ current' = [current EXCEPT ![job[w]] = @ + 1]
  /\ UNCHANGED <<clientVars, wanted, todie, allkidsup, visit, connVars, outbox, task,
                 boundVars>>

\* fork fails: the sub returns in the middle of `each %jobs`, which resumes after
\* this job, and after the satisfied jobs S it has passed already.
ForkFails(j) ==
  /\ pc = "spawn" /\ j \in visit /\ Missing(j) > 0
  /\ forkfails > 0
  /\ forkfails' = forkfails - 1
  /\ \E S \in SUBSET {k \in visit : Missing(k) <= 0} : visit' = visit \ ({j} \cup S)
  /\ pc' = "loop"
  /\ UNCHANGED <<clientVars, queueVars, wanted, current, todie, child, allkidsup, connVars,
                 pipeVars, crashes, wants>>

\* The iterator reaches its end: "all jobs have been re-created".
AllJobsVisited ==
  /\ pc = "spawn" /\ \A j \in visit : Missing(j) <= 0
  /\ visit' = Jobs
  /\ allkidsup' = TRUE
  /\ pc' = "loop"
  /\ UNCHANGED <<clientVars, queueVars, wanted, current, todie, child, connVars, pipeVars,
                 boundVars>>

--------------------------------------------------------------------------------
(*************************** worker processes *****************************)

Hears(w, kind) ==
  /\ proc[w] = "alive" /\ task[w] = None
  /\ inbox[w] # <<>> /\ Head(inbox[w]).kind = kind

\* Worker::Query::work reads a query; it will write one line, or more.
TakeQuery(w) ==
  /\ Hears(w, "query")
  /\ \E n \in 1..MaxLines :
       task' = [task EXCEPT ![w] = [id |-> Head(inbox[w]).id,
                                    query |-> Head(inbox[w]).query, left |-> n]]
  /\ inbox' = [inbox EXCEPT ![w] = Tail(@)]
  /\ UNCHANGED <<clientVars, queueVars, staffVars, connVars, outbox, boundVars>>

NeverDone(t) ==                                                          \* mutant
  [id |-> 0, query |-> t.query, left |-> t.left - 1]

AfterALine(t) ==
  IF t.left = 1 THEN None ELSE [id |-> 0, query |-> t.query, left |-> t.left - 1]

\* ok_line and err_line: querystarttime is cleared by the first line, so a second one
\* has no time field and no id the parent's pattern would find (0).
WriteLine(w) ==
  /\ proc[w] = "alive" /\ task[w] # None
  /\ outbox' = [outbox EXCEPT ![w] =
       Append(@, [kind |-> "answer",
                  line |-> [id |-> task[w].id, query |-> task[w].query]])]
  /\ task' = [task EXCEPT ![w] = AfterALine(task[w])]
  /\ UNCHANGED <<clientVars, queueVars, staffVars, connVars, inbox, boundVars>>

Dies(w) ==
  /\ proc' = [proc EXCEPT ![w] = "dead"]
  /\ inbox' = [inbox EXCEPT ![w] = <<>>]
  /\ task' = [task EXCEPT ![w] = None]

\* ":shutdown" ends the process.
ObeyShutdown(w) ==
  /\ Hears(w, "shutdown")
  /\ Dies(w)
  /\ UNCHANGED <<clientVars, queueVars, staffVars, job, closed, outbox, boundVars>>

\* A crash at any point, or kill -9 by the parent's WatchDog.
Crash(w) ==
  /\ proc[w] = "alive" /\ crashes > 0
  /\ crashes' = crashes - 1
  /\ Dies(w)
  /\ UNCHANGED <<clientVars, queueVars, staffVars, job, closed, outbox, forkfails, wants>>

\* A worker of another job calls parent_ping at the top of its loop and waits.
ParentPing(w) ==
  /\ proc[w] = "alive" /\ job[w] # QueryWorker
  /\ inbox[w] = <<>> /\ outbox[w] = <<>>
  /\ outbox' = [outbox EXCEPT ![w] = Append(@, [kind |-> ":ping"])]
  /\ UNCHANGED <<clientVars, queueVars, staffVars, connVars, inbox, task, boundVars>>

HearStayAlive(w) ==
  /\ Hears(w, "stay_alive")
  /\ inbox' = [inbox EXCEPT ![w] = Tail(@)]
  /\ UNCHANGED <<clientVars, queueVars, staffVars, connVars, outbox, task, boundVars>>

--------------------------------------------------------------------------------

ParentReads(w) == \/ IgnoreAnswer(w) \/ DropAnswer(w) \/ MismatchedAnswer(w)
                  \/ RelayAnswer(w) \/ AnswerPing(w) \/ CloseDeadConn(w)

CheckChildren == \/ \E w \in Workers : ReapChild(w) \/ RegisterWorkerConn(w)
                 \/ NobodyToReap
                 \/ \E j \in Jobs, w \in Workers : Fork(j, w)
                 \/ \E j \in Jobs : ForkFails(j)
                 \/ AllJobsVisited

WorkerRuns(w) == \/ TakeQuery(w) \/ WriteLine(w) \/ ObeyShutdown(w)
                 \/ ParentPing(w) \/ HearStayAlive(w)

Next ==
  \/ \E c \in Clients : EnqueueCommandRequest(c) \/ ClientClose(c)
  \/ \E j \in Jobs, n \in Wanted : RequestJobProcess(j, n)
  \/ \E w \in Workers : ParentReads(w) \/ WorkerRuns(w) \/ Crash(w)
  \/ CheckChildren

Spec == Init /\ [][Next]_vars

--------------------------------------------------------------------------------
(*************** what makes RepliesMatch inductive (see the proofs) *******)

\* If the client is open, q is the query it asked last and still waits for.
Due(q, ask, rep, st) ==
  st[q.client] = "open" => /\ q.n = ask[q.client]
                           /\ ask[q.client] = Len(rep[q.client]) + 1

Apart(p, q, st) == st[p.client] = "open" => p.client # q.client

\* An open client's query waits in one place only and is the one it asked last.
QueueOK(P, M, ask, rep, st) ==
  /\ \A i \in 1..Len(P) : Due(P[i], ask, rep, st)
  /\ \A w \in Workers : M[w] # None => Due(M[w], ask, rep, st)
  /\ \A i, j \in 1..Len(P) : i # j => Apart(P[i], P[j], st)
  /\ \A i \in 1..Len(P), w \in Workers : M[w] # None => Apart(P[i], M[w], st)
  /\ \A v, w \in Workers : v # w /\ M[v] # None /\ M[w] # None => Apart(M[v], M[w], st)

\* Idle workers whose connection is up are children, listed once, without a query;
\* closed and unregistered ones have none either.
PoolOK(I, M, cl, ch) ==
  /\ \A i \in 1..Len(I) : I[i] \notin cl =>
       /\ I[i] \in ch
       /\ M[I[i]] = None
       /\ \A j \in 1..Len(I) : j # i => I[j] # I[i]
  /\ \A w \in Workers : w \in cl \/ w \notin ch => M[w] = None

\* A message with the worker's newest number r carries the query q mapped to it.
Labelled(m, r, q) == m.id <= r /\ (m.id = r /\ q # None => m.query = q)

InboxLabelled(w) ==
  \A i \in 1..Len(inbox[w]) :
    inbox[w][i].kind = "query" => Labelled(inbox[w][i], reqid[w], mapping[w])

AnswersLabelled ==
  \A w \in Workers :
    /\ InboxLabelled(w)
    /\ task[w] # None => Labelled(task[w], reqid[w], mapping[w])
    /\ \A i \in 1..Len(outbox[w]) :
         outbox[w][i].kind = "answer" => Labelled(outbox[w][i].line, reqid[w], mapping[w])

\* A process that is gone has nothing left in its pipes.
NamesFree ==
  \A w \in Workers :
    /\ w \in child => proc[w] # "none"
    /\ proc[w] # "alive" => inbox[w] = <<>> /\ task[w] = None
    /\ proc[w] = "none" => outbox[w] = <<>>

\* What the operating system and the event loop guarantee: every process runs on, and
\* the loop serves every readable pipe and calls its callback.  Clients, !want,
\* crashes and failing forks are never obliged to happen.
Fairness ==
  /\ \A w \in Workers : WF_vars(ParentReads(w)) /\ WF_vars(WorkerRuns(w))
  /\ WF_vars(CheckChildren)

FairSpec == Spec /\ Fairness

--------------------------------------------------------------------------------
(******************************* properties *******************************)

Occurrences(c) ==
  Cardinality({i \in 1..Len(pending) : pending[i].client = c})
  + Cardinality({w \in Workers : mapping[w] # None /\ mapping[w].client = c})

\* What a client reads is, in order, the answers to its own queries: an answer never
\* reaches another client, and never the same client as the answer to a later query
\* (the id test of HandleQueryWorkerResponse).
RepliesMatch ==
  \A c \in Clients : \A i \in 1..Len(replies[c]) :
    replies[c][i] = [client |-> c, n |-> i]

\* The query an open client waits for is in exactly one place: the queue, or one
\* worker's mapping.  Crashes, requeueing and reaping neither lose nor double it.
OutstandingOnce ==
  \A c \in Clients : status[c] = "open" =>
    Occurrences(c) = asked[c] - Len(replies[c])

\* No waiting query beside an idle worker: each handler that adds to one queue
\* matches it against the other before it returns.
OneQueueEmpty == idle = <<>> \/ pending = <<>>

\* What a client sees of the parent: whether it waits, and what it has read.
Phase(c) == IF status[c] # "open" THEN "gone"
            ELSE IF asked[c] > Len(replies[c]) THEN "waiting" ELSE "quiet"

Service == INSTANCE QueryService
             WITH phase <- [c \in Clients |-> Phase(c)], got <- replies

\* The parent with all its queues and workers is a QueryService: whatever crashes, is
\* requeued or asked to die in between, each step of the parent answers at most one
\* client, and that one with the answer to what it waits for; and a client is given up
\* only by closing its connection.
Serves == Service!Spec

RepliesInv ==
  /\ TypeOK
  /\ QueueOK(pending, mapping, asked, replies, status)
  /\ PoolOK(idle, mapping, closed, child)
  /\ AnswersLabelled
  /\ NamesFree
  /\ RepliesMatch

Serving(j) == {w \in child : job[w] = j /\ w \notin todie}

\* A query worker whose connection is up is idle once, or mapped, or asked to die:
\* none is forgotten, and none is given two queries at a time.
NoWorkerLost ==
  \A w \in child : (job[w] = QueryWorker /\ Connected(w)) =>
    LET places == Cardinality({i \in 1..Len(idle) : idle[i] = w})
                  + (IF mapping[w] = None THEN 0 ELSE 1)
    IN  places <= 1 /\ (w \notin todie => places = 1)

\* $jobs{job}->[1] never exceeds the workers that serve: counting too many would
\* leave the job short for good, since only the count decides about forking.
NeverOvercounted == \A j \in Jobs : current[j] <= Cardinality(Serving(j))

\* $allkidsup, "if true, all our kids are running": every job has its wanted number
\* of workers, those asked to die included.
AllKidsUp ==
  allkidsup => \A j \in Jobs :
    wanted[j] <= current[j] + Cardinality({w \in child : job[w] = j /\ w \in todie})

\* No client is closed for a worker's mismatch.
NoMismatch == \A c \in Clients : status[c] # "mismatch"

\* A client that stays gets an answer to every query it sends.
Answered ==
  \A c \in Clients :
    (status[c] = "open" /\ asked[c] > Len(replies[c]))
      ~> \/ status[c] # "open" \/ asked[c] = Len(replies[c])
         \/ wanted[QueryWorker] = 0

\* Every job is again and again at or above its wanted number of workers.
Staffed ==
  []<>(\A j \in Jobs : Cardinality({w \in Serving(j) : proc[w] = "alive"}) >= wanted[j])

\* A worker asked to die goes, and is replaced or not as the counts say.
Obeyed == \A w \in Workers : (w \in todie /\ w \in child) ~> (w \notin child)
================================================================================
