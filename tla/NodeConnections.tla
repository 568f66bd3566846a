---------------------------- MODULE NodeConnections ----------------------------
(***************************************************************************)
(* The event loop of one lighttpd worker: server.c's main loop, the state  *)
(* machine and the list of connections of connections.c, the job list and  *)
(* the epoll registrations of fdevent.c.  Clients act between any two      *)
(* steps of the loop; one run of a connection's state machine is one step. *)
(* What a request does to the files is StorageNode's business: here an     *)
(* answer is a number of units that may not fit into the socket.           *)
(***************************************************************************)
EXTENDS Integers, Sequences, FiniteSets, SequencesExt, FiniteSetsExt

CONSTANTS
  Clients,           \* connections clients may open
  Plan,              \* the units each will send
  MaxConns,          \* server.max-connections
  FdsHigh, FdsLow,   \* open descriptors above which accepting stops, below which it resumes
  MaxKeepAlive,      \* server.max-keep-alive-requests
  MaxReadIdle, MaxKeepAliveIdle, MaxWriteIdle,   \* seconds
  Room,              \* units that fit into a socket's send buffer
  MaxQuits,          \* bound on clients that close their end before the server does
  MaxFailures        \* bound on connections the server itself fails on

\* Requests with a body (sent for itself) and without one, one with "Connection: close", and
\* one whose header does not end within 64 KiB.
Units == {"put", "body", "get", "last", "huge"}

ASSUME PlanAssumption == \A c \in Clients : Plan[c] \in Seq(Units)
ASSUME LimitsAssumption ==
  /\ {MaxConns, Room} \subseteq Nat \ {0}
  /\ {FdsHigh, FdsLow, MaxQuits, MaxFailures, MaxKeepAlive, MaxReadIdle, MaxKeepAliveIdle, MaxWriteIdle}
       \subseteq Nat

Objects == 1..MaxConns    \* connection objects, which are used again and again
Fds     == 1..MaxConns
None    == 0

VARIABLES
  sock,      \* the clients' sockets, with what the kernel holds for them
  con,       \* connection objects
  ptr, used, \* srv->conns: the first `used' of ptr are in use
  fdarray,   \* the context registered for each descriptor
  epoll,     \* what the kernel watches each descriptor for
  curFds,    \* srv->cur_fds
  listen,    \* the listening socket: "on", "off" (not watched) or "closed"
  disabled,  \* srv->sockets_disabled
  jobs,      \* srv->joblist
  batch,     \* events of the last epoll_wait not handled yet
  pc, ndx,   \* where the loop is
  alarm,     \* a second has passed
  graceful   \* graceful_shutdown

netVars  == <<con, ptr, used, fdarray, epoll, curFds>>
loopVars == <<listen, disabled, jobs, batch, pc, ndx, alarm, graceful>>
vars     == <<sock, con, ptr, used, fdarray, epoll, curFds, loopVars>>

Fresh == [st |-> "connect", fd |-> None, added |-> FALSE, rd |-> TRUE, wr |-> TRUE, inq |-> <<>>,
          req |-> "none", out |-> 0, keep |-> FALSE, count |-> 0, age |-> 0]
Unopened == [st |-> "new", fd |-> None, left |-> <<>>, inq |-> <<>>, fin |-> FALSE, gone |-> FALSE,
             rst |-> FALSE, buf |-> 0, cut |-> FALSE, failed |-> FALSE]

InUse   == {ptr[i] : i \in 1..used}
Peer(o) == CHOOSE c \in Clients : sock[c].st = "open" /\ sock[c].fd = con[o].fd
Reading(r) == r.st \in {"read", "readpost"}

Answer(unit) == IF unit = "put" THEN 2 ELSE 1   \* units; one fits into the socket

-------------------------------------------------------------------------------
(* Clients and the kernel *)

Connect(c) ==
  /\ sock[c].st = "new" /\ listen # "closed"
  /\ sock' = [sock EXCEPT ![c].st = "queued", ![c].left = Plan[c]]

Present(c) == sock[c].st \in {"queued", "open"} /\ ~sock[c].gone

Send(c) ==
  /\ Present(c) /\ sock[c].left # <<>>
  /\ sock' = [sock EXCEPT ![c].inq = Append(@, Head(sock[c].left)), ![c].left = Tail(@)]

MayQuit == Cardinality({c \in Clients : sock[c].fin}) < MaxQuits

\* A client has sent everything and says so, or only waits.
HalfClose(c) ==
  /\ Present(c) /\ sock[c].left = <<>> /\ ~sock[c].fin /\ MayQuit
  /\ sock' = [sock EXCEPT ![c].fin = TRUE]

\* A client closes its end; what it has not read makes the kernel reset the connection.
Leave(c) ==
  /\ Present(c) /\ (sock[c].fin \/ MayQuit)
  /\ sock' = [sock EXCEPT ![c].gone = TRUE, ![c].fin = TRUE, ![c].left = <<>>,
                          ![c].rst = sock[c].buf > 0, ![c].buf = 0]

Consume(c) ==
  /\ Present(c) /\ sock[c].buf > 0
  /\ sock' = [sock EXCEPT ![c].buf = @ - 1]

\* The loop looks at the sockets in these places only.
ClientStep(c) ==
  /\ pc \in {"poll", "events", "jobs"}
  /\ Connect(c) \/ Send(c) \/ HalfClose(c) \/ Leave(c) \/ Consume(c)
  /\ UNCHANGED <<netVars, loopVars>>

\* The events the kernel has for a watched descriptor (level-triggered).
EventOf(f) ==
  LET c == CHOOSE x \in Clients : sock[x].st = "open" /\ sock[x].fd = f
      s == sock[c]
  IN  [fd |-> f, who |-> c,
       in  |-> epoll[f] = "in"  /\ (s.inq # <<>> \/ s.fin \/ s.rst),
       out |-> epoll[f] = "out" /\ (s.buf < Room \/ s.gone \/ s.rst),
       hup |-> s.rst]
Accepting == [fd |-> None, who |-> None, in |-> TRUE, out |-> FALSE, hup |-> FALSE]
Ready ==
  {e \in {EventOf(f) : f \in {g \in Fds : epoll[g] # "no"}} : e.in \/ e.out \/ e.hup}
    \cup {e \in {Accepting} : listen = "on" /\ \E c \in Clients : sock[c].st = "queued"}

-------------------------------------------------------------------------------
(* Reading and writing: what they make of a connection r with socket s *)

\* The server may fail on a request: a body does not get into its temporary file (READ_POST), a
\* handler gives up (HANDLER_ERROR), a file is deleted or shrinks while it is sent.
MayFail == Cardinality({c \in Clients : sock[c].failed}) < MaxFailures
Oks     == IF MayFail THEN BOOLEAN ELSE {TRUE}

\* What a connection in a reading state becomes with units q in its read queue: a request
\* is taken out of it, then its body.  A header that is too long (414) and a body that cannot be
\* kept (413) are answered, and the connection closed after that.
Taken(r, q, ok) ==
  CASE q = <<>>                      -> [r EXCEPT !.inq = q]
    [] q # <<>> /\ r.st = "read"     ->
         LET long == Head(q) = "huge"
         IN  [r EXCEPT !.inq = Tail(q), !.req = Head(q), !.st = IF long THEN "handle" ELSE "end",
                       !.keep = @ /\ ~long]
    [] q # <<>> /\ r.st = "readpost" ->
         IF ok THEN [r EXCEPT !.inq = Tail(q), !.st = "handle"]
         ELSE [r EXCEPT !.inq = q, !.st = "handle", !.keep = FALSE]

\* connection_handle_read_state.  A read that fills the buffer leaves the connection readable
\* (more).  The end of the input is an error only if it is in the middle of a request.
AnyEofIsFatal(r, s, more, ok) ==                                            \* mutant
  LET next == Taken(r, IF r.rd THEN r.inq \o s.inq ELSE r.inq, ok)
  IN  IF r.rd /\ (s.rst \/ (s.inq = <<>> /\ s.fin))
      THEN [r EXCEPT !.st = "error", !.rd = FALSE, !.age = 0]
      ELSE [next EXCEPT !.rd = r.rd /\ s.inq # <<>> /\ more, !.age = IF r.rd THEN 0 ELSE @]
ReadState(r, s, more, ok) ==
  LET next == Taken(r, IF r.rd THEN r.inq \o s.inq ELSE r.inq, ok)
      eof  == r.rd /\ s.inq = <<>> /\ s.fin
  IN  IF r.rd /\ s.rst
      THEN [r EXCEPT !.st = "error", !.rd = FALSE, !.age = 0]
      ELSE [next EXCEPT !.st = IF eof /\ next.st = r.st THEN "error" ELSE @,
                        !.rd = r.rd /\ s.inq # <<>> /\ more,
                        !.age = IF r.rd THEN 0 ELSE @]
Drained(r, s) == IF r.rd THEN [s EXCEPT !.inq = <<>>] ELSE s

\* connection_handle_write: the client has reset the connection, the server cannot read what it
\* has to send (of that write nothing counts), or as much is written as fits.
Fits(r, s) == IF s.gone THEN r.out ELSE Min({r.out, Room - s.buf})
WriteState(r, s, ok) ==
  CASE s.rst \/ ~ok                       -> [r EXCEPT !.st = "error"]
    [] ~s.rst /\ ok /\ Fits(r, s) = r.out -> [r EXCEPT !.st = "respend", !.out = 0]
    [] ~s.rst /\ ok /\ Fits(r, s) < r.out -> [r EXCEPT !.out = @ - Fits(r, s), !.wr = FALSE, !.age = 0]
Filled(r, s, ok) ==
  IF s.rst THEN s
  ELSE IF ~ok THEN [s EXCEPT !.failed = TRUE]
  ELSE IF s.gone THEN [s EXCEPT !.rst = TRUE]
  ELSE [s EXCEPT !.buf = @ + Fits(r, s)]

-------------------------------------------------------------------------------
(* The state machine of a connection: x is the connection with its socket, and how often it *)
(* has put itself on the job list                                                           *)

\* What a connection is given up for: its client has gone, or was silent for too long; or no
\* complete request waits in it, or its last answer said that it would be closed.
Silent(r) == r.age > IF r.out > 0 THEN MaxWriteIdle
                     ELSE IF r.count = 1 THEN MaxReadIdle ELSE MaxKeepAliveIdle
OnlyReadersExpire(r) == Reading(r) /\ Silent(r)                             \* mutant
Expired(r) == (Reading(r) \/ r.st = "write") /\ Silent(r)
Excused(r, s) == s.gone \/ Silent(r) \/ r.st = "respend" \/ (r.out = 0 /\ r.inq = <<>> /\ ~s.failed)

\* connection_reset: what has been read and not used yet stays.
Reset(r, st) == [Fresh EXCEPT !.st = st, !.fd = r.fd, !.added = r.added, !.inq = r.inq,
                              !.keep = r.keep, !.count = r.count, !.age = r.age]

\* connection_close, after ResponseEnd and after errors: whether it says so first (shutdown,
\* CON_STATE_CLOSE) or not, the connection is closed at once.
CloseFd(x) == [x EXCEPT !.r = [Fresh EXCEPT !.inq = x.r.inq, !.count = x.r.count],
                        !.s = [Unopened EXCEPT !.st = "closed", !.fin = x.s.fin, !.failed = x.s.failed,
                                         !.cut = ~Excused(x.r, x.s)]]

RequestStart(x)  == [x EXCEPT !.r = [x.r EXCEPT !.st = "read", !.count = @ + 1, !.age = 0]]
Read(x, more, ok) == [x EXCEPT !.r = ReadState(x.r, x.s, more, ok), !.s = Drained(x.r, x.s)]
RequestEnd(x)    == [x EXCEPT !.r = [x.r EXCEPT !.st = IF x.r.req = "put" THEN "readpost" ELSE "handle",
                                                !.keep = x.r.req # "last"]]
HandleRequest(x, ok) ==
  IF ok THEN [x EXCEPT !.r = [x.r EXCEPT !.st = "write", !.out = Answer(x.r.req),
                                         !.keep = @ /\ x.r.count <= MaxKeepAlive]]
  ELSE [x EXCEPT !.r = [x.r EXCEPT !.st = "error"], !.s = [x.s EXCEPT !.failed = TRUE]]
Write(x, ok)     == IF x.r.out = 0 \/ ~x.r.wr THEN x
                    ELSE LET r == WriteState(x.r, x.s, ok)
                         IN  [x EXCEPT !.r = r, !.s = Filled(x.r, x.s, ok),
                                       !.again = @ + IF r.st = "write" THEN 0 ELSE 1]
ResponseEnd(x)   == IF x.r.keep THEN [x EXCEPT !.r = Reset(x.r, "start")] ELSE CloseFd(x)
Closed(x)        == [x EXCEPT !.r = [x.r EXCEPT !.inq = <<>>, !.count = 0]]

Turn(x, more, ok) ==
  CASE x.r.st = "start"   -> RequestStart(x)
    [] Reading(x.r)       -> Read(x, more, ok)
    [] x.r.st = "end"     -> RequestEnd(x)
    [] x.r.st = "handle"  -> HandleRequest(x, ok)
    [] x.r.st = "write"   -> Write(x, ok)
    [] x.r.st = "respend" -> ResponseEnd(x)
    [] x.r.st = "error"   -> CloseFd(x)
    [] x.r.st = "connect" -> Closed(x)

\* connection_state_machine goes on as long as the state changes: what x may become.  A turn
\* that takes a unit comes after eight others at most.
Goes(x) == IF x.done THEN {x}
           ELSE {[y EXCEPT !.done = y.r.st = x.r.st] : y \in {Turn(x, more, ok) : more \in BOOLEAN, ok \in Oks}}
MaxTurns(x) == 9 * (Len(x.r.inq) + Len(x.s.inq) + 1)
StateMachine(x) ==
  LET after[n \in Nat] == IF n = 0 THEN {x} ELSE UNION {Goes(y) : y \in after[n - 1]}
  IN  after[MaxTurns(x)]

\* Then the descriptor is watched for what the connection waits for.
OnlyReaders(r) == IF Reading(r) THEN "in" ELSE "no"                         \* mutant
WatchedFor(r) == CASE Reading(r)                              -> "in"
                   [] r.st = "write" /\ r.out > 0 /\ ~r.wr    -> "out"
                   [] OTHER                                   -> "no"

\* connection_del: the last of n connections in use takes the place of o.
LastKeepsItsPlace(o, n) == ptr                                              \* mutant
Removed(o, n) == LET i == CHOOSE k \in 1..n : ptr[k] = o
                 IN  [ptr EXCEPT ![i] = ptr[n], ![n] = o]

\* The machine of connection o with client c runs, when the connection is r and n are in use.
Begin(r, s) == [r |-> r, s |-> s, again |-> 0, done |-> FALSE]
Runs(o, c, r, n) ==
  \E x \in StateMachine(Begin(r, [sock[c] EXCEPT !.st = "open", !.fd = r.fd])) :
    LET closed == IF x.s.st = "closed" THEN 1 ELSE 0
        watched == WatchedFor(x.r) # "no"
    IN
    /\ con' = [con EXCEPT ![o] = [x.r EXCEPT !.added = watched]]
    /\ epoll' = IF watched \/ r.added THEN [epoll EXCEPT ![r.fd] = WatchedFor(x.r)] ELSE epoll
    /\ sock' = [sock EXCEPT ![c] = x.s]
    /\ jobs' = (IF pc = "jobs" THEN Tail(jobs) ELSE jobs) \o [i \in 1..x.again |-> o]
    /\ fdarray' = [fdarray EXCEPT ![r.fd] = IF closed = 1 THEN None ELSE o]
    /\ ptr' = IF closed = 1 THEN Removed(o, n) ELSE ptr
    /\ used' = n - closed /\ curFds' = curFds + (n - used) - closed

-------------------------------------------------------------------------------
(* The loop: timeouts, the listening socket, events, jobs *)

\* Ages above all limits are alike.
MaxAge == 1 + Max({MaxReadIdle, MaxKeepAliveIdle, MaxWriteIdle})

\* A new second: cur_ts moves on, then the connections are looked at in their order.
Top ==
  /\ pc = "top"
  /\ IF alarm
     THEN /\ alarm' = FALSE /\ pc' = "walk"
          /\ con' = [o \in Objects |-> IF o \in InUse THEN [con[o] EXCEPT !.age = Min({@ + 1, MaxAge})] ELSE con[o]]
     ELSE pc' = "sockets" /\ UNCHANGED <<alarm, con>>
  /\ UNCHANGED <<sock, ptr, used, fdarray, epoll, curFds, listen, disabled, jobs, batch, ndx, graceful>>

\* A connection that has been idle too long is closed; the one that takes its place in ptr
\* is not looked at in this second.
Walk ==
  LET o == ptr[ndx] IN
  /\ pc = "walk"
  /\ IF ndx > used THEN pc' = "sockets" /\ ndx' = 1 /\ UNCHANGED <<sock, netVars, jobs>>
     ELSE /\ ndx' = ndx + 1 /\ UNCHANGED pc
          /\ IF Expired(con[o]) THEN Runs(o, Peer(o), [con[o] EXCEPT !.st = "error"], used)
             ELSE UNCHANGED <<sock, netVars, jobs>>
  /\ UNCHANGED <<listen, disabled, batch, alarm, graceful>>

\* Descriptors are short, or the worker is told to stop: nothing more is accepted.  Only the
\* step that disables the socket closes it.
TooMany == curFds > FdsHigh \/ used > MaxConns
Relaxed == curFds < FdsLow /\ 10 * used < 9 * MaxConns /\ ~graceful

StopsWhenDisabling == graceful /\ used = 0 /\ ~disabled                     \* mutant
Stops == graceful /\ used = 0

\* Who was not accepted yet is turned away.
Closing == listen' = "closed" /\ sock' = [c \in Clients |->
             IF sock[c].st = "queued" THEN [Unopened EXCEPT !.st = "closed", !.fin = sock[c].fin] ELSE sock[c]]

Sockets ==
  /\ pc = "sockets"
  /\ \/ disabled /\ Relaxed /\ disabled' = FALSE /\ listen' = "on" /\ UNCHANGED sock
     \/ disabled /\ ~Relaxed /\ UNCHANGED disabled
        /\ IF Stops THEN Closing ELSE UNCHANGED <<sock, listen>>
     \/ ~disabled /\ (TooMany \/ graceful) /\ disabled' = TRUE
        /\ IF graceful THEN Closing ELSE listen' = "off" /\ UNCHANGED sock
     \/ ~disabled /\ ~TooMany /\ ~graceful /\ UNCHANGED <<disabled, listen, sock>>
  /\ pc' = IF Stops THEN "stopped" ELSE "poll"
  /\ UNCHANGED <<netVars, jobs, batch, ndx, alarm, graceful>>

\* epoll_wait returns when there is something, or a signal.
Poll ==
  /\ pc = "poll" /\ (Ready # {} \/ alarm \/ graceful)
  /\ batch' = Ready /\ pc' = "events"
  /\ UNCHANGED <<sock, netVars, listen, disabled, jobs, ndx, alarm, graceful>>

Once(x, more, ok) ==
  IF Reading(x.r) THEN Read(x, more, ok) ELSE IF x.r.st = "write" THEN Write(x, ok) ELSE x

\* connection_handle_fdevent: reads or writes at once, the rest is a job.
HandleEvent(e) ==
  LET o == fdarray[e.fd]
      c == e.who
      r == [con[o] EXCEPT !.rd = @ \/ e.in, !.wr = @ \/ e.out, !.st = IF e.hup THEN "error" ELSE @]
  IN
  /\ pc = "events" /\ e \in batch /\ e # Accepting
  /\ \E more \in BOOLEAN, ok \in Oks : LET y == Once(Begin(r, sock[c]), more, ok) IN
       /\ con' = [con EXCEPT ![o] = y.r]
       /\ sock' = [sock EXCEPT ![c] = y.s]
       /\ jobs' = jobs \o [i \in 1..1 + y.again |-> o]
  /\ batch' = batch \ {e}
  /\ UNCHANGED <<ptr, used, fdarray, epoll, curFds, listen, disabled, pc, ndx, alarm, graceful>>

\* connection_accept, and the new connection's machine; network_server_handle_fdevent goes on
\* until there is nobody or no room.
Accept(c) ==
  LET o == ptr[used + 1]
      f == Min({g \in Fds : fdarray[g] = None})
  IN
  /\ pc = "events" /\ Accepting \in batch /\ used < MaxConns /\ sock[c].st = "queued"
  /\ Runs(o, c, [con[o] EXCEPT !.st = "start", !.fd = f], used + 1)
  /\ UNCHANGED <<listen, disabled, batch, pc, ndx, alarm, graceful>>

AcceptedAll ==
  /\ pc = "events" /\ Accepting \in batch
  /\ used = MaxConns \/ \A c \in Clients : sock[c].st # "queued"
  /\ batch' = batch \ {Accepting}
  /\ UNCHANGED <<sock, netVars, listen, disabled, jobs, pc, ndx, alarm, graceful>>

LeavesEvents ==                                                             \* mutant
  /\ pc = "events" /\ (batch = {} \/ jobs # <<>>)
  /\ pc' = "jobs"
  /\ UNCHANGED <<sock, netVars, listen, disabled, jobs, batch, ndx, alarm, graceful>>
EventsDone ==
  /\ pc = "events" /\ batch = {}
  /\ pc' = "jobs"
  /\ UNCHANGED <<sock, netVars, listen, disabled, jobs, batch, ndx, alarm, graceful>>

\* A connection may be in the list twice, and be closed when its second turn comes.
Job ==
  LET o == Head(jobs) IN
  /\ pc = "jobs"
  /\ CASE jobs = <<>>            -> pc' = "top" /\ UNCHANGED <<sock, netVars, jobs>>
       [] jobs # <<>> /\ o \in InUse -> Runs(o, Peer(o), con[o], used) /\ UNCHANGED pc
       [] OTHER                  -> jobs' = Tail(jobs) /\ UNCHANGED <<sock, netVars, pc>>
  /\ UNCHANGED <<listen, disabled, batch, ndx, alarm, graceful>>

-------------------------------------------------------------------------------
(* The worker *)

Init ==
  /\ sock = [c \in Clients |-> Unopened] /\ con = [o \in Objects |-> Fresh]
  /\ ptr = [i \in Objects |-> i] /\ used = 0 /\ curFds = 0
  /\ fdarray = [f \in Fds |-> None] /\ epoll = [f \in Fds |-> "no"]
  /\ listen = "on" /\ disabled = FALSE /\ jobs = <<>> /\ batch = {}
  /\ pc = "top" /\ ndx = 1 /\ alarm = FALSE /\ graceful = FALSE

Loop ==
  \/ Top \/ Walk \/ Sockets \/ Poll \/ (\E e \in batch : HandleEvent(e))
  \/ (\E c \in Clients : Accept(c)) \/ AcceptedAll \/ EventsDone \/ Job

\* A second passes, and SIGINT: the loop sees them at its top.  Only those seconds matter in
\* which a connection ages.
Second ==
  /\ pc = "poll" /\ ~alarm /\ used > 0 /\ alarm' = TRUE
  /\ UNCHANGED <<sock, netVars, listen, disabled, jobs, batch, pc, ndx, graceful>>

Interrupt ==
  /\ pc = "poll" /\ ~graceful /\ graceful' = TRUE
  /\ UNCHANGED <<sock, netVars, listen, disabled, jobs, batch, pc, ndx, alarm>>

Next == Loop \/ Second \/ Interrupt \/ \E c \in Clients : ClientStep(c)

\* The loop never waits without a timeout, and the clock goes on whatever the loop does (it is
\* only looked at in one place); clients may do nothing.
Spec == Init /\ [][Next]_vars /\ WF_vars(Loop) /\ SF_vars(Second)

-------------------------------------------------------------------------------
(* Properties *)

\* The lists agree: every open descriptor belongs to one connection in use, is counted, and
\* leads the event loop back to that connection (connection_accept, connection_close,
\* connection_del, fdevent_register).
ListsAgree ==
  /\ used = curFds /\ curFds = Cardinality({c \in Clients : sock[c].st = "open"})
  /\ Cardinality(InUse) = used /\ {ptr[i] : i \in Objects} = Objects
  /\ \A f \in Fds :
       /\ fdarray[f] # None <=> \E c \in Clients : sock[c].st = "open" /\ sock[c].fd = f
       /\ fdarray[f] # None => fdarray[f] \in InUse /\ con[fdarray[f]].fd = f
       /\ epoll[f] # "no" <=> fdarray[f] # None /\ con[fdarray[f]].added
  /\ \A o \in Objects \ InUse : con[o].st = "connect"

\* An event that waits to be handled is handled by the connection it happened on: nothing
\* between epoll_wait and the handler closes a descriptor and lets it be used again.
EventsHaveHandlers ==
  \A e \in batch \ {Accepting} :
    fdarray[e.fd] # None /\ sock[e.who].st = "open" /\ sock[e.who].fd = e.fd

\* When the loop is about to wait, each connection is watched for what it waits for and has
\* nothing left to do: otherwise it would hang until a timeout (connection_state_machine's
\* last switch, the job list).
NobodyForgotten ==
  pc = "poll" => \A o \in InUse : LET r == con[o] IN
    \/ r.st = "read" /\ r.inq = <<>> /\ epoll[r.fd] = "in"
    \/ r.st = "readpost" /\ r.inq = <<>> /\ epoll[r.fd] = "in"
    \/ r.st = "write" /\ r.out > 0 /\ epoll[r.fd] = "out"

\* A request that has arrived completely is given up only if its client went away or was silent
\* for too long, if the answer before it said that the connection would be closed, or if the
\* server itself failed on this connection (-1 in connection_handle_write, HANDLER_ERROR in
\* connection_state_machine).  A client that has only closed its sending side still gets its
\* answers, of pipelined requests too (the end of file in connection_handle_read_state).
CutOffForAReason == \A c \in Clients : sock[c].cut => sock[c].failed

\* Every client that connects gets in and out again, whatever it and the others do: limits on
\* connections and descriptors delay it, timeouts end what hangs.
ConnectionsEnd == []<>(\A c \in Clients : sock[c].st \notin {"queued", "open"})

\* After SIGINT the worker finishes what it has and stops, also if it had stopped accepting
\* before (graceful_shutdown in the main loop).
GracefulStops == graceful ~> pc = "stopped"
================================================================================
