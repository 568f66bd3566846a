------------------------- MODULE NodeConnections_proofs -------------------------
(***************************************************************************)
(* Proofs about NodeConnections, for any clients with any requests, any    *)
(* number of connection objects and any limits: no connection is leaked,   *)
(* forgotten, mixed up with another or given up without a reason.          *)
(***************************************************************************)
EXTENDS NodeConnections, SequenceTheorems, FiniteSetTheorems, WellFoundedInduction, TLAPS

-------------------------------------------------------------------------------
\* Numbers

LEMMA LeastOf ==
  ASSUME NEW S \in SUBSET Nat, S # {}
  PROVE  Min(S) \in S /\ \A y \in S : Min(S) <= y
<1> DEFINE Less == {ss \in Nat \X Nat : ss[1] < ss[2]}
<1>1. IsWellFoundedOn(Less, Nat)
  BY NatLessThanWellFounded DEF OpToRel
<1>2. PICK m \in S : \A y \in S : <<y, m>> \notin Less
  <2> HIDE DEF Less
  <2> QED BY <1>1, WFMin
<1>3. ASSUME NEW y \in S PROVE m <= y
  <2>1. m \in Nat /\ y \in Nat /\ (y < m => <<y, m>> \in Less)
    OBVIOUS
  <2> QED BY <1>2, <2>1
<1> QED BY <1>3 DEF Min

LEMMA LesserOf ==
  ASSUME NEW a \in Int, NEW b \in Int
  PROVE  Min({a, b}) = IF a <= b THEN a ELSE b
<1>1. \E x \in {a, b} : \A y \in {a, b} : x =< y
  OBVIOUS
<1>2. Min({a, b}) \in {a, b} /\ Min({a, b}) <= a /\ Min({a, b}) <= b
  BY <1>1 DEF Min
<1> QED BY <1>2

-------------------------------------------------------------------------------
\* What a machine has become after n turns: the function of StateMachine exists.

First(f, x, n) == /\ DOMAIN f = 0..n /\ f[0] = {x}
                  /\ \A i \in 1..n : f[i] = UNION {Goes(y) : y \in f[i - 1]}

LEMMA FirstTurns ==
  ASSUME NEW x, NEW n \in Nat
  PROVE  \E f : First(f, x, n)
<1> DEFINE Missing == {k \in Nat : ~\E f : First(f, x, k)}
<1> SUFFICES ASSUME Missing # {} PROVE FALSE
  OBVIOUS
<1>1. PICK m \in Missing : \A k \in Missing : m <= k
  <2> HIDE DEF Missing
  <2>1. Missing \in SUBSET Nat
    BY DEF Missing
  <2> QED BY <2>1, LeastOf
<1>2. m # 0
  <2>1. First([i \in 0..0 |-> {x}], x, 0)
    BY DEF First
  <2> QED BY <2>1
<1>3. PICK g : First(g, x, m - 1)
  <2>1. m - 1 \in Nat /\ m - 1 \notin Missing
    BY <1>1, <1>2
  <2> QED BY <2>1
<1> DEFINE h == [i \in 0..m |-> IF i = m THEN UNION {Goes(y) : y \in g[m - 1]} ELSE g[i]]
<1>4. First(h, x, m)
  <2>1. m \in Nat /\ DOMAIN h = 0..m /\ h[0] = {x}
    BY <1>2, <1>3 DEF First
  <2>2. ASSUME NEW i \in 1..m PROVE h[i] = UNION {Goes(y) : y \in h[i - 1]}
    <3>1. h[i - 1] = g[i - 1]
      BY <2>1
    <3>2. CASE i = m
      BY <2>1, <3>1, <3>2
    <3>3. CASE i # m
      <4>1. i \in 1..m - 1 /\ h[i] = g[i]
        BY <2>1, <3>3
      <4> QED BY <1>3, <3>1, <4>1 DEF First
    <3> QED BY <3>2, <3>3
  <2> QED BY <2>1, <2>2 DEF First
<1> QED BY <1>4

LEMMA TurnsAgree ==
  ASSUME NEW x, NEW n \in Nat, NEW m \in Nat, m <= n, NEW f, First(f, x, m), NEW g, First(g, x, n)
  PROVE  f[m] = g[m]
<1> DEFINE Apart == {k \in 0..m : f[k] # g[k]}
<1> SUFFICES ASSUME Apart # {} PROVE FALSE
  OBVIOUS
<1>1. PICK k \in Apart : \A j \in Apart : k <= j
  <2> HIDE DEF Apart
  <2>1. Apart \in SUBSET Nat
    BY DEF Apart
  <2> QED BY <2>1, LeastOf
<1>2. k # 0
  BY DEF First
<1>3. k - 1 \in 0..m /\ f[k - 1] = g[k - 1] /\ k \in 1..m /\ k \in 1..n
  BY <1>1, <1>2
<1>4. f[k] = UNION {Goes(y) : y \in f[k - 1]} /\ g[k] = UNION {Goes(y) : y \in g[k - 1]}
  BY <1>3 DEF First
<1> QED BY <1>1, <1>3, <1>4

TurnsOf(x) == CHOOSE f : f = [n \in Nat |-> IF n = 0 THEN {x} ELSE UNION {Goes(y) : y \in f[n - 1]}]

LEMMA TurnsExist ==
  ASSUME NEW x
  PROVE  /\ TurnsOf(x)[0] = {x} /\ StateMachine(x) = TurnsOf(x)[MaxTurns(x)]
         /\ \A n \in Nat : n > 0 => TurnsOf(x)[n] = UNION {Goes(y) : y \in TurnsOf(x)[n - 1]}
<1> DEFINE G(n) == CHOOSE f : First(f, x, n)
           H == [n \in Nat |-> G(n)[n]]
<1>1. ASSUME NEW n \in Nat PROVE First(G(n), x, n)
  BY FirstTurns
<1>2. H[0] = {x}
  BY <1>1 DEF First
<1>3. ASSUME NEW n \in Nat, n > 0 PROVE H[n] = UNION {Goes(y) : y \in H[n - 1]}
  <2>1. n - 1 \in Nat /\ n - 1 <= n /\ n \in 1..n
    BY <1>3
  <2>2. First(G(n), x, n) /\ First(G(n - 1), x, n - 1)
    BY <1>1, <2>1
  <2>3. G(n - 1)[n - 1] = G(n)[n - 1]
    <3> HIDE DEF G
    <3> QED BY <2>1, <2>2, TurnsAgree
  <2>4. G(n)[n] = UNION {Goes(y) : y \in G(n)[n - 1]}
    <3> HIDE DEF G
    <3> QED BY <2>1, <2>2 DEF First
  <2> QED BY <2>1, <2>3, <2>4
<1>4. H = [n \in Nat |-> IF n = 0 THEN {x} ELSE UNION {Goes(y) : y \in H[n - 1]}]
  <2> HIDE DEF G
  <2>1. ASSUME NEW n \in Nat PROVE H[n] = IF n = 0 THEN {x} ELSE UNION {Goes(y) : y \in H[n - 1]}
    <3> HIDE DEF H
    <3>1. CASE n = 0
      BY <1>2, <3>1
    <3>2. CASE n # 0
      <4>1. n > 0
        BY <3>2
      <4> QED BY <1>3, <3>2, <4>1
    <3> QED BY <3>1, <3>2
  <2> HIDE DEF H
  <2>2. H = [n \in Nat |-> H[n]]
    BY DEF H
  <2> QED BY <2>1, <2>2
<1>5. TurnsOf(x) = [n \in Nat |-> IF n = 0 THEN {x} ELSE UNION {Goes(y) : y \in TurnsOf(x)[n - 1]}]
  <2> HIDE DEF H
  <2> QED BY <1>4 DEF TurnsOf
<1>6. StateMachine(x) = TurnsOf(x)[MaxTurns(x)]
  BY DEF StateMachine, TurnsOf
<1> HIDE DEF H
<1> QED BY <1>5, <1>6

-------------------------------------------------------------------------------
\* The machine of one connection

Conn   == [st : {"connect", "start", "read", "end", "readpost", "handle", "write", "respend", "error"},
           fd : Fds \cup {None}, added : BOOLEAN, rd : BOOLEAN, wr : BOOLEAN, inq : Seq(Units),
           req : Units \cup {"none"}, out : Nat, keep : BOOLEAN, count : Nat, age : Nat]
Socket == [st : {"new", "queued", "open", "closed"}, fd : Fds \cup {None}, left : Seq(Units),
           inq : Seq(Units), fin : BOOLEAN, gone : BOOLEAN, rst : BOOLEAN, buf : 0..Room, cut : BOOLEAN,
           failed : BOOLEAN]
Machines == [r : Conn, s : Socket, again : Nat, done : BOOLEAN]

\* A connection has something to send while it writes, and no other; it is given up for a reason.
Sound(r, s) ==
  /\ s.rst => s.gone
  /\ s.cut => s.failed
  /\ r.st = "write" => r.out > 0
  /\ r.st \notin {"write", "error"} => r.out = 0
  /\ r.st = "error" => Excused(r, s) \/ s.failed

\* It has its descriptor until it is closed, and then nothing that need be remembered.
Placed(x, f) ==
  \/ x.s.st = "open" /\ x.s.fd = f /\ x.r.fd = f /\ x.r.st # "connect"
  \/ /\ x.s.st = "closed" /\ x.r.st = "connect"
     /\ x.r = [Fresh EXCEPT !.inq = x.r.inq, !.count = x.r.count]

\* When it stays as it is it waits for something, or is closed.
Waits(x) == IF x.r.st = "connect" THEN x.r = Fresh
            ELSE \/ Reading(x.r) /\ x.r.inq = <<>>
                 \/ x.r.st = "write" /\ ~x.r.wr

\* One that begins by giving up is closed and does nothing else.
Steady(x, f, fails) ==
  /\ Sound(x.r, x.s) /\ Placed(x, f)
  /\ fails => x.r.st \in {"error", "connect"} /\ x.again = 0
  /\ x.done => Waits(x)

\* What is left to do shrinks with every turn that goes on.
Rank(st) == CASE st = "connect" -> 0 [] st = "error"   -> 1 [] st = "read"   -> 2
              [] st = "start"   -> 3 [] st = "respend" -> 4 [] st = "write"  -> 5
              [] st = "handle"  -> 6 [] st = "readpost" -> 7 [] OTHER        -> 8
Left(x) == 8 * (Len(x.r.inq) + Len(x.s.inq)) + Rank(x.r.st)

LEMMA RankIs ==
  /\ Rank("connect") = 0 /\ Rank("error") = 1 /\ Rank("read") = 2 /\ Rank("start") = 3 /\ Rank("respend") = 4
  /\ Rank("write") = 5 /\ Rank("handle") = 6 /\ Rank("readpost") = 7 /\ Rank("end") = 8
BY DEF Rank

LEMMA LeftIs ==
  ASSUME NEW x \in Machines
  PROVE  /\ Len(x.r.inq) \in Nat /\ Len(x.s.inq) \in Nat /\ Rank(x.r.st) \in 0..8
         /\ Left(x) = 8 * (Len(x.r.inq) + Len(x.s.inq)) + Rank(x.r.st)
<1>1. x.r.inq \in Seq(Units) /\ x.s.inq \in Seq(Units) /\ x.r \in Conn
  BY DEF Machines, Conn, Socket
<1>2. Rank(x.r.st) \in 0..8
  BY <1>1, RankIs DEF Conn
<1> QED BY <1>1, <1>2, LenProperties DEF Left

LEMMA LeftIsInt ==
  ASSUME NEW x \in Machines
  PROVE  Left(x) \in Int /\ Left(x) >= 0
<1> DEFINE a == Len(x.r.inq)
           b == Len(x.s.inq)
           p == Rank(x.r.st)
<1>1. a \in Nat /\ b \in Nat /\ p \in 0..8 /\ Left(x) = 8 * (a + b) + p
  BY LeftIs
<1> HIDE DEF a, b, p
<1> QED BY <1>1

Turned(x, y, f, fails) ==
  /\ y \in Machines /\ ~y.done /\ Steady(y, f, fails)
  /\ y.r.st = x.r.st => Waits(y)
  /\ y.r.st # x.r.st => Left(y) < Left(x)

Runnable(x, f, fails) == x \in Machines /\ Steady(x, f, fails) /\ ~x.done

LEMMA LessLeft ==
  ASSUME NEW x \in Machines, NEW y \in Machines,
         Len(y.r.inq) + Len(y.s.inq) <= Len(x.r.inq) + Len(x.s.inq), Rank(y.r.st) < Rank(x.r.st)
  PROVE  Left(y) < Left(x)
<1> DEFINE a == Len(x.r.inq)
           b == Len(x.s.inq)
           c == Len(y.r.inq)
           d == Len(y.s.inq)
           p == Rank(x.r.st)
           q == Rank(y.r.st)
<1>1. /\ a \in Nat /\ b \in Nat /\ c \in Nat /\ d \in Nat /\ p \in Nat /\ q \in Nat
      /\ Left(x) = 8 * (a + b) + p /\ Left(y) = 8 * (c + d) + q /\ c + d <= a + b /\ q < p
  <2>1. a \in Nat /\ b \in Nat /\ p \in 0..8 /\ Left(x) = 8 * (a + b) + p
    BY LeftIs
  <2>2. c \in Nat /\ d \in Nat /\ q \in 0..8 /\ Left(y) = 8 * (c + d) + q
    BY LeftIs
  <2>3. c + d <= a + b /\ q < p
    OBVIOUS
  <2> HIDE DEF a, b, c, d, p, q
  <2> QED BY <2>1, <2>2, <2>3
<1> HIDE DEF a, b, c, d, p, q
<1> QED BY <1>1

LEMMA UnitTaken ==
  ASSUME NEW x \in Machines, NEW y \in Machines, Rank(y.r.st) <= Rank(x.r.st) + 6,
         Len(y.r.inq) + Len(y.s.inq) < Len(x.r.inq) + Len(x.s.inq)
  PROVE  Left(y) < Left(x)
<1> DEFINE a == Len(x.r.inq)
           b == Len(x.s.inq)
           c == Len(y.r.inq)
           d == Len(y.s.inq)
           p == Rank(x.r.st)
           q == Rank(y.r.st)
<1>1. /\ a \in Nat /\ b \in Nat /\ c \in Nat /\ d \in Nat /\ p \in Nat /\ q \in Nat
      /\ Left(x) = 8 * (a + b) + p /\ Left(y) = 8 * (c + d) + q /\ c + d < a + b /\ q <= p + 6
  <2>1. a \in Nat /\ b \in Nat /\ p \in 0..8 /\ Left(x) = 8 * (a + b) + p
    BY LeftIs
  <2>2. c \in Nat /\ d \in Nat /\ q \in 0..8 /\ Left(y) = 8 * (c + d) + q
    BY LeftIs
  <2>3. c + d < a + b /\ q <= p + 6
    OBVIOUS
  <2> HIDE DEF a, b, c, d, p, q
  <2> QED BY <2>1, <2>2, <2>3
<1> HIDE DEF a, b, c, d, p, q
<1> QED BY <1>1

\* A turn that changes the connection only, and it has another state then.
LEMMA OnlyConn ==
  ASSUME NEW x \in Machines, NEW r \in Conn, x.r.st # r.st, Rank(r.st) < Rank(x.r.st), r.inq = x.r.inq,
         NEW f \in Fds, NEW fails \in BOOLEAN, Runnable(x, f, fails), Sound(r, x.s),
         x.r.st # "connect", r.st # "connect", r.fd = x.r.fd, x.r.st # "error"
  PROVE  Turned(x, [x EXCEPT !.r = r], f, fails)
<1> DEFINE y == [x EXCEPT !.r = r]
<1>1. y \in Machines /\ y.r = r /\ y.s = x.s /\ y.again = x.again /\ ~y.done
  BY DEF Runnable, Machines
<1> HIDE DEF y
<1>2. Steady(y, f, fails)
  BY <1>1 DEF Runnable, Steady, Placed
<1>3. Left(y) < Left(x)
  <2>1. Len(x.r.inq) \in Nat /\ Len(x.s.inq) \in Nat
    BY LeftIs
  <2>2. Len(y.r.inq) + Len(y.s.inq) <= Len(x.r.inq) + Len(x.s.inq) /\ Rank(y.r.st) < Rank(x.r.st)
    BY <1>1, <2>1
  <2> QED BY <1>1, <2>2, LessLeft
<1>4. Turned(x, y, f, fails)
  BY <1>1, <1>2, <1>3 DEF Turned
<1> QED BY <1>4 DEF y

LEMMA TurnStart ==
  ASSUME NEW x, NEW f \in Fds, NEW fails \in BOOLEAN, Runnable(x, f, fails), x.r.st = "start"
  PROVE  Turned(x, RequestStart(x), f, fails)
<1> DEFINE r == [x.r EXCEPT !.st = "read", !.count = @ + 1, !.age = 0]
<1>1. x \in Machines /\ x.r \in Conn
  BY DEF Runnable, Machines
<1>2. r \in Conn /\ r.st = "read" /\ r.inq = x.r.inq /\ r.out = x.r.out /\ r.fd = x.r.fd
  <2>1. x.r.count + 1 \in Nat
    BY <1>1 DEF Conn
  <2> QED BY <1>1, <2>1 DEF Conn
<1> HIDE DEF r
<1>3. Sound(r, x.s)
  BY <1>2 DEF Runnable, Steady, Sound
<1>4. Rank(r.st) < Rank(x.r.st)
  BY <1>2, RankIs
<1>5. Turned(x, [x EXCEPT !.r = r], f, fails)
  BY <1>1, <1>2, <1>3, <1>4, OnlyConn
<1> QED BY <1>5 DEF RequestStart, r

LEMMA TurnEnd ==
  ASSUME NEW x, NEW f \in Fds, NEW fails \in BOOLEAN, Runnable(x, f, fails), x.r.st = "end"
  PROVE  Turned(x, RequestEnd(x), f, fails)
<1> DEFINE r == [x.r EXCEPT !.st = IF x.r.req = "put" THEN "readpost" ELSE "handle", !.keep = x.r.req # "last"]
<1>1. x \in Machines /\ x.r \in Conn
  BY DEF Runnable, Machines
<1>2. r \in Conn /\ r.st \in {"readpost", "handle"} /\ r.inq = x.r.inq /\ r.out = x.r.out /\ r.fd = x.r.fd
  BY <1>1 DEF Conn
<1> HIDE DEF r
<1>3. Sound(r, x.s)
  BY <1>2 DEF Runnable, Steady, Sound
<1>4. Rank(r.st) < Rank(x.r.st)
  BY <1>2, RankIs
<1>5. Turned(x, [x EXCEPT !.r = r], f, fails)
  BY <1>1, <1>2, <1>3, <1>4, OnlyConn
<1> QED BY <1>5 DEF RequestEnd, r

LEMMA TurnHandled ==
  ASSUME NEW x, NEW f \in Fds, NEW fails \in BOOLEAN, Runnable(x, f, fails), x.r.st = "handle"
  PROVE  Turned(x, HandleRequest(x, TRUE), f, fails)
<1> DEFINE r == [x.r EXCEPT !.st = "write", !.out = Answer(x.r.req), !.keep = @ /\ x.r.count <= MaxKeepAlive]
<1>1. x \in Machines /\ x.r \in Conn
  BY DEF Runnable, Machines
<1>2. r \in Conn /\ r.st = "write" /\ r.inq = x.r.inq /\ r.out > 0 /\ r.fd = x.r.fd
  <2>1. Answer(x.r.req) \in Nat /\ Answer(x.r.req) > 0
    BY DEF Answer
  <2> QED BY <1>1, <2>1 DEF Conn
<1> HIDE DEF r
<1>3. Sound(r, x.s)
  BY <1>2 DEF Runnable, Steady, Sound
<1>4. Rank(r.st) < Rank(x.r.st)
  BY <1>2, RankIs
<1>5. Turned(x, [x EXCEPT !.r = r], f, fails)
  BY <1>1, <1>2, <1>3, <1>4, OnlyConn
<1> QED BY <1>5 DEF HandleRequest, r

LEMMA TurnFails ==
  ASSUME NEW x, NEW f \in Fds, NEW fails \in BOOLEAN, Runnable(x, f, fails), x.r.st = "handle"
  PROVE  Turned(x, HandleRequest(x, FALSE), f, fails)
<1> DEFINE r == [x.r EXCEPT !.st = "error"]
           s == [x.s EXCEPT !.failed = TRUE]
           y == [x EXCEPT !.r = r, !.s = s]
<1>1. x \in Machines /\ x.r \in Conn /\ x.s \in Socket /\ Sound(x.r, x.s)
  BY DEF Runnable, Machines, Steady
<1>2. r \in Conn /\ r.st = "error" /\ r.inq = x.r.inq /\ r.fd = x.r.fd
  BY <1>1 DEF Conn
<1>3. /\ s \in Socket /\ s.failed /\ s.st = x.s.st /\ s.fd = x.s.fd /\ s.inq = x.s.inq
      /\ s.gone = x.s.gone /\ s.rst = x.s.rst
  BY <1>1 DEF Socket
<1>4. HandleRequest(x, FALSE) = y
  BY DEF HandleRequest
<1> HIDE DEF r, s
<1>5. y \in Machines /\ y.r = r /\ y.s = s /\ y.again = x.again /\ ~y.done
  BY <1>1, <1>2, <1>3 DEF Runnable, Machines
<1> HIDE DEF y
<1>6. Steady(y, f, fails)
  BY <1>1, <1>2, <1>3, <1>5 DEF Runnable, Steady, Placed, Sound
<1>7. Left(y) < Left(x)
  <2>1. Len(x.r.inq) \in Nat /\ Len(x.s.inq) \in Nat
    BY <1>1, LeftIs
  <2>2. Len(y.r.inq) + Len(y.s.inq) <= Len(x.r.inq) + Len(x.s.inq)
    <3>1. y.r.inq = x.r.inq /\ y.s.inq = x.s.inq
      BY <1>2, <1>3, <1>5
    <3> QED BY <2>1, <3>1
  <2>3. Rank(y.r.st) < Rank(x.r.st)
    BY <1>2, <1>5, RankIs
  <2> QED BY <1>1, <1>5, <2>2, <2>3, LessLeft
<1>8. Turned(x, y, f, fails)
  BY <1>2, <1>5, <1>6, <1>7 DEF Turned
<1> QED BY <1>4, <1>8

LEMMA TurnHandle ==
  ASSUME NEW x, NEW f \in Fds, NEW fails \in BOOLEAN, Runnable(x, f, fails), x.r.st = "handle",
         NEW ok \in BOOLEAN
  PROVE  Turned(x, HandleRequest(x, ok), f, fails)
<1>1. CASE ok = TRUE
  BY <1>1, TurnHandled
<1>2. CASE ok = FALSE
  BY <1>2, TurnFails
<1> QED BY <1>1, <1>2

\* What r and s become when connection_handle_read_state takes a unit, or waits, or gives up
\* for a reason, or leaves a body that cannot be kept.
ReadOK(r, s, r2, s2) ==
  /\ r2 \in Conn /\ s2 \in Socket /\ Sound(r2, s2)
  /\ r2.fd = r.fd /\ r2.added = r.added /\ s2.st = s.st /\ s2.fd = s.fd
  /\ Len(r2.inq) + Len(s2.inq) <= Len(r.inq) + Len(s.inq)
  /\ \/ r2.st = r.st /\ r2.inq = <<>>
     \/ r2.st = "error"
     \/ r2.st = "handle" /\ r.st = "readpost"
     \/ /\ r2.st \in {"end", "handle"} /\ Rank(r2.st) <= Rank(r.st) + 6
        /\ Len(r2.inq) + Len(s2.inq) < Len(r.inq) + Len(s.inq)

LEMMA ReadIs ==
  ASSUME NEW r \in Conn, NEW s \in Socket, Reading(r), Sound(r, s), NEW more \in BOOLEAN,
         NEW ok \in BOOLEAN
  PROVE  ReadOK(r, s, ReadState(r, s, more, ok), Drained(r, s))
<1> DEFINE q == IF r.rd THEN r.inq \o s.inq ELSE r.inq
           next == Taken(r, q, ok)
           r2 == ReadState(r, s, more, ok)
           s2 == Drained(r, s)
<1>1. /\ r.inq \in Seq(Units) /\ s.inq \in Seq(Units) /\ r.rd \in BOOLEAN /\ r.age \in Nat
      /\ Len(r.inq) \in Nat /\ Len(s.inq) \in Nat
  BY LenProperties DEF Conn, Socket
<1>2. q \in Seq(Units) /\ Len(q) = Len(r.inq) + IF r.rd THEN Len(s.inq) ELSE 0
  <2>1. CASE r.rd
    <3>1. q = r.inq \o s.inq
      BY <2>1
    <3> QED BY <1>1, <2>1, <3>1, ConcatProperties
  <2>2. CASE ~r.rd
    <3>1. q = r.inq
      BY <2>2
    <3> HIDE DEF q
    <3> QED BY <1>1, <2>2, <3>1
  <2> QED BY <2>1, <2>2
<1>3. s2 \in Socket /\ s2.st = s.st /\ s2.fd = s.fd /\ s2.gone = s.gone /\ s2.rst = s.rst /\ s2.cut = s.cut
      /\ s2.failed = s.failed /\ s2.inq = IF r.rd THEN <<>> ELSE s.inq
  <2>1. CASE r.rd
    <3>1. s2 = [s EXCEPT !.inq = <<>>] /\ <<>> \in Seq(Units)
      BY <2>1 DEF Drained
    <3> HIDE DEF s2
    <3> QED BY <2>1, <3>1 DEF Socket
  <2>2. CASE ~r.rd
    <3>1. s2 = s
      BY <2>2 DEF Drained
    <3> HIDE DEF s2
    <3> QED BY <2>2, <3>1
  <2> QED BY <2>1, <2>2
<1>4. Len(s2.inq) = IF r.rd THEN 0 ELSE Len(s.inq)
  BY <1>3
<1> HIDE DEF q, s2
<1>5. /\ next \in Conn /\ next.fd = r.fd /\ next.added = r.added /\ next.out = r.out
      /\ \/ q = <<>> /\ next.st = r.st /\ next.inq = <<>>
         \/ q # <<>> /\ r.st = "readpost" /\ next.st = "handle" /\ Len(next.inq) = Len(q)
         \/ /\ q # <<>> /\ next.st \in {"end", "handle"} /\ Rank(next.st) <= Rank(r.st) + 6
            /\ Len(next.inq) = Len(q) - 1
  <2>1. CASE q = <<>>
    <3>1. next = [r EXCEPT !.inq = q]
      BY <2>1 DEF Taken
    <3> HIDE DEF next
    <3>2. next \in Conn /\ next.inq = q /\ next.st = r.st /\ next.fd = r.fd /\ next.added = r.added /\ next.out = r.out
      BY <1>2, <3>1 DEF Conn
    <3> QED BY <2>1, <3>2
  <2>2. CASE q # <<>>
    <3>1. Head(q) \in Units /\ Tail(q) \in Seq(Units) /\ Len(Tail(q)) = Len(q) - 1
      BY <1>2, <2>2, HeadTailProperties
    <3>2. CASE r.st = "read"
      <4> DEFINE st == IF Head(q) = "huge" THEN "handle" ELSE "end"
                 keep == r.keep /\ ~(Head(q) = "huge")
      <4>1. next = [r EXCEPT !.inq = Tail(q), !.req = Head(q), !.st = st, !.keep = keep]
        BY <2>2, <3>2 DEF Taken
      <4>3. st \in {"handle", "end"} /\ keep \in BOOLEAN
        BY DEF Conn
      <4> HIDE DEF next, st, keep
      <4>2. next \in Conn /\ next.inq = Tail(q) /\ next.st \in {"handle", "end"} /\ next.fd = r.fd /\ next.added = r.added /\ next.out = r.out
        BY <3>1, <4>1, <4>3 DEF Conn
      <4> QED BY <2>2, <3>1, <3>2, <4>2, RankIs
    <3>3. CASE r.st = "readpost" /\ ok
      <4>1. next = [r EXCEPT !.inq = Tail(q), !.st = "handle"]
        BY <2>2, <3>3 DEF Taken
      <4> HIDE DEF next
      <4>2. next \in Conn /\ next.inq = Tail(q) /\ next.st = "handle" /\ next.fd = r.fd /\ next.added = r.added /\ next.out = r.out
        BY <3>1, <4>1 DEF Conn
      <4>3. Rank(next.st) <= Rank(r.st) + 6
        BY <3>3, <4>2, RankIs
      <4> QED BY <2>2, <3>1, <4>2, <4>3
    <3>4. CASE r.st = "readpost" /\ ~ok
      <4>1. next = [r EXCEPT !.inq = q, !.st = "handle", !.keep = FALSE]
        BY <2>2, <3>4 DEF Taken
      <4> HIDE DEF next
      <4>2. next \in Conn /\ next.inq = q /\ next.st = "handle" /\ next.fd = r.fd /\ next.added = r.added /\ next.out = r.out
        BY <1>2, <4>1 DEF Conn
      <4> QED BY <2>2, <3>4, <4>2
    <3> QED BY <3>2, <3>3, <3>4 DEF Reading
  <2> QED BY <2>1, <2>2
<1>6. r.out = 0 /\ (s.rst => s.gone) /\ (s.cut => s.failed)
  BY DEF Sound, Reading
<1>7. ASSUME r.rd /\ s.rst PROVE ReadOK(r, s, r2, s2)
  <2>1. r2 = [r EXCEPT !.st = "error", !.rd = FALSE, !.age = 0]
    BY <1>7 DEF ReadState
  <2> HIDE DEF r2
  <2>2. r2 \in Conn /\ r2.st = "error" /\ r2.inq = r.inq /\ r2.fd = r.fd /\ r2.added = r.added
    BY <2>1 DEF Conn
  <2>3. Sound(r2, s2)
    BY <1>3, <1>6, <1>7, <2>2 DEF Sound, Excused
  <2>4. Len(r2.inq) + Len(s2.inq) <= Len(r.inq) + Len(s.inq)
    BY <1>1, <1>4, <2>2
  <2> QED BY <1>3, <2>2, <2>3, <2>4 DEF ReadOK
<1>8. ASSUME ~(r.rd /\ s.rst) PROVE ReadOK(r, s, r2, s2)
  <2> DEFINE eof == r.rd /\ s.inq = <<>> /\ s.fin
             st == IF eof /\ next.st = r.st THEN "error" ELSE next.st
             rd == r.rd /\ s.inq # <<>> /\ more
             age == IF r.rd THEN 0 ELSE next.age
  <2>1. r2 = [next EXCEPT !.st = st, !.rd = rd, !.age = age]
    BY <1>8 DEF ReadState, q
  <2> HIDE DEF r2
  <2>2. age \in Nat /\ rd \in BOOLEAN
    BY <1>1, <1>5 DEF Conn
  <2> HIDE DEF age, rd
  <2>3. r2 \in Conn /\ r2.st = st /\ r2.inq = next.inq /\ r2.fd = r.fd /\ r2.added = r.added /\ r2.out = 0
    <3> HIDE DEF next
    <3>1. st \in {next.st, "error"}
      OBVIOUS
    <3> HIDE DEF st
    <3> QED BY <1>5, <1>6, <2>1, <2>2, <3>1 DEF Conn
  <2>4. Len(r2.inq) + Len(s2.inq) <= Len(r.inq) + Len(s.inq)
        /\ (q # <<>> /\ Len(r2.inq) < Len(q) => Len(r2.inq) + Len(s2.inq) < Len(r.inq) + Len(s.inq))
    <3> HIDE DEF next
    <3> DEFINE a == Len(r.inq)
               b == Len(s.inq)
               c == Len(q)
               d == Len(s2.inq)
               e == Len(r2.inq)
    <3>1. c = a + (IF r.rd THEN b ELSE 0) /\ d = (IF r.rd THEN 0 ELSE b) /\ a \in Nat /\ b \in Nat
      BY <1>1, <1>2, <1>4
    <3>2. (q = <<>> => e = 0 /\ c = 0) /\ (q # <<>> => e = c \/ e = c - 1)
      BY <1>5, <2>3
    <3> HIDE DEF a, b, c, d, e
    <3>3. e + d <= a + b /\ (q # <<>> /\ e < c => e + d < a + b)
      BY <3>1, <3>2
    <3> QED BY <3>3 DEF a, b, c, d, e
  <2>5. CASE eof /\ next.st = r.st
    <3> HIDE DEF next
    <3>1. r2.st = "error" /\ q = <<>> /\ r2.inq = <<>>
      BY <1>5, <2>3, <2>5 DEF Reading
    <3>2. Sound(r2, s2)
      BY <1>3, <1>6, <2>3, <3>1 DEF Sound, Excused
    <3> QED BY <1>3, <2>3, <2>4, <3>1, <3>2 DEF ReadOK
  <2>6. CASE ~(eof /\ next.st = r.st)
    <3> HIDE DEF next
    <3>1. r2.st = next.st
      BY <2>3, <2>6
    <3>2. Sound(r2, s2)
      BY <1>3, <1>5, <1>6, <2>3, <3>1 DEF Sound, Reading
    <3>3. \/ r2.st = r.st /\ r2.inq = <<>>
          \/ r2.st = "handle" /\ r.st = "readpost"
          \/ /\ r2.st \in {"end", "handle"} /\ Rank(r2.st) <= Rank(r.st) + 6
             /\ Len(r2.inq) + Len(s2.inq) < Len(r.inq) + Len(s.inq)
      <4>1. CASE q = <<>> \/ (r.st = "readpost" /\ next.st = "handle")
        BY <1>5, <2>3, <3>1, <4>1
      <4>2. CASE q # <<>> /\ Len(next.inq) = Len(q) - 1 /\ next.st \in {"end", "handle"} /\ Rank(next.st) <= Rank(r.st) + 6
        <5>1. Len(q) \in Nat /\ Len(r2.inq) = Len(q) - 1
          <6>1. Len(q) \in Nat /\ r2.inq = next.inq
            BY <1>2, <2>3, LenProperties
          <6> QED BY <4>2, <6>1
        <5>2. Len(r2.inq) < Len(q)
          BY <5>1
        <5> QED BY <2>4, <3>1, <4>2, <5>2
      <4>3. \/ q = <<>> \/ (r.st = "readpost" /\ next.st = "handle")
            \/ q # <<>> /\ Len(next.inq) = Len(q) - 1 /\ next.st \in {"end", "handle"} /\ Rank(next.st) <= Rank(r.st) + 6
        BY <1>5
      <4> QED BY <4>1, <4>2, <4>3
    <3> QED BY <1>3, <2>3, <2>4, <3>2, <3>3 DEF ReadOK
  <2> QED BY <2>5, <2>6
<1> QED BY <1>7, <1>8 DEF s2

LEMMA TurnRead ==
  ASSUME NEW x, NEW f \in Fds, NEW fails \in BOOLEAN, Runnable(x, f, fails), Reading(x.r), NEW more \in BOOLEAN,
         NEW ok \in BOOLEAN
  PROVE  Turned(x, Read(x, more, ok), f, fails)
<1> DEFINE r == ReadState(x.r, x.s, more, ok)
           s == Drained(x.r, x.s)
           y == [x EXCEPT !.r = r, !.s = s]
<1>1. x \in Machines /\ x.r \in Conn /\ x.s \in Socket /\ Sound(x.r, x.s)
  BY DEF Runnable, Machines, Steady
<1>2. ReadOK(x.r, x.s, r, s)
  BY <1>1, ReadIs
<1> HIDE DEF r, s
<1>3. y \in Machines /\ y.r = r /\ y.s = s /\ y.again = x.again /\ ~y.done
  BY <1>1, <1>2 DEF Runnable, Machines, ReadOK
<1> HIDE DEF y
<1>4. r.st # "connect" /\ x.r.st \in {"read", "readpost"} /\ r.st \in {x.r.st, "error", "end", "handle"}
  BY <1>2 DEF ReadOK, Reading
<1>5. Steady(y, f, fails)
  BY <1>1, <1>2, <1>3, <1>4 DEF Runnable, Steady, Placed, ReadOK
<1>6. r.st = x.r.st => Waits(y)
  BY <1>2, <1>3, <1>4, RankIs DEF ReadOK, Waits, Reading
<1>7. ASSUME r.st # x.r.st PROVE Left(y) < Left(x)
  <2>1. CASE r.st = "error"
    <3>1. Rank(y.r.st) < Rank(x.r.st)
      BY <1>3, <1>4, <2>1, RankIs
    <3> QED BY <1>1, <1>2, <1>3, <3>1, LessLeft DEF ReadOK
  <2>3. CASE r.st = "handle" /\ x.r.st = "readpost"
    <3>1. Rank(y.r.st) < Rank(x.r.st)
      BY <1>3, <2>3, RankIs
    <3> QED BY <1>1, <1>2, <1>3, <3>1, LessLeft DEF ReadOK
  <2>2. CASE r.st # "error" /\ ~(r.st = "handle" /\ x.r.st = "readpost")
    <3>1. /\ Rank(y.r.st) <= Rank(x.r.st) + 6
          /\ Len(y.r.inq) + Len(y.s.inq) < Len(x.r.inq) + Len(x.s.inq)
      BY <1>2, <1>3, <1>7, <2>2 DEF ReadOK
    <3> QED BY <1>1, <1>3, <3>1, UnitTaken
  <2> QED BY <2>1, <2>2, <2>3
<1>8. Turned(x, y, f, fails)
  BY <1>3, <1>5, <1>6, <1>7 DEF Turned
<1> QED BY <1>8 DEF Read, y, r, s

\* connection_handle_write sends all there is, or as much as there is room for, or fails since
\* the client has gone or the server has failed.
WriteOK(r, s, r2, s2) ==
  /\ r2 \in Conn /\ s2 \in Socket /\ Sound(r2, s2)
  /\ r2.fd = r.fd /\ r2.added = r.added /\ s2.st = s.st /\ s2.fd = s.fd /\ r2.inq = r.inq /\ s2.inq = s.inq
  /\ r2.st \in {"error", "respend"} \/ (r2.st = "write" /\ ~r2.wr)

LEMMA WriteIs ==
  ASSUME NEW r \in Conn, NEW s \in Socket, r.st = "write", Sound(r, s), NEW ok \in BOOLEAN
  PROVE  WriteOK(r, s, WriteState(r, s, ok), Filled(r, s, ok))
<1> DEFINE n == Fits(r, s)
           r2 == WriteState(r, s, ok)
           s2 == Filled(r, s, ok)
<1>1. /\ r.out \in Nat /\ r.out > 0 /\ s.buf \in 0..Room /\ Room \in Nat
      /\ (s.rst => s.gone) /\ (s.cut => s.failed)
  BY LimitsAssumption DEF Conn, Socket, Sound
<1>2. n \in Nat /\ n <= r.out /\ (~s.gone => s.buf + n <= Room)
  <2>1. CASE s.gone
    BY <1>1, <2>1 DEF Fits
  <2>2. CASE ~s.gone
    <3>1. Room - s.buf \in Nat
      BY <1>1
    <3>2. n = Min({r.out, Room - s.buf})
      BY <2>2 DEF Fits
    <3>3. n = IF r.out <= Room - s.buf THEN r.out ELSE Room - s.buf
      BY <1>1, <3>1, <3>2, LesserOf
    <3> HIDE DEF n
    <3> QED BY <1>1, <3>1, <3>3
  <2> QED BY <2>1, <2>2
<1>3. s2 \in Socket /\ s2.st = s.st /\ s2.fd = s.fd /\ s2.inq = s.inq /\ s2.gone = s.gone
      /\ (s2.rst => s2.gone) /\ (s2.cut => s2.failed) /\ (~s.rst /\ ~ok => s2.failed)
  <2>1. CASE s.rst
    BY <1>1, <2>1 DEF Filled
  <2>4. CASE ~s.rst /\ ~ok
    <3>1. s2 = [s EXCEPT !.failed = TRUE]
      BY <2>4 DEF Filled
    <3> HIDE DEF s2
    <3> QED BY <1>1, <2>4, <3>1 DEF Socket
  <2>2. CASE ~s.rst /\ ok /\ s.gone
    <3>1. s2 = [s EXCEPT !.rst = TRUE]
      BY <2>2 DEF Filled
    <3> HIDE DEF s2
    <3> QED BY <1>1, <2>2, <3>1 DEF Socket
  <2>3. CASE ~s.rst /\ ok /\ ~s.gone
    <3>1. s2 = [s EXCEPT !.buf = s.buf + n] /\ s.buf + n \in 0..Room
      BY <1>1, <1>2, <2>3 DEF Filled
    <3> HIDE DEF s2, n
    <3> QED BY <1>1, <2>3, <3>1 DEF Socket
  <2> QED BY <2>1, <2>2, <2>3, <2>4
<1>4. s.rst => s2.gone
  BY <1>1, <1>3
<1> HIDE DEF s2
<1>5. CASE s.rst \/ ~ok
  <2>1. r2 = [r EXCEPT !.st = "error"]
    BY <1>5 DEF WriteState
  <2> HIDE DEF r2
  <2>2. r2 \in Conn /\ r2.st = "error" /\ r2.inq = r.inq /\ r2.fd = r.fd /\ r2.added = r.added
    BY <2>1 DEF Conn
  <2>3. Sound(r2, s2)
    BY <1>3, <1>4, <1>5, <2>2 DEF Sound, Excused
  <2>4. WriteOK(r, s, r2, s2)
    BY <1>3, <2>2, <2>3 DEF WriteOK
  <2> QED BY <2>4 DEF r2, s2
<1>6. CASE ~s.rst /\ ok /\ n = r.out
  <2>1. r2 = [r EXCEPT !.st = "respend", !.out = 0]
    <3>1. ~(n < r.out)
      BY <1>1, <1>6
    <3> QED BY <1>6, <3>1 DEF WriteState
  <2> HIDE DEF r2
  <2>2. r2 \in Conn /\ r2.st = "respend" /\ r2.out = 0 /\ r2.inq = r.inq /\ r2.fd = r.fd /\ r2.added = r.added
    BY <2>1 DEF Conn
  <2>3. Sound(r2, s2)
    BY <1>3, <2>2 DEF Sound
  <2>4. WriteOK(r, s, r2, s2)
    BY <1>3, <2>2, <2>3 DEF WriteOK
  <2> QED BY <2>4 DEF r2, s2
<1>7. CASE ~s.rst /\ ok /\ n < r.out
  <2>1. r2 = [r EXCEPT !.out = r.out - n, !.wr = FALSE, !.age = 0]
    <3>1. ~(n = r.out)
      BY <1>1, <1>2, <1>7
    <3> QED BY <1>7, <3>1 DEF WriteState
  <2>2. r.out - n \in Nat /\ r.out - n > 0
    BY <1>1, <1>2, <1>7
  <2> HIDE DEF r2, n
  <2>3. r2 \in Conn /\ r2.st = "write" /\ ~r2.wr /\ r2.out > 0 /\ r2.inq = r.inq /\ r2.fd = r.fd /\ r2.added = r.added
    BY <2>1, <2>2 DEF Conn
  <2>4. Sound(r2, s2)
    BY <1>3, <2>3 DEF Sound
  <2>5. WriteOK(r, s, r2, s2)
    BY <1>3, <2>3, <2>4 DEF WriteOK
  <2> QED BY <2>5 DEF r2, s2
<1>8. n = r.out \/ n < r.out
  BY <1>1, <1>2
<1> QED BY <1>5, <1>6, <1>7, <1>8

LEMMA TurnWrite ==
  ASSUME NEW x, NEW f \in Fds, NEW fails \in BOOLEAN, Runnable(x, f, fails), x.r.st = "write",
         NEW ok \in BOOLEAN
  PROVE  Turned(x, Write(x, ok), f, fails)
<1>1. x \in Machines /\ x.r \in Conn /\ x.s \in Socket /\ Sound(x.r, x.s) /\ ~fails /\ x.again \in Nat
  BY DEF Runnable, Machines, Steady
<1>2. CASE x.r.wr
  <2> DEFINE r == WriteState(x.r, x.s, ok)
             s == Filled(x.r, x.s, ok)
             again == x.again + IF r.st = "write" THEN 0 ELSE 1
             y == [x EXCEPT !.r = r, !.s = s, !.again = again]
  <2>1. WriteOK(x.r, x.s, r, s)
    BY <1>1, WriteIs
  <2>2. Write(x, ok) = y
    <3>1. x.r.out # 0
      BY <1>1 DEF Sound, Conn
    <3> QED BY <1>2, <3>1 DEF Write
  <2>3. again \in Nat
    BY <1>1
  <2> HIDE DEF r, s, again
  <2>4. y \in Machines /\ y.r = r /\ y.s = s /\ ~y.done
    BY <1>1, <2>1, <2>3 DEF Runnable, Machines, WriteOK
  <2> HIDE DEF y
  <2>5. Steady(y, f, fails)
    BY <1>1, <2>1, <2>4 DEF Runnable, Steady, Placed, WriteOK
  <2>6. r.st = x.r.st => Waits(y)
    BY <2>1, <2>4 DEF WriteOK, Waits
  <2>7. ASSUME r.st # x.r.st PROVE Left(y) < Left(x)
    <3>1. Rank(y.r.st) < Rank(x.r.st)
      BY <2>1, <2>4, <2>7, RankIs DEF WriteOK
    <3>2. Len(y.r.inq) + Len(y.s.inq) <= Len(x.r.inq) + Len(x.s.inq)
      <4>1. Len(x.r.inq) \in Nat /\ Len(x.s.inq) \in Nat /\ y.r.inq = x.r.inq /\ y.s.inq = x.s.inq
        BY <1>1, <2>1, <2>4, LeftIs DEF WriteOK
      <4> QED BY <4>1
    <3> QED BY <1>1, <2>4, <3>1, <3>2, LessLeft
  <2>8. Turned(x, y, f, fails)
    BY <2>4, <2>5, <2>6, <2>7 DEF Turned
  <2> QED BY <2>2, <2>8
<1>3. CASE ~x.r.wr
  <2>1. Write(x, ok) = x
    BY <1>3 DEF Write
  <2> QED BY <1>3, <2>1 DEF Runnable, Turned, Waits, Reading
<1> QED BY <1>2, <1>3

\* What is closed is closed for a reason.
LEMMA TurnCloses ==
  ASSUME NEW x, NEW f \in Fds, NEW fails \in BOOLEAN, Runnable(x, f, fails), x.r.st \in {"respend", "error"}
  PROVE  Turned(x, CloseFd(x), f, fails)
<1>1. /\ x \in Machines /\ x.r \in Conn /\ x.s \in Socket /\ Sound(x.r, x.s)
      /\ x.r.inq \in Seq(Units) /\ x.r.count \in Nat /\ x.s.fin \in BOOLEAN /\ x.s.failed \in BOOLEAN
  BY DEF Runnable, Machines, Steady, Conn, Socket
<1>2. Excused(x.r, x.s) \/ x.s.failed
  BY <1>1 DEF Sound, Excused
<1> DEFINE r == [Fresh EXCEPT !.inq = x.r.inq, !.count = x.r.count]
           s == [Unopened EXCEPT !.st = "closed", !.fin = x.s.fin, !.failed = x.s.failed, !.cut = ~Excused(x.r, x.s)]
           y == [x EXCEPT !.r = r, !.s = s]
<1>3. CloseFd(x) = y
  BY DEF CloseFd
<1>4. /\ r \in Conn /\ r.st = "connect" /\ r.out = 0 /\ r.inq = x.r.inq /\ r.count = x.r.count
      /\ r = [Fresh EXCEPT !.inq = r.inq, !.count = r.count]
  BY <1>1 DEF Conn, Fresh, None
<1>5. s \in Socket /\ s.st = "closed" /\ (s.cut => s.failed) /\ ~s.rst /\ s.inq = <<>>
  <2>1. <<>> \in Seq(Units) /\ 0 \in 0..Room
    BY LimitsAssumption
  <2> QED BY <1>1, <1>2, <2>1 DEF Socket, Unopened, None
<1> HIDE DEF r, s
<1>6. y \in Machines /\ y.r = r /\ y.s = s /\ y.again = x.again /\ ~y.done
  BY <1>1, <1>4, <1>5 DEF Runnable, Machines
<1> HIDE DEF y
<1>7. Steady(y, f, fails)
  BY <1>1, <1>4, <1>5, <1>6 DEF Runnable, Steady, Placed, Sound
<1>8. Left(y) < Left(x)
  <2>1. Len(x.r.inq) \in Nat /\ Len(x.s.inq) \in Nat /\ Len(s.inq) = 0
    BY <1>1, <1>5, LeftIs
  <2>2. Len(y.r.inq) + Len(y.s.inq) <= Len(x.r.inq) + Len(x.s.inq)
    <3>1. y.r.inq = x.r.inq /\ y.s.inq = s.inq
      BY <1>4, <1>6
    <3> QED BY <2>1, <3>1
  <2>3. Rank(y.r.st) < Rank(x.r.st)
    BY <1>4, <1>6, RankIs
  <2> QED BY <1>1, <1>6, <2>2, <2>3, LessLeft
<1>9. Turned(x, y, f, fails)
  BY <1>4, <1>6, <1>7, <1>8 DEF Turned
<1> QED BY <1>3, <1>9

LEMMA TurnRespond ==
  ASSUME NEW x, NEW f \in Fds, NEW fails \in BOOLEAN, Runnable(x, f, fails), x.r.st = "respend"
  PROVE  Turned(x, ResponseEnd(x), f, fails)
<1>1. x \in Machines /\ x.r \in Conn
  BY DEF Runnable, Machines
<1>2. CASE x.r.keep
  <2> DEFINE r == Reset(x.r, "start")
  <2>1. r \in Conn /\ r.st = "start" /\ r.inq = x.r.inq /\ r.out = 0 /\ r.fd = x.r.fd
    BY <1>1 DEF Reset, Conn, Fresh, None
  <2> HIDE DEF r
  <2>2. Sound(r, x.s)
    BY <2>1 DEF Runnable, Steady, Sound
  <2>3. Rank(r.st) < Rank(x.r.st)
    BY <2>1, RankIs
  <2>4. Turned(x, [x EXCEPT !.r = r], f, fails)
    BY <1>1, <2>1, <2>2, <2>3, OnlyConn
  <2> QED BY <1>2, <2>4 DEF ResponseEnd, r
<1>3. CASE ~x.r.keep
  BY <1>3, TurnCloses DEF ResponseEnd
<1> QED BY <1>2, <1>3

LEMMA TurnClosed ==
  ASSUME NEW x, NEW f \in Fds, NEW fails \in BOOLEAN, Runnable(x, f, fails), x.r.st = "connect"
  PROVE  Turned(x, Closed(x), f, fails)
<1> DEFINE r == [x.r EXCEPT !.inq = <<>>, !.count = 0]
           y == [x EXCEPT !.r = r]
<1>1. x \in Machines /\ x.r = [Fresh EXCEPT !.inq = x.r.inq, !.count = x.r.count] /\ x.s.st = "closed"
  BY DEF Runnable, Steady, Placed
<1>2. r = Fresh /\ r \in Conn
  <2>1. <<>> \in Seq(Units)
    OBVIOUS
  <2>2. r = Fresh
    <3>1. PICK a, b : x.r = [Fresh EXCEPT !.inq = a, !.count = b]
      BY <1>1
    <3>2. x.r = [st |-> "connect", fd |-> None, added |-> FALSE, rd |-> TRUE, wr |-> TRUE, inq |-> a,
                 req |-> "none", out |-> 0, keep |-> FALSE, count |-> b, age |-> 0]
      BY <3>1 DEF Fresh
    <3>3. r = [st |-> "connect", fd |-> None, added |-> FALSE, rd |-> TRUE, wr |-> TRUE, inq |-> <<>>,
               req |-> "none", out |-> 0, keep |-> FALSE, count |-> 0, age |-> 0]
      <4> DEFINE u == [st |-> "connect", fd |-> None, added |-> FALSE, rd |-> TRUE, wr |-> TRUE, inq |-> a,
                       req |-> "none", out |-> 0, keep |-> FALSE, count |-> b, age |-> 0]
      <4>1. r = [u EXCEPT !.inq = <<>>, !.count = 0]
        BY <3>2 DEF u
      <4> HIDE DEF r
      <4> QED BY <4>1
    <3> QED BY <3>3 DEF Fresh
  <2> HIDE DEF r
  <2> QED BY <2>1, <2>2 DEF Conn, Fresh, None
<1> HIDE DEF r
<1>3. y \in Machines /\ y.r = r /\ y.s = x.s /\ y.again = x.again /\ ~y.done
  BY <1>1, <1>2 DEF Runnable, Machines
<1> HIDE DEF y
<1>4. r.st = "connect" /\ r.out = 0 /\ r = [Fresh EXCEPT !.inq = r.inq, !.count = r.count]
  BY <1>2 DEF Fresh
<1>5. Steady(y, f, fails)
  BY <1>1, <1>3, <1>4 DEF Runnable, Steady, Placed, Sound
<1>6. Turned(x, y, f, fails)
  BY <1>2, <1>3, <1>4, <1>5 DEF Turned, Waits
<1> QED BY <1>6 DEF y, r, Closed

LEMMA TurnKeeps ==
  ASSUME NEW x, NEW f \in Fds, NEW fails \in BOOLEAN, Runnable(x, f, fails), NEW more \in BOOLEAN,
         NEW ok \in BOOLEAN
  PROVE  Turned(x, Turn(x, more, ok), f, fails)
<1>1. x.r \in Conn
  BY DEF Runnable, Machines
<1>2. CASE x.r.st = "start"
  BY <1>2, TurnStart DEF Turn, Reading
<1>3. CASE Reading(x.r)
  <2>1. Turn(x, more, ok) = Read(x, more, ok)
    BY <1>3 DEF Turn, Reading
  <2> QED BY <1>3, <2>1, TurnRead
<1>4. CASE x.r.st = "end"
  BY <1>4, TurnEnd DEF Turn, Reading
<1>5. CASE x.r.st = "handle"
  BY <1>5, TurnHandle DEF Turn, Reading
<1>6. CASE x.r.st = "write"
  BY <1>6, TurnWrite DEF Turn, Reading
<1>7. CASE x.r.st = "respend"
  BY <1>7, TurnRespond DEF Turn, Reading
<1>8. CASE x.r.st = "error"
  BY <1>8, TurnCloses DEF Turn, Reading
<1>9. CASE x.r.st = "connect"
  BY <1>9, TurnClosed DEF Turn, Reading
<1> QED BY <1>1, <1>2, <1>3, <1>4, <1>5, <1>6, <1>7, <1>8, <1>9 DEF Conn, Reading

\* A machine that goes on has one turn less to go.
Going(x, n, start, f, fails) ==
  /\ x \in Machines /\ Steady(x, f, fails)
  /\ x.done \/ Left(x) + n <= Left(start)

LEMMA GoesKeeps ==
  ASSUME NEW start \in Machines, NEW n \in Nat, NEW f \in Fds, NEW fails \in BOOLEAN,
         NEW x, Going(x, n, start, f, fails), NEW z \in Goes(x)
  PROVE  Going(z, n + 1, start, f, fails)
<1>1. CASE x.done
  BY <1>1 DEF Going, Goes
<1>2. CASE ~x.done
  <2>0. Oks \subseteq BOOLEAN
    BY DEF Oks
  <2>1. PICK more \in BOOLEAN, ok \in Oks : z = [Turn(x, more, ok) EXCEPT !.done = Turn(x, more, ok).r.st = x.r.st]
    BY <1>2 DEF Goes
  <2> DEFINE y == Turn(x, more, ok)
             same == y.r.st = x.r.st
  <2>2. Turned(x, y, f, fails)
    BY <1>2, <2>0, TurnKeeps DEF Going, Runnable
  <2> HIDE DEF y
  <2>3. z = [y EXCEPT !.done = same] /\ same \in BOOLEAN
    BY <2>1 DEF y
  <2> HIDE DEF same
  <2>4. z \in Machines /\ z.r = y.r /\ z.s = y.s /\ z.again = y.again /\ z.done = same
    BY <2>2, <2>3 DEF Turned, Machines
  <2>5. Steady(z, f, fails)
    <3>1. same => Waits(z)
      BY <2>2, <2>4 DEF Turned, Waits, same
    <3> QED BY <2>2, <2>4, <3>1 DEF Turned, Steady, Placed
  <2>6. ASSUME ~z.done PROVE Left(z) + (n + 1) <= Left(start)
    <3>1. Left(z) = Left(y) /\ Left(y) < Left(x)
      BY <2>2, <2>4, <2>6 DEF Left, Turned, same
    <3>2. Left(x) + n <= Left(start) /\ x \in Machines /\ y \in Machines
      BY <1>2, <2>2 DEF Going, Turned
    <3> DEFINE a == Left(x)
               b == Left(y)
               c == Left(start)
    <3>3. a \in Int /\ b \in Int /\ c \in Int
      BY <3>2, LeftIsInt
    <3>4. b < a /\ a + n <= c
      BY <3>1, <3>2
    <3> HIDE DEF a, b, c
    <3>5. b + (n + 1) <= c
      BY <3>3, <3>4
    <3> QED BY <3>1, <3>5 DEF b, c
  <2> QED BY <2>4, <2>5, <2>6 DEF Going
<1> QED BY <1>1, <1>2

\* connection_state_machine ends, and leaves the connection waiting for something, or closed.
LEMMA StateMachineIs ==
  ASSUME NEW start \in Machines, NEW f \in Fds, NEW fails \in BOOLEAN, Runnable(start, f, fails),
         NEW x \in StateMachine(start)
  PROVE  x \in Machines /\ Steady(x, f, fails) /\ x.done
<1> DEFINE T == TurnsOf(start)
           Bad == {n \in Nat : \E y \in T[n] : ~Going(y, n, start, f, fails)}
<1>1. /\ T[0] = {start} /\ StateMachine(start) = T[MaxTurns(start)]
      /\ \A n \in Nat : n > 0 => T[n] = UNION {Goes(y) : y \in T[n - 1]}
  BY TurnsExist
<1> HIDE DEF T
<1>2. Bad = {}
  <2> SUFFICES ASSUME Bad # {} PROVE FALSE
    OBVIOUS
  <2>1. PICK n \in Bad : \A m \in Bad : n <= m
    <3>1. Bad \in SUBSET Nat
      OBVIOUS
    <3> HIDE DEF Bad
    <3> QED BY <3>1, LeastOf
  <2>2. n # 0
    <3>1. Left(start) + 0 <= Left(start)
      BY LeftIsInt
    <3>2. Going(start, 0, start, f, fails)
      BY <3>1 DEF Going, Runnable
    <3> QED BY <1>1, <2>1, <3>2
  <2>3. n \in Nat /\ n - 1 \in Nat /\ n - 1 \notin Bad
    BY <2>1, <2>2
  <2>4. PICK z \in T[n] : ~Going(z, n, start, f, fails)
    BY <2>1
  <2>5. PICK y \in T[n - 1] : z \in Goes(y)
    BY <1>1, <2>2, <2>3, <2>4
  <2>6. Going(y, n - 1, start, f, fails)
    BY <2>3, <2>5
  <2>7. Going(z, (n - 1) + 1, start, f, fails)
    BY <2>3, <2>5, <2>6, GoesKeeps
  <2> QED BY <2>3, <2>4, <2>7
<1> DEFINE a == Len(start.r.inq)
           b == Len(start.s.inq)
           m == MaxTurns(start)
<1>3. a \in Nat /\ b \in Nat /\ m = 9 * (a + b + 1) /\ Left(start) <= 8 * (a + b) + 8
  <2>1. m = 9 * (a + b + 1)
    BY DEF MaxTurns
  <2>2. a \in Nat /\ b \in Nat /\ Rank(start.r.st) \in 0..8 /\ Left(start) = 8 * (a + b) + Rank(start.r.st)
    BY LeftIs
  <2> HIDE DEF a, b, m
  <2> QED BY <2>1, <2>2
<1>4. m \in Nat /\ Left(start) < m
  <2>1. Left(start) \in Int
    BY LeftIsInt
  <2> HIDE DEF a, b, m
  <2> QED BY <1>3, <2>1
<1>5. Going(x, m, start, f, fails)
  <2>1. m \notin Bad /\ x \in T[m]
    BY <1>1, <1>2
  <2> HIDE DEF m
  <2> QED BY <1>4, <2>1
<1>6. x.done
  <2> SUFFICES ASSUME ~x.done PROVE FALSE
    OBVIOUS
  <2>1. x \in Machines /\ Left(x) + m <= Left(start)
    BY <1>5 DEF Going
  <2>2. Left(x) \in Int /\ Left(x) >= 0 /\ Left(start) \in Int
    BY <2>1, LeftIsInt
  <2> HIDE DEF m
  <2> QED BY <1>4, <2>1, <2>2
<1> QED BY <1>5, <1>6 DEF Going

-------------------------------------------------------------------------------
\* The invariant

HasFd(c, f) == sock[c].st = "open" /\ sock[c].fd = f

NetType ==
  /\ sock \in [Clients -> Socket] /\ con \in [Objects -> Conn]
  /\ ptr \in [Objects -> Objects] /\ used \in 0..MaxConns /\ curFds = used
  /\ fdarray \in [Fds -> Objects \cup {None}] /\ epoll \in [Fds -> {"no", "in", "out"}]

\* Every object is in one place of ptr.
Ordered == /\ \A i, j \in Objects : ptr[i] = ptr[j] => i = j
           /\ \A o \in Objects : \E i \in Objects : ptr[i] = o

\* A descriptor leads to one connection in use and belongs to one client, and back.
Linked ==
  /\ \A f \in Fds : fdarray[f] # None =>
       fdarray[f] \in InUse /\ con[fdarray[f]].fd = f /\ \E c \in Clients : HasFd(c, f)
  /\ \A o \in InUse : con[o].fd \in Fds /\ fdarray[con[o].fd] = o
  /\ \A c \in Clients : sock[c].st = "open" => sock[c].fd \in Fds /\ fdarray[sock[c].fd] # None
  /\ \A c, d \in Clients : sock[c].st = "open" /\ sock[d].st = "open" /\ sock[c].fd = sock[d].fd => c = d
  /\ \A f \in Fds : epoll[f] # "no" <=> fdarray[f] # None /\ con[fdarray[f]].added
  /\ \A o \in Objects : o \notin InUse => con[o] = Fresh

\* Connections are as their sockets allow, and no socket was cut off.
Served(r, s) == Sound(r, s) /\ r.st \notin {"connect", "start"}
AllServed ==
  /\ \A c \in Clients : (sock[c].cut => sock[c].failed) /\ (sock[c].rst => sock[c].gone)
  /\ \A c \in Clients, f \in Fds : HasFd(c, f) => Served(con[fdarray[f]], sock[c])

NetInv == NetType /\ Ordered /\ Linked /\ AllServed

\* A connection in use waits for an event it is watched for, or has a turn to come.
Parked(o) == LET r == con[o] IN
  \/ Reading(r) /\ r.inq = <<>> /\ epoll[r.fd] = "in"
  \/ r.st = "write" /\ r.out > 0 /\ epoll[r.fd] = "out"
InJobs(o) == \E i \in 1..Len(jobs) : jobs[i] = o

\* Events of the last epoll_wait, and where the loop is.
Events == [fd : Fds, who : Clients, in : BOOLEAN, out : BOOLEAN, hup : BOOLEAN]
EventOK(e) == /\ e \in Events /\ fdarray[e.fd] # None /\ HasFd(e.who, e.fd)
              /\ e.hup => sock[e.who].rst
LoopInv ==
  /\ jobs \in Seq(Objects) /\ ndx \in Nat \ {0}
  /\ pc \in {"top", "walk", "sockets", "poll", "events", "jobs", "stopped"}
  /\ jobs # <<>> => pc \in {"events", "jobs"}
  /\ batch # {} => pc = "events"
  /\ \A e \in batch : e # Accepting => EventOK(e)
  /\ \A o \in InUse : Parked(o) \/ InJobs(o)

ConnInv == NetInv /\ LoopInv

LEMMA ObjectsAre ==
  /\ Objects = 1..MaxConns /\ Fds = 1..MaxConns /\ MaxConns \in Nat /\ MaxConns > 0 /\ None = 0
  /\ None \notin Objects /\ None \notin Fds /\ Objects \subseteq Nat /\ Fds \subseteq Nat
BY LimitsAssumption DEF Objects, Fds, None

LEMMA InUseIs ==
  ASSUME NetType
  PROVE  InUse \subseteq Objects /\ \A i \in 1..used : i \in Objects /\ ptr[i] \in InUse
<1>1. \A i \in 1..used : i \in Objects
  BY ObjectsAre DEF NetType
<1> QED BY <1>1 DEF NetType, InUse

\* Steps that leave the links as they are.
LEMMA LinksStay ==
  ASSUME NetInv, UNCHANGED <<ptr, used, fdarray, epoll, curFds>>,
         sock' \in [Clients -> Socket], con' \in [Objects -> Conn],
         \A o \in Objects : con'[o].fd = con[o].fd /\ con'[o].added = con[o].added,
         \A o \in Objects : o \notin InUse => con'[o] = con[o],
         \A c \in Clients : /\ sock'[c].st = "open" <=> sock[c].st = "open"
                            /\ sock[c].st = "open" => sock'[c].fd = sock[c].fd
                            /\ (sock'[c].cut => sock'[c].failed) /\ (sock'[c].rst => sock'[c].gone),
         \A c \in Clients, f \in Fds : HasFd(c, f) => Served(con'[fdarray[f]], sock'[c])
  PROVE  NetInv' /\ InUse' = InUse
<1>1. InUse' = InUse
  BY DEF InUse
<1>2. NetType'
  BY DEF NetInv, NetType
<1>3. Ordered'
  BY DEF NetInv, Ordered
<1>4. \A c \in Clients, f \in Fds : HasFd(c, f)' <=> HasFd(c, f)
  BY DEF HasFd
<1>5. InUse \subseteq Objects
  BY InUseIs DEF NetInv
<1>6. Linked'
  <2>1. \A f \in Fds : fdarray'[f] # None =>
          fdarray'[f] \in InUse' /\ con'[fdarray'[f]].fd = f /\ \E c \in Clients : HasFd(c, f)'
    BY <1>1, <1>4, <1>5 DEF NetInv, Linked
  <2>2. \A o \in InUse' : con'[o].fd \in Fds /\ fdarray'[con'[o].fd] = o
    BY <1>1, <1>5 DEF NetInv, Linked
  <2>3. \A c \in Clients : sock'[c].st = "open" => sock'[c].fd \in Fds /\ fdarray'[sock'[c].fd] # None
    BY DEF NetInv, Linked
  <2>4. \A c, d \in Clients : sock'[c].st = "open" /\ sock'[d].st = "open" /\ sock'[c].fd = sock'[d].fd => c = d
    BY DEF NetInv, Linked
  <2>5. \A f \in Fds : epoll'[f] # "no" <=> fdarray'[f] # None /\ con'[fdarray'[f]].added
    BY <1>5 DEF NetInv, Linked
  <2>6. \A o \in Objects : o \notin InUse' => con'[o] = Fresh
    BY <1>1 DEF NetInv, Linked
  <2> QED BY <2>1, <2>2, <2>3, <2>4, <2>5, <2>6 DEF Linked
<1>7. AllServed'
  BY <1>4 DEF AllServed
<1> QED BY <1>1, <1>2, <1>3, <1>6, <1>7 DEF NetInv

\* How many there are of each.
LEMMA InUseCounted ==
  ASSUME NetType, Ordered
  PROVE  IsFiniteSet(InUse) /\ Cardinality(InUse) = used
<1> DEFINE F == [i \in 1..used |-> ptr[i]]
<1>1. used \in Nat /\ \A i \in 1..used : i \in Objects
  BY InUseIs, ObjectsAre DEF NetType
<1>2. F \in Bijection(1..used, InUse)
  <2>1. F \in [1..used -> InUse] /\ \A t \in InUse : \E i \in 1..used : F[i] = t
    BY <1>1, InUseIs DEF InUse
  <2>2. \A i, j \in 1..used : F[i] = F[j] => i = j
    BY <1>1 DEF Ordered
  <2> HIDE DEF F
  <2> QED BY <2>1, <2>2 DEF Bijection, Injection, IsInjective, Surjection
<1>3. IsFiniteSet(1..used) /\ Cardinality(1..used) = used
  BY <1>1, FS_Interval
<1> HIDE DEF F
<1>4. ExistsBijection(1..used, InUse)
  BY <1>2 DEF ExistsBijection
<1> QED BY <1>3, <1>4, FS_Bijection

LEMMA OpenCounted ==
  ASSUME NetInv
  PROVE  Cardinality({c \in Clients : sock[c].st = "open"}) = used
<1> DEFINE S == {c \in Clients : sock[c].st = "open"}
           F == [o \in InUse |-> CHOOSE c \in Clients : HasFd(c, con[o].fd)]
<1>1. ASSUME NEW o \in InUse PROVE F[o] \in Clients /\ HasFd(F[o], con[o].fd)
  <2>1. fdarray[con[o].fd] = o /\ con[o].fd \in Fds /\ o # None
    BY InUseIs, ObjectsAre DEF NetInv, Linked
  <2>2. \E c \in Clients : HasFd(c, con[o].fd)
    BY <2>1 DEF NetInv, Linked
  <2> QED BY <2>2
<1>2. F \in [InUse -> S]
  BY <1>1 DEF HasFd
<1>3. ASSUME NEW o \in InUse, NEW p \in InUse, F[o] = F[p] PROVE o = p
  <2>1. con[o].fd = con[p].fd
    BY <1>1, <1>3 DEF HasFd
  <2> QED BY <2>1 DEF NetInv, Linked
<1>4. ASSUME NEW c \in S PROVE \E o \in InUse : F[o] = c
  <2> DEFINE f == sock[c].fd
  <2>1. f \in Fds /\ fdarray[f] # None
    BY DEF NetInv, Linked
  <2>2. fdarray[f] \in InUse /\ con[fdarray[f]].fd = f
    BY <2>1 DEF NetInv, Linked
  <2>3. HasFd(F[fdarray[f]], f) /\ F[fdarray[f]] \in Clients
    BY <1>1, <2>2
  <2>4. F[fdarray[f]] = c
    <3> HIDE DEF F
    <3> QED BY <2>3 DEF NetInv, Linked, HasFd
  <2> QED BY <2>2, <2>4
<1> HIDE DEF F, S
<1>5. F \in Bijection(InUse, S)
  BY <1>2, <1>3, <1>4 DEF Bijection, Injection, IsInjective, Surjection
<1>6. ExistsBijection(InUse, S)
  BY <1>5 DEF ExistsBijection
<1>7. Cardinality(S) = Cardinality(InUse)
  BY <1>6, InUseCounted, FS_Bijection DEF NetInv
<1> QED BY <1>7, InUseCounted DEF NetInv, S

\* There is a descriptor for a new connection as long as there is an object for it.
LEMMA FreeFd ==
  ASSUME NetInv, used < MaxConns
  PROVE  LET f == Min({g \in Fds : fdarray[g] = None}) IN f \in Fds /\ fdarray[f] = None
<1> DEFINE G == {g \in Fds : fdarray[g] = None}
<1>1. G # {}
  <2> SUFFICES ASSUME G = {} PROVE FALSE
    OBVIOUS
  <2>1. \A g \in Fds : fdarray[g] \in InUse /\ con[fdarray[g]].fd = g
    BY DEF NetInv, Linked
  <2> DEFINE F == [g \in Fds |-> fdarray[g]]
  <2>2. F \in Injection(Fds, InUse)
    <3>1. F \in [Fds -> InUse] /\ \A g, h \in Fds : F[g] = F[h] => g = h
      BY <2>1
    <3> HIDE DEF F
    <3> QED BY <3>1 DEF Injection, IsInjective
  <2>3. IsFiniteSet(InUse) /\ Cardinality(InUse) = used
    BY InUseCounted DEF NetInv
  <2>4. Cardinality(Fds) <= Cardinality(InUse)
    <3> HIDE DEF F
    <3> QED BY <2>2, <2>3, FS_Injection
  <2>5. Cardinality(Fds) = MaxConns
    <3>1. MaxConns \in Nat /\ MaxConns > 0 /\ Fds = 1..MaxConns
      BY ObjectsAre
    <3>2. Cardinality(1..MaxConns) = MaxConns
      BY <3>1, FS_Interval
    <3> QED BY <3>1, <3>2
  <2> QED BY <2>3, <2>4, <2>5, ObjectsAre DEF NetInv, NetType
<1>2. G \in SUBSET Nat
  BY ObjectsAre
<1>3. Min(G) \in G
  <2> HIDE DEF G
  <2> QED BY <1>1, <1>2, LeastOf
<1> QED BY <1>3

-------------------------------------------------------------------------------
\* A run of one connection's machine

\* connection_del keeps the others in their list.
LEMMA RemovedIs ==
  ASSUME NetType, Ordered, NEW n \in Objects, NEW o \in {ptr[i] : i \in 1..n}
  PROVE  LET q == Removed(o, n) IN
         /\ q \in [Objects -> Objects]
         /\ \A i, j \in Objects : q[i] = q[j] => i = j
         /\ \A p \in Objects : \E i \in Objects : q[i] = p
         /\ {q[i] : i \in 1..n - 1} = {ptr[i] : i \in 1..n} \ {o}
<1> DEFINE i == CHOOSE k \in 1..n : ptr[k] = o
           q == Removed(o, n)
<1>1. i \in 1..n /\ ptr[i] = o
  OBVIOUS
<1>2. n \in Nat /\ 1..n \subseteq Objects /\ n >= 1 /\ \A k \in 1..n - 1 : k \in 1..n /\ k # n
  BY ObjectsAre
<1>3. ptr \in [Objects -> Objects] /\ i \in Objects /\ n \in Objects
  BY <1>1, <1>2 DEF NetType
<1>4. q = [ptr EXCEPT ![i] = ptr[n], ![n] = o]
  BY DEF Removed
<1> HIDE DEF i, q
<1>5. /\ q \in [Objects -> Objects] /\ q[n] = o /\ (i # n => q[i] = ptr[n])
      /\ \A k \in Objects : k # n /\ k # i => q[k] = ptr[k]
  BY <1>1, <1>3, <1>4
<1>6. ASSUME NEW k \in Objects, NEW l \in Objects, q[k] = q[l] PROVE k = l
  BY <1>1, <1>3, <1>5, <1>6 DEF Ordered
<1>7. ASSUME NEW p \in Objects PROVE \E k \in Objects : q[k] = p
  <2>1. PICK k \in Objects : ptr[k] = p
    BY DEF Ordered
  <2> QED BY <1>1, <1>3, <1>5, <2>1
<1>8. ASSUME NEW k \in 1..n - 1 PROVE q[k] \in {ptr[j] : j \in 1..n} \ {o}
  <2>1. k \in Objects /\ k # n /\ k \in 1..n
    BY <1>2
  <2>2. q[k] # o
    BY <1>3, <1>5, <1>6, <2>1
  <2>3. q[k] = ptr[k] \/ q[k] = ptr[n]
    BY <1>5, <2>1
  <2> QED BY <1>2, <2>1, <2>2, <2>3
<1>9. ASSUME NEW p \in {ptr[j] : j \in 1..n} \ {o} PROVE \E k \in 1..n - 1 : q[k] = p
  <2>1. PICK j \in 1..n : ptr[j] = p
    OBVIOUS
  <2>2. CASE j = n
    <3>1. i # n /\ q[i] = p
      BY <1>1, <1>5, <2>1, <2>2
    <3> QED BY <1>1, <1>2, <3>1
  <2>3. CASE j # n
    <3>1. j # i /\ q[j] = p /\ j \in 1..n - 1
      BY <1>1, <1>2, <1>5, <2>1, <2>3
    <3> QED BY <3>1
  <2> QED BY <2>2, <2>3
<1>10. {q[k] : k \in 1..n - 1} = {ptr[j] : j \in 1..n} \ {o}
  BY <1>8, <1>9
<1> QED BY <1>5, <1>6, <1>7, <1>10 DEF q

\* The machine runs for a connection in use, or for one that is being accepted.
Fit(o, c, r, n) ==
  /\ r \in Conn /\ r.fd \in Fds /\ r.st # "connect" /\ Sound(r, sock[c])
  /\ \/ o \in InUse /\ n = used /\ HasFd(c, r.fd) /\ r.fd = con[o].fd /\ r.added = con[o].added
     \/ /\ used < MaxConns /\ o = ptr[used + 1] /\ n = used + 1 /\ sock[c].st = "queued"
        /\ fdarray[r.fd] = None /\ ~r.added

\* What is around a connection o of client c with descriptor f: no other has to do with it.
Around(o, c, f, n) ==
  /\ o \in Objects /\ n \in Objects /\ f \in Fds /\ InUse \cup {o} = {ptr[i] : i \in 1..n}
  /\ \A p \in InUse : p # o => con[p].fd # f
  /\ \A d \in Clients : d # c => ~HasFd(d, f)
  /\ \A g \in Fds : g # f => fdarray[g] # o /\ ~HasFd(c, g)

\* What holds in both cases.
LEMMA FitIs ==
  ASSUME NetInv, NEW c \in Clients, NEW o, NEW r, NEW n, Fit(o, c, r, n)
  PROVE  /\ Around(o, c, r.fd, n)
         /\ ~r.added => epoll[r.fd] = "no"
         /\ curFds + (n - used) = n
<1>1. NetType /\ Ordered /\ Linked /\ used \in Nat /\ curFds = used /\ r.fd \in Fds
  BY ObjectsAre DEF NetInv, NetType, Fit
<1>2. CASE o \in InUse /\ n = used /\ HasFd(c, r.fd) /\ r.fd = con[o].fd /\ r.added = con[o].added
  <2>1. o \in Objects /\ fdarray[r.fd] = o /\ o # None
    BY <1>1, <1>2, InUseIs, ObjectsAre DEF Linked
  <2>2. n \in Objects
    BY <1>1, <1>2, ObjectsAre DEF NetType, InUse
  <2>3. \A d \in Clients : d # c => ~HasFd(d, r.fd)
    BY <1>1, <1>2 DEF Linked, HasFd
  <2>4. \A g \in Fds : g # r.fd => fdarray[g] # o /\ ~HasFd(c, g)
    BY <1>1, <1>2, <2>1 DEF Linked, HasFd
  <2>5. \A p \in InUse : p # o => con[p].fd # r.fd
    BY <1>1, <2>1 DEF Linked
  <2>6. ~r.added => epoll[r.fd] = "no"
    BY <1>1, <1>2, <2>1 DEF Linked
  <2>7. InUse \cup {o} = {ptr[i] : i \in 1..n}
    BY <1>2 DEF InUse
  <2>8. curFds + (n - used) = n
    BY <1>1, <1>2
  <2> QED BY <1>1, <2>1, <2>2, <2>3, <2>4, <2>5, <2>6, <2>7, <2>8 DEF Around
<1>3. CASE /\ used < MaxConns /\ o = ptr[used + 1] /\ n = used + 1 /\ sock[c].st = "queued"
           /\ fdarray[r.fd] = None /\ ~r.added
  <2>1. n \in Objects /\ n \notin 1..used /\ 1..n = 1..used \cup {n}
    BY <1>1, <1>3, ObjectsAre
  <2>2. o \in Objects /\ o = ptr[n]
    BY <1>1, <1>3, <2>1 DEF NetType
  <2>3. o \notin InUse
    BY <1>1, <2>1, <2>2, InUseIs DEF InUse, Ordered
  <2>4. \A p \in InUse : con[p].fd # r.fd
    BY <1>1, <1>3, InUseIs, ObjectsAre DEF Linked
  <2>5. \A d \in Clients : ~HasFd(d, r.fd)
    BY <1>1, <1>3 DEF Linked, HasFd
  <2>6. \A g \in Fds : fdarray[g] # o /\ ~HasFd(c, g)
    BY <1>1, <1>3, <2>2, <2>3, ObjectsAre DEF Linked, HasFd
  <2>7. epoll[r.fd] = "no"
    BY <1>1, <1>3 DEF Linked
  <2>8. InUse \cup {o} = {ptr[i] : i \in 1..n}
    BY <2>1, <2>2 DEF InUse
  <2>9. curFds + (n - used) = n
    BY <1>1, <1>3
  <2> QED BY <1>1, <2>1, <2>2, <2>4, <2>5, <2>6, <2>7, <2>8, <2>9 DEF Around
<1> QED BY <1>2, <1>3 DEF Fit

\* What a run leaves: nothing else changes, and the connection waits or is closed.
Touched(o, c, f) ==
  /\ con' \in [Objects -> Conn] /\ \A p \in Objects : p # o => con'[p] = con[p]
  /\ sock' \in [Clients -> Socket] /\ \A d \in Clients : d # c => sock'[d] = sock[d]
  /\ fdarray' \in [Fds -> Objects \cup {None}] /\ \A g \in Fds : g # f => fdarray'[g] = fdarray[g]
  /\ epoll' \in [Fds -> {"no", "in", "out"}] /\ \A g \in Fds : g # f => epoll'[g] = epoll[g]
  /\ (sock'[c].cut => sock'[c].failed) /\ (sock'[c].rst => sock'[c].gone)
Stays(o, c, f, n) ==
  /\ con'[o].fd = f /\ con'[o].added /\ Served(con'[o], sock'[c]) /\ HasFd(c, f)'
  /\ fdarray'[f] = o /\ epoll'[f] # "no" /\ Parked(o)'
  /\ ptr' = ptr /\ used' = n /\ curFds' = n
Ends(o, c, f, n) ==
  /\ con'[o] = Fresh /\ sock'[c].st = "closed" /\ fdarray'[f] = None /\ epoll'[f] = "no"
  /\ ptr' = Removed(o, n) /\ used' = n - 1 /\ curFds' = n - 1

LEMMA RunsIs ==
  ASSUME NetInv, NEW c \in Clients, NEW o, NEW r, NEW n, Fit(o, c, r, n), Runs(o, c, r, n)
  PROVE  /\ Touched(o, c, r.fd)
         /\ Stays(o, c, r.fd, n) \/ Ends(o, c, r.fd, n)
         /\ \E k \in Nat : jobs' = (IF pc = "jobs" THEN Tail(jobs) ELSE jobs) \o [i \in 1..k |-> o]
         /\ r.st = "error" => jobs' = (IF pc = "jobs" THEN Tail(jobs) ELSE jobs) \o [i \in 1..0 |-> o]
<1> DEFINE f == r.fd
           s == [sock[c] EXCEPT !.st = "open", !.fd = f]
           start == Begin(r, s)
           fails == r.st = "error"
<1>1. /\ NetType /\ sock[c] \in Socket /\ f \in Fds /\ r \in Conn /\ fails \in BOOLEAN /\ o \in Objects /\ n \in Objects
      /\ n \in Nat /\ curFds + (n - used) = n /\ Sound(r, sock[c]) /\ r.st # "connect"
  <2>1. r \in Conn /\ f \in Fds /\ r.st # "connect" /\ Sound(r, sock[c])
    BY DEF Fit
  <2>2. o \in Objects /\ n \in Objects /\ curFds + (n - used) = n
    BY FitIs DEF Around
  <2>3. NetType /\ sock[c] \in Socket
    BY DEF NetInv, NetType
  <2> HIDE DEF f, s, start
  <2> QED BY <2>1, <2>2, <2>3, ObjectsAre
<1>2. s \in Socket /\ s.st = "open" /\ s.fd = f /\ Sound(r, s)
  <2>1. s \in Socket /\ s.st = "open" /\ s.fd = f /\ s.rst = sock[c].rst /\ s.gone = sock[c].gone /\ s.cut = sock[c].cut /\ s.failed = sock[c].failed
    BY <1>1 DEF Socket
  <2> HIDE DEF s
  <2> QED BY <1>1, <2>1 DEF Sound, Excused
<1>3. PICK x \in StateMachine(start) :
        LET closed == IF x.s.st = "closed" THEN 1 ELSE 0
            watched == WatchedFor(x.r) # "no"
        IN  /\ con' = [con EXCEPT ![o] = [x.r EXCEPT !.added = watched]]
            /\ epoll' = IF watched \/ r.added THEN [epoll EXCEPT ![f] = WatchedFor(x.r)] ELSE epoll
            /\ sock' = [sock EXCEPT ![c] = x.s]
            /\ jobs' = (IF pc = "jobs" THEN Tail(jobs) ELSE jobs) \o [i \in 1..x.again |-> o]
            /\ fdarray' = [fdarray EXCEPT ![f] = IF closed = 1 THEN None ELSE o]
            /\ ptr' = IF closed = 1 THEN Removed(o, n) ELSE ptr
            /\ used' = n - closed /\ curFds' = curFds + (n - used) - closed
  BY DEF Runs
<1> HIDE DEF s
<1>4. start \in Machines /\ Runnable(start, f, fails)
  <2>1. start \in Machines /\ start.r = r /\ start.s = s /\ start.again = 0 /\ ~start.done
    BY <1>1, <1>2 DEF Begin, Machines
  <2> HIDE DEF start
  <2> QED BY <1>1, <1>2, <2>1 DEF Runnable, Steady, Placed
<1>5. /\ x \in Machines /\ x.r \in Conn /\ x.s \in Socket /\ x.again \in Nat
      /\ Sound(x.r, x.s) /\ Placed(x, f) /\ Waits(x)
      /\ fails => x.r.st \in {"error", "connect"} /\ x.again = 0
  <2>1. x \in Machines /\ Steady(x, f, fails) /\ x.done
    <3> HIDE DEF start, fails
    <3> QED BY <1>1, <1>4, StateMachineIs
  <2> QED BY <2>1 DEF Steady, Machines
<1> HIDE DEF f, start, fails
<1> DEFINE w == WatchedFor(x.r)
           r2 == [x.r EXCEPT !.added = w # "no"]
<1>6. /\ w \in {"no", "in", "out"} /\ r2 \in Conn /\ r2.added = (w # "no") /\ r2.fd = x.r.fd /\ r2.st = x.r.st
      /\ r2.out = x.r.out /\ r2.inq = x.r.inq /\ r2.wr = x.r.wr
  BY <1>5 DEF WatchedFor, Conn
<1>7. con'[o] = r2 /\ sock'[c] = x.s
  BY <1>1, <1>3 DEF NetType
<1>8. epoll'[f] = w /\ epoll' \in [Fds -> {"no", "in", "out"}] /\ \A g \in Fds : g # f => epoll'[g] = epoll[g]
  <2>1. CASE w # "no" \/ r.added
    BY <1>1, <1>3, <1>6, <2>1 DEF NetType
  <2>2. CASE ~(w # "no" \/ r.added)
    <3>1. epoll[f] = "no"
      BY <2>2, FitIs DEF f
    <3> QED BY <1>1, <1>3, <2>2, <3>1 DEF NetType
  <2> QED BY <2>1, <2>2
<1>9. Touched(o, c, f)
  <2>1. con' \in [Objects -> Conn] /\ \A p \in Objects : p # o => con'[p] = con[p]
    BY <1>1, <1>3, <1>6 DEF NetType
  <2>2. sock' \in [Clients -> Socket] /\ \A d \in Clients : d # c => sock'[d] = sock[d]
    BY <1>1, <1>3, <1>5 DEF NetType
  <2>3. fdarray' \in [Fds -> Objects \cup {None}] /\ \A g \in Fds : g # f => fdarray'[g] = fdarray[g]
    BY <1>1, <1>3 DEF NetType
  <2>4. (sock'[c].cut => sock'[c].failed) /\ (sock'[c].rst => sock'[c].gone)
    BY <1>5, <1>7 DEF Sound
  <2> QED BY <1>8, <2>1, <2>2, <2>3, <2>4 DEF Touched
<1>10. ASSUME x.s.st = "open" PROVE Stays(o, c, f, n)
  <2>1. x.s.fd = f /\ x.r.fd = f /\ x.r.st # "connect" /\ x.s.st # "closed"
    BY <1>5, <1>10 DEF Placed
  <2>2. (Reading(x.r) /\ x.r.inq = <<>> /\ w = "in") \/ (x.r.st = "write" /\ x.r.out > 0 /\ w = "out")
    BY <1>5, <2>1 DEF Waits, WatchedFor, Reading, Sound
  <2>3. con'[o].fd = f /\ con'[o].added /\ epoll'[f] # "no"
    BY <1>6, <1>7, <1>8, <2>1, <2>2
  <2>4. Served(con'[o], sock'[c])
    <3>1. Sound(r2, x.s) /\ r2.st \notin {"connect", "start"}
      <4> HIDE DEF r2
      <4> QED BY <1>5, <1>6, <2>2 DEF Sound, Reading
    <3> QED BY <1>7, <3>1 DEF Served
  <2>5. HasFd(c, f)'
    BY <1>7, <1>10, <2>1 DEF HasFd
  <2>6. Parked(o)'
    <3> HIDE DEF r2
    <3> QED BY <1>6, <1>7, <1>8, <2>1, <2>2 DEF Parked, Reading
  <2>7. fdarray'[f] = o /\ ptr' = ptr /\ used' = n /\ curFds' = n
    BY <1>1, <1>3, <2>1 DEF NetType
  <2> QED BY <2>3, <2>4, <2>5, <2>6, <2>7 DEF Stays
<1>11. ASSUME x.s.st = "closed" PROVE Ends(o, c, f, n)
  <2>1. x.r = Fresh
    BY <1>5, <1>11 DEF Placed, Waits
  <2>2. w = "no"
    BY <2>1 DEF WatchedFor, Fresh, Reading
  <2>3. r2 = Fresh
    <3> DEFINE none == w # "no"
    <3>1. none = FALSE /\ r2 = [Fresh EXCEPT !.added = none]
      BY <2>1, <2>2
    <3> HIDE DEF none, r2
    <3>2. r2 = [Fresh EXCEPT !.added = FALSE]
      BY <3>1
    <3> QED BY <3>2 DEF Fresh
  <2>4. fdarray'[f] = None /\ ptr' = Removed(o, n) /\ used' = n - 1 /\ curFds' = n - 1
    BY <1>1, <1>3, <1>11 DEF NetType
  <2> QED BY <1>7, <1>8, <1>11, <2>2, <2>3, <2>4 DEF Ends
<1>12. x.s.st = "open" \/ x.s.st = "closed"
  BY <1>5 DEF Placed
<1> QED BY <1>3, <1>5, <1>9, <1>10, <1>11, <1>12 DEF f, fails

LEMMA StaysKeeps ==
  ASSUME NetInv, NEW c \in Clients, NEW f \in Fds, NEW o, NEW n, Around(o, c, f, n),
         Touched(o, c, f), Stays(o, c, f, n)
  PROVE  NetInv' /\ InUse' = InUse \cup {o}
<1>1. NetType /\ Ordered /\ Linked /\ AllServed /\ o \in Objects /\ o # None /\ n \in Objects
  BY ObjectsAre DEF NetInv, Around
<1>2. InUse' = InUse \cup {o}
  BY DEF Around, Stays, InUse
<1>3. NetType'
  <2>1. n \in 0..MaxConns
    BY <1>1, ObjectsAre
  <2> QED BY <1>1, <2>1 DEF NetType, Touched, Stays
<1>4. Ordered'
  BY <1>1 DEF Ordered, Stays
<1>5. \A d \in Clients : d # c => \A g \in Fds : HasFd(d, g)' <=> HasFd(d, g)
  BY DEF HasFd, Touched
<1>6. \A g \in Fds : HasFd(c, g)' <=> g = f
  BY DEF HasFd, Stays
<1>7. InUse \subseteq Objects
  BY <1>1, InUseIs
<1>8. Linked'
  <2>1. ASSUME NEW g \in Fds, fdarray'[g] # None
        PROVE  fdarray'[g] \in InUse' /\ con'[fdarray'[g]].fd = g /\ \E d \in Clients : HasFd(d, g)'
    <3>1. CASE g = f
      BY <1>2, <1>6, <3>1 DEF Stays
    <3>2. CASE g # f
      <4>1. fdarray'[g] = fdarray[g] /\ fdarray[g] # o
        BY <3>2 DEF Touched, Around
      <4>2. fdarray[g] \in InUse /\ con[fdarray[g]].fd = g
        BY <1>1, <2>1, <4>1 DEF Linked
      <4>3. con'[fdarray[g]] = con[fdarray[g]]
        BY <1>7, <4>1, <4>2 DEF Touched
      <4>4. PICK d \in Clients : HasFd(d, g)
        BY <1>1, <2>1, <4>1 DEF Linked
      <4>5. HasFd(d, g)'
        BY <1>5, <3>2, <4>4 DEF Around
      <4> QED BY <1>2, <4>1, <4>2, <4>3, <4>5
    <3> QED BY <3>1, <3>2
  <2>2. ASSUME NEW p \in InUse' PROVE con'[p].fd \in Fds /\ fdarray'[con'[p].fd] = p
    <3>1. CASE p = o
      BY <3>1 DEF Stays
    <3>2. CASE p # o
      <4>1. p \in InUse /\ con'[p] = con[p] /\ con[p].fd # f
        BY <1>2, <1>7, <3>2 DEF Touched, Around
      <4> QED BY <1>1, <4>1 DEF Linked, Touched
    <3> QED BY <3>1, <3>2
  <2>3. ASSUME NEW d \in Clients, sock'[d].st = "open" PROVE sock'[d].fd \in Fds /\ fdarray'[sock'[d].fd] # None
    <3>1. CASE d = c
      BY <1>1, <3>1 DEF Stays, HasFd
    <3>2. CASE d # c
      <4>1. sock'[d] = sock[d] /\ ~HasFd(d, f)
        BY <3>2 DEF Touched, Around
      <4> QED BY <1>1, <2>3, <4>1 DEF Linked, Touched, HasFd
    <3> QED BY <3>1, <3>2
  <2>4. ASSUME NEW d \in Clients, NEW e \in Clients,
               sock'[d].st = "open", sock'[e].st = "open", sock'[d].fd = sock'[e].fd
        PROVE  d = e
    <3>1. CASE d # c /\ e # c
      BY <1>1, <2>4, <3>1 DEF Linked, Touched
    <3>2. ASSUME NEW h \in Clients, h # c PROVE ~HasFd(h, f)'
      BY <1>5, <3>2 DEF Around
    <3>3. CASE d = c \/ e = c
      BY <2>4, <3>2, <3>3 DEF HasFd, Stays
    <3> QED BY <3>1, <3>3
  <2>5. ASSUME NEW g \in Fds PROVE epoll'[g] # "no" <=> fdarray'[g] # None /\ con'[fdarray'[g]].added
    <3>1. CASE g = f
      BY <1>1, <3>1 DEF Stays
    <3>2. CASE g # f
      <4>1. fdarray'[g] = fdarray[g] /\ fdarray[g] # o /\ epoll'[g] = epoll[g]
        BY <3>2 DEF Touched, Around
      <4>2. fdarray[g] # None => con'[fdarray[g]] = con[fdarray[g]]
        BY <1>1, <1>7, <4>1 DEF Touched, Linked
      <4> QED BY <1>1, <4>1, <4>2 DEF Linked
    <3> QED BY <3>1, <3>2
  <2>6. ASSUME NEW p \in Objects, p \notin InUse' PROVE con'[p] = Fresh
    BY <1>1, <1>2, <2>6 DEF Linked, Touched
  <2> QED BY <2>1, <2>2, <2>3, <2>4, <2>5, <2>6 DEF Linked
<1>9. AllServed'
  <2>1. \A d \in Clients : (sock'[d].cut => sock'[d].failed) /\ (sock'[d].rst => sock'[d].gone)
    BY <1>1 DEF AllServed, Touched
  <2>2. ASSUME NEW d \in Clients, NEW g \in Fds, HasFd(d, g)' PROVE Served(con'[fdarray'[g]], sock'[d])
    <3>1. CASE d = c
      BY <1>6, <2>2, <3>1 DEF Stays
    <3>2. CASE d # c
      <4>1. HasFd(d, g) /\ g # f
        BY <1>5, <2>2, <3>2 DEF Around
      <4>2. fdarray'[g] = fdarray[g] /\ fdarray[g] # o /\ sock'[d] = sock[d]
        BY <3>2, <4>1 DEF Touched, Around
      <4>3. con'[fdarray[g]] = con[fdarray[g]]
        <5>1. fdarray[g] # None
          BY <1>1, <4>1 DEF Linked, HasFd
        <5> QED BY <1>1, <1>7, <4>2, <5>1 DEF Touched, Linked
      <4> QED BY <1>1, <4>1, <4>2, <4>3 DEF AllServed
    <3> QED BY <3>1, <3>2
  <2> QED BY <2>1, <2>2 DEF AllServed
<1> QED BY <1>2, <1>3, <1>4, <1>8, <1>9 DEF NetInv

LEMMA EndsKeeps ==
  ASSUME NetInv, NEW c \in Clients, NEW f \in Fds, NEW o, NEW n, Around(o, c, f, n),
         Touched(o, c, f), Ends(o, c, f, n)
  PROVE  NetInv' /\ InUse' = InUse \ {o}
<1>1. NetType /\ Ordered /\ Linked /\ AllServed /\ o \in Objects /\ o # None /\ n \in Objects
  BY ObjectsAre DEF NetInv, Around
<1>2. /\ ptr' \in [Objects -> Objects]
      /\ \A i, j \in Objects : ptr'[i] = ptr'[j] => i = j
      /\ \A p \in Objects : \E i \in Objects : ptr'[i] = p
      /\ {ptr'[i] : i \in 1..n - 1} = {ptr[i] : i \in 1..n} \ {o}
  <2>1. o \in {ptr[i] : i \in 1..n} /\ ptr' = Removed(o, n)
    BY DEF Around, Ends
  <2> DEFINE q == Removed(o, n)
  <2>2. /\ q \in [Objects -> Objects]
        /\ \A i, j \in Objects : q[i] = q[j] => i = j
        /\ \A p \in Objects : \E i \in Objects : q[i] = p
        /\ {q[i] : i \in 1..n - 1} = {ptr[i] : i \in 1..n} \ {o}
    BY <1>1, <2>1, RemovedIs
  <2> HIDE DEF q
  <2>3. ptr' = q
    BY <2>1 DEF q
  <2> QED BY <2>2, <2>3
<1>3. InUse' = InUse \ {o}
  BY <1>2 DEF Around, Ends, InUse
<1>4. NetType'
  <2>1. n - 1 \in 0..MaxConns
    BY <1>1, ObjectsAre
  <2> QED BY <1>2, <2>1 DEF NetType, Touched, Ends
<1>5. Ordered'
  BY <1>2 DEF Ordered
<1>6. ASSUME NEW d \in Clients, NEW g \in Fds PROVE HasFd(d, g)' <=> d # c /\ g # f /\ HasFd(d, g)
  BY DEF HasFd, Touched, Ends, Around
<1>7. InUse \subseteq Objects
  BY <1>1, InUseIs
<1>8. Linked'
  <2>1. ASSUME NEW g \in Fds, fdarray'[g] # None
        PROVE  fdarray'[g] \in InUse' /\ con'[fdarray'[g]].fd = g /\ \E d \in Clients : HasFd(d, g)'
    <3>1. g # f
      BY <2>1 DEF Ends
    <3>2. fdarray'[g] = fdarray[g] /\ fdarray[g] # o
      BY <3>1 DEF Touched, Around
    <3>3. fdarray[g] \in InUse /\ con[fdarray[g]].fd = g
      BY <1>1, <2>1, <3>2 DEF Linked
    <3>4. con'[fdarray[g]] = con[fdarray[g]]
      BY <1>7, <3>2, <3>3 DEF Touched
    <3>5. PICK d \in Clients : HasFd(d, g)
      BY <1>1, <2>1, <3>2 DEF Linked
    <3>6. HasFd(d, g)'
      BY <1>6, <3>1, <3>5 DEF Around
    <3> QED BY <1>3, <3>2, <3>3, <3>4, <3>6
  <2>2. ASSUME NEW p \in InUse' PROVE con'[p].fd \in Fds /\ fdarray'[con'[p].fd] = p
    <3>1. p \in InUse /\ p # o /\ con'[p] = con[p] /\ con[p].fd # f
      BY <1>3, <1>7 DEF Touched, Around
    <3> QED BY <1>1, <3>1 DEF Linked, Touched
  <2>3. ASSUME NEW d \in Clients, sock'[d].st = "open" PROVE sock'[d].fd \in Fds /\ fdarray'[sock'[d].fd] # None
    <3>1. d # c /\ sock'[d] = sock[d] /\ ~HasFd(d, f)
      BY <2>3 DEF Touched, Around, Ends
    <3> QED BY <1>1, <2>3, <3>1 DEF Linked, Touched, HasFd
  <2>4. \A d, e \in Clients : sock'[d].st = "open" /\ sock'[e].st = "open" /\ sock'[d].fd = sock'[e].fd => d = e
    BY <1>1 DEF Linked, Touched, Ends
  <2>5. ASSUME NEW g \in Fds PROVE epoll'[g] # "no" <=> fdarray'[g] # None /\ con'[fdarray'[g]].added
    <3>1. CASE g = f
      BY <3>1 DEF Ends
    <3>2. CASE g # f
      <4>1. fdarray'[g] = fdarray[g] /\ fdarray[g] # o /\ epoll'[g] = epoll[g]
        BY <3>2 DEF Touched, Around
      <4>2. fdarray[g] # None => con'[fdarray[g]] = con[fdarray[g]]
        BY <1>1, <1>7, <4>1 DEF Touched, Linked
      <4> QED BY <1>1, <4>1, <4>2 DEF Linked
    <3> QED BY <3>1, <3>2
  <2>6. ASSUME NEW p \in Objects, p \notin InUse' PROVE con'[p] = Fresh
    BY <1>1, <1>3, <2>6 DEF Linked, Touched, Ends
  <2> QED BY <2>1, <2>2, <2>3, <2>4, <2>5, <2>6 DEF Linked
<1>9. AllServed'
  <2>1. \A d \in Clients : (sock'[d].cut => sock'[d].failed) /\ (sock'[d].rst => sock'[d].gone)
    BY <1>1 DEF AllServed, Touched
  <2>2. ASSUME NEW d \in Clients, NEW g \in Fds, HasFd(d, g)' PROVE Served(con'[fdarray'[g]], sock'[d])
    <3>1. d # c /\ g # f /\ HasFd(d, g)
      BY <1>6, <2>2
    <3>2. fdarray'[g] = fdarray[g] /\ fdarray[g] # o /\ sock'[d] = sock[d]
      BY <3>1 DEF Touched, Around
    <3>3. con'[fdarray[g]] = con[fdarray[g]]
      <4>1. fdarray[g] # None
        BY <1>1, <3>1 DEF Linked, HasFd
      <4> QED BY <1>1, <1>7, <3>2, <4>1 DEF Touched, Linked
    <3> QED BY <1>1, <3>1, <3>2, <3>3 DEF AllServed
  <2> QED BY <2>1, <2>2 DEF AllServed
<1> QED BY <1>3, <1>4, <1>5, <1>8, <1>9 DEF NetInv

\* What is put on the job list comes after what was there.
LEMMA JobsGrow ==
  ASSUME NEW q \in Seq(Objects), NEW k \in Nat, NEW o \in Objects
  PROVE  LET t == q \o [i \in 1..k |-> o] IN
         /\ t \in Seq(Objects)
         /\ \A i \in 1..Len(q) : i \in 1..Len(t) /\ t[i] = q[i]
         /\ k = 0 => t = q
         /\ k > 0 => \E i \in 1..Len(t) : t[i] = o
<1> DEFINE u == [i \in 1..k |-> o]
           t == q \o u
<1>1. u \in Seq(Objects) /\ Len(u) = k /\ \A i \in 1..k : u[i] = o
  OBVIOUS
<1> HIDE DEF u
<1>2. t \in Seq(Objects) /\ Len(t) = Len(q) + k
  BY <1>1, ConcatProperties
<1>3. \A i \in 1..Len(t) : t[i] = IF i <= Len(q) THEN q[i] ELSE u[i - Len(q)]
  BY <1>1, ConcatProperties
<1>4. Len(q) \in Nat
  OBVIOUS
<1>5. k = 0 => t = q
  BY <1>1
<1> HIDE DEF t
<1>6. \A i \in 1..Len(q) : i \in 1..Len(t) /\ t[i] = q[i]
  BY <1>2, <1>3, <1>4
<1>7. ASSUME k > 0 PROVE \E i \in 1..Len(t) : t[i] = o
  <2>1. Len(q) + 1 \in 1..Len(t) /\ (Len(q) + 1) - Len(q) = 1 /\ ~(Len(q) + 1 <= Len(q)) /\ 1 \in 1..k
    BY <1>2, <1>4, <1>7
  <2>2. t[Len(q) + 1] = o
    BY <1>1, <1>3, <2>1
  <2> QED BY <2>1, <2>2
<1> QED BY <1>2, <1>5, <1>6, <1>7 DEF t, u

\* A run in the loop: the machine of the connection whose turn it is.
LEMMA RunsKeep ==
  ASSUME ConnInv, NEW c \in Clients, NEW o, NEW r, NEW n, Fit(o, c, r, n), Runs(o, c, r, n),
         UNCHANGED <<pc, batch>>, ndx' \in Nat \ {0}, pc \in {"walk", "events", "jobs"},
         pc = "walk" => r.st = "error",
         pc = "events" => fdarray[r.fd] = None /\ sock[c].st = "queued",
         pc = "jobs" => jobs # <<>> /\ o = Head(jobs)
  PROVE  ConnInv'
<1>1. PICK f \in Fds : f = r.fd
  BY DEF Fit
<1>2. NetInv /\ LoopInv /\ InUse \subseteq Objects
  BY InUseIs DEF ConnInv, NetInv
<1>3. Around(o, c, f, n) /\ o \in Objects
  BY <1>1, <1>2, FitIs DEF Around
<1>4. Touched(o, c, f) /\ (Stays(o, c, f, n) \/ Ends(o, c, f, n))
  BY <1>1, <1>2, RunsIs
<1>5. NetInv' /\ ((InUse' = InUse \cup {o} /\ Stays(o, c, f, n)) \/ InUse' = InUse \ {o})
  BY <1>2, <1>3, <1>4, StaysKeeps, EndsKeeps
<1> DEFINE q == IF pc = "jobs" THEN Tail(jobs) ELSE jobs
<1>6. q \in Seq(Objects) /\ \A p \in Objects : p # o /\ InJobs(p) => \E i \in 1..Len(q) : q[i] = p
  <2>1. jobs \in Seq(Objects)
    BY <1>2 DEF LoopInv
  <2>2. CASE pc = "jobs"
    <3>1. q = Tail(jobs) /\ jobs # <<>> /\ o = jobs[1]
      BY <2>1, <2>2
    <3>2. q \in Seq(Objects) /\ Len(q) = Len(jobs) - 1 /\ \A i \in 1..Len(q) : q[i] = jobs[i + 1]
      BY <2>1, <3>1, HeadTailProperties
    <3>3. ASSUME NEW p \in Objects, p # o, InJobs(p) PROVE \E i \in 1..Len(q) : q[i] = p
      <4>1. PICK i \in 1..Len(jobs) : jobs[i] = p
        BY <3>3 DEF InJobs
      <4>2. i # 1
        BY <3>1, <3>3, <4>1
      <4>3. i - 1 \in 1..Len(q) /\ (i - 1) + 1 = i
        <5>1. Len(jobs) \in Nat
          BY <2>1
        <5> HIDE DEF q
        <5> QED BY <3>2, <4>2, <5>1
      <4> HIDE DEF q
      <4> QED BY <3>2, <4>1, <4>3
    <3> QED BY <3>2, <3>3
  <2>3. CASE pc # "jobs"
    BY <2>1, <2>3 DEF InJobs
  <2> QED BY <2>2, <2>3
<1>7. PICK k \in Nat : jobs' = q \o [i \in 1..k |-> o] /\ (pc = "walk" => k = 0)
  <2>1. \E k \in Nat : jobs' = q \o [i \in 1..k |-> o]
    BY <1>2, RunsIs
  <2>2. pc = "walk" => jobs' = q \o [i \in 1..0 |-> o]
    BY <1>2, RunsIs
  <2> HIDE DEF q
  <2> QED BY <2>1, <2>2
<1>8. /\ jobs' \in Seq(Objects) /\ (pc = "walk" => jobs' = q)
      /\ \A p \in Objects : p # o /\ InJobs(p) => InJobs(p)'
  <2> HIDE DEF q
  <2>1. /\ jobs' \in Seq(Objects) /\ (k = 0 => jobs' = q)
        /\ \A i \in 1..Len(q) : i \in 1..Len(jobs') /\ jobs'[i] = q[i]
    BY <1>3, <1>6, <1>7, JobsGrow
  <2>2. ASSUME NEW p \in Objects, p # o, InJobs(p) PROVE InJobs(p)'
    <3>1. PICK i \in 1..Len(q) : q[i] = p
      BY <1>6, <2>2
    <3> QED BY <2>1, <3>1 DEF InJobs
  <2> QED BY <1>7, <2>1, <2>2
<1>9. jobs' # <<>> => pc' \in {"events", "jobs"}
  <2>1. pc = "walk" => q = <<>>
    BY <1>2 DEF LoopInv
  <2> QED BY <1>8, <2>1
<1>10. ASSUME NEW e \in batch', e # Accepting PROVE EventOK(e)'
  <2>1. EventOK(e) /\ pc = "events"
    BY <1>2, <1>10 DEF LoopInv
  <2>2. e.fd # f /\ e.who # c /\ e.fd \in Fds /\ e.who \in Clients
    BY <1>1, <2>1 DEF EventOK, Events, HasFd
  <2> QED BY <1>4, <2>1, <2>2 DEF EventOK, Touched, HasFd
<1>11. ASSUME NEW p \in InUse' PROVE Parked(p)' \/ InJobs(p)'
  <2>1. CASE p = o
    BY <1>5, <2>1 DEF Stays
  <2>2. CASE p # o
    <3>1. p \in InUse /\ p \in Objects /\ con[p].fd # f /\ con[p].fd \in Fds
      BY <1>2, <1>3, <1>5, <2>2 DEF Around, NetInv, Linked
    <3>2. con'[p] = con[p] /\ epoll'[con[p].fd] = epoll[con[p].fd]
      BY <1>4, <2>2, <3>1 DEF Touched
    <3>3. Parked(p) => Parked(p)'
      BY <3>2 DEF Parked
    <3> QED BY <1>2, <1>8, <2>2, <3>1, <3>3 DEF LoopInv
  <2> QED BY <2>1, <2>2
<1>12. LoopInv'
  BY <1>2, <1>8, <1>9, <1>10, <1>11 DEF LoopInv
<1> QED BY <1>5, <1>12 DEF ConnInv

-------------------------------------------------------------------------------
\* The other steps

\* What clients do to their sockets, and the loop to those it has not accepted.
SocksMove ==
  /\ sock' \in [Clients -> Socket]
  /\ \A c \in Clients :
       /\ sock'[c].st = "open" <=> sock[c].st = "open"
       /\ sock[c].st = "open" => sock'[c].fd = sock[c].fd /\ (sock[c].gone => sock'[c].gone)
                                 /\ (sock[c].rst => sock'[c].rst) /\ (sock[c].failed => sock'[c].failed)
       /\ (sock'[c].cut => sock'[c].failed) /\ (sock'[c].rst => sock'[c].gone)

\* Steps that leave the connections alone.
LEMMA ConnsRest ==
  ASSUME ConnInv, SocksMove, UNCHANGED netVars,
         jobs' \in Seq(Objects), \A o \in InUse : InJobs(o) => InJobs(o)', ndx' \in Nat \ {0},
         pc' \in {"top", "walk", "sockets", "poll", "events", "jobs", "stopped"},
         jobs' # <<>> => pc' \in {"events", "jobs"}, batch' # {} => pc' = "events",
         \A e \in batch' : e # Accepting => EventOK(e)
  PROVE  ConnInv'
<1>1. NetInv /\ LoopInv
  BY DEF ConnInv
<1>2. NetInv' /\ InUse' = InUse
  <2>1. ASSUME NEW c \in Clients, NEW f \in Fds, HasFd(c, f) PROVE Served(con'[fdarray[f]], sock'[c])
    <3>1. Served(con[fdarray[f]], sock[c]) /\ con' = con
      BY <1>1, <2>1 DEF NetInv, AllServed, netVars
    <3> QED BY <2>1, <3>1 DEF Served, Sound, Excused, SocksMove, HasFd
  <2>2. con' \in [Objects -> Conn] /\ con' = con /\ UNCHANGED <<ptr, used, fdarray, epoll, curFds>>
    BY <1>1 DEF NetInv, NetType, netVars
  <2> QED BY <1>1, <2>1, <2>2, LinksStay DEF SocksMove
<1>3. ASSUME NEW e \in batch', e # Accepting PROVE EventOK(e)'
  <2>1. EventOK(e)
    BY <1>3
  <2> QED BY <2>1 DEF EventOK, Events, HasFd, SocksMove, netVars
<1>4. ASSUME NEW o \in InUse' PROVE Parked(o)' \/ InJobs(o)'
  <2>1. Parked(o) <=> Parked(o)'
    BY DEF Parked, netVars
  <2> QED BY <1>1, <1>2, <2>1 DEF LoopInv
<1>5. LoopInv'
  BY <1>3, <1>4 DEF LoopInv
<1> QED BY <1>2, <1>5 DEF ConnInv

\* When the sockets rest as well.
LEMMA SocksRest ==
  ASSUME ConnInv, UNCHANGED sock
  PROVE  SocksMove
<1>1. NetType /\ AllServed
  BY DEF ConnInv, NetInv
<1> QED BY <1>1 DEF SocksMove, NetType, AllServed

\* Steps in which only the loop moves.
LEMMA LoopMoves ==
  ASSUME ConnInv, UNCHANGED <<sock, netVars, jobs>>, ndx' \in Nat \ {0},
         pc' \in {"top", "walk", "sockets", "poll", "events", "jobs", "stopped"},
         jobs # <<>> => pc' \in {"events", "jobs"}, batch' # {} => pc' = "events", batch' \subseteq batch
  PROVE  ConnInv'
<1>1. SocksMove
  BY SocksRest
<1>2. jobs' \in Seq(Objects) /\ (\A e \in batch' : e # Accepting => EventOK(e))
  BY DEF ConnInv, LoopInv
<1>3. \A o \in InUse : InJobs(o) => InJobs(o)'
  BY DEF InJobs
<1>4. UNCHANGED netVars
  OBVIOUS
<1> QED BY <1>1, <1>2, <1>3, <1>4, ConnsRest

LEMMA UnitsKept ==
  ASSUME NEW q \in Seq(Units)
  PROVE  /\ \A u \in Units : Append(q, u) \in Seq(Units)
         /\ q # <<>> => Head(q) \in Units /\ Tail(q) \in Seq(Units)
BY AppendProperties, HeadTailProperties

LEMMA ClientKeeps ==
  ASSUME ConnInv, NEW c \in Clients, ClientStep(c)
  PROVE  ConnInv'
<1>1. /\ sock \in [Clients -> Socket] /\ sock[c] \in Socket /\ UNCHANGED netVars /\ UNCHANGED loopVars
      /\ \A d \in Clients : (sock[d].cut => sock[d].failed) /\ (sock[d].rst => sock[d].gone)
  BY DEF ConnInv, NetInv, NetType, AllServed, ClientStep
<1>2. PICK s \in Socket :
        /\ sock' = [sock EXCEPT ![c] = s] /\ (s.st = "open" <=> sock[c].st = "open")
        /\ s.fd = sock[c].fd /\ (sock[c].gone => s.gone) /\ (sock[c].rst => s.rst)
        /\ (sock[c].failed => s.failed) /\ (s.cut => s.failed) /\ (s.rst => s.gone)
  <2>1. CASE Connect(c)
    <3> DEFINE s == [sock[c] EXCEPT !.st = "queued", !.left = Plan[c]]
    <3>1. sock' = [sock EXCEPT ![c] = s]
      BY <1>1, <2>1 DEF Connect
    <3>2. s \in Socket /\ s.st = "queued" /\ sock[c].st = "new" /\ s.fd = sock[c].fd /\ s.gone = sock[c].gone
          /\ s.rst = sock[c].rst /\ s.cut = sock[c].cut /\ s.failed = sock[c].failed
      BY <1>1, <2>1, PlanAssumption DEF Connect, Socket
    <3> HIDE DEF s
    <3> QED BY <1>1, <3>1, <3>2
  <2>2. CASE Send(c)
    <3> DEFINE s == [sock[c] EXCEPT !.inq = Append(sock[c].inq, Head(sock[c].left)), !.left = Tail(sock[c].left)]
    <3>1. sock' = [sock EXCEPT ![c] = s]
      BY <1>1, <2>2 DEF Send
    <3>2. Append(sock[c].inq, Head(sock[c].left)) \in Seq(Units) /\ Tail(sock[c].left) \in Seq(Units)
      BY <1>1, <2>2, UnitsKept DEF Send, Socket
    <3>3. s \in Socket /\ s.st = sock[c].st /\ s.fd = sock[c].fd /\ s.gone = sock[c].gone
          /\ s.rst = sock[c].rst /\ s.cut = sock[c].cut /\ s.failed = sock[c].failed
      BY <1>1, <3>2 DEF Socket
    <3> HIDE DEF s
    <3> QED BY <1>1, <3>1, <3>3
  <2>3. CASE HalfClose(c)
    <3> DEFINE s == [sock[c] EXCEPT !.fin = TRUE]
    <3>1. sock' = [sock EXCEPT ![c] = s]
      BY <1>1, <2>3 DEF HalfClose
    <3>2. s \in Socket /\ s.st = sock[c].st /\ s.fd = sock[c].fd /\ s.gone = sock[c].gone
          /\ s.rst = sock[c].rst /\ s.cut = sock[c].cut /\ s.failed = sock[c].failed
      BY <1>1 DEF Socket
    <3> HIDE DEF s
    <3> QED BY <1>1, <3>1, <3>2
  <2>4. CASE Leave(c)
    <3> DEFINE reset == sock[c].buf > 0
               s == [sock[c] EXCEPT !.gone = TRUE, !.fin = TRUE, !.left = <<>>, !.rst = reset, !.buf = 0]
    <3>1. sock' = [sock EXCEPT ![c] = s] /\ ~sock[c].gone
      BY <1>1, <2>4 DEF Leave, Present
    <3>2. reset \in BOOLEAN /\ <<>> \in Seq(Units) /\ 0 \in 0..Room
      BY LimitsAssumption
    <3> HIDE DEF reset
    <3>3. s \in Socket /\ s.st = sock[c].st /\ s.fd = sock[c].fd /\ s.gone /\ s.cut = sock[c].cut /\ s.failed = sock[c].failed
      BY <1>1, <3>2 DEF Socket
    <3> HIDE DEF s
    <3> QED BY <1>1, <3>1, <3>3
  <2>5. CASE Consume(c)
    <3> DEFINE s == [sock[c] EXCEPT !.buf = sock[c].buf - 1]
    <3>1. sock' = [sock EXCEPT ![c] = s]
      BY <1>1, <2>5 DEF Consume
    <3>2. sock[c].buf - 1 \in 0..Room
      BY <1>1, <2>5, LimitsAssumption DEF Consume, Socket
    <3>3. s \in Socket /\ s.st = sock[c].st /\ s.fd = sock[c].fd /\ s.gone = sock[c].gone
          /\ s.rst = sock[c].rst /\ s.cut = sock[c].cut /\ s.failed = sock[c].failed
      BY <1>1, <3>2 DEF Socket
    <3> HIDE DEF s
    <3> QED BY <1>1, <3>1, <3>3
  <2> QED BY <2>1, <2>2, <2>3, <2>4, <2>5 DEF ClientStep
<1>3. SocksMove
  BY <1>1, <1>2 DEF SocksMove
<1>4. /\ jobs' = jobs /\ ndx' = ndx /\ pc' = pc /\ batch' = batch
  BY <1>1 DEF loopVars
<1> QED BY <1>1, <1>3, <1>4, ConnsRest DEF ConnInv, LoopInv, InJobs

\* Whom a connection serves.
LEMMA PeerIs ==
  ASSUME NetInv, NEW o \in InUse
  PROVE  /\ Peer(o) \in Clients /\ HasFd(Peer(o), con[o].fd) /\ o \in Objects /\ con[o] \in Conn /\ con[o].fd \in Fds
         /\ Served(con[o], sock[Peer(o)])
<1>1. o \in Objects /\ o # None /\ con[o] \in Conn
  BY InUseIs, ObjectsAre DEF NetInv, NetType
<1>2. con[o].fd \in Fds /\ fdarray[con[o].fd] = o
  BY DEF NetInv, Linked
<1>3. \E c \in Clients : HasFd(c, con[o].fd)
  BY <1>1, <1>2 DEF NetInv, Linked
<1>4. Peer(o) \in Clients /\ HasFd(Peer(o), con[o].fd)
  BY <1>3 DEF Peer, HasFd
<1>5. Served(con[fdarray[con[o].fd]], sock[Peer(o)])
  BY <1>2, <1>4 DEF NetInv, AllServed
<1> QED BY <1>1, <1>2, <1>4, <1>5

LEMMA SocketsKeep ==
  ASSUME ConnInv, Sockets
  PROVE  ConnInv'
<1>1. /\ UNCHANGED netVars /\ jobs' = jobs /\ batch' = batch /\ ndx' = ndx /\ pc = "sockets"
      /\ pc' \in {"stopped", "poll"} /\ (sock' = sock \/ Closing)
  BY DEF Sockets
<1>2. SocksMove
  <2>1. CASE sock' = sock
    BY <2>1, SocksRest
  <2>2. CASE Closing
    <3> DEFINE away(c) == [Unopened EXCEPT !.st = "closed", !.fin = sock[c].fin]
    <3>1. sock \in [Clients -> Socket] /\ \A c \in Clients : (sock[c].cut => sock[c].failed) /\ (sock[c].rst => sock[c].gone)
      BY DEF ConnInv, NetInv, NetType, AllServed
    <3>2. ASSUME NEW c \in Clients
          PROVE  away(c) \in Socket /\ away(c).st = "closed" /\ (away(c).cut => away(c).failed) /\ ~away(c).rst
      <4>1. <<>> \in Seq(Units) /\ 0 \in 0..Room /\ sock[c].fin \in BOOLEAN
        BY <3>1, LimitsAssumption DEF Socket
      <4> QED BY <4>1 DEF Socket, Unopened, None
    <3>3. sock' = [c \in Clients |-> IF sock[c].st = "queued" THEN away(c) ELSE sock[c]]
      BY <2>2 DEF Closing
    <3> HIDE DEF away
    <3> QED BY <3>1, <3>2, <3>3 DEF SocksMove
  <2> QED BY <1>1, <2>1, <2>2
<1>3. jobs = <<>> /\ batch = {} /\ jobs \in Seq(Objects) /\ ndx \in Nat \ {0}
  BY <1>1 DEF ConnInv, LoopInv
<1> QED BY <1>1, <1>2, <1>3, ConnsRest DEF InJobs

LEMMA MaxAgeIs == MaxAge \in Nat
<1> DEFINE S == {MaxReadIdle, MaxKeepAliveIdle, MaxWriteIdle}
<1>1. MaxReadIdle \in Nat /\ MaxKeepAliveIdle \in Nat /\ MaxWriteIdle \in Nat
  BY LimitsAssumption
<1>2. \E x \in S : \A y \in S : x >= y
  BY <1>1
<1>3. Max(S) \in S
  <2> HIDE DEF S
  <2> QED BY <1>2 DEF Max
<1>4. Max(S) \in Nat
  <2> DEFINE m == Max(S)
  <2>1. m \in S
    BY <1>3
  <2> HIDE DEF m
  <2>2. m \in Nat
    BY <1>1, <2>1
  <2> QED BY <2>2 DEF m
<1>5. MaxAge = 1 + Max(S)
  BY DEF MaxAge
<1> HIDE DEF S
<1> QED BY <1>4, <1>5

LEMMA TopKeeps ==
  ASSUME ConnInv, Top
  PROVE  ConnInv'
<1>1. /\ pc = "top" /\ UNCHANGED <<sock, ptr, used, fdarray, epoll, curFds, jobs, batch, ndx>>
      /\ NetInv /\ LoopInv /\ jobs = <<>> /\ batch = {}
  BY DEF Top, ConnInv, LoopInv
<1>2. CASE ~alarm
  <2>1. pc' = "sockets" /\ con' = con
    BY <1>2 DEF Top
  <2>2. UNCHANGED <<sock, netVars, jobs>> /\ ndx' \in Nat \ {0}
    BY <1>1, <2>1 DEF netVars, LoopInv
  <2> QED BY <1>1, <2>1, <2>2, LoopMoves
<1>3. CASE alarm
  <2> DEFINE older(o) == [con[o] EXCEPT !.age = Min({con[o].age + 1, MaxAge})]
  <2>1. pc' = "walk" /\ con' = [o \in Objects |-> IF o \in InUse THEN older(o) ELSE con[o]]
    BY <1>3 DEF Top
  <2>2. ASSUME NEW o \in InUse
        PROVE  /\ older(o) \in Conn /\ older(o).fd = con[o].fd /\ older(o).added = con[o].added /\ older(o).st = con[o].st
               /\ older(o).out = con[o].out /\ older(o).inq = con[o].inq /\ con[o].st \in {"read", "readpost", "write"}
               /\ o \in Objects
    <3>1. con[o] \in Conn /\ o \in Objects
      BY <1>1, InUseIs DEF NetInv, NetType
    <3>2. Min({con[o].age + 1, MaxAge}) \in Nat
      <4> DEFINE a == con[o].age + 1
      <4>1. a \in Nat /\ MaxAge \in Nat
        BY <3>1, MaxAgeIs DEF Conn
      <4> HIDE DEF a
      <4>2. Min({a, MaxAge}) = IF a <= MaxAge THEN a ELSE MaxAge
        BY <4>1, LesserOf
      <4>3. Min({a, MaxAge}) \in Nat
        BY <4>1, <4>2
      <4> QED BY <4>3 DEF a
    <3>3. con[o].st \in {"read", "readpost", "write"}
      BY <1>1 DEF LoopInv, InJobs, Parked, Reading
    <3> QED BY <3>1, <3>2, <3>3 DEF Conn
  <2> HIDE DEF older
  <2>3. con' \in [Objects -> Conn]
    BY <1>1, <2>1, <2>2 DEF NetInv, NetType
  <2>4. InUse \subseteq Objects
    BY <2>2
  <2>5. ASSUME NEW c \in Clients, NEW f \in Fds, HasFd(c, f) PROVE Served(con'[fdarray[f]], sock'[c])
    <3>1. fdarray[f] \in InUse
      BY <1>1, <2>5 DEF NetInv, Linked, HasFd
    <3>2. Served(con[fdarray[f]], sock[c]) /\ con'[fdarray[f]] = older(fdarray[f])
      BY <1>1, <2>1, <2>4, <2>5, <3>1 DEF NetInv, AllServed
    <3> QED BY <1>1, <2>2, <3>1, <3>2 DEF Served, Sound
  <2>6. NetInv' /\ InUse' = InUse
    <3>1. \A o \in Objects : con'[o].fd = con[o].fd /\ con'[o].added = con[o].added
      BY <2>1, <2>2
    <3>2. \A o \in Objects : o \notin InUse => con'[o] = con[o]
      BY <2>1
    <3>3. sock' \in [Clients -> Socket] /\ \A c \in Clients : (sock'[c].cut => sock'[c].failed) /\ (sock'[c].rst => sock'[c].gone)
      BY <1>1 DEF NetInv, NetType, AllServed
    <3> QED BY <1>1, <2>3, <2>5, <3>1, <3>2, <3>3, LinksStay
  <2>7. ASSUME NEW o \in InUse' PROVE Parked(o)'
    <3>1. Parked(o) /\ o \in InUse /\ con'[o] = older(o)
      BY <1>1, <2>1, <2>4, <2>6 DEF LoopInv, InJobs
    <3> QED BY <1>1, <2>2, <3>1 DEF Parked, Reading
  <2>8. LoopInv'
    BY <1>1, <2>1, <2>7 DEF LoopInv
  <2> QED BY <2>6, <2>8 DEF ConnInv
<1> QED BY <1>2, <1>3

\* epoll_wait reports what it is asked to watch.
LEMMA PollKeeps ==
  ASSUME ConnInv, Poll
  PROVE  ConnInv'
<1>1. NetInv /\ LoopInv /\ pc' = "events" /\ batch' = Ready /\ UNCHANGED <<sock, netVars, jobs, ndx>>
  BY DEF Poll, ConnInv
<1>2. ASSUME NEW f \in Fds, epoll[f] # "no" PROVE EventOK(EventOf(f))
  <2> DEFINE c == CHOOSE x \in Clients : sock[x].st = "open" /\ sock[x].fd = f
  <2>1. fdarray[f] # None /\ \E x \in Clients : HasFd(x, f)
    BY <1>1, <1>2 DEF NetInv, Linked
  <2>2. c \in Clients /\ HasFd(c, f)
    BY <2>1 DEF HasFd
  <2>3. sock[c] \in Socket
    BY <1>1, <2>2 DEF NetInv, NetType
  <2> DEFINE s == sock[c]
             in == epoll[f] = "in" /\ (s.inq # <<>> \/ s.fin \/ s.rst)
             out == epoll[f] = "out" /\ (s.buf < Room \/ s.gone \/ s.rst)
  <2>4. EventOf(f) = [fd |-> f, who |-> c, in |-> in, out |-> out, hup |-> sock[c].rst]
    BY DEF EventOf
  <2>5. in \in BOOLEAN /\ out \in BOOLEAN /\ sock[c].rst \in BOOLEAN
    BY <2>3 DEF Socket
  <2> HIDE DEF c, in, out
  <2> QED BY <2>1, <2>2, <2>4, <2>5 DEF EventOK, Events
<1>3. \A e \in batch' : e # Accepting => EventOK(e)
  BY <1>1, <1>2 DEF Ready
<1>4. SocksMove
  BY <1>1, SocksRest
<1> QED BY <1>1, <1>3, <1>4, ConnsRest DEF LoopInv, InJobs

\* What connection_handle_fdevent does itself.
LEMMA OnceIs ==
  ASSUME NEW r \in Conn, NEW s \in Socket, Sound(r, s), r.st \notin {"connect", "start"}, NEW more \in BOOLEAN,
         NEW ok \in BOOLEAN
  PROVE  LET y == Once(Begin(r, s), more, ok) IN
         /\ y.r \in Conn /\ y.s \in Socket /\ Served(y.r, y.s) /\ y.again \in Nat
         /\ y.r.fd = r.fd /\ y.r.added = r.added /\ y.s.st = s.st /\ y.s.fd = s.fd /\ (s.rst => y.s.rst)
<1> DEFINE x == Begin(r, s)
           y == Once(x, more, ok)
<1>1. x = [r |-> r, s |-> s, again |-> 0, done |-> FALSE]
  BY DEF Begin
<1>2. CASE Reading(r)
  <2> DEFINE r2 == ReadState(r, s, more, ok)
             s2 == Drained(r, s)
  <2>1. ReadOK(r, s, r2, s2)
    BY <1>2, ReadIs
  <2>2. s2.rst = s.rst
    BY DEF Drained
  <2>3. y.r = r2 /\ y.s = s2 /\ y.again = 0
    <3> HIDE DEF r2, s2
    <3>1. y = Read(x, more, ok)
      BY <1>1, <1>2 DEF Once
    <3>2. Read(x, more, ok) = [x EXCEPT !.r = r2, !.s = s2]
      BY <1>1 DEF Read, r2, s2
    <3>3. x \in Machines /\ x.again = 0
      BY <1>1 DEF Machines
    <3> HIDE DEF x, y
    <3> QED BY <3>1, <3>2, <3>3 DEF Machines
  <2>4. r2.st \in {"read", "readpost", "error", "end", "handle"}
    <3> HIDE DEF r2, s2
    <3> QED BY <1>2, <2>1 DEF ReadOK, Reading
  <2> HIDE DEF x, y, r2, s2
  <2> QED BY <2>1, <2>2, <2>3, <2>4 DEF ReadOK, Served, x, y
<1>3. CASE r.st = "write" /\ r.wr
  <2> DEFINE r2 == WriteState(r, s, ok)
             s2 == Filled(r, s, ok)
             again == 0 + IF r2.st = "write" THEN 0 ELSE 1
  <2>1. WriteOK(r, s, r2, s2)
    BY <1>3, WriteIs
  <2>2. s.rst => s2.rst
    BY DEF Filled
  <2>3. y.r = r2 /\ y.s = s2 /\ y.again = again
    <3>1. y = Write(x, ok)
      BY <1>1, <1>3 DEF Once, Reading
    <3>2. r.out # 0
      BY <1>3 DEF Sound
    <3> HIDE DEF r2, s2, again
    <3>3. Write(x, ok) = [x EXCEPT !.r = r2, !.s = s2, !.again = again]
      BY <1>1, <1>3, <3>2 DEF Write, r2, s2, again
    <3> QED BY <1>1, <3>1, <3>3
  <2>4. again \in Nat
    OBVIOUS
  <2>5. r2.st \in {"error", "respend", "write"}
    <3> HIDE DEF r2, s2
    <3> QED BY <2>1 DEF WriteOK
  <2> HIDE DEF x, y, r2, s2, again
  <2> QED BY <2>1, <2>2, <2>3, <2>4, <2>5 DEF WriteOK, Served, x, y
<1>4. CASE ~Reading(r) /\ ~(r.st = "write" /\ r.wr)
  <2>1. y = x
    BY <1>1, <1>4 DEF Once, Write
  <2>2. y.r = r /\ y.s = s /\ y.again = 0
    BY <1>1, <2>1
  <2> HIDE DEF x, y
  <2> QED BY <2>2 DEF Served, x, y
<1> QED BY <1>2, <1>3, <1>4

LEMMA EventKeeps ==
  ASSUME ConnInv, NEW e \in batch, HandleEvent(e)
  PROVE  ConnInv'
<1> DEFINE o == fdarray[e.fd]
           c == e.who
           in == con[o].rd \/ e.in
           out == con[o].wr \/ e.out
           state == IF e.hup THEN "error" ELSE con[o].st
           r == [con[o] EXCEPT !.rd = in, !.wr = out, !.st = state]
<1>1. /\ NetInv /\ LoopInv /\ pc = "events" /\ e # Accepting /\ batch' = batch \ {e}
      /\ UNCHANGED <<ptr, used, fdarray, epoll, curFds, pc, ndx>>
  BY DEF HandleEvent, ConnInv
<1>20. Oks \subseteq BOOLEAN
  BY DEF Oks
<1>2. PICK more \in BOOLEAN, ok \in Oks : LET y == Once(Begin(r, sock[c]), more, ok) IN
        con' = [con EXCEPT ![o] = y.r] /\ sock' = [sock EXCEPT ![c] = y.s] /\ jobs' = jobs \o [i \in 1..1 + y.again |-> o]
  BY DEF HandleEvent
<1>3. EventOK(e)
  BY <1>1 DEF LoopInv
<1>4. PICK f \in Fds : f = e.fd /\ HasFd(c, f) /\ c \in Clients
  BY <1>3 DEF EventOK, Events
<1>5. /\ o \in InUse /\ o \in Objects /\ con[o].fd = f /\ con[o] \in Conn /\ sock[c] \in Socket
      /\ Served(con[o], sock[c]) /\ fdarray[f] = o
  BY <1>1, <1>3, <1>4, InUseIs DEF EventOK, NetInv, NetType, Linked, AllServed
<1>6. e.in \in BOOLEAN /\ e.out \in BOOLEAN /\ e.hup \in BOOLEAN /\ (e.hup => sock[c].rst)
  BY <1>3 DEF EventOK, Events
<1>7. in \in BOOLEAN /\ out \in BOOLEAN /\ state \in {con[o].st, "error"}
  BY <1>6
<1> HIDE DEF in, out
<1>8. r \in Conn /\ r.st = state /\ r.fd = f /\ r.added = con[o].added /\ r.out = con[o].out
      /\ r.age = con[o].age /\ r.count = con[o].count /\ r.inq = con[o].inq
  <2> HIDE DEF state, o
  <2> QED BY <1>5, <1>7 DEF Conn
<1> HIDE DEF r
<1>9. Sound(r, sock[c]) /\ r.st \notin {"connect", "start"}
  <2>1. CASE e.hup
    <3>1. state = "error" /\ sock[c].gone /\ (sock[c].cut => sock[c].failed)
      BY <1>5, <1>6, <2>1 DEF Served, Sound
    <3> HIDE DEF o, c
    <3> QED BY <1>5, <1>8, <3>1 DEF Served, Sound, Excused
  <2>2. CASE ~e.hup
    <3>1. state = con[o].st
      BY <2>2
    <3> HIDE DEF o, c
    <3> QED BY <1>5, <1>8, <3>1 DEF Served, Sound, Excused, Silent
  <2> QED BY <2>1, <2>2
<1> HIDE DEF o, c, state
<1> DEFINE y == Once(Begin(r, sock[c]), more, ok)
<1>10. /\ y.r \in Conn /\ y.s \in Socket /\ Served(y.r, y.s) /\ y.again \in Nat
       /\ y.r.fd = f /\ y.r.added = con[o].added /\ y.s.st = sock[c].st /\ y.s.fd = sock[c].fd
       /\ (sock[c].rst => y.s.rst)
  BY <1>5, <1>8, <1>9, <1>20, OnceIs
<1>11. con' = [con EXCEPT ![o] = y.r] /\ sock' = [sock EXCEPT ![c] = y.s] /\ jobs' = jobs \o [i \in 1..1 + y.again |-> o]
  BY <1>2
<1> HIDE DEF y
<1>12. /\ con' \in [Objects -> Conn] /\ con'[o] = y.r /\ \A p \in Objects : p # o => con'[p] = con[p]
       /\ sock' \in [Clients -> Socket] /\ sock'[c] = y.s /\ \A d \in Clients : d # c => sock'[d] = sock[d]
  BY <1>1, <1>4, <1>5, <1>10, <1>11 DEF NetInv, NetType
<1>13. \A d \in Clients, g \in Fds : HasFd(d, g) => (d = c <=> g = f) /\ (fdarray[g] = o <=> g = f) /\ fdarray[g] \in Objects
  BY <1>1, <1>4, <1>5, InUseIs DEF NetInv, Linked, HasFd
<1>14. NetInv' /\ InUse' = InUse
  <2>1. ASSUME NEW d \in Clients, NEW g \in Fds, HasFd(d, g) PROVE Served(con'[fdarray[g]], sock'[d])
    BY <1>1, <1>10, <1>12, <1>13, <2>1 DEF NetInv, AllServed
  <2>2. \A p \in Objects : con'[p].fd = con[p].fd /\ con'[p].added = con[p].added
    BY <1>5, <1>10, <1>12
  <2>3. \A p \in Objects : p \notin InUse => con'[p] = con[p]
    BY <1>5, <1>12
  <2>4. \A d \in Clients : /\ sock'[d].st = "open" <=> sock[d].st = "open"
                           /\ sock[d].st = "open" => sock'[d].fd = sock[d].fd
                           /\ (sock'[d].cut => sock'[d].failed) /\ (sock'[d].rst => sock'[d].gone)
    BY <1>1, <1>10, <1>12 DEF NetInv, AllServed, Served, Sound
  <2> QED BY <1>1, <1>12, <2>1, <2>2, <2>3, <2>4, LinksStay
<1>15. ASSUME NEW g \in batch', g # Accepting PROVE EventOK(g)'
  <2>1. EventOK(g)
    BY <1>1, <1>15 DEF LoopInv
  <2> QED BY <1>1, <1>10, <1>12, <2>1 DEF EventOK, Events, HasFd
<1>16. PICK b \in Objects : b = o
  BY <1>5
<1>17. /\ jobs' \in Seq(Objects) /\ (\A p \in Objects : InJobs(p) => InJobs(p)') /\ InJobs(b)'
  <2> DEFINE k == 1 + y.again
  <2>1. k \in Nat /\ k > 0 /\ jobs \in Seq(Objects)
    BY <1>1, <1>10 DEF LoopInv
  <2>2. jobs' = jobs \o [i \in 1..k |-> b]
    BY <1>11, <1>16
  <2> HIDE DEF k
  <2> DEFINE t == jobs \o [i \in 1..k |-> b]
  <2>3. /\ t \in Seq(Objects) /\ \A i \in 1..Len(jobs) : i \in 1..Len(t) /\ t[i] = jobs[i]
        /\ \E i \in 1..Len(t) : t[i] = b
    BY <2>1, JobsGrow
  <2> HIDE DEF t
  <2>4. jobs' = t
    BY <2>2 DEF t
  <2> QED BY <2>3, <2>4 DEF InJobs
<1>18. ASSUME NEW p \in InUse' PROVE Parked(p)' \/ InJobs(p)'
  <2>1. CASE p = b
    BY <1>17, <2>1
  <2>2. CASE p # b
    <3>1. p \in InUse /\ p \in Objects /\ con'[p] = con[p]
      BY <1>1, <1>12, <1>14, <1>16, <2>2, InUseIs DEF NetInv
    <3>2. Parked(p) => Parked(p)'
      BY <1>1, <3>1 DEF Parked
    <3> QED BY <1>1, <1>17, <3>1, <3>2 DEF LoopInv
  <2> QED BY <2>1, <2>2
<1>19. LoopInv'
  BY <1>1, <1>15, <1>17, <1>18 DEF LoopInv
<1> QED BY <1>14, <1>19 DEF ConnInv

LEMMA WalkKeeps ==
  ASSUME ConnInv, Walk
  PROVE  ConnInv'
<1> DEFINE o == ptr[ndx]
           r == [con[o] EXCEPT !.st = "error"]
<1>1. NetInv /\ LoopInv /\ pc = "walk" /\ batch' = batch /\ ndx \in Nat \ {0} /\ used \in Nat /\ jobs = <<>> /\ batch = {}
  BY ObjectsAre DEF Walk, ConnInv, LoopInv, NetInv, NetType
<1>2. CASE ndx > used
  <2>1. UNCHANGED <<sock, netVars, jobs>> /\ pc' = "sockets" /\ ndx' \in Nat \ {0}
    BY <1>2 DEF Walk
  <2> QED BY <1>1, <2>1, LoopMoves
<1>3. CASE ~(ndx > used) /\ ~Expired(con[o])
  <2>1. UNCHANGED <<sock, netVars, jobs>> /\ pc' = pc /\ ndx' = ndx + 1
    BY <1>3 DEF Walk
  <2>2. ndx' \in Nat \ {0}
    BY <1>1, <2>1
  <2> QED BY <1>1, <2>1, <2>2, LoopMoves
<1>4. CASE ~(ndx > used) /\ Expired(con[o])
  <2>1. Runs(o, Peer(o), r, used) /\ pc' = pc /\ ndx' = ndx + 1
    BY <1>4 DEF Walk
  <2>2. ndx' \in Nat \ {0} /\ ndx \in 1..used
    BY <1>1, <1>4, <2>1
  <2>3. o \in InUse
    BY <2>2 DEF InUse
  <2>4. /\ Peer(o) \in Clients /\ HasFd(Peer(o), con[o].fd) /\ o \in Objects /\ con[o] \in Conn /\ con[o].fd \in Fds
        /\ Served(con[o], sock[Peer(o)]) /\ Silent(con[o])
    BY <1>1, <1>4, <2>3, PeerIs DEF Expired
  <2> HIDE DEF o
  <2>5. /\ r \in Conn /\ r.st = "error" /\ r.fd = con[o].fd /\ r.added = con[o].added /\ r.out = con[o].out
        /\ r.age = con[o].age /\ r.count = con[o].count
    BY <2>4 DEF Conn
  <2> HIDE DEF r
  <2>6. Sound(r, sock[Peer(o)])
    BY <2>4, <2>5 DEF Served, Sound, Excused, Silent
  <2>7. Fit(o, Peer(o), r, used)
    BY <2>3, <2>4, <2>5, <2>6 DEF Fit
  <2> QED BY <1>1, <2>1, <2>2, <2>4, <2>5, <2>7, RunsKeep
<1> QED BY <1>2, <1>3, <1>4

LEMMA AcceptKeeps ==
  ASSUME ConnInv, NEW c \in Clients, Accept(c)
  PROVE  ConnInv'
<1> DEFINE o == ptr[used + 1]
           f == Min({g \in Fds : fdarray[g] = None})
           r == [con[o] EXCEPT !.st = "start", !.fd = f]
<1>1. /\ NetInv /\ LoopInv /\ pc = "events" /\ used < MaxConns /\ sock[c].st = "queued"
      /\ UNCHANGED <<pc, batch>> /\ ndx' = ndx /\ Runs(o, c, r, used + 1)
  BY DEF Accept, ConnInv
<1>2. f \in Fds /\ fdarray[f] = None
  BY <1>1, FreeFd
<1>3. o \in Objects /\ con[o] = Fresh
  <2>1. used + 1 \in Objects /\ used + 1 \notin 1..used /\ \A i \in 1..used : i \in Objects
    BY <1>1, ObjectsAre DEF NetInv, NetType
  <2>2. o \in Objects /\ o \notin InUse
    BY <1>1, <2>1 DEF NetInv, NetType, Ordered, InUse
  <2> QED BY <1>1, <2>2 DEF NetInv, Linked
<1> HIDE DEF f
<1>4. r \in Conn /\ r.st = "start" /\ r.fd = f /\ ~r.added /\ r.out = 0
  <2>1. con[o] \in Conn /\ con[o].out = 0 /\ ~con[o].added
    BY <1>1, <1>3 DEF NetInv, NetType, Fresh
  <2> HIDE DEF o
  <2> QED BY <1>2, <2>1 DEF Conn
<1> HIDE DEF r
<1>5. Sound(r, sock[c])
  BY <1>1, <1>4 DEF NetInv, AllServed, Sound
<1>6. Fit(o, c, r, used + 1)
  BY <1>1, <1>2, <1>4, <1>5 DEF Fit
<1>7. ndx' \in Nat \ {0}
  BY <1>1 DEF LoopInv
<1> HIDE DEF o
<1> QED BY <1>1, <1>2, <1>4, <1>6, <1>7, RunsKeep

LEMMA JobKeeps ==
  ASSUME ConnInv, Job
  PROVE  ConnInv'
<1> DEFINE o == Head(jobs)
<1>1. /\ NetInv /\ LoopInv /\ pc = "jobs" /\ batch' = batch /\ batch = {} /\ ndx' = ndx /\ ndx \in Nat \ {0}
      /\ jobs \in Seq(Objects)
  BY DEF Job, ConnInv, LoopInv
<1>2. CASE jobs = <<>>
  <2>1. pc' = "top" /\ UNCHANGED <<sock, netVars, jobs>>
    BY <1>2 DEF Job
  <2> QED BY <1>1, <1>2, <2>1, LoopMoves
<1>3. CASE jobs # <<>> /\ o \in InUse
  <2>1. Runs(o, Peer(o), con[o], used) /\ pc' = pc
    BY <1>3 DEF Job
  <2>2. /\ Peer(o) \in Clients /\ HasFd(Peer(o), con[o].fd) /\ con[o] \in Conn /\ con[o].fd \in Fds
        /\ Served(con[o], sock[Peer(o)])
    BY <1>1, <1>3, PeerIs
  <2>3. Fit(o, Peer(o), con[o], used)
    BY <1>3, <2>2 DEF Fit, Served
  <2> QED BY <1>1, <1>3, <2>1, <2>2, <2>3, RunsKeep
<1>4. CASE jobs # <<>> /\ o \notin InUse
  <2>1. jobs' = Tail(jobs) /\ UNCHANGED sock /\ UNCHANGED netVars /\ pc' = pc
    BY <1>4 DEF Job
  <2>2. jobs' \in Seq(Objects) /\ Len(jobs') = Len(jobs) - 1 /\ \A i \in 1..Len(jobs') : jobs'[i] = jobs[i + 1]
    BY <1>1, <1>4, <2>1, HeadTailProperties
  <2>3. ASSUME NEW p \in InUse, InJobs(p) PROVE InJobs(p)'
    <3>1. PICK i \in 1..Len(jobs) : jobs[i] = p
      BY <2>3 DEF InJobs
    <3>2. i # 1 /\ Len(jobs) \in Nat
      BY <1>1, <1>4, <3>1
    <3>3. i - 1 \in 1..Len(jobs') /\ (i - 1) + 1 = i
      BY <2>2, <3>2
    <3>4. jobs'[i - 1] = p
      BY <2>2, <3>1, <3>3
    <3> QED BY <3>3, <3>4 DEF InJobs
  <2>4. SocksMove
    BY <2>1, SocksRest
  <2> QED BY <1>1, <2>1, <2>2, <2>3, <2>4, ConnsRest
<1> QED BY <1>2, <1>3, <1>4

LEMMA ConnInit == Init => ConnInv
<1> SUFFICES ASSUME Init PROVE ConnInv
  OBVIOUS
<1>1. InUse = {}
  BY DEF Init, InUse
<1>2. Unopened \in Socket /\ Fresh \in Conn /\ Unopened.st = "new" /\ (Unopened.cut => Unopened.failed) /\ ~Unopened.rst
  <2>1. <<>> \in Seq(Units) /\ 0 \in 0..Room
    BY LimitsAssumption
  <2> QED BY <2>1 DEF Unopened, Fresh, Socket, Conn, None
<1>3. NetType
  BY <1>2, ObjectsAre DEF Init, NetType
<1>4. Ordered
  BY DEF Init, Ordered
<1>5. Linked
  BY <1>1, <1>2 DEF Init, Linked
<1>6. AllServed
  BY <1>2 DEF Init, AllServed, HasFd
<1>7. LoopInv
  BY <1>1 DEF Init, LoopInv
<1> QED BY <1>3, <1>4, <1>5, <1>6, <1>7 DEF ConnInv, NetInv

LEMMA ConnNext ==
  ASSUME ConnInv, [Next]_vars
  PROVE  ConnInv'
<1>1. LoopInv
  BY DEF ConnInv
<1>2. CASE Top
  BY <1>2, TopKeeps
<1>3. CASE Walk
  BY <1>3, WalkKeeps
<1>4. CASE Sockets
  BY <1>4, SocketsKeep
<1>5. CASE Poll
  BY <1>5, PollKeeps
<1>6. CASE \E e \in batch : HandleEvent(e)
  BY <1>6, EventKeeps
<1>7. CASE \E c \in Clients : Accept(c)
  BY <1>7, AcceptKeeps
<1>8. CASE AcceptedAll
  <2>1. UNCHANGED <<sock, netVars, jobs>> /\ pc' = pc /\ ndx' = ndx /\ batch' \subseteq batch /\ pc = "events"
    BY <1>8 DEF AcceptedAll
  <2> QED BY <1>1, <2>1, LoopMoves DEF LoopInv
<1>9. CASE EventsDone
  <2>1. UNCHANGED <<sock, netVars, jobs>> /\ pc' = "jobs" /\ ndx' = ndx /\ batch' = {}
    BY <1>9 DEF EventsDone
  <2> QED BY <1>1, <2>1, LoopMoves DEF LoopInv
<1>10. CASE Job
  BY <1>10, JobKeeps
<1>11. CASE Second \/ Interrupt
  <2>1. UNCHANGED <<sock, netVars, jobs>> /\ pc' = pc /\ ndx' = ndx /\ batch' = batch
    BY <1>11 DEF Second, Interrupt
  <2> QED BY <1>1, <2>1, LoopMoves DEF LoopInv
<1>12. CASE \E c \in Clients : ClientStep(c)
  BY <1>12, ClientKeeps
<1>13. CASE UNCHANGED vars
  <2>1. UNCHANGED <<sock, netVars, jobs>> /\ pc' = pc /\ ndx' = ndx /\ batch' = batch
    BY <1>13 DEF vars, netVars, loopVars
  <2> QED BY <1>1, <2>1, LoopMoves DEF LoopInv
<1> QED BY <1>2, <1>3, <1>4, <1>5, <1>6, <1>7, <1>8, <1>9, <1>10, <1>11, <1>12, <1>13 DEF Next, Loop

\* The inductive invariant of the worker: its lists are linked in both directions, each
\* connection is as its socket allows, and one that does not wait in epoll is on the job list.
THEOREM ConnectionsInvariant == Spec => []ConnInv
<1>1. Init => ConnInv
  BY ConnInit
<1>2. ConnInv /\ [Next]_vars => ConnInv'
  BY ConnNext
<1> QED BY <1>1, <1>2, PTL DEF Spec

\* connection_accept, connection_close, connection_del and fdevent_register keep their lists
\* together: what is open is counted, in use, and found by its descriptor.
THEOREM ListsAlwaysAgree == Spec => []ListsAgree
<1>1. ConnInv => ListsAgree
  <2> SUFFICES ASSUME ConnInv PROVE ListsAgree
    OBVIOUS
  <2>1. NetInv /\ NetType /\ Ordered /\ Linked
    BY DEF ConnInv, NetInv
  <2>2. used = curFds /\ curFds = Cardinality({c \in Clients : sock[c].st = "open"}) /\ Cardinality(InUse) = used
    BY <2>1, InUseCounted, OpenCounted DEF NetType
  <2>3. {ptr[i] : i \in Objects} = Objects
    BY <2>1 DEF NetType, Ordered
  <2>4. ASSUME NEW f \in Fds
        PROVE  /\ fdarray[f] # None <=> \E c \in Clients : sock[c].st = "open" /\ sock[c].fd = f
               /\ fdarray[f] # None => fdarray[f] \in InUse /\ con[fdarray[f]].fd = f
               /\ epoll[f] # "no" <=> fdarray[f] # None /\ con[fdarray[f]].added
    BY <2>1 DEF Linked, HasFd
  <2>5. \A o \in Objects \ InUse : con[o].st = "connect"
    BY <2>1 DEF Linked, Fresh
  <2> QED BY <2>2, <2>3, <2>4, <2>5 DEF ListsAgree
<1> QED BY <1>1, ConnectionsInvariant, PTL

\* An event that epoll_wait returned finds the connection it happened on, whatever was accepted
\* or handled before it in the same batch (network_server_handle_fdevent, connection_handle_fdevent).
THEOREM EventsAlwaysHaveHandlers == Spec => []EventsHaveHandlers
<1>1. ConnInv => EventsHaveHandlers
  BY DEF ConnInv, LoopInv, EventOK, HasFd, EventsHaveHandlers
<1> QED BY <1>1, ConnectionsInvariant, PTL

\* When the main loop waits, every connection is watched for what it needs next: the last
\* switch of connection_state_machine and the job list leave none behind.
THEOREM NobodyIsForgotten == Spec => []NobodyForgotten
<1>1. ConnInv => NobodyForgotten
  <2> SUFFICES ASSUME ConnInv, pc = "poll", NEW o \in InUse
               PROVE  LET r == con[o] IN
                      \/ r.st = "read" /\ r.inq = <<>> /\ epoll[r.fd] = "in"
                      \/ r.st = "readpost" /\ r.inq = <<>> /\ epoll[r.fd] = "in"
                      \/ r.st = "write" /\ r.out > 0 /\ epoll[r.fd] = "out"
    BY DEF NobodyForgotten
  <2>1. Parked(o)
    BY DEF ConnInv, LoopInv, InJobs
  <2> QED BY <2>1 DEF Parked, Reading
<1> QED BY <1>1, ConnectionsInvariant, PTL

\* connection_close ends a complete request only when its client has gone or was silent for
\* too long, when the answer before it said so, or when connection_handle_write or the handler
\* failed on the server's side: the end of a client's input is not one of the reasons.
THEOREM CutOffOnlyForAReason == Spec => []CutOffForAReason
<1>1. ConnInv => CutOffForAReason
  BY DEF ConnInv, NetInv, AllServed, CutOffForAReason
<1> QED BY <1>1, ConnectionsInvariant, PTL
================================================================================
