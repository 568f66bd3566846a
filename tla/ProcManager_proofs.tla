-------------------------- MODULE ProcManager_proofs --------------------------
(***************************************************************************)
(* Proofs about ProcManager, for every set of clients, workers and jobs    *)
(* and every value of the bounds.                                          *)
(***************************************************************************)
EXTENDS ProcManager, SequenceTheorems, FiniteSetTheorems, TLAPS

LEMMA SendType ==
  ASSUME TypeOK, NEW w \in Workers, NEW m \in ToWorker
  PROVE  Send(inbox, w, m) \in [Workers -> Seq(ToWorker)]
BY AppendProperties DEF TypeOK, Send

\* The parts of the state ProcessQueues writes keep their types.
LEMMA ProcessQueuesType ==
  ASSUME TypeOK, NEW I \in Seq(Workers), NEW P \in Seq(Query),
         NEW M \in [Workers -> Query \cup {None}], ProcessQueues(I, P, M)
  PROVE  /\ idle' \in Seq(Workers)
         /\ pending' \in Seq(Query)
         /\ mapping' \in [Workers -> Query \cup {None}]
         /\ reqid' \in [Workers -> Nat]
         /\ inbox' \in [Workers -> Seq(ToWorker)]
<1>0. /\ inbox \in [Workers -> Seq(ToWorker)]
      /\ reqid \in [Workers -> Nat]
  BY DEF TypeOK
<1>e. <<>> \in Seq(Workers) /\ <<>> \in Seq(Query)
  BY EmptySeq
<1>1. CASE /\ idle' = I /\ pending' = P /\ mapping' = M
           /\ UNCHANGED <<reqid, inbox>>
  BY <1>0, <1>1
<1>2. CASE /\ idle' = I /\ pending' = <<>> /\ mapping' = M
           /\ UNCHANGED <<reqid, inbox>>
  BY <1>0, <1>e, <1>2
<1>3. CASE /\ UNCHANGED <<reqid, inbox>>
           /\ \E p \in 1..Len(P) :
                /\ idle' = <<>> /\ pending' = SubSeq(P, p, Len(P)) /\ mapping' = M
  <2>1. PICK p \in 1..Len(P) :
          idle' = <<>> /\ pending' = SubSeq(P, p, Len(P)) /\ mapping' = M
    BY <1>3
  <2>2. SubSeq(P, p, Len(P)) \in Seq(Query)
    BY SubSeqProperties, ElementOfSeq, LenProperties
  <2> QED BY <1>0, <1>e, <1>3, <2>1, <2>2
<1>4. CASE \E p \in 1..Len(P), i \in 1..Len(I) :
             /\ idle' = SubSeq(I, i + 1, Len(I))
             /\ pending' = SubSeq(P, p + 1, Len(P))
             /\ mapping' = [M EXCEPT ![I[i]] = P[p]]
             /\ reqid' = [reqid EXCEPT ![I[i]] = @ + 1]
             /\ inbox' = Send(inbox, I[i], QueryLine(I[i], P[p]))
  <2>1. PICK p \in 1..Len(P), i \in 1..Len(I) :
             /\ idle' = SubSeq(I, i + 1, Len(I))
             /\ pending' = SubSeq(P, p + 1, Len(P))
             /\ mapping' = [M EXCEPT ![I[i]] = P[p]]
             /\ reqid' = [reqid EXCEPT ![I[i]] = @ + 1]
             /\ inbox' = Send(inbox, I[i], QueryLine(I[i], P[p]))
    BY <1>4
  <2>2. I[i] \in Workers /\ P[p] \in Query
    BY ElementOfSeq
  <2>3. SubSeq(P, p + 1, Len(P)) \in Seq(Query) /\ SubSeq(I, i + 1, Len(I)) \in Seq(Workers)
    BY SubSeqProperties, ElementOfSeq, LenProperties
  <2>4. QueryLine(I[i], P[p]) \in ToWorker
    BY <1>0, <2>2 DEF QueryLine, ToWorker
  <2>5. inbox' \in [Workers -> Seq(ToWorker)]
    BY <2>1, <2>2, <2>4, SendType
  <2>6. mapping' \in [Workers -> Query \cup {None}]
    BY <2>1, <2>2
  <2>7. reqid' \in [Workers -> Nat]
    BY <1>0, <2>1, <2>2
  <2> QED BY <2>1, <2>3, <2>5, <2>6, <2>7
<1> QED BY <1>1, <1>2, <1>3, <1>4 DEF ProcessQueues

LEMMA AskWorkerToDieType ==
  ASSUME TypeOK, NEW w \in Workers, AskWorkerToDie(w)
  PROVE  /\ todie' \subseteq Workers
         /\ current' \in [Jobs -> Int]
         /\ inbox' \in [Workers -> Seq(ToWorker)]
<1>1. [kind |-> "shutdown"] \in ToWorker
  BY DEF ToWorker
<1>2. inbox' \in [Workers -> Seq(ToWorker)]
  BY <1>1, SendType DEF AskWorkerToDie
<1> QED BY <1>2 DEF AskWorkerToDie, TypeOK

LEMMA NoteIdleType ==
  ASSUME TypeOK, NEW w \in Workers, NoteIdleQueryWorker(w)
  PROVE  /\ idle' \in Seq(Workers)
         /\ pending' \in Seq(Query)
         /\ mapping' \in [Workers -> Query \cup {None}]
         /\ reqid' \in [Workers -> Nat]
         /\ inbox' \in [Workers -> Seq(ToWorker)]
         /\ todie' \subseteq Workers
         /\ current' \in [Jobs -> Int]
<1> DEFINE M == [mapping EXCEPT ![w] = None]
<1>1. M \in [Workers -> Query \cup {None}]
  BY DEF TypeOK
<1>2. CASE /\ AskWorkerToDie(w)
           /\ mapping' = M
           /\ UNCHANGED <<idle, pending, reqid>>
  BY <1>1, <1>2, AskWorkerToDieType DEF TypeOK
<1>3. CASE /\ ProcessQueues(Append(idle, w), pending, M)
           /\ UNCHANGED <<todie, current>>
  <2>1. Append(idle, w) \in Seq(Workers) /\ pending \in Seq(Query)
    BY AppendProperties DEF TypeOK
  <2>2. /\ idle' \in Seq(Workers)
        /\ pending' \in Seq(Query)
        /\ mapping' \in [Workers -> Query \cup {None}]
        /\ reqid' \in [Workers -> Nat]
        /\ inbox' \in [Workers -> Seq(ToWorker)]
    BY <1>1, <1>3, <2>1, ProcessQueuesType
  <2> QED BY <1>3, <2>2 DEF TypeOK
<1> QED BY <1>2, <1>3 DEF NoteIdleQueryWorker

LEMMA NoteDeadWorkerConnType ==
  ASSUME TypeOK, NEW w \in Workers, NoteDeadWorkerConn(w)
  PROVE  /\ idle' \in Seq(Workers)
         /\ pending' \in Seq(Query)
         /\ mapping' \in [Workers -> Query \cup {None}]
         /\ reqid' \in [Workers -> Nat]
         /\ inbox' \in [Workers -> Seq(ToWorker)]
<1>1. CASE mapping[w] = None /\ UNCHANGED <<queueVars, inbox>>
  BY <1>1 DEF TypeOK, queueVars
<1>2. CASE /\ mapping[w] # None
           /\ ProcessQueues(idle, <<mapping[w]>> \o pending, [mapping EXCEPT ![w] = None])
  <2>1. mapping[w] \in Query /\ idle \in Seq(Workers) /\ pending \in Seq(Query)
    BY <1>2 DEF TypeOK
  <2>2. <<mapping[w]>> \o pending \in Seq(Query)
    BY <2>1, ConcatProperties
  <2>3. [mapping EXCEPT ![w] = None] \in [Workers -> Query \cup {None}]
    BY DEF TypeOK
  <2> QED BY <1>2, <2>1, <2>2, <2>3, ProcessQueuesType
<1> QED BY <1>1, <1>2 DEF NoteDeadWorkerConn

LEMMA ReadLineType ==
  ASSUME TypeOK, NEW w \in Workers, NEW kind, ReadLine(w, kind)
  PROVE  /\ outbox' \in [Workers -> Seq(ToParent)]
         /\ kind = "answer" => Answer(w) \in Line
<1>1. outbox[w] \in Seq(ToParent) /\ outbox[w] # <<>>
  BY DEF TypeOK, ReadLine
<1>2. Head(outbox[w]) \in ToParent /\ Tail(outbox[w]) \in Seq(ToParent)
  BY <1>1, HeadTailProperties
<1>3. outbox' \in [Workers -> Seq(ToParent)]
  BY <1>2 DEF TypeOK, ReadLine
<1> QED BY <1>2, <1>3 DEF ReadLine, Answer, ToParent

LEMMA InitType == Init => TypeOK
<1> SUFFICES ASSUME Init PROVE TypeOK
  OBVIOUS
<1> USE EmptySeq, BoundAssumption
<1>1. /\ asked \in [Clients -> Nat] /\ replies \in [Clients -> Seq(Query)]
      /\ status \in [Clients -> {"open", "hung_up", "mismatch"}]
  BY DEF Init
<1>2. /\ pending \in Seq(Query) /\ idle \in Seq(Workers)
      /\ mapping \in [Workers -> Query \cup {None}] /\ reqid \in [Workers -> Nat]
  BY DEF Init
<1>3. /\ wanted \in [Jobs -> Nat] /\ current \in [Jobs -> Int]
      /\ todie \subseteq Workers /\ child \subseteq Workers /\ allkidsup \in BOOLEAN
      /\ visit \subseteq Jobs /\ pc \in {"loop", "spawn", "register"}
  <2>1. allkidsup \in BOOLEAN
    BY DEF Init
  <2>2. wanted \in [Jobs -> Nat] /\ current \in [Jobs -> Int]
    BY MinAssumption DEF Init
  <2>3. /\ todie \subseteq Workers /\ child \subseteq Workers
        /\ visit \subseteq Jobs /\ pc \in {"loop", "spawn", "register"}
    BY DEF Init
  <2> QED BY <2>1, <2>2, <2>3
<1>4. /\ job \in [Workers -> Jobs] /\ closed \subseteq Workers
      /\ proc \in [Workers -> {"none", "alive", "dead"}]
  <2>1. job \in [Workers -> Jobs]
    BY JobAssumption DEF Init
  <2>2. proc \in [Workers -> {"none", "alive", "dead"}]
    BY DEF Init
  <2> QED BY <2>1, <2>2 DEF Init
<1>5. /\ inbox \in [Workers -> Seq(ToWorker)] /\ outbox \in [Workers -> Seq(ToParent)]
      /\ task \in [Workers -> Task \cup {None}]
  <2>1. <<>> \in Seq(ToWorker) /\ <<>> \in Seq(ToParent)
    BY EmptySeq
  <2> QED BY <2>1 DEF Init
<1>6. /\ crashes \in 0..MaxCrashes /\ forkfails \in 0..MaxForkFails
      /\ wants \in 0..MaxWants
  BY DEF Init
<1> QED BY <1>1, <1>2, <1>3, <1>4, <1>5, <1>6 DEF TypeOK

LEMMA NextType == TypeOK /\ [Next]_vars => TypeOK'
<1> SUFFICES ASSUME TypeOK, [Next]_vars PROVE TypeOK'
  OBVIOUS
<1> USE DEF clientVars, queueVars, staffVars, connVars, pipeVars, boundVars
<1>1. ASSUME NEW c \in Clients, EnqueueCommandRequest(c) PROVE TypeOK'
  <2>1. asked' \in [Clients -> Nat]
    BY <1>1 DEF EnqueueCommandRequest, TypeOK
  <2>2. Append(pending, [client |-> c, n |-> asked[c] + 1]) \in Seq(Query)
    <3>1. [client |-> c, n |-> asked[c] + 1] \in Query
      BY DEF TypeOK, Query
    <3> QED BY <3>1, AppendProperties DEF TypeOK
  <2>3. /\ idle' \in Seq(Workers) /\ pending' \in Seq(Query)
        /\ mapping' \in [Workers -> Query \cup {None}] /\ reqid' \in [Workers -> Nat]
        /\ inbox' \in [Workers -> Seq(ToWorker)]
    <3>1. idle \in Seq(Workers) /\ mapping \in [Workers -> Query \cup {None}]
      BY DEF TypeOK
    <3> QED BY <1>1, <2>2, <3>1, ProcessQueuesType DEF EnqueueCommandRequest
  <2> QED BY <1>1, <2>1, <2>3 DEF EnqueueCommandRequest, TypeOK
<1>2. ASSUME NEW c \in Clients, ClientClose(c) PROVE TypeOK'
  BY <1>2 DEF ClientClose, TypeOK
<1>3. ASSUME NEW j \in Jobs, NEW n \in Wanted, RequestJobProcess(j, n) PROVE TypeOK'
  <2> DEFINE k == IF j = QueryWorker THEN CullCount(n) ELSE 0
             culled == {idle[i] : i \in 1..k}
  <2>1. n \in Nat
    BY WantedAssumption
  <2>2. Len(idle) \in Nat /\ \A i \in 1..Len(idle) : idle[i] \in Workers
    BY LenProperties, ElementOfSeq DEF TypeOK
  <2>3. k \in Nat /\ k <= Len(idle)
    <3>1. current[QueryWorker] \in Int
      BY JobAssumption DEF TypeOK
    <3> QED BY <2>1, <2>2, <3>1 DEF CullCount
  <2>4. culled \subseteq Workers
    BY <2>2, <2>3
  <2> HIDE DEF k
  <2>5. SubSeq(idle, k + 1, Len(idle)) \in Seq(Workers)
    BY <2>2, <2>3, SubSeqProperties
  <2>6. inbox' \in [Workers -> Seq(ToWorker)]
    <3>1. \A w \in Workers : Send(inbox, w, [kind |-> "shutdown"])[w] \in Seq(ToWorker)
      BY SendType DEF ToWorker
    <3>2. inbox' = [w \in Workers |-> IF w \in culled
                                     THEN Send(inbox, w, [kind |-> "shutdown"])[w]
                                     ELSE inbox[w]]
      BY <1>3 DEF RequestJobProcess, k
    <3>3. \A w \in Workers : inbox[w] \in Seq(ToWorker)
      BY DEF TypeOK
    <3> HIDE DEF culled
    <3> QED BY <3>1, <3>2, <3>3
  <2>7. /\ idle' \in Seq(Workers) /\ todie' \subseteq Workers /\ current' \in [Jobs -> Int]
        /\ wanted' \in [Jobs -> Nat] /\ wants' \in 0..MaxWants
    <3>1. idle' = SubSeq(idle, k + 1, Len(idle)) /\ todie' = todie \cup culled
      BY <1>3 DEF RequestJobProcess, k
    <3>2. current' = [current EXCEPT ![QueryWorker] = @ - k]
      BY <1>3 DEF RequestJobProcess, k
    <3>3. wanted' = [wanted EXCEPT ![j] = n] /\ wants' = wants - 1 /\ wants > 0
      BY <1>3 DEF RequestJobProcess
    <3>4. current' \in [Jobs -> Int]
      BY <3>2, <2>3, JobAssumption DEF TypeOK
    <3>5. wanted' \in [Jobs -> Nat] /\ wants' \in 0..MaxWants
      BY <3>3, <2>1, BoundAssumption DEF TypeOK
    <3> HIDE DEF culled
    <3> QED BY <3>1, <3>4, <3>5, <2>4, <2>5 DEF TypeOK
  <2> QED BY <1>3, <2>6, <2>7 DEF RequestJobProcess, TypeOK
<1>4. ASSUME NEW w \in Workers, ParentReads(w) PROVE TypeOK'
  <2>1. CASE IgnoreAnswer(w)
    BY <2>1, ReadLineType DEF IgnoreAnswer, TypeOK
  <2>2. CASE DropAnswer(w)
    BY <2>2, ReadLineType, NoteIdleType DEF DropAnswer, TypeOK
  <2>3. CASE MismatchedAnswer(w)
    BY <2>3, ReadLineType, AskWorkerToDieType DEF MismatchedAnswer, TypeOK
  <2>4. CASE RelayAnswer(w)
    <3>1. Asker(w) \in Clients /\ Answer(w).query \in Query
      BY <2>4, ReadLineType DEF RelayAnswer, Asker, TypeOK, Query, Line
    <3>2. replies' \in [Clients -> Seq(Query)]
      BY <2>4, <3>1, AppendProperties DEF RelayAnswer, TypeOK
    <3> QED BY <2>4, <3>2, ReadLineType, NoteIdleType DEF RelayAnswer, TypeOK
  <2>5. CASE AnswerPing(w)
    <3>1. [kind |-> "stay_alive"] \in ToWorker
      BY DEF ToWorker
    <3>2. /\ inbox' \in [Workers -> Seq(ToWorker)] /\ todie' \subseteq Workers
          /\ current' \in [Jobs -> Int]
      BY <2>5, <3>1, SendType, AskWorkerToDieType DEF AnswerPing, TypeOK
    <3> QED BY <2>5, <3>2, ReadLineType DEF AnswerPing, TypeOK
  <2>6. CASE CloseDeadConn(w)
    BY <2>6, NoteDeadWorkerConnType, EmptySeq DEF CloseDeadConn, TypeOK
  <2> QED BY <1>4, <2>1, <2>2, <2>3, <2>4, <2>5, <2>6 DEF ParentReads
<1>5. ASSUME CheckChildren PROVE TypeOK'
  <2>1. ASSUME NEW w \in Workers, ReapChild(w) PROVE TypeOK'
    <3>1. /\ idle' \in Seq(Workers) /\ pending' \in Seq(Query)
          /\ mapping' \in [Workers -> Query \cup {None}] /\ reqid' \in [Workers -> Nat]
          /\ inbox' \in [Workers -> Seq(ToWorker)]
      BY <2>1, NoteDeadWorkerConnType DEF ReapChild, TypeOK
    <3>2. current' \in [Jobs -> Int]
      BY <2>1 DEF ReapChild, DeathCounted, TypeOK
    <3>3. outbox' \in [Workers -> Seq(ToParent)]
      BY <2>1, EmptySeq DEF ReapChild, TypeOK
    <3> QED BY <2>1, <3>1, <3>2, <3>3 DEF ReapChild, TypeOK
  <2>2. CASE NobodyToReap
    BY <2>2 DEF NobodyToReap, TypeOK
  <2>3. ASSUME NEW j \in Jobs, NEW w \in Workers, Fork(j, w) PROVE TypeOK'
    BY <2>3 DEF Fork, TypeOK
  <2>4. ASSUME NEW w \in Workers, RegisterWorkerConn(w) PROVE TypeOK'
    <3>1. Append(idle, w) \in Seq(Workers) /\ pending \in Seq(Query)
          /\ mapping \in [Workers -> Query \cup {None}]
      BY AppendProperties DEF TypeOK
    <3>2. /\ idle' \in Seq(Workers) /\ pending' \in Seq(Query)
          /\ mapping' \in [Workers -> Query \cup {None}] /\ reqid' \in [Workers -> Nat]
          /\ inbox' \in [Workers -> Seq(ToWorker)]
      BY <2>4, <3>1, ProcessQueuesType DEF RegisterWorkerConn, TypeOK
    <3>3. current' \in [Jobs -> Int] /\ child' \subseteq Workers
      <4>1. /\ current' = [current EXCEPT ![job[w]] = @ + 1]
            /\ child' = child \cup {w}
        BY <2>4 DEF RegisterWorkerConn
      <4> QED BY <4>1 DEF TypeOK
    <3> QED BY <2>4, <3>2, <3>3 DEF RegisterWorkerConn, TypeOK
  <2>5. ASSUME NEW j \in Jobs, ForkFails(j) PROVE TypeOK'
    BY <2>5, BoundAssumption DEF ForkFails, TypeOK
  <2>6. CASE AllJobsVisited
    BY <2>6 DEF AllJobsVisited, TypeOK
  <2> QED BY <1>5, <2>1, <2>2, <2>3, <2>4, <2>5, <2>6 DEF CheckChildren
<1>6. ASSUME NEW w \in Workers, WorkerRuns(w) PROVE TypeOK'
  <2>0. /\ inbox[w] # <<>> => /\ Head(inbox[w]) \in ToWorker
                              /\ Tail(inbox[w]) \in Seq(ToWorker)
        /\ inbox \in [Workers -> Seq(ToWorker)]
    BY HeadTailProperties DEF TypeOK
  <2>1. CASE TakeQuery(w)
    <3>1. PICK n \in 1..MaxLines :
            task' = [task EXCEPT ![w] = [id |-> Head(inbox[w]).id,
                                         query |-> Head(inbox[w]).query, left |-> n]]
      BY <2>1 DEF TakeQuery
    <3>2. Head(inbox[w]).id \in Nat /\ Head(inbox[w]).query \in Query
      BY <2>0, <2>1 DEF TakeQuery, Hears, ToWorker
    <3>3. [id |-> Head(inbox[w]).id, query |-> Head(inbox[w]).query, left |-> n] \in Task
      BY <3>2, BoundAssumption DEF Task
    <3>4. task' \in [Workers -> Task \cup {None}]
      BY <3>1, <3>3 DEF TypeOK
    <3>5. inbox' \in [Workers -> Seq(ToWorker)]
      BY <2>0, <2>1 DEF TakeQuery, Hears
    <3> QED BY <2>1, <3>4, <3>5 DEF TakeQuery, TypeOK
  <2>2. CASE WriteLine(w)
    <3>1. task[w] \in Task
      BY <2>2 DEF WriteLine, TypeOK
    <3>2. [kind |-> "answer", line |-> [id |-> task[w].id, query |-> task[w].query]]
             \in ToParent
      BY <3>1 DEF Task, Line, ToParent
    <3>3. outbox' \in [Workers -> Seq(ToParent)]
      BY <2>2, <3>2, AppendProperties DEF WriteLine, TypeOK
    <3>4. task' \in [Workers -> Task \cup {None}]
      <4>1. AfterALine(task[w]) \in Task \cup {None}
        BY <3>1 DEF Task, AfterALine
      <4> QED BY <2>2, <4>1 DEF WriteLine, TypeOK
    <3> QED BY <2>2, <3>3, <3>4 DEF WriteLine, TypeOK
  <2>3. CASE ObeyShutdown(w)
    BY <2>3, EmptySeq DEF ObeyShutdown, Dies, TypeOK
  <2>4. CASE ParentPing(w)
    <3>1. [kind |-> ":ping"] \in ToParent
      BY DEF ToParent
    <3> QED BY <2>4, <3>1, AppendProperties DEF ParentPing, TypeOK
  <2>5. CASE HearStayAlive(w)
    BY <2>0, <2>5 DEF HearStayAlive, Hears, TypeOK
  <2> QED BY <1>6, <2>1, <2>2, <2>3, <2>4, <2>5 DEF WorkerRuns
<1>7. ASSUME NEW w \in Workers, Crash(w) PROVE TypeOK'
  BY <1>7, EmptySeq, BoundAssumption DEF Crash, Dies, TypeOK
<1>8. CASE UNCHANGED vars
  BY <1>8 DEF vars, TypeOK
<1> QED BY <1>1, <1>2, <1>3, <1>4, <1>5, <1>6, <1>7, <1>8 DEF Next

(***************************************************************************)
(* Type correctness: what the parent's tables, the pipes and the processes *)
(* can hold.                                                               *)
(***************************************************************************)
THEOREM TypeCorrect == Spec => []TypeOK
BY InitType, NextType, PTL DEF Spec

(***************************************************************************)
(* Answers reach the client that asked.                                    *)
(***************************************************************************)

Suffix(t, s, a) == Len(t) = Len(s) - a /\ \A k \in 1..(Len(s) - a) : t[k] = s[a + k]

\* ProcessQueues drops a entries and b workers, and matches at most one pair of them.
Effect(I, P, M, a, b) ==
  /\ Suffix(pending', P, a)
  /\ Suffix(idle', I, b)
  /\ \/ mapping' = M /\ UNCHANGED <<reqid, inbox>>
     \/ \E p \in 1..a, i \in 1..b :
          /\ I[i] \notin closed
          /\ mapping' = [M EXCEPT ![I[i]] = P[p]]
          /\ reqid' = [reqid EXCEPT ![I[i]] = @ + 1]
          /\ inbox' = Send(inbox, I[i], QueryLine(I[i], P[p]))

LEMMA ProcessQueuesEffect ==
  ASSUME TypeOK, NEW I \in Seq(Workers), NEW P \in Seq(Query),
         NEW M \in [Workers -> Query \cup {None}], ProcessQueues(I, P, M)
  PROVE  \E a \in 0..Len(P), b \in 0..Len(I) : Effect(I, P, M, a, b)
<1>0. Len(P) \in Nat /\ Len(I) \in Nat
  BY LenProperties
<1>s. \A a \in 0..Len(P) : Suffix(SubSeq(P, a + 1, Len(P)), P, a)
  <2> TAKE a \in 0..Len(P)
  <2>1. \A k \in (a + 1)..Len(P) : P[k] \in Query
    BY <1>0, ElementOfSeq
  <2>2. /\ Len(SubSeq(P, a + 1, Len(P))) = IF a + 1 <= Len(P) THEN Len(P) - (a + 1) + 1 ELSE 0
        /\ \A k \in 1..(Len(P) - (a + 1) + 1) : SubSeq(P, a + 1, Len(P))[k] = P[a + 1 + k - 1]
    BY <1>0, <2>1, SubSeqProperties
  <2> QED BY <1>0, <2>2 DEF Suffix
<1>t. \A b \in 0..Len(I) : Suffix(SubSeq(I, b + 1, Len(I)), I, b)
  <2> TAKE b \in 0..Len(I)
  <2>1. \A k \in (b + 1)..Len(I) : I[k] \in Workers
    BY <1>0, ElementOfSeq
  <2>2. /\ Len(SubSeq(I, b + 1, Len(I))) = IF b + 1 <= Len(I) THEN Len(I) - (b + 1) + 1 ELSE 0
        /\ \A k \in 1..(Len(I) - (b + 1) + 1) : SubSeq(I, b + 1, Len(I))[k] = I[b + 1 + k - 1]
    BY <1>0, <2>1, SubSeqProperties
  <2> QED BY <1>0, <2>2 DEF Suffix
<1>e. Suffix(<<>>, P, Len(P)) /\ Suffix(<<>>, I, Len(I)) /\ Suffix(P, P, 0) /\ Suffix(I, I, 0)
  BY <1>0 DEF Suffix
<1>1. CASE /\ idle' = I /\ pending' = P /\ mapping' = M
           /\ UNCHANGED <<reqid, inbox>>
  <2>1. Effect(I, P, M, 0, 0)
    BY <1>1, <1>e DEF Effect
  <2> QED BY <2>1, <1>0
<1>2. CASE /\ idle' = I /\ pending' = <<>> /\ mapping' = M
           /\ UNCHANGED <<reqid, inbox>>
  <2>1. Effect(I, P, M, Len(P), 0)
    BY <1>2, <1>e DEF Effect
  <2> QED BY <2>1, <1>0
<1>3. CASE /\ UNCHANGED <<reqid, inbox>>
           /\ \E p \in 1..Len(P) :
                /\ idle' = <<>> /\ pending' = SubSeq(P, p, Len(P)) /\ mapping' = M
  <2>1. PICK p \in 1..Len(P) :
          idle' = <<>> /\ pending' = SubSeq(P, p, Len(P)) /\ mapping' = M
    BY <1>3
  <2>2. p - 1 \in 0..Len(P) /\ (p - 1) + 1 = p
    BY <1>0
  <2>3. Effect(I, P, M, p - 1, Len(I))
    BY <1>3, <1>e, <1>s, <2>1, <2>2 DEF Effect
  <2> QED BY <2>2, <2>3, <1>0
<1>4. CASE \E p \in 1..Len(P), i \in 1..Len(I) :
             /\ IsFirst(P, Open, p) /\ IsFirst(I, Connected, i)
             /\ idle' = SubSeq(I, i + 1, Len(I))
             /\ pending' = SubSeq(P, p + 1, Len(P))
             /\ mapping' = [M EXCEPT ![I[i]] = P[p]]
             /\ reqid' = [reqid EXCEPT ![I[i]] = @ + 1]
             /\ inbox' = Send(inbox, I[i], QueryLine(I[i], P[p]))
  <2>1. PICK p \in 1..Len(P), i \in 1..Len(I) :
             /\ IsFirst(P, Open, p) /\ IsFirst(I, Connected, i)
             /\ idle' = SubSeq(I, i + 1, Len(I))
             /\ pending' = SubSeq(P, p + 1, Len(P))
             /\ mapping' = [M EXCEPT ![I[i]] = P[p]]
             /\ reqid' = [reqid EXCEPT ![I[i]] = @ + 1]
             /\ inbox' = Send(inbox, I[i], QueryLine(I[i], P[p]))
    BY <1>4
  <2>2. I[i] \notin closed
    BY <2>1 DEF IsFirst, Connected
  <2>3. p \in 0..Len(P) /\ i \in 0..Len(I) /\ p \in 1..p /\ i \in 1..i
    BY <1>0
  <2>4. Effect(I, P, M, p, i)
    BY <1>s, <1>t, <2>1, <2>2, <2>3 DEF Effect
  <2> QED BY <2>3, <2>4
<1> QED BY <1>1, <1>2, <1>3, <1>4 DEF ProcessQueues

LEMMA ProcessQueuesQueueOK ==
  ASSUME TypeOK, NEW I \in Seq(Workers), NEW P \in Seq(Query),
         NEW M \in [Workers -> Query \cup {None}], ProcessQueues(I, P, M),
         NEW ask, NEW rep, NEW st, QueueOK(P, M, ask, rep, st)
  PROVE  QueueOK(pending', mapping', ask, rep, st)
<1>0. Len(P) \in Nat /\ Len(I) \in Nat /\ \A i \in 1..Len(I) : I[i] \in Workers
  BY LenProperties, ElementOfSeq
<1>1. PICK a \in 0..Len(P), b \in 0..Len(I) : Effect(I, P, M, a, b)
  BY ProcessQueuesEffect
<1>2. \A k \in 1..Len(pending') : /\ a + k \in 1..Len(P) /\ pending'[k] = P[a + k]
                                  /\ a + k \notin 1..a
                                  /\ \A l \in 1..Len(pending') : l # k => a + l # a + k
  BY <1>0, <1>1 DEF Effect, Suffix
<1> DEFINE D == 1..Len(P)
           E == 1..Len(pending')
           at == [k \in E |-> a + k]
<1>3. /\ \A k \in E : at[k] \in D /\ pending'[k] = P[at[k]] /\ at[k] \notin 1..a
      /\ \A k, l \in E : k # l => at[k] # at[l]
  BY <1>2
<1>4. /\ \A i \in D : Due(P[i], ask, rep, st)
      /\ \A w \in Workers : M[w] # None => Due(M[w], ask, rep, st)
      /\ \A i, j \in D : i # j => Apart(P[i], P[j], st)
      /\ \A i \in D, w \in Workers : M[w] # None => Apart(P[i], M[w], st)
      /\ \A v, w \in Workers : v # w /\ M[v] # None /\ M[w] # None
                               => Apart(M[v], M[w], st)
  BY DEF QueueOK
<1>g. SUFFICES
      /\ \A i \in E : Due(pending'[i], ask, rep, st)
      /\ \A w \in Workers : mapping'[w] # None => Due(mapping'[w], ask, rep, st)
      /\ \A i, j \in E : i # j => Apart(pending'[i], pending'[j], st)
      /\ \A i \in E, w \in Workers : mapping'[w] # None
                                       => Apart(pending'[i], mapping'[w], st)
      /\ \A v, w \in Workers : v # w /\ mapping'[v] # None /\ mapping'[w] # None
                               => Apart(mapping'[v], mapping'[w], st)
  BY DEF QueueOK
<1>5. CASE mapping' = M
  <2> HIDE DEF D, E, at
  <2> QED BY <1>3, <1>4, <1>5
<1>6. ASSUME NEW p \in 1..a, NEW i \in 1..b, mapping' = [M EXCEPT ![I[i]] = P[p]]
      PROVE  <1>g!1
  <2>1. p \in D /\ I[i] \in Workers
    BY <1>0
  <2>2. \A w \in Workers : mapping'[w] = IF w = I[i] THEN P[p] ELSE M[w]
    BY <1>6, <2>1
  <2>3. \A k \in E : at[k] # p
    BY <1>3
  <2> HIDE DEF D, E, at
  <2>4. \A v, w \in Workers : v # w /\ mapping'[v] # None /\ mapping'[w] # None
                               => Apart(mapping'[v], mapping'[w], st)
    <3> TAKE v, w \in Workers
    <3>0. \A x, y \in Query : Apart(x, y, st) => Apart(y, x, st)
      BY DEF Apart
    <3>1. P[p] \in Query /\ \A x \in Workers : M[x] # None => M[x] \in Query
      BY <2>1, ElementOfSeq DEF D
    <3>2. CASE w = I[i]
      BY <1>4, <2>1, <2>2, <3>0, <3>1, <3>2
    <3>3. CASE w # I[i]
      BY <1>4, <2>1, <2>2, <3>3
    <3> QED BY <3>2, <3>3
  <2>5. /\ \A k \in E : Due(pending'[k], ask, rep, st)
        /\ \A k, j \in E : k # j => Apart(pending'[k], pending'[j], st)
    BY <1>3, <1>4
  <2>6. \A w \in Workers : mapping'[w] # None => Due(mapping'[w], ask, rep, st)
    BY <1>4, <2>1, <2>2
  <2>7. \A k \in E, w \in Workers : mapping'[w] # None => Apart(pending'[k], mapping'[w], st)
    BY <1>3, <1>4, <2>1, <2>2, <2>3
  <2> QED BY <2>4, <2>5, <2>6, <2>7
<1> QED BY <1>1, <1>5, <1>6 DEF Effect

LEMMA ProcessQueuesPoolOK ==
  ASSUME TypeOK, NEW I \in Seq(Workers), NEW P \in Seq(Query),
         NEW M \in [Workers -> Query \cup {None}], ProcessQueues(I, P, M),
         NEW ch, PoolOK(I, M, closed, ch)
  PROVE  /\ PoolOK(idle', mapping', closed, ch)
         /\ \A w \in Workers : M[w] = None /\ (\A i \in 1..Len(I) : I[i] = w => w \in closed)
                                => mapping'[w] = None
<1>0. Len(P) \in Nat /\ Len(I) \in Nat /\ \A i \in 1..Len(I) : I[i] \in Workers
  BY LenProperties, ElementOfSeq
<1>1. PICK a \in 0..Len(P), b \in 0..Len(I) : Effect(I, P, M, a, b)
  BY ProcessQueuesEffect
<1>2. \A k \in 1..Len(idle') : /\ b + k \in 1..Len(I) /\ idle'[k] = I[b + k]
                               /\ b + k \notin 1..b
                               /\ \A l \in 1..Len(idle') : l # k => b + l # b + k
  BY <1>0, <1>1 DEF Effect, Suffix
<1> DEFINE D == 1..Len(I)
           E == 1..Len(idle')
           at == [k \in E |-> b + k]
<1>3. /\ \A k \in E : at[k] \in D /\ idle'[k] = I[at[k]] /\ at[k] \notin 1..b
      /\ \A k, l \in E : k # l => at[k] # at[l]
  BY <1>2
<1>4. /\ \A i \in D : I[i] \notin closed =>
           I[i] \in ch /\ M[I[i]] = None /\ \A j \in D : j # i => I[j] # I[i]
      /\ \A w \in Workers : w \in closed \/ w \notin ch => M[w] = None
  BY DEF PoolOK
<1>g. SUFFICES
      /\ \A k \in E : idle'[k] \notin closed =>
           idle'[k] \in ch /\ mapping'[idle'[k]] = None
                          /\ \A l \in E : l # k => idle'[l] # idle'[k]
      /\ \A w \in Workers : w \in closed \/ w \notin ch => mapping'[w] = None
      /\ \A w \in Workers : M[w] = None /\ (\A k \in D : I[k] = w => w \in closed)
                             => mapping'[w] = None
  BY DEF PoolOK
<1>5. CASE mapping' = M
  <2> HIDE DEF D, E, at
  <2> QED BY <1>3, <1>4, <1>5
<1>6. ASSUME NEW p \in 1..a, NEW i \in 1..b,
             I[i] \notin closed, mapping' = [M EXCEPT ![I[i]] = P[p]]
      PROVE  <1>g!1
  <2>1. i \in D /\ \A k \in D : I[k] \in Workers
    BY <1>0
  <2>2. \A w \in Workers : w # I[i] => mapping'[w] = M[w]
    BY <1>6, <2>1
  <2>3. \A k \in E : at[k] # i
    BY <1>3
  <2> HIDE DEF D, E, at
  <2>4. \A k \in E : idle'[k] # I[i] /\ idle'[k] \in Workers
    <3>1. \A j \in D : j # i => I[j] # I[i]
      BY <1>4, <1>6, <2>1
    <3> QED BY <1>3, <2>1, <2>3, <3>1
  <2>5. \A k \in E : idle'[k] \notin closed =>
           idle'[k] \in ch /\ mapping'[idle'[k]] = None
                          /\ \A l \in E : l # k => idle'[l] # idle'[k]
    BY <1>3, <1>4, <2>2, <2>4
  <2>6. \A w \in Workers : w \in closed \/ w \notin ch => mapping'[w] = None
    BY <1>4, <1>6, <2>1, <2>2
  <2>7. \A w \in Workers : M[w] = None /\ (\A k \in D : I[k] = w => w \in closed)
                          => mapping'[w] = None
    BY <1>6, <2>1, <2>2
  <2> QED BY <2>5, <2>6, <2>7
<1> QED BY <1>1, <1>5, <1>6 DEF Effect

LEMMA SendKeepsLabels ==
  ASSUME TypeOK, NEW w \in Workers, NEW m \in ToWorker, NEW v \in Workers,
         NEW r \in Nat, NEW q,
         v = w /\ m.kind = "query" => Labelled(m, r, q),
         \A i \in 1..Len(inbox[v]) :
           inbox[v][i].kind = "query" => Labelled(inbox[v][i], r, q)
  PROVE  \A i \in 1..Len(Send(inbox, w, m)[v]) :
           Send(inbox, w, m)[v][i].kind = "query" => Labelled(Send(inbox, w, m)[v][i], r, q)
<1>1. inbox[v] \in Seq(ToWorker) /\ Len(inbox[v]) \in Nat
  BY LenProperties DEF TypeOK
<1>2. CASE proc[w] = "alive" /\ v = w
  <2>1. Send(inbox, w, m)[v] = Append(inbox[v], m)
    BY <1>2 DEF Send, TypeOK
  <2>2. /\ Len(Append(inbox[v], m)) = Len(inbox[v]) + 1
        /\ \A i \in 1..Len(inbox[v]) : Append(inbox[v], m)[i] = inbox[v][i]
        /\ Append(inbox[v], m)[Len(inbox[v]) + 1] = m
    BY <1>1, AppendProperties
  <2> QED BY <1>1, <1>2, <2>1, <2>2
<1>3. CASE ~(proc[w] = "alive" /\ v = w)
  <2>1. Send(inbox, w, m)[v] = inbox[v]
    BY <1>3 DEF Send, TypeOK
  <2> QED BY <2>1
<1> QED BY <1>2, <1>3

\* No message becomes wrongly labelled: the number of the matched worker grows.
LEMMA ProcessQueuesLabels ==
  ASSUME TypeOK, NEW I \in Seq(Workers), NEW P \in Seq(Query),
         NEW M \in [Workers -> Query \cup {None}], ProcessQueues(I, P, M),
         \A w \in Workers : M[w] = mapping[w] \/ M[w] = None,
         AnswersLabelled
  PROVE  /\ \A w \in Workers : \A m \in Line \cup Task :
              Labelled(m, reqid[w], mapping[w]) => Labelled(m, reqid'[w], mapping'[w])
         /\ \A w \in Workers : InboxLabelled(w)'
<1>0. Len(P) \in Nat /\ Len(I) \in Nat /\ \A i \in 1..Len(I) : I[i] \in Workers
  BY LenProperties, ElementOfSeq
<1>1. PICK a \in 0..Len(P), b \in 0..Len(I) : Effect(I, P, M, a, b)
  BY ProcessQueuesEffect
<1>2. CASE mapping' = M /\ UNCHANGED <<reqid, inbox>>
  BY <1>2 DEF AnswersLabelled, InboxLabelled, Labelled
<1>3. ASSUME NEW p \in 1..a, NEW i \in 1..b,
             mapping' = [M EXCEPT ![I[i]] = P[p]],
             reqid' = [reqid EXCEPT ![I[i]] = @ + 1],
             inbox' = Send(inbox, I[i], QueryLine(I[i], P[p]))
      PROVE  /\ \A w \in Workers : \A m \in Line \cup Task :
                  Labelled(m, reqid[w], mapping[w]) => Labelled(m, reqid'[w], mapping'[w])
             /\ \A w \in Workers : InboxLabelled(w)'
  <2> DEFINE u == I[i]
  <2>1. u \in Workers /\ P[p] \in Query /\ reqid \in [Workers -> Nat]
    <3>1. p \in 1..Len(P) /\ i \in 1..Len(I)
      BY <1>0
    <3> QED BY <1>0, <3>1, ElementOfSeq DEF TypeOK
  <2>2. QueryLine(u, P[p]) \in ToWorker
    BY <2>1 DEF QueryLine, ToWorker
  <2>3. /\ reqid'[u] = reqid[u] + 1 /\ mapping'[u] = P[p]
        /\ \A w \in Workers : w # u => reqid'[w] = reqid[w] /\ mapping'[w] = M[w]
    BY <1>3, <2>1
  <2> HIDE DEF u
  <2>4. \A w \in Workers : \A m : m.id \in Nat /\ Labelled(m, reqid[w], mapping[w])
                                 => Labelled(m, reqid'[w], mapping'[w])
    BY <2>1, <2>3 DEF Labelled
  <2>5. ASSUME NEW w \in Workers PROVE InboxLabelled(w)'
    <3>1. \A k \in 1..Len(inbox[w]) :
            inbox[w][k].kind = "query" => Labelled(inbox[w][k], reqid'[w], mapping'[w])
      <4> TAKE k \in 1..Len(inbox[w])
      <4>1. inbox[w][k] \in ToWorker
        BY ElementOfSeq DEF TypeOK
      <4>2. inbox[w][k].kind = "query" => inbox[w][k].id \in Nat
        BY <4>1 DEF ToWorker
      <4> QED BY <2>4, <4>2 DEF AnswersLabelled, InboxLabelled
    <3>2. w = u => Labelled(QueryLine(u, P[p]), reqid'[w], mapping'[w])
      BY <2>1, <2>3 DEF QueryLine, Labelled
    <3>3. reqid'[w] \in Nat
      BY <2>1, <2>3
    <3>4. \A k \in 1..Len(Send(inbox, u, QueryLine(u, P[p]))[w]) :
            Send(inbox, u, QueryLine(u, P[p]))[w][k].kind = "query" =>
              Labelled(Send(inbox, u, QueryLine(u, P[p]))[w][k], reqid'[w], mapping'[w])
      BY <2>1, <2>2, <3>1, <3>2, <3>3, SendKeepsLabels
    <3>5. inbox' = Send(inbox, u, QueryLine(u, P[p]))
      BY <1>3 DEF u
    <3> QED BY <3>4, <3>5 DEF InboxLabelled
  <2>6. \A m \in Line \cup Task : m.id \in Nat
    BY DEF Line, Task
  <2> QED BY <2>4, <2>5, <2>6
<1> QED BY <1>1, <1>2, <1>3 DEF Effect

LEMMA ProcessQueuesInbox ==
  ASSUME TypeOK, NEW I \in Seq(Workers), NEW P \in Seq(Query),
         NEW M \in [Workers -> Query \cup {None}], ProcessQueues(I, P, M)
  PROVE  \A w \in Workers : proc[w] # "alive" => inbox'[w] = inbox[w]
<1>1. PICK a \in 0..Len(P), b \in 0..Len(I) : Effect(I, P, M, a, b)
  BY ProcessQueuesEffect
<1>2. \A u : \A m : \A w \in Workers : proc[w] # "alive" => Send(inbox, u, m)[w] = inbox[w]
  BY DEF Send, TypeOK
<1> QED BY <1>1, <1>2 DEF Effect

\* What is labelled stays labelled under the next numbers and mappings.
KeepsLabels ==
  \A w \in Workers : \A m \in Line \cup Task :
    Labelled(m, reqid[w], mapping[w]) => Labelled(m, reqid'[w], mapping'[w])

LEMMA LabelsKept ==
  ASSUME TypeOK, AnswersLabelled, KeepsLabels,
         \A w \in Workers : InboxLabelled(w)',
         \A w \in Workers : task'[w] = task[w] \/ task'[w] = None,
         \A w \in Workers : \A i \in 1..Len(outbox'[w]) :
           \E k \in 1..Len(outbox[w]) : outbox'[w][i] = outbox[w][k]
  PROVE  AnswersLabelled'
<1> SUFFICES ASSUME NEW w \in Workers
             PROVE  /\ task'[w] # None => Labelled(task'[w], reqid'[w], mapping'[w])
                    /\ \A i \in 1..Len(outbox'[w]) : outbox'[w][i].kind = "answer" =>
                         Labelled(outbox'[w][i].line, reqid'[w], mapping'[w])
  BY DEF AnswersLabelled
<1>1. task'[w] # None => Labelled(task'[w], reqid'[w], mapping'[w])
  BY DEF TypeOK, AnswersLabelled, KeepsLabels
<1>2. ASSUME NEW i \in 1..Len(outbox'[w]), outbox'[w][i].kind = "answer"
      PROVE  Labelled(outbox'[w][i].line, reqid'[w], mapping'[w])
  <2>1. PICK k \in 1..Len(outbox[w]) : outbox'[w][i] = outbox[w][k]
    OBVIOUS
  <2>2. outbox[w][k] \in ToParent
    BY ElementOfSeq DEF TypeOK
  <2>3. outbox[w][k].line \in Line
    BY <1>2, <2>1, <2>2 DEF ToParent
  <2>4. Labelled(outbox[w][k].line, reqid[w], mapping[w])
    BY <1>2, <2>1 DEF AnswersLabelled
  <2> QED BY <2>1, <2>3, <2>4 DEF KeepsLabels
<1> QED BY <1>1, <1>2

\* Reading or clearing a worker's pipe brings no new line into it.
LEMMA NoNewLines ==
  ASSUME TypeOK, NEW u \in Workers,
         \/ outbox' = [outbox EXCEPT ![u] = <<>>]
         \/ outbox' = outbox
         \/ outbox[u] # <<>> /\ outbox' = [outbox EXCEPT ![u] = Tail(@)]
  PROVE  \A w \in Workers : \A i \in 1..Len(outbox'[w]) :
           \E k \in 1..Len(outbox[w]) : outbox'[w][i] = outbox[w][k]
<1> SUFFICES ASSUME NEW w \in Workers, NEW i \in 1..Len(outbox'[w])
             PROVE  \E k \in 1..Len(outbox[w]) : outbox'[w][i] = outbox[w][k]
  OBVIOUS
<1>1. CASE outbox'[w] = outbox[w]
  BY <1>1
<1>2. CASE outbox'[w] = <<>>
  BY <1>2, EmptySeq
<1>3. CASE outbox[w] # <<>> /\ outbox'[w] = Tail(outbox[w])
  <2>1. outbox[w] \in Seq(ToParent) /\ Len(outbox[w]) \in Nat
    BY LenProperties DEF TypeOK
  <2>2. /\ Len(outbox'[w]) = Len(outbox[w]) - 1
        /\ outbox'[w][i] = outbox[w][i + 1]
    BY <1>3, <2>1, HeadTailProperties
  <2>3. i + 1 \in 1..Len(outbox[w])
    BY <2>1, <2>2
  <2> QED BY <2>2, <2>3
<1> QED BY <1>1, <1>2, <1>3 DEF TypeOK

\* A control line needs no label.
LEMMA ControlLine ==
  ASSUME TypeOK, AnswersLabelled, NEW u \in Workers, NEW m \in ToWorker, m.kind # "query",
         inbox' = Send(inbox, u, m), reqid' = reqid,
         \A w \in Workers : mapping'[w] = mapping[w] \/ mapping'[w] = None
  PROVE  /\ KeepsLabels
         /\ \A w \in Workers : InboxLabelled(w)'
         /\ \A w \in Workers : proc[w] # "alive" => inbox'[w] = inbox[w]
<1>1. KeepsLabels
  BY DEF KeepsLabels, Labelled
<1>2. ASSUME NEW w \in Workers PROVE InboxLabelled(w)'
  <2>1. \A i \in 1..Len(inbox[w]) :
          inbox[w][i].kind = "query" => Labelled(inbox[w][i], reqid'[w], mapping'[w])
    BY DEF AnswersLabelled, InboxLabelled, Labelled
  <2>2. reqid'[w] \in Nat
    BY DEF TypeOK
  <2>3. \A i \in 1..Len(Send(inbox, u, m)[w]) :
          Send(inbox, u, m)[w][i].kind = "query" =>
            Labelled(Send(inbox, u, m)[w][i], reqid'[w], mapping'[w])
    BY <2>1, <2>2, SendKeepsLabels
  <2> QED BY <2>3 DEF InboxLabelled
<1>3. \A w \in Workers : proc[w] # "alive" => inbox'[w] = inbox[w]
  BY DEF Send, TypeOK
<1> QED BY <1>1, <1>2, <1>3

\* The worker that wrote the line becomes idle, or is asked to die.
LEMMA NoteIdleKeeps ==
  ASSUME TypeOK, AnswersLabelled, PoolOK(idle, mapping, closed, child),
         NEW w \in Workers, mapping[w] # None, NoteIdleQueryWorker(w),
         NEW rep, NEW st, QueueOK(pending, [mapping EXCEPT ![w] = None], asked, rep, st)
  PROVE  /\ QueueOK(pending', mapping', asked, rep, st)
         /\ PoolOK(idle', mapping', closed, child)
         /\ KeepsLabels
         /\ \A v \in Workers : InboxLabelled(v)'
         /\ \A v \in Workers : proc[v] # "alive" => inbox'[v] = inbox[v]
<1> DEFINE M == [mapping EXCEPT ![w] = None]
<1>t. /\ idle \in Seq(Workers) /\ pending \in Seq(Query)
      /\ mapping \in [Workers -> Query \cup {None}] /\ Len(idle) \in Nat
  BY LenProperties DEF TypeOK
<1>m. /\ M \in [Workers -> Query \cup {None}]
      /\ M[w] = None /\ \A v \in Workers : M[v] = mapping[v] \/ M[v] = None
  BY <1>t
<1>i. \A i \in 1..Len(idle) : idle[i] \in Workers
  BY <1>t, ElementOfSeq
<1>1. PoolOK(idle, M, closed, child)
  <2>1. \A i \in 1..Len(idle) : idle[i] \notin closed => M[idle[i]] = None
    BY <1>m, <1>i DEF PoolOK
  <2> HIDE DEF M
  <2> QED BY <2>1, <1>m DEF PoolOK
<1>2. w \in child /\ w \notin closed /\ \A i \in 1..Len(idle) : idle[i] # w
  BY <1>i DEF PoolOK
<1>3. CASE /\ AskWorkerToDie(w)
           /\ mapping' = M
           /\ UNCHANGED <<idle, pending, reqid>>
  <2>1. /\ inbox' = Send(inbox, w, [kind |-> "shutdown"]) /\ reqid' = reqid
        /\ [kind |-> "shutdown"] \in ToWorker /\ [kind |-> "shutdown"].kind # "query"
    BY <1>3 DEF AskWorkerToDie, ToWorker
  <2>2. /\ KeepsLabels
        /\ \A v \in Workers : InboxLabelled(v)'
        /\ \A v \in Workers : proc[v] # "alive" => inbox'[v] = inbox[v]
    <3>1. \A v \in Workers : mapping'[v] = mapping[v] \/ mapping'[v] = None
      BY <1>3, <1>m
    <3> QED BY <2>1, <3>1, ControlLine
  <2> QED BY <1>1, <1>3, <2>2
<1>4. CASE ProcessQueues(Append(idle, w), pending, M)
  <2> DEFINE I == Append(idle, w)
  <2>1. /\ I \in Seq(Workers) /\ Len(I) = Len(idle) + 1 /\ I[Len(idle) + 1] = w
        /\ \A i \in 1..Len(idle) : I[i] = idle[i]
    BY <1>t, AppendProperties
  <2>2. \A i \in 1..Len(I) : i \in 1..Len(idle) \/ i = Len(idle) + 1
    BY <1>t, <2>1
  <2> HIDE DEF I, M
  <2>3. PoolOK(I, M, closed, child)
    <3>1. \A i \in 1..Len(I) : I[i] \notin closed => I[i] \in child /\ M[I[i]] = None
      BY <1>1, <1>2, <1>m, <2>1, <2>2 DEF PoolOK
    <3>2. \A i, j \in 1..Len(I) : I[i] \notin closed /\ j # i => I[j] # I[i]
      BY <1>1, <1>2, <2>1, <2>2 DEF PoolOK
    <3> QED BY <1>1, <3>1, <3>2 DEF PoolOK
  <2>4. ProcessQueues(I, pending, M)
    BY <1>4 DEF I
  <2>5. QueueOK(pending', mapping', asked, rep, st)
    BY <1>t, <1>m, <2>1, <2>4, ProcessQueuesQueueOK DEF M
  <2>6. PoolOK(idle', mapping', closed, child)
    BY <1>t, <1>m, <2>1, <2>3, <2>4, ProcessQueuesPoolOK
  <2>7. KeepsLabels /\ \A v \in Workers : InboxLabelled(v)'
    BY <1>t, <1>m, <2>1, <2>4, ProcessQueuesLabels DEF KeepsLabels
  <2>8. \A v \in Workers : proc[v] # "alive" => inbox'[v] = inbox[v]
    BY <1>t, <1>m, <2>1, <2>4, ProcessQueuesInbox
  <2> QED BY <2>5, <2>6, <2>7, <2>8
<1> QED BY <1>3, <1>4 DEF NoteIdleQueryWorker

LEMMA CloseKeepsPool ==
  ASSUME NEW I, NEW M, NEW cl, NEW ch, NEW w \in Workers, PoolOK(I, M, cl, ch), M[w] = None
  PROVE  PoolOK(I, M, cl \cup {w}, ch) /\ PoolOK(I, M, cl \cup {w}, ch \ {w})
BY DEF PoolOK

\* The dead worker's query moves to the front of the queue, and perhaps on.
LEMMA NoteDeadKeeps ==
  ASSUME TypeOK, AnswersLabelled, PoolOK(idle, mapping, closed, child),
         QueueOK(pending, mapping, asked, replies, status),
         NEW w \in Workers, NoteDeadWorkerConn(w)
  PROVE  /\ QueueOK(pending', mapping', asked, replies, status)
         /\ PoolOK(idle', mapping', closed \cup {w}, child)
         /\ PoolOK(idle', mapping', closed \cup {w}, child \ {w})
         /\ KeepsLabels
         /\ \A v \in Workers : InboxLabelled(v)'
         /\ \A v \in Workers : proc[v] # "alive" => inbox'[v] = inbox[v]
<1> DEFINE M == [mapping EXCEPT ![w] = None]
           P == <<mapping[w]>> \o pending
<1>t. /\ idle \in Seq(Workers) /\ pending \in Seq(Query)
      /\ mapping \in [Workers -> Query \cup {None}] /\ Len(pending) \in Nat
  BY LenProperties DEF TypeOK
<1>m. /\ M \in [Workers -> Query \cup {None}] /\ M[w] = None
      /\ \A v \in Workers : v # w => M[v] = mapping[v]
      /\ \A v \in Workers : M[v] = mapping[v] \/ M[v] = None
  BY <1>t
<1>i. \A i \in 1..Len(idle) : idle[i] \in Workers
  BY <1>t, ElementOfSeq
<1>1. CASE mapping[w] = None /\ UNCHANGED <<queueVars, inbox>>
  <2>1. /\ idle' = idle /\ pending' = pending /\ mapping' = mapping /\ reqid' = reqid
        /\ inbox' = inbox
    BY <1>1 DEF queueVars
  <2>2. KeepsLabels /\ \A v \in Workers : InboxLabelled(v)'
    BY <2>1 DEF KeepsLabels, AnswersLabelled, InboxLabelled
  <2> QED BY <1>1, <2>1, <2>2, CloseKeepsPool
<1>2. CASE mapping[w] # None /\ ProcessQueues(idle, P, M)
  <2>1. mapping[w] \in Query
    BY <1>2, <1>t
  <2>2. /\ P \in Seq(Query) /\ Len(P) = Len(pending) + 1 /\ P[1] = mapping[w]
        /\ \A i \in 1..Len(P) : i # 1 => i - 1 \in 1..Len(pending) /\ P[i] = pending[i - 1]
    <3>1. /\ <<mapping[w]>> \in Seq(Query) /\ Len(<<mapping[w]>>) = 1
          /\ <<mapping[w]>>[1] = mapping[w]
      BY <2>1
    <3> QED BY <3>1, <1>t, ConcatProperties
  <2>p. ProcessQueues(idle, P, M)
    BY <1>2
  <2> DEFINE D == 1..Len(pending)
             at == [i \in 1..Len(P) |-> i - 1]
  <2>3. /\ \A i \in 1..Len(P) : i # 1 => at[i] \in D /\ P[i] = pending[at[i]]
        /\ \A i, j \in 1..Len(P) : i # j => at[i] # at[j]
    BY <2>2, <1>t
  <2>4. QueueOK(P, M, asked, replies, status)
    <3> HIDE DEF P, M, at, D
    <3>1. /\ \A i \in D : Due(pending[i], asked, replies, status)
          /\ \A v \in Workers : mapping[v] # None => Due(mapping[v], asked, replies, status)
          /\ \A i, j \in D : i # j => Apart(pending[i], pending[j], status)
          /\ \A i \in D, v \in Workers : mapping[v] # None
                                           => Apart(pending[i], mapping[v], status)
          /\ \A u, v \in Workers : u # v /\ mapping[u] # None /\ mapping[v] # None
                                     => Apart(mapping[u], mapping[v], status)
      BY DEF QueueOK, D
    <3>2. \A x, y \in Query : Apart(x, y, status) => Apart(y, x, status)
      BY DEF Apart
    <3>3. \A i \in 1..Len(P) : Due(P[i], asked, replies, status)
      BY <1>2, <2>2, <2>3, <3>1
    <3>4. \A v \in Workers : M[v] # None => Due(M[v], asked, replies, status)
      BY <1>m, <3>1
    <3>5. \A i, j \in 1..Len(P) : i # j => Apart(P[i], P[j], status)
      <4> TAKE i, j \in 1..Len(P)
      <4>0. P[i] \in Query /\ P[j] \in Query
        BY <2>2, ElementOfSeq
      <4>1. CASE i # 1 /\ j # 1
        BY <2>3, <3>1, <4>1
      <4>2. CASE i = 1 /\ j # 1
        BY <1>2, <2>2, <2>3, <3>1, <3>2, <4>0, <4>2
      <4>3. CASE i # 1 /\ j = 1
        BY <1>2, <2>2, <2>3, <3>1, <3>2, <4>0, <4>3
      <4> QED BY <4>1, <4>2, <4>3
    <3>6. \A i \in 1..Len(P), v \in Workers : M[v] # None => Apart(P[i], M[v], status)
      BY <1>2, <1>m, <2>2, <2>3, <3>1
    <3>7. \A u, v \in Workers : u # v /\ M[u] # None /\ M[v] # None
                                 => Apart(M[u], M[v], status)
      BY <1>m, <3>1
    <3> QED BY <3>3, <3>4, <3>5, <3>6, <3>7 DEF QueueOK
  <2>5. PoolOK(idle, M, closed, child) /\ \A i \in 1..Len(idle) : idle[i] # w
    <3>1. \A i \in 1..Len(idle) : idle[i] \notin closed => M[idle[i]] = None
      BY <1>m, <1>i DEF PoolOK
    <3> HIDE DEF M
    <3> QED BY <1>2, <3>1, <1>m, <1>i DEF PoolOK
  <2> HIDE DEF P, M
  <2>6. QueueOK(pending', mapping', asked, replies, status)
    BY <1>t, <1>m, <2>2, <2>4, <2>p, ProcessQueuesQueueOK
  <2>7. PoolOK(idle', mapping', closed, child) /\ mapping'[w] = None
    BY <1>t, <1>m, <2>2, <2>5, <2>p, ProcessQueuesPoolOK
  <2>8. KeepsLabels /\ \A v \in Workers : InboxLabelled(v)'
    BY <1>t, <1>m, <2>2, <2>p, ProcessQueuesLabels DEF KeepsLabels
  <2>9. \A v \in Workers : proc[v] # "alive" => inbox'[v] = inbox[v]
    BY <1>t, <1>m, <2>2, <2>p, ProcessQueuesInbox
  <2> QED BY <2>6, <2>7, <2>8, <2>9, CloseKeepsPool
<1> QED BY <1>1, <1>2 DEF NoteDeadWorkerConn

--------------------------------------------------------------------------------

LEMMA InitReplies == Init => RepliesInv
<1> SUFFICES ASSUME Init PROVE RepliesInv
  OBVIOUS
<1>1. TypeOK
  BY InitType
<1>2. QueueOK(pending, mapping, asked, replies, status)
  BY EmptySeq DEF Init, QueueOK
<1>3. PoolOK(idle, mapping, closed, child)
  BY EmptySeq DEF Init, PoolOK
<1>4. AnswersLabelled
  BY EmptySeq DEF Init, AnswersLabelled, InboxLabelled
<1>5. NamesFree
  BY DEF Init, NamesFree
<1>6. RepliesMatch
  BY EmptySeq DEF Init, RepliesMatch
<1> QED BY <1>1, <1>2, <1>3, <1>4, <1>5, <1>6 DEF RepliesInv

\* Closing a client only takes obligations away.
LEMMA FewerOpen ==
  ASSUME NEW P \in Seq(Query), NEW M \in [Workers -> Query \cup {None}],
         NEW ask, NEW rep, NEW st, NEW st2, QueueOK(P, M, ask, rep, st),
         \A c \in Clients : st2[c] = "open" => st[c] = "open"
  PROVE  QueueOK(P, M, ask, rep, st2)
<1>1. \A q \in Query : Due(q, ask, rep, st) => Due(q, ask, rep, st2)
  BY DEF Due, Query
<1>2. \A p, q \in Query : Apart(p, q, st) => Apart(p, q, st2)
  BY DEF Apart, Query
<1>3. /\ \A i \in 1..Len(P) : P[i] \in Query
      /\ \A w \in Workers : M[w] # None => M[w] \in Query
  BY ElementOfSeq
<1> QED BY <1>1, <1>2, <1>3 DEF QueueOK

LEMMA EnqueueStep ==
  ASSUME RepliesInv, TypeOK', NEW c \in Clients, EnqueueCommandRequest(c)
  PROVE  RepliesInv'
<1> DEFINE q == [client |-> c, n |-> asked[c] + 1]
           P == Append(pending, q)
<1> USE DEF RepliesInv
<1>t. /\ idle \in Seq(Workers) /\ pending \in Seq(Query) /\ Len(pending) \in Nat
      /\ mapping \in [Workers -> Query \cup {None}] /\ asked \in [Clients -> Nat]
  BY LenProperties DEF TypeOK
<1>1. /\ q \in Query /\ q.client = c /\ q.n = asked[c] + 1
  BY <1>t DEF Query
<1>2. /\ P \in Seq(Query) /\ Len(P) = Len(pending) + 1 /\ P[Len(pending) + 1] = q
      /\ \A i \in 1..Len(P) : \/ i \in 1..Len(pending) /\ P[i] = pending[i]
                              \/ i = Len(pending) + 1
  BY <1>t, <1>1, AppendProperties
<1>3. /\ status[c] = "open" /\ asked[c] = Len(replies[c]) /\ asked'[c] = asked[c] + 1
      /\ \A d \in Clients : d # c => asked'[d] = asked[d]
      /\ replies' = replies /\ status' = status
      /\ ProcessQueues(idle, P, mapping)
      /\ UNCHANGED <<closed, child, proc, outbox, task>>
  BY <1>t DEF EnqueueCommandRequest, staffVars, connVars
<1> HIDE DEF q, P
\* The client waits for nothing, so no earlier query of it is about.
<1>4. \A x \in Query : Due(x, asked, replies, status) =>
        /\ x.client # c
        /\ Due(x, asked', replies, status)
        /\ Apart(x, q, status) /\ Apart(q, x, status)
  BY <1>1, <1>3, <1>t DEF Due, Apart, Query
<1>5. QueueOK(P, mapping, asked', replies, status)
  <2>1. /\ \A i \in 1..Len(pending) : pending[i] \in Query
        /\ \A i \in 1..Len(pending) : Due(pending[i], asked, replies, status)
        /\ \A w \in Workers : mapping[w] # None =>
             mapping[w] \in Query /\ Due(mapping[w], asked, replies, status)
    BY <1>t, ElementOfSeq DEF QueueOK
  <2>2. Due(q, asked', replies, status)
    BY <1>1, <1>3 DEF Due
  <2>3. \A i \in 1..Len(P) : Due(P[i], asked', replies, status)
    BY <1>2, <1>4, <2>1, <2>2
  <2>4. \A w \in Workers : mapping[w] # None => Due(mapping[w], asked', replies, status)
    BY <1>4, <2>1
  <2>5. \A i, j \in 1..Len(P) : i # j => Apart(P[i], P[j], status)
    BY <1>2, <1>4, <2>1 DEF QueueOK
  <2>6. \A i \in 1..Len(P), w \in Workers : mapping[w] # None
                                              => Apart(P[i], mapping[w], status)
    BY <1>2, <1>4, <2>1 DEF QueueOK
  <2>7. \A v, w \in Workers : v # w /\ mapping[v] # None /\ mapping[w] # None
                                => Apart(mapping[v], mapping[w], status)
    BY DEF QueueOK
  <2> QED BY <2>3, <2>4, <2>5, <2>6, <2>7 DEF QueueOK
<1>6. QueueOK(pending', mapping', asked', replies, status)
  BY <1>t, <1>2, <1>3, <1>5, ProcessQueuesQueueOK
<1>7. PoolOK(idle', mapping', closed, child)
  BY <1>t, <1>2, <1>3, ProcessQueuesPoolOK
<1>8. KeepsLabels /\ \A w \in Workers : InboxLabelled(w)'
  BY <1>t, <1>2, <1>3, ProcessQueuesLabels DEF KeepsLabels
<1>9. AnswersLabelled'
  BY <1>3, <1>8, LabelsKept
<1>10. NamesFree'
  <2>1. \A w \in Workers : proc[w] # "alive" => inbox'[w] = inbox[w]
    BY <1>t, <1>2, <1>3, ProcessQueuesInbox
  <2> QED BY <1>3, <2>1 DEF NamesFree
<1>11. RepliesMatch'
  BY <1>3 DEF RepliesMatch
<1> QED BY <1>3, <1>6, <1>7, <1>9, <1>10, <1>11

LEMMA ClientCloseStep ==
  ASSUME RepliesInv, TypeOK', NEW c \in Clients, ClientClose(c)
  PROVE  RepliesInv'
<1> USE DEF RepliesInv
<1>1. /\ \A d \in Clients : status'[d] = "open" => status[d] = "open"
      /\ pending \in Seq(Query) /\ mapping \in [Workers -> Query \cup {None}]
  BY DEF ClientClose, TypeOK
<1>2. UNCHANGED <<asked, replies, queueVars, staffVars, connVars, pipeVars>>
  BY DEF ClientClose
<1>3. QueueOK(pending', mapping', asked', replies', status')
  BY <1>1, <1>2, FewerOpen DEF queueVars
<1>4. AnswersLabelled'
  BY <1>2 DEF AnswersLabelled, InboxLabelled, queueVars, pipeVars
<1>5. PoolOK(idle', mapping', closed', child')
  BY <1>2 DEF queueVars, staffVars, connVars
<1>6. NamesFree' /\ RepliesMatch'
  BY <1>2 DEF NamesFree, RepliesMatch, staffVars, connVars, pipeVars
<1> QED BY <1>3, <1>4, <1>5, <1>6

\* Culling takes idle workers off the list and sends them a control line.
LEMMA RequestStep ==
  ASSUME RepliesInv, TypeOK', NEW j \in Jobs, NEW n \in Wanted, RequestJobProcess(j, n)
  PROVE  RepliesInv'
<1> DEFINE k == IF j = QueryWorker THEN CullCount(n) ELSE 0
           culled == {idle[i] : i \in 1..k}
<1> USE DEF RepliesInv
<1>1. n \in Nat /\ Len(idle) \in Nat /\ idle \in Seq(Workers)
      /\ current[QueryWorker] \in Int
  BY WantedAssumption, JobAssumption, LenProperties DEF TypeOK
<1>2. k \in Nat /\ k <= Len(idle)
  BY <1>1 DEF CullCount
<1>3. /\ UNCHANGED <<clientVars, pending, mapping, reqid, child, connVars, outbox, task>>
      /\ idle' = SubSeq(idle, k + 1, Len(idle))
      /\ inbox' = [w \in Workers |-> IF w \in culled
                                     THEN Send(inbox, w, [kind |-> "shutdown"])[w]
                                     ELSE inbox[w]]
  BY DEF RequestJobProcess
<1> HIDE DEF k, culled
<1>4. PoolOK(idle', mapping', closed', child')
  <2>1. /\ Len(idle') = Len(idle) - k
        /\ \A i \in 1..Len(idle') : /\ k + i \in 1..Len(idle)
                                    /\ idle'[i] = idle[k + i]
                                    /\ \A l \in 1..Len(idle') : l # i => k + l # k + i
    BY <1>1, <1>2, <1>3, SubSeqProperties
  <2> DEFINE at == [i \in 1..Len(idle') |-> k + i]
  <2>2. \A i \in 1..Len(idle') : /\ at[i] \in 1..Len(idle)
                                 /\ idle'[i] = idle[at[i]]
                                 /\ \A l \in 1..Len(idle') : l # i => at[l] # at[i]
    BY <2>1
  <2> HIDE DEF at
  <2>3. mapping' = mapping /\ closed' = closed /\ child' = child
    BY <1>3 DEF connVars
  <2>4. \A i \in 1..Len(idle') : idle'[i] \notin closed =>
          /\ idle'[i] \in child /\ mapping[idle'[i]] = None
          /\ \A l \in 1..Len(idle') : l # i => idle'[l] # idle'[i]
    BY <2>2 DEF PoolOK
  <2> QED BY <2>3, <2>4 DEF PoolOK
<1>5. ASSUME NEW w \in Workers PROVE InboxLabelled(w)' /\ (proc[w] # "alive" => inbox'[w] = inbox[w])
  <2>1. CASE inbox'[w] = inbox[w]
    BY <1>3, <2>1 DEF AnswersLabelled, InboxLabelled
  <2>2. CASE inbox'[w] = Send(inbox, w, [kind |-> "shutdown"])[w]
    <3>1. [kind |-> "shutdown"] \in ToWorker /\ [kind |-> "shutdown"].kind # "query"
      BY DEF ToWorker
    <3>2. reqid[w] \in Nat
      BY DEF TypeOK
    <3>3. \A i \in 1..Len(inbox'[w]) :
            inbox'[w][i].kind = "query" => Labelled(inbox'[w][i], reqid[w], mapping[w])
      BY <2>2, <3>1, <3>2, SendKeepsLabels DEF AnswersLabelled, InboxLabelled
    <3>4. proc[w] # "alive" => inbox'[w] = inbox[w]
      BY <2>2 DEF Send
    <3> QED BY <1>3, <3>3, <3>4 DEF InboxLabelled
  <2> QED BY <1>3, <2>1, <2>2
<1>6. AnswersLabelled' /\ NamesFree'
  BY <1>3, <1>5 DEF AnswersLabelled, NamesFree, connVars
<1>7. QueueOK(pending', mapping', asked', replies', status') /\ RepliesMatch'
  BY <1>3 DEF clientVars, RepliesMatch
<1> QED BY <1>4, <1>6, <1>7

LEMMA RelayStep ==
  ASSUME RepliesInv, TypeOK', NEW w \in Workers, RelayAnswer(w)
  PROVE  RepliesInv'
<1> DEFINE c == Asker(w)
           M == [mapping EXCEPT ![w] = None]
<1> USE DEF RepliesInv
<1>t. /\ pending \in Seq(Query) /\ mapping \in [Workers -> Query \cup {None}]
      /\ replies \in [Clients -> Seq(Query)] /\ asked \in [Clients -> Nat]
      /\ outbox[w] \in Seq(ToParent) /\ outbox[w] # <<>>
  BY DEF TypeOK, RelayAnswer, ReadLine
<1>1. /\ mapping[w] # None /\ mapping[w] \in Query /\ c \in Clients /\ c = mapping[w].client
      /\ status[c] = "open"
  BY <1>t DEF RelayAnswer, Open, Asker, Query
\* The line answers the query the worker is mapped to.
<1>2. Answer(w).query = mapping[w]
  <2>1. 1 \in 1..Len(outbox[w]) /\ Head(outbox[w]) = outbox[w][1]
    BY <1>t, HeadTailProperties, LenProperties, EmptySeq
  <2>2. Labelled(Answer(w), reqid[w], mapping[w])
    BY <2>1 DEF AnswersLabelled, Answer, RelayAnswer, ReadLine
  <2> QED BY <1>1, <2>2 DEF Labelled, RelayAnswer, IdMatches
\* It is the one the client waits for.
<1>3. mapping[w] = [client |-> c, n |-> Len(replies[c]) + 1]
  <2>1. mapping[w].n = asked[c] /\ asked[c] = Len(replies[c]) + 1
    BY <1>1 DEF QueueOK, Due
  <2> QED BY <1>1, <2>1 DEF Query
<1>4. /\ replies'[c] = Append(replies[c], mapping[w])
      /\ \A d \in Clients : d # c => replies'[d] = replies[d]
      /\ UNCHANGED <<asked, status, closed, child, proc, task>>
      /\ NoteIdleQueryWorker(w)
      /\ outbox[w] # <<>> /\ outbox' = [outbox EXCEPT ![w] = Tail(@)]
  BY <1>t, <1>1, <1>2 DEF RelayAnswer, ReadLine, connVars
<1>5. RepliesMatch'
  <2>1. ASSUME NEW d \in Clients, NEW i \in 1..Len(replies'[d])
        PROVE  replies'[d][i] = [client |-> d, n |-> i]
    <3>1. CASE d # c
      BY <1>4, <3>1 DEF RepliesMatch
    <3>2. CASE d = c
      <4>1. /\ replies[c] \in Seq(Query) /\ Len(replies[c]) \in Nat
            /\ Len(replies'[c]) = Len(replies[c]) + 1
            /\ replies'[c][Len(replies[c]) + 1] = mapping[w]
            /\ \A l \in 1..Len(replies[c]) : replies'[c][l] = replies[c][l]
        BY <1>t, <1>1, <1>4, AppendProperties, LenProperties
      <4>2. CASE i = Len(replies[c]) + 1
        BY <1>3, <3>2, <4>1, <4>2
      <4>3. CASE i # Len(replies[c]) + 1
        <5>1. i \in 1..Len(replies[c])
          BY <3>2, <4>1, <4>3
        <5>2. replies[c][i] = [client |-> c, n |-> i]
          BY <1>1, <5>1 DEF RepliesMatch
        <5> QED BY <3>2, <4>1, <5>1, <5>2
      <4> QED BY <4>2, <4>3
    <3> QED BY <3>1, <3>2
  <2> QED BY <2>1 DEF RepliesMatch
\* No other place holds a query of this client.
<1>6. QueueOK(pending, M, asked, replies', status)
  <2>1. \A q \in Query : Due(q, asked, replies, status) /\ Apart(q, mapping[w], status)
                           => Due(q, asked, replies', status)
    BY <1>1, <1>4 DEF Due, Apart, Query
  <2>2. \A i \in 1..Len(pending) : Due(pending[i], asked, replies', status)
    BY <1>t, <1>1, <2>1, ElementOfSeq DEF QueueOK
  <2>3. \A v \in Workers : M[v] # None => v # w /\ M[v] = mapping[v]
    BY <1>t
  <2>4. \A v \in Workers : M[v] # None => Due(M[v], asked, replies', status)
    <3>1. ASSUME NEW v \in Workers, v # w, mapping[v] # None
          PROVE  Due(mapping[v], asked, replies', status)
      BY <1>t, <1>1, <2>1, <3>1 DEF QueueOK
    <3> QED BY <2>3, <3>1
  <2> HIDE DEF M
  <2>5. /\ \A i, j \in 1..Len(pending) : i # j => Apart(pending[i], pending[j], status)
        /\ \A i \in 1..Len(pending), v \in Workers : M[v] # None
                                                  => Apart(pending[i], M[v], status)
    BY <2>3 DEF QueueOK
  <2>6. \A u, v \in Workers : u # v /\ M[u] # None /\ M[v] # None
                               => Apart(M[u], M[v], status)
    BY <2>3 DEF QueueOK
  <2> QED BY <2>2, <2>4, <2>5, <2>6 DEF QueueOK
<1>7. /\ QueueOK(pending', mapping', asked, replies', status)
      /\ PoolOK(idle', mapping', closed, child)
      /\ KeepsLabels /\ \A v \in Workers : InboxLabelled(v)'
      /\ \A v \in Workers : proc[v] # "alive" => inbox'[v] = inbox[v]
  BY <1>1, <1>4, <1>6, NoteIdleKeeps
<1>8. AnswersLabelled'
  <2>1. \A v \in Workers : \A i \in 1..Len(outbox'[v]) :
          \E l \in 1..Len(outbox[v]) : outbox'[v][i] = outbox[v][l]
    BY <1>4, NoNewLines
  <2> QED BY <1>4, <1>7, <2>1, LabelsKept
<1>9. NamesFree'
  <2>1. proc[w] = "none" => FALSE
    BY <1>t DEF NamesFree
  <2>2. \A v \in Workers : v # w => outbox'[v] = outbox[v]
    BY <1>4 DEF TypeOK
  <2> QED BY <1>4, <1>7, <2>1, <2>2 DEF NamesFree
<1> QED BY <1>4, <1>5, <1>7, <1>8, <1>9

\* What every handler of a worker's line leaves in the pipes.
LEMMA LineRead ==
  ASSUME RepliesInv, NEW w \in Workers, NEW kind, ReadLine(w, kind),
         KeepsLabels, \A v \in Workers : InboxLabelled(v)',
         \A v \in Workers : proc[v] # "alive" => inbox'[v] = inbox[v],
         UNCHANGED <<proc, task, child>>
  PROVE  AnswersLabelled' /\ NamesFree'
<1> USE DEF RepliesInv
<1>1. outbox[w] # <<>> /\ outbox' = [outbox EXCEPT ![w] = Tail(@)]
  BY DEF ReadLine
<1>2. AnswersLabelled'
  <2>1. \A v \in Workers : \A i \in 1..Len(outbox'[v]) :
          \E l \in 1..Len(outbox[v]) : outbox'[v][i] = outbox[v][l]
    BY <1>1, NoNewLines
  <2> QED BY <2>1, LabelsKept
<1>3. NamesFree'
  <2>1. proc[w] = "none" => FALSE
    BY <1>1 DEF NamesFree
  <2>2. \A v \in Workers : v # w => outbox'[v] = outbox[v]
    BY <1>1 DEF TypeOK
  <2> QED BY <2>1, <2>2 DEF NamesFree
<1> QED BY <1>2, <1>3

LEMMA ReadStep ==
  ASSUME RepliesInv, TypeOK', NEW w \in Workers,
         IgnoreAnswer(w) \/ DropAnswer(w) \/ MismatchedAnswer(w) \/ AnswerPing(w)
  PROVE  RepliesInv'
<1> USE DEF RepliesInv
<1>1. CASE IgnoreAnswer(w)
  <2>1. /\ ReadLine(w, "answer")
        /\ UNCHANGED <<asked, replies, status, pending, idle, mapping, reqid, closed, child,
                       proc, inbox, task>>
    BY <1>1 DEF IgnoreAnswer, clientVars, queueVars, staffVars, connVars
  <2>2. AnswersLabelled' /\ NamesFree'
    <3>1. KeepsLabels /\ \A v \in Workers : InboxLabelled(v)'
      BY <2>1 DEF KeepsLabels, AnswersLabelled, InboxLabelled
    <3> QED BY <2>1, <3>1, LineRead
  <2> QED BY <2>1, <2>2 DEF RepliesMatch
<1>2. CASE DropAnswer(w)
  <2>1. /\ ReadLine(w, "answer") /\ mapping[w] # None /\ NoteIdleQueryWorker(w)
        /\ UNCHANGED <<asked, replies, status, closed, child, proc, task>>
    BY <1>2 DEF DropAnswer, clientVars, connVars
  <2>2. QueueOK(pending, [mapping EXCEPT ![w] = None], asked, replies, status)
    <3> DEFINE M == [mapping EXCEPT ![w] = None]
    <3>1. \A v \in Workers : M[v] # None => M[v] = mapping[v]
      BY DEF TypeOK
    <3> HIDE DEF M
    <3>2. QueueOK(pending, M, asked, replies, status)
      BY <3>1 DEF QueueOK
    <3> QED BY <3>2 DEF M
  <2>3. /\ QueueOK(pending', mapping', asked, replies, status)
        /\ PoolOK(idle', mapping', closed, child)
        /\ KeepsLabels /\ \A v \in Workers : InboxLabelled(v)'
        /\ \A v \in Workers : proc[v] # "alive" => inbox'[v] = inbox[v]
    BY <2>1, <2>2, NoteIdleKeeps
  <2>4. AnswersLabelled' /\ NamesFree'
    BY <2>1, <2>3, LineRead
  <2> QED BY <2>1, <2>3, <2>4 DEF RepliesMatch
<1>3. CASE MismatchedAnswer(w)
  <2>1. /\ ReadLine(w, "answer")
        /\ inbox' = Send(inbox, w, [kind |-> "shutdown"])
        /\ status' = [status EXCEPT ![Asker(w)] = "mismatch"]
        /\ UNCHANGED <<asked, replies, pending, idle, mapping, reqid, closed, child,
                       proc, task>>
    BY <1>3 DEF MismatchedAnswer, AskWorkerToDie, queueVars, connVars
  <2>2. [kind |-> "shutdown"] \in ToWorker /\ [kind |-> "shutdown"].kind # "query"
    BY DEF ToWorker
  <2>3. AnswersLabelled' /\ NamesFree'
    <3>1. /\ KeepsLabels /\ \A v \in Workers : InboxLabelled(v)'
          /\ \A v \in Workers : proc[v] # "alive" => inbox'[v] = inbox[v]
      BY <2>1, <2>2, ControlLine
    <3> QED BY <2>1, <3>1, LineRead
  <2>4. QueueOK(pending', mapping', asked', replies', status')
    <3>1. /\ \A d \in Clients : status'[d] = "open" => status[d] = "open"
          /\ pending \in Seq(Query) /\ mapping \in [Workers -> Query \cup {None}]
      BY <2>1 DEF TypeOK
    <3> QED BY <2>1, <3>1, FewerOpen
  <2> QED BY <2>1, <2>3, <2>4 DEF RepliesMatch
<1>4. CASE AnswerPing(w)
  <2>1. PICK m \in {[kind |-> "shutdown"], [kind |-> "stay_alive"]} :
             inbox' = Send(inbox, w, m)
    BY <1>4 DEF AnswerPing, AskWorkerToDie
  <2>2. /\ ReadLine(w, ":ping")
        /\ UNCHANGED <<asked, replies, status, pending, idle, mapping, reqid, closed, child,
                       proc, task>>
    BY <1>4 DEF AnswerPing, clientVars, queueVars, connVars
  <2>3. m \in ToWorker /\ m.kind # "query"
    BY DEF ToWorker
  <2>4. AnswersLabelled' /\ NamesFree'
    <3>1. /\ KeepsLabels /\ \A v \in Workers : InboxLabelled(v)'
          /\ \A v \in Workers : proc[v] # "alive" => inbox'[v] = inbox[v]
      BY <2>1, <2>2, <2>3, ControlLine
    <3> QED BY <2>2, <3>1, LineRead
  <2> QED BY <2>2, <2>4 DEF RepliesMatch
<1> QED BY <1>1, <1>2, <1>3, <1>4

\* Both ways the parent learns of a death: the end of the pipe, and waitpid.
LEMMA DeathStep ==
  ASSUME RepliesInv, TypeOK', NEW w \in Workers, CloseDeadConn(w) \/ ReapChild(w)
  PROVE  RepliesInv'
<1> USE DEF RepliesInv
<1>1. /\ proc[w] = "dead"
      /\ outbox' = [outbox EXCEPT ![w] = <<>>]
      /\ UNCHANGED <<asked, replies, status, task>>
      /\ closed' = closed \cup {w}
      /\ \/ child' = child /\ proc' = proc
         \/ child' = child \ {w} /\ proc' = [proc EXCEPT ![w] = "none"]
  <2>1. CASE CloseDeadConn(w)
    BY <2>1 DEF CloseDeadConn, clientVars, staffVars
  <2>2. CASE ReapChild(w)
    BY <2>2 DEF ReapChild, clientVars
  <2> QED BY <2>1, <2>2
<1>2. /\ QueueOK(pending', mapping', asked, replies, status)
      /\ PoolOK(idle', mapping', closed', child')
      /\ KeepsLabels /\ \A v \in Workers : InboxLabelled(v)'
      /\ \A v \in Workers : proc[v] # "alive" => inbox'[v] = inbox[v]
  <2>1. CASE NoteDeadWorkerConn(w)
    BY <1>1, <2>1, NoteDeadKeeps
  <2>2. CASE w \in closed /\ UNCHANGED <<queueVars, inbox>>
    <3>1. UNCHANGED <<pending, idle, mapping, reqid, inbox>> /\ mapping[w] = None
      BY <2>2 DEF queueVars, PoolOK
    <3>2. KeepsLabels /\ \A v \in Workers : InboxLabelled(v)'
      BY <3>1 DEF KeepsLabels, AnswersLabelled, InboxLabelled
    <3>3. /\ PoolOK(idle, mapping, closed \cup {w}, child)
          /\ PoolOK(idle, mapping, closed \cup {w}, child \ {w})
      BY <3>1, CloseKeepsPool
    <3>4. PoolOK(idle', mapping', closed', child')
      BY <1>1, <3>1, <3>3
    <3>5. QueueOK(pending', mapping', asked, replies, status)
      BY <3>1
    <3> QED BY <3>1, <3>2, <3>4, <3>5
  <2> QED BY <2>1, <2>2 DEF CloseDeadConn, ReapChild, Connected
<1>3. AnswersLabelled'
  <2>1. \A v \in Workers : \A i \in 1..Len(outbox'[v]) :
          \E l \in 1..Len(outbox[v]) : outbox'[v][i] = outbox[v][l]
    BY <1>1, NoNewLines
  <2> QED BY <1>1, <1>2, <2>1, LabelsKept
<1>4. NamesFree'
  <2>1. outbox'[w] = <<>> /\ \A v \in Workers : v # w => outbox'[v] = outbox[v]
    BY <1>1 DEF TypeOK
  <2>2. \A v \in Workers : v # w => proc'[v] = proc[v]
    BY <1>1 DEF TypeOK
  <2>3. proc'[w] # "alive" /\ inbox[w] = <<>> /\ task[w] = None
    BY <1>1 DEF TypeOK, NamesFree
  <2>4. \A v \in Workers : v \in child' => proc'[v] # "none"
    BY <1>1, <2>2 DEF NamesFree
  <2> QED BY <1>1, <1>2, <2>1, <2>2, <2>3, <2>4 DEF NamesFree
<1>5. RepliesMatch'
  BY <1>1 DEF RepliesMatch
<1> QED BY <1>1, <1>2, <1>3, <1>4, <1>5

\* A name is given to a new process only when nothing refers to the old one.
LEMMA ForkStep ==
  ASSUME RepliesInv, TypeOK', NEW j \in Jobs, NEW w \in Workers, Fork(j, w)
  PROVE  RepliesInv'
<1> USE DEF RepliesInv
<1>1. /\ proc[w] = "none" /\ \A i \in 1..Len(idle) : idle[i] # w
      /\ proc' = [proc EXCEPT ![w] = "alive"] /\ closed' = closed \ {w}
      /\ reqid' = [reqid EXCEPT ![w] = 0]
      /\ UNCHANGED <<asked, replies, status, pending, idle, mapping, child, inbox, outbox,
                     task>>
  BY DEF Fork, Unused, clientVars, pipeVars
<1>2. w \notin child /\ mapping[w] = None /\ inbox[w] = <<>> /\ outbox[w] = <<>>
      /\ task[w] = None
  BY <1>1 DEF NamesFree, PoolOK
<1>3. PoolOK(idle', mapping', closed', child')
  BY <1>1, <1>2 DEF PoolOK
<1>4. AnswersLabelled'
  <2>1. \A v \in Workers : v # w => reqid'[v] = reqid[v]
    BY <1>1 DEF TypeOK
  <2>2. Len(inbox[w]) = 0 /\ Len(outbox[w]) = 0
    BY <1>2
  <2> QED BY <1>1, <1>2, <2>1, <2>2 DEF AnswersLabelled, InboxLabelled
<1>5. NamesFree'
  BY <1>1, <1>2 DEF NamesFree, TypeOK
<1> QED BY <1>1, <1>3, <1>4, <1>5 DEF RepliesMatch

LEMMA RegisterStep ==
  ASSUME RepliesInv, TypeOK', NEW w \in Workers, RegisterWorkerConn(w)
  PROVE  RepliesInv'
<1> USE DEF RepliesInv
<1>t. /\ idle \in Seq(Workers) /\ pending \in Seq(Query)
      /\ mapping \in [Workers -> Query \cup {None}] /\ Len(idle) \in Nat
  BY LenProperties DEF TypeOK
<1>1. /\ proc[w] # "none" /\ w \notin child /\ child' = child \cup {w}
      /\ UNCHANGED <<asked, replies, status, closed, proc, outbox, task>>
  BY DEF RegisterWorkerConn, clientVars, connVars
<1>2. PoolOK(idle, mapping, closed, child')
  BY <1>1 DEF PoolOK
<1>3. /\ QueueOK(pending', mapping', asked, replies, status)
      /\ PoolOK(idle', mapping', closed, child')
      /\ KeepsLabels /\ \A v \in Workers : InboxLabelled(v)'
      /\ \A v \in Workers : proc[v] # "alive" => inbox'[v] = inbox[v]
  <2>1. CASE UNCHANGED <<queueVars, inbox>>
    <3>1. UNCHANGED <<pending, idle, mapping, reqid, inbox>>
      BY <2>1 DEF queueVars
    <3>2. KeepsLabels /\ \A v \in Workers : InboxLabelled(v)'
      BY <3>1 DEF KeepsLabels, AnswersLabelled, InboxLabelled
    <3> QED BY <1>2, <3>1, <3>2
  <2>2. CASE ProcessQueues(Append(idle, w), pending, mapping)
    <3> DEFINE I == Append(idle, w)
    <3>1. /\ I \in Seq(Workers) /\ Len(I) = Len(idle) + 1 /\ I[Len(idle) + 1] = w
          /\ \A i \in 1..Len(idle) : I[i] = idle[i]
      BY <1>t, AppendProperties
    <3>2. \A i \in 1..Len(I) : i \in 1..Len(idle) \/ i = Len(idle) + 1
      BY <1>t, <3>1
    <3>p. ProcessQueues(I, pending, mapping)
      BY <2>2
    <3> HIDE DEF I
    <3>3. PoolOK(I, mapping, closed, child')
      <4>1. \A i \in 1..Len(idle) : idle[i] = w => w \in closed
        BY <1>1 DEF PoolOK
      <4>2. mapping[w] = None
        BY <1>1 DEF PoolOK
      <4>3. \A i \in 1..Len(I) : I[i] \notin closed =>
              I[i] \in child' /\ mapping[I[i]] = None
        BY <1>1, <1>2, <3>1, <3>2, <4>2 DEF PoolOK
      <4>4. \A i, l \in 1..Len(I) : I[i] \notin closed /\ l # i => I[l] # I[i]
        BY <1>2, <3>1, <3>2, <4>1 DEF PoolOK
      <4> QED BY <1>2, <4>3, <4>4 DEF PoolOK
    <3>4. QueueOK(pending', mapping', asked, replies, status)
      BY <1>t, <3>1, <3>p, ProcessQueuesQueueOK
    <3>5. PoolOK(idle', mapping', closed, child')
      BY <1>t, <3>1, <3>3, <3>p, ProcessQueuesPoolOK
    <3>6. KeepsLabels /\ \A v \in Workers : InboxLabelled(v)'
      BY <1>t, <3>1, <3>p, ProcessQueuesLabels DEF KeepsLabels
    <3>7. \A v \in Workers : proc[v] # "alive" => inbox'[v] = inbox[v]
      BY <1>t, <3>1, <3>p, ProcessQueuesInbox
    <3> QED BY <3>4, <3>5, <3>6, <3>7
  <2> QED BY <2>1, <2>2 DEF RegisterWorkerConn
<1>4. AnswersLabelled'
  BY <1>1, <1>3, LabelsKept
<1>5. NamesFree'
  BY <1>1, <1>3 DEF NamesFree
<1> QED BY <1>1, <1>3, <1>4, <1>5 DEF RepliesMatch

LEMMA WorkerStep ==
  ASSUME RepliesInv, TypeOK', NEW w \in Workers, WorkerRuns(w) \/ Crash(w)
  PROVE  RepliesInv'
<1> USE DEF RepliesInv
<1>1. /\ UNCHANGED <<asked, replies, status, pending, idle, mapping, reqid, child, closed>>
      /\ proc[w] = "alive"
  BY DEF WorkerRuns, TakeQuery, WriteLine, ObeyShutdown, ParentPing, HearStayAlive, Crash,
         Hears, clientVars, queueVars, staffVars, connVars
<1>2. /\ QueueOK(pending', mapping', asked', replies', status')
      /\ PoolOK(idle', mapping', closed', child') /\ RepliesMatch'
  BY <1>1 DEF RepliesMatch
<1>t. /\ inbox[w] \in Seq(ToWorker) /\ outbox[w] \in Seq(ToParent)
      /\ task[w] \in Task \cup {None} /\ reqid[w] \in Nat
      /\ Len(inbox[w]) \in Nat /\ Len(outbox[w]) \in Nat
  BY LenProperties DEF TypeOK
<1>3. AnswersLabelled' /\ NamesFree'
  <2>0. SUFFICES ASSUME \A v \in Workers : v # w => /\ inbox'[v] = inbox[v]
                                                    /\ outbox'[v] = outbox[v]
                                                    /\ task'[v] = task[v]
                                                    /\ proc'[v] = proc[v]
                 PROVE /\ InboxLabelled(w)'
                       /\ task'[w] # None => Labelled(task'[w], reqid[w], mapping[w])
                       /\ \A i \in 1..Len(outbox'[w]) : outbox'[w][i].kind = "answer" =>
                            Labelled(outbox'[w][i].line, reqid[w], mapping[w])
                       /\ proc'[w] # "none"
                       /\ proc'[w] # "alive" => inbox'[w] = <<>> /\ task'[w] = None
    <3>1. \A v \in Workers : v # w => /\ inbox'[v] = inbox[v] /\ outbox'[v] = outbox[v]
                                      /\ task'[v] = task[v] /\ proc'[v] = proc[v]
      BY DEF WorkerRuns, TakeQuery, WriteLine, ObeyShutdown, ParentPing, HearStayAlive,
             Crash, Dies, TypeOK, connVars, pipeVars
    <3>2. \A v \in Workers : v # w => InboxLabelled(v)'
      BY <1>1, <3>1 DEF AnswersLabelled, InboxLabelled
    <3> QED BY <1>1, <3>1, <3>2 DEF AnswersLabelled, NamesFree
  <2>t. /\ inbox[w] # <<>> => /\ Head(inbox[w]) = inbox[w][1] /\ 1 \in 1..Len(inbox[w])
                              /\ Head(inbox[w]) \in ToWorker
                              /\ Len(Tail(inbox[w])) = Len(inbox[w]) - 1
                              /\ \A i \in 1..Len(Tail(inbox[w])) :
                                   /\ i + 1 \in 1..Len(inbox[w])
                                   /\ Tail(inbox[w])[i] = inbox[w][i + 1]
    BY <1>t, HeadTailProperties, LenProperties, EmptySeq
  <2>tail. inbox[w] # <<>> /\ inbox'[w] = Tail(inbox[w]) => InboxLabelled(w)'
    BY <1>1, <2>t DEF AnswersLabelled, InboxLabelled
  <2>1. CASE TakeQuery(w)
    <3>1. /\ inbox[w] # <<>> /\ Head(inbox[w]).kind = "query"
          /\ inbox'[w] = Tail(inbox[w]) /\ outbox' = outbox /\ proc' = proc
          /\ task'[w].id = Head(inbox[w]).id /\ task'[w].query = Head(inbox[w]).query
      BY <2>1 DEF TakeQuery, Hears, TypeOK, connVars
    <3>2. Labelled(Head(inbox[w]), reqid[w], mapping[w])
      BY <2>t, <3>1 DEF AnswersLabelled, InboxLabelled
    <3>3. Labelled(task'[w], reqid[w], mapping[w])
      BY <3>1, <3>2 DEF Labelled
    <3> QED BY <1>1, <2>tail, <3>1, <3>3 DEF AnswersLabelled
  <2>2. CASE WriteLine(w)
    <3> DEFINE m == [kind |-> "answer",
                     line |-> [id |-> task[w].id, query |-> task[w].query]]
    <3>1. /\ outbox'[w] = Append(outbox[w], m) /\ task[w] # None
          /\ task'[w] = AfterALine(task[w])
          /\ inbox' = inbox /\ proc' = proc
      BY <2>2 DEF WriteLine, TypeOK, connVars
    <3>2. Labelled(task[w], reqid[w], mapping[w])
      BY <3>1 DEF AnswersLabelled
    <3>3. m.kind = "answer" => Labelled(m.line, reqid[w], mapping[w])
      BY <3>2 DEF Labelled
    <3>4. task'[w] # None => Labelled(task'[w], reqid[w], mapping[w])
      BY <1>t, <3>1, <3>2 DEF Labelled, AfterALine, Task
    <3> HIDE DEF m
    <3>5. /\ Len(outbox'[w]) = Len(outbox[w]) + 1 /\ outbox'[w][Len(outbox[w]) + 1] = m
          /\ \A i \in 1..Len(outbox[w]) : outbox'[w][i] = outbox[w][i]
      <4>1. m \in ToParent
        BY <1>t, <3>1 DEF m, ToParent, Line, Task
      <4> QED BY <1>t, <3>1, <4>1, AppendProperties
    <3>6. \A i \in 1..Len(outbox'[w]) : outbox'[w][i].kind = "answer" =>
            Labelled(outbox'[w][i].line, reqid[w], mapping[w])
      <4> TAKE i \in 1..Len(outbox'[w])
      <4>1. CASE i = Len(outbox[w]) + 1
        BY <3>3, <3>5, <4>1
      <4>2. CASE i # Len(outbox[w]) + 1
        <5>1. i \in 1..Len(outbox[w])
          BY <1>t, <3>5, <4>2
        <5> QED BY <3>5, <5>1 DEF AnswersLabelled
      <4> QED BY <4>1, <4>2
    <3>7. InboxLabelled(w)'
      BY <1>1, <3>1 DEF AnswersLabelled, InboxLabelled
    <3> QED BY <1>1, <3>1, <3>4, <3>6, <3>7
  <2>3. CASE ObeyShutdown(w) \/ Crash(w)
    <3>1. /\ inbox'[w] = <<>> /\ task'[w] = None /\ proc'[w] = "dead" /\ outbox' = outbox
      BY <2>3 DEF ObeyShutdown, Crash, Dies, TypeOK
    <3>2. InboxLabelled(w)'
      BY <3>1, EmptySeq DEF InboxLabelled
    <3> QED BY <3>1, <3>2 DEF AnswersLabelled
  <2>4. CASE ParentPing(w)
    <3> DEFINE m == [kind |-> ":ping"]
    <3>1. /\ outbox[w] = <<>> /\ outbox'[w] = Append(outbox[w], m)
          /\ inbox' = inbox /\ task' = task /\ proc' = proc
      BY <2>4 DEF ParentPing, TypeOK, connVars
    <3>2. \A i \in 1..Len(outbox'[w]) : outbox'[w][i].kind # "answer"
      <4>1. outbox'[w] = <<m>>
        BY <3>1
      <4>2. Len(<<m>>) = 1 /\ <<m>>[1] = m
        OBVIOUS
      <4> QED BY <4>1, <4>2
    <3>3. InboxLabelled(w)'
      BY <1>1, <3>1 DEF AnswersLabelled, InboxLabelled
    <3> QED BY <1>1, <3>1, <3>2, <3>3 DEF AnswersLabelled
  <2>5. CASE HearStayAlive(w)
    <3>1. /\ inbox[w] # <<>> /\ inbox'[w] = Tail(inbox[w]) /\ outbox' = outbox
          /\ task' = task /\ proc' = proc
      BY <2>5 DEF HearStayAlive, Hears, TypeOK, connVars
    <3> QED BY <1>1, <2>tail, <3>1 DEF AnswersLabelled
  <2> QED BY <2>1, <2>2, <2>3, <2>4, <2>5 DEF WorkerRuns
<1> QED BY <1>2, <1>3

LEMMA NextReplies == RepliesInv /\ [Next]_vars => RepliesInv'
<1> SUFFICES ASSUME RepliesInv, [Next]_vars PROVE RepliesInv'
  OBVIOUS
<1>t. TypeOK'
  BY NextType DEF RepliesInv
<1>1. ASSUME UNCHANGED <<clientVars, queueVars, connVars, pipeVars, child>> PROVE RepliesInv'
  <2>1. UNCHANGED <<asked, replies, status, pending, idle, mapping, reqid, closed, child, proc,
                    inbox, outbox, task>>
    BY <1>1 DEF clientVars, queueVars, connVars, pipeVars
  <2> QED BY <1>t, <2>1 DEF RepliesInv, AnswersLabelled, InboxLabelled, NamesFree,
                            RepliesMatch
<1>2. CASE UNCHANGED vars
  BY <1>1, <1>2 DEF vars, staffVars
<1>3. ASSUME NEW c \in Clients, EnqueueCommandRequest(c) \/ ClientClose(c) PROVE RepliesInv'
  BY <1>t, <1>3, EnqueueStep, ClientCloseStep
<1>4. ASSUME NEW j \in Jobs, NEW n \in Wanted, RequestJobProcess(j, n) PROVE RepliesInv'
  BY <1>t, <1>4, RequestStep
<1>5. ASSUME NEW w \in Workers, ParentReads(w) PROVE RepliesInv'
  BY <1>t, <1>5, ReadStep, RelayStep, DeathStep DEF ParentReads
<1>6. ASSUME NEW w \in Workers, WorkerRuns(w) \/ Crash(w) PROVE RepliesInv'
  BY <1>t, <1>6, WorkerStep
<1>7. CASE CheckChildren
  <2>1. ASSUME NEW w \in Workers, ReapChild(w) \/ RegisterWorkerConn(w) PROVE RepliesInv'
    BY <1>t, <2>1, DeathStep, RegisterStep
  <2>2. ASSUME NEW j \in Jobs, NEW w \in Workers, Fork(j, w) PROVE RepliesInv'
    BY <1>t, <2>2, ForkStep
  <2>3. ASSUME NEW j \in Jobs, ForkFails(j) PROVE RepliesInv'
    BY <1>1, <2>3 DEF ForkFails
  <2>4. CASE NobodyToReap \/ AllJobsVisited
    BY <1>1, <2>4 DEF NobodyToReap, AllJobsVisited
  <2> QED BY <1>7, <2>1, <2>2, <2>3, <2>4 DEF CheckChildren
<1> QED BY <1>2, <1>3, <1>4, <1>5, <1>6, <1>7 DEF Next

\* What a client reads is, in order, the answers to its own queries.  RepliesInv is
\* needed because only the number of a line ties it to a query: every message still in a
\* pipe must carry the query its number was given for (AnswersLabelled), and that query
\* must be the one its client waits for, in this one place (QueueOK).
THEOREM AnswersReachTheirClient == Spec => []RepliesMatch
<1>1. Init => RepliesInv
  BY InitReplies
<1>2. RepliesInv /\ [Next]_vars => RepliesInv'
  BY NextReplies
<1>3. RepliesInv => RepliesMatch
  BY DEF RepliesInv
<1> QED BY <1>1, <1>2, <1>3, PTL DEF Spec

--------------------------------------------------------------------------------

LEMMA ProcessQueuesEmptiesOne ==
  ASSUME NEW I \in Seq(Workers), NEW P \in Seq(Query), NEW M, ProcessQueues(I, P, M),
         Len(I) <= 1 \/ Len(P) <= 1
  PROVE  idle' = <<>> \/ pending' = <<>>
<1>0. Len(I) \in Nat /\ Len(P) \in Nat
  BY LenProperties
<1>1. CASE \E p \in 1..Len(P), i \in 1..Len(I) : /\ idle' = SubSeq(I, i + 1, Len(I))
                                                 /\ pending' = SubSeq(P, p + 1, Len(P))
  <2>1. PICK p \in 1..Len(P), i \in 1..Len(I) : /\ idle' = SubSeq(I, i + 1, Len(I))
                                                /\ pending' = SubSeq(P, p + 1, Len(P))
    BY <1>1
  <2>2. CASE Len(I) <= 1
    <3>1. /\ i + 1 \in 1..(Len(I) + 1) /\ Len(I) \in (i + 1) - 1 .. Len(I) /\ i = Len(I)
      BY <1>0, <2>2
    <3>2. SubSeq(I, i + 1, Len(I)) \in Seq(Workers) /\ Len(SubSeq(I, i + 1, Len(I))) = 0
      BY <1>0, <3>1, SubSeqProperties
    <3> QED BY <2>1, <3>2, EmptySeq
  <2>3. CASE Len(P) <= 1
    <3>1. /\ p + 1 \in 1..(Len(P) + 1) /\ Len(P) \in (p + 1) - 1 .. Len(P) /\ p = Len(P)
      BY <1>0, <2>3
    <3>2. SubSeq(P, p + 1, Len(P)) \in Seq(Query) /\ Len(SubSeq(P, p + 1, Len(P))) = 0
      BY <1>0, <3>1, SubSeqProperties
    <3> QED BY <2>1, <3>2, EmptySeq
  <2> QED BY <2>2, <2>3
<1>2. CASE \/ I = <<>> /\ idle' = I
           \/ P = <<>> /\ pending' = P
           \/ idle' = <<>>
           \/ pending' = <<>>
  BY <1>2
<1> QED BY <1>1, <1>2 DEF ProcessQueues

\* No query waits beside an idle worker.  This is also what makes the single pairing of
\* ProcessQueues stand for the loop of the code: every caller adds one element to one
\* list while the other is empty or the first was.
THEOREM NoQueryWaitsBesideAnIdleWorker == Spec => []OneQueueEmpty
<1> DEFINE Inv == TypeOK /\ OneQueueEmpty
<1>1. Init => Inv
  BY InitType DEF Init, OneQueueEmpty
<1>2. Inv /\ [Next]_vars => Inv'
  <2> SUFFICES ASSUME TypeOK, OneQueueEmpty, [Next]_vars PROVE OneQueueEmpty'
    BY NextType
  <2>t. /\ idle \in Seq(Workers) /\ pending \in Seq(Query)
        /\ mapping \in [Workers -> Query \cup {None}]
    BY DEF TypeOK
  <2>0. ASSUME UNCHANGED <<idle, pending>> PROVE OneQueueEmpty'
    BY <2>0 DEF OneQueueEmpty
  <2>1. ASSUME NEW q \in Query, NEW M, ProcessQueues(idle, Append(pending, q), M)
        PROVE  OneQueueEmpty'
    <3>1. Append(pending, q) \in Seq(Query) /\ Len(<<>>) = 0
          /\ Len(Append(pending, q)) = Len(pending) + 1
      BY <2>t, AppendProperties
    <3>2. Len(idle) <= 1 \/ Len(Append(pending, q)) <= 1
      BY <3>1 DEF OneQueueEmpty
    <3>3. idle' = <<>> \/ pending' = <<>>
      BY <2>1, <2>t, <3>1, <3>2, ProcessQueuesEmptiesOne
    <3> QED BY <3>3 DEF OneQueueEmpty
  <2>2. ASSUME NEW w \in Workers, NEW M, ProcessQueues(Append(idle, w), pending, M)
        PROVE  OneQueueEmpty'
    <3>1. Append(idle, w) \in Seq(Workers) /\ Len(<<>>) = 0
          /\ Len(Append(idle, w)) = Len(idle) + 1
      BY <2>t, AppendProperties
    <3>2. Len(Append(idle, w)) <= 1 \/ Len(pending) <= 1
      BY <3>1 DEF OneQueueEmpty
    <3>3. idle' = <<>> \/ pending' = <<>>
      BY <2>2, <2>t, <3>1, <3>2, ProcessQueuesEmptiesOne
    <3> QED BY <3>3 DEF OneQueueEmpty
  <2>3. ASSUME NEW q \in Query, NEW M, ProcessQueues(idle, <<q>> \o pending, M)
        PROVE  OneQueueEmpty'
    <3>1. <<q>> \o pending \in Seq(Query) /\ Len(<<>>) = 0
          /\ Len(<<q>> \o pending) = Len(pending) + 1
      <4>1. <<q>> \in Seq(Query) /\ Len(<<q>>) = 1 /\ Len(pending) \in Nat
        BY <2>t, LenProperties
      <4>2. Len(<<q>> \o pending) = 1 + Len(pending) /\ <<q>> \o pending \in Seq(Query)
        BY <4>1, <2>t, ConcatProperties
      <4> QED BY <4>1, <4>2
    <3>2. Len(idle) <= 1 \/ Len(<<q>> \o pending) <= 1
      BY <3>1 DEF OneQueueEmpty
    <3>3. idle' = <<>> \/ pending' = <<>>
      BY <2>3, <2>t, <3>1, <3>2, ProcessQueuesEmptiesOne
    <3> QED BY <3>3 DEF OneQueueEmpty
  <2>4. ASSUME NEW w \in Workers, NoteDeadWorkerConn(w) PROVE OneQueueEmpty'
    <3>1. CASE mapping[w] = None /\ UNCHANGED <<queueVars, inbox>>
      BY <2>0, <3>1 DEF queueVars
    <3>2. CASE /\ mapping[w] # None
               /\ ProcessQueues(idle, <<mapping[w]>> \o pending,
                                [mapping EXCEPT ![w] = None])
      BY <2>t, <2>3, <3>2
    <3> QED BY <2>4, <3>1, <3>2 DEF NoteDeadWorkerConn
  <2>5. ASSUME NEW w \in Workers, NoteIdleQueryWorker(w) PROVE OneQueueEmpty'
    BY <2>0, <2>2, <2>5 DEF NoteIdleQueryWorker
  <2>6. ASSUME NEW c \in Clients, EnqueueCommandRequest(c) PROVE OneQueueEmpty'
    <3>1. [client |-> c, n |-> asked[c] + 1] \in Query
      BY DEF TypeOK, Query
    <3> QED BY <2>1, <2>6, <3>1 DEF EnqueueCommandRequest
  <2>7. ASSUME NEW j \in Jobs, NEW n \in Wanted, RequestJobProcess(j, n)
        PROVE  OneQueueEmpty'
    <3> DEFINE k == IF j = QueryWorker THEN CullCount(n) ELSE 0
    <3>1. idle' = SubSeq(idle, k + 1, Len(idle)) /\ pending' = pending
      BY <2>7 DEF RequestJobProcess
    <3>2. CASE pending = <<>>
      BY <3>1, <3>2 DEF OneQueueEmpty
    <3>3. CASE idle = <<>>
      <4>1. k \in Nat /\ k <= Len(idle) /\ Len(idle) = 0
        <5>1. /\ n \in Nat /\ Len(idle) = 0 /\ current[QueryWorker] \in Int
          BY <3>3, WantedAssumption, JobAssumption DEF TypeOK
        <5> QED BY <5>1 DEF CullCount
      <4> HIDE DEF k
      <4>2. /\ k + 1 \in 1..(Len(idle) + 1) /\ Len(idle) \in (k + 1) - 1 .. Len(idle)
        BY <4>1
      <4>3. idle' \in Seq(Workers) /\ Len(idle') = 0
        BY <2>t, <3>1, <4>1, <4>2, SubSeqProperties
      <4> QED BY <4>3, EmptySeq DEF OneQueueEmpty
    <3> QED BY <3>2, <3>3 DEF OneQueueEmpty
  <2>8. ASSUME NEW w \in Workers, ParentReads(w) PROVE OneQueueEmpty'
    <3>1. CASE IgnoreAnswer(w) \/ MismatchedAnswer(w) \/ AnswerPing(w)
      BY <2>0, <3>1 DEF IgnoreAnswer, MismatchedAnswer, AnswerPing, queueVars
    <3>2. CASE DropAnswer(w) \/ RelayAnswer(w)
      BY <2>5, <3>2 DEF DropAnswer, RelayAnswer
    <3>3. CASE CloseDeadConn(w)
      BY <2>4, <3>3 DEF CloseDeadConn
    <3> QED BY <2>8, <3>1, <3>2, <3>3 DEF ParentReads
  <2>9. ASSUME NEW w \in Workers, ReapChild(w) \/ RegisterWorkerConn(w)
        PROVE  OneQueueEmpty'
    BY <2>0, <2>2, <2>4, <2>9 DEF ReapChild, RegisterWorkerConn, queueVars
  <2>10. CASE \/ \E c \in Clients : ClientClose(c)
              \/ \E w \in Workers : WorkerRuns(w) \/ Crash(w)
              \/ NobodyToReap \/ AllJobsVisited
              \/ \E j \in Jobs : ForkFails(j) \/ \E w \in Workers : Fork(j, w)
              \/ UNCHANGED vars
    BY <2>0, <2>10 DEF ClientClose, WorkerRuns, TakeQuery, WriteLine, ObeyShutdown,
       ParentPing, HearStayAlive, Crash, NobodyToReap, AllJobsVisited, ForkFails, Fork,
       queueVars, vars
  <2> QED BY <2>6, <2>7, <2>8, <2>9, <2>10 DEF Next, CheckChildren
<1>3. QED BY <1>1, <1>2, PTL DEF Spec
--------------------------------------------------------------------------------
(**************** the parent implements QueryService **********************)

\* Steps that leave the clients' side alone are stutters of QueryService.
LEMMA OtherStepsStutter ==
  ASSUME UNCHANGED clientVars
  PROVE  UNCHANGED <<[c \in Clients |-> Phase(c)], replies>>
BY DEF clientVars, Phase

\* Only four steps touch the clients' side.
LEMMA ClientSide ==
  ASSUME [Next]_vars
  PROVE  \/ UNCHANGED clientVars
         \/ \E c \in Clients : EnqueueCommandRequest(c) \/ ClientClose(c)
         \/ \E w \in Workers : RelayAnswer(w) \/ MismatchedAnswer(w)
<1>1. CASE UNCHANGED vars
  BY <1>1 DEF vars
<1>2. CASE \E c \in Clients : EnqueueCommandRequest(c) \/ ClientClose(c)
  BY <1>2
<1>3. CASE \E j \in Jobs, n \in Wanted : RequestJobProcess(j, n)
  BY <1>3 DEF RequestJobProcess
<1>4. ASSUME NEW w \in Workers, ParentReads(w) PROVE
        UNCHANGED clientVars \/ RelayAnswer(w) \/ MismatchedAnswer(w)
  BY <1>4 DEF ParentReads, IgnoreAnswer, DropAnswer, AnswerPing, CloseDeadConn
<1>5. ASSUME NEW w \in Workers, WorkerRuns(w) \/ Crash(w) PROVE UNCHANGED clientVars
  BY <1>5 DEF WorkerRuns, TakeQuery, WriteLine, ObeyShutdown, ParentPing, HearStayAlive,
     Crash
<1>6. CASE CheckChildren
  <2>1. CASE \E w \in Workers : ReapChild(w) \/ RegisterWorkerConn(w)
    BY <2>1 DEF ReapChild, RegisterWorkerConn
  <2>2. CASE NobodyToReap \/ AllJobsVisited
    BY <2>2 DEF NobodyToReap, AllJobsVisited
  <2>3. CASE \E j \in Jobs, w \in Workers : Fork(j, w)
    BY <2>3 DEF Fork
  <2>4. CASE \E j \in Jobs : ForkFails(j)
    BY <2>4 DEF ForkFails
  <2> QED BY <1>6, <2>1, <2>2, <2>3, <2>4 DEF CheckChildren
<1> QED BY <1>1, <1>2, <1>3, <1>4, <1>5, <1>6 DEF Next

\* An accepted query is an Ask: the client was quiet, and now waits.
LEMMA EnqueueAsks ==
  ASSUME TypeOK, NEW c \in Clients, EnqueueCommandRequest(c)
  PROVE  Service!Ask(c)
<1>1. /\ asked \in [Clients -> Nat] /\ asked' = [asked EXCEPT ![c] = @ + 1]
      /\ status[c] = "open" /\ asked[c] = Len(replies[c])
      /\ status' = status /\ replies' = replies
  BY DEF TypeOK, EnqueueCommandRequest
<1>2. Phase(c) = "quiet" /\ Phase(c)' = "waiting"
  BY <1>1 DEF Phase
<1>3. \A d \in Clients \ {c} : Phase(d)' = Phase(d)
  BY <1>1 DEF Phase
<1> QED BY <1>1, <1>2, <1>3 DEF Service!Ask

\* A client that hangs up, or is closed for a worker's mismatch, leaves.
LEMMA ClosingLeaves ==
  ASSUME NEW c \in Clients, NEW s \in {"hung_up", "mismatch"},
         status \in [Clients -> {"open", "hung_up", "mismatch"}],
         status[c] = "open", status' = [status EXCEPT ![c] = s],
         asked' = asked, replies' = replies
  PROVE  Service!Leave(c)
<1>1. Phase(c) # "gone" /\ Phase(c)' = "gone"
  BY DEF Phase
<1>2. \A d \in Clients \ {c} : Phase(d)' = Phase(d)
  BY DEF Phase
<1> QED BY <1>1, <1>2 DEF Service!Leave

\* A relayed answer is a Reply.  That its client waits for just one query is QueueOK;
\* that the line carries this query is RepliesMatch in the new state.
LEMMA RelayReplies ==
  ASSUME RepliesInv, RepliesInv', NEW w \in Workers, RelayAnswer(w)
  PROVE  \E c \in Clients : Service!Reply(c)
<1>1. PICK c \in Clients, q \in Query :
        /\ c = mapping[w].client /\ q = Answer(w).query
        /\ status[c] = "open" /\ asked[c] = Len(replies[c]) + 1
  <2>1. mapping[w] \in Query /\ Open(mapping[w]) /\ Due(mapping[w], asked, replies, status)
    BY DEF RelayAnswer, RepliesInv, TypeOK, QueueOK
  <2>2. Answer(w).query \in Query
    BY ReadLineType DEF RelayAnswer, RepliesInv, Line
  <2> QED BY <2>1, <2>2 DEF Query, Open, Due
<1>2. /\ replies' = [replies EXCEPT ![c] = Append(@, q)]
      /\ asked' = asked /\ status' = status
  BY <1>1 DEF RelayAnswer, Asker
<1>3. replies \in [Clients -> Seq(Query)]
  BY DEF RepliesInv, TypeOK
<1>4. /\ Len(replies[c]) \in Nat /\ replies'[c] = Append(replies[c], q)
      /\ Len(replies'[c]) = Len(replies[c]) + 1
      /\ replies'[c][Len(replies[c]) + 1] = q
  BY <1>1, <1>2, <1>3, AppendProperties
<1>5. q = [client |-> c, n |-> Len(replies[c]) + 1]
  <2>1. RepliesMatch'
    BY DEF RepliesInv
  <2>2. Len(replies[c]) + 1 \in 1..Len(replies'[c])
    BY <1>4
  <2>3. \A i \in 1..Len(replies'[c]) : replies'[c][i] = [client |-> c, n |-> i]
    BY <2>1 DEF RepliesMatch
  <2> QED BY <1>4, <2>2, <2>3
<1>6. Phase(c) = "waiting" /\ Phase(c)' = "quiet"
  BY <1>1, <1>2, <1>3, <1>4 DEF Phase
<1>7. \A d \in Clients \ {c} : Phase(d)' = Phase(d)
  BY <1>1, <1>2, <1>3 DEF Phase
<1>8. [d \in Clients |-> Phase(d)]' = [[d \in Clients |-> Phase(d)] EXCEPT ![c] = "quiet"]
  BY <1>6, <1>7
<1>9. replies' = [replies EXCEPT ![c] = Append(@, [client |-> c, n |-> Len(@) + 1])]
  BY <1>2, <1>5
<1> QED BY <1>2, <1>6, <1>8, <1>9 DEF Service!Reply

\* The parent, with its queues, workers, crashes and failing forks, does to its clients
\* what QueryService says: one answer at a time, to the client that waits, for the query
\* it waits for, and nothing after its connection ended.
THEOREM ImplementsQueryService == Spec => Serves
<1>1. Init => Service!Init
  <2> SUFFICES ASSUME Init PROVE Service!Init
    OBVIOUS
  <2>1. \A c \in Clients : Phase(c) = "quiet"
    BY DEF Init, Phase
  <2> QED BY <2>1 DEF Init, Service!Init
<1>2. RepliesInv /\ RepliesInv' /\ [Next]_vars
        => [Service!Next]_<<[c \in Clients |-> Phase(c)], replies>>
  <2> SUFFICES ASSUME RepliesInv, RepliesInv', [Next]_vars
               PROVE  [Service!Next]_<<[c \in Clients |-> Phase(c)], replies>>
    OBVIOUS
  <2>1. CASE UNCHANGED clientVars
    BY <2>1, OtherStepsStutter
  <2>2. ASSUME NEW c \in Clients, EnqueueCommandRequest(c) PROVE Service!Next
    BY <2>2, EnqueueAsks DEF RepliesInv, Service!Next
  <2>3. ASSUME NEW c \in Clients, ClientClose(c) PROVE Service!Next
    <3>1. Service!Leave(c)
      BY <2>3, ClosingLeaves DEF ClientClose, RepliesInv, TypeOK
    <3> QED BY <3>1 DEF Service!Next
  <2>4. ASSUME NEW w \in Workers, RelayAnswer(w) PROVE Service!Next
    BY <2>4, RelayReplies DEF Service!Next
  <2>5. ASSUME NEW w \in Workers, MismatchedAnswer(w) PROVE Service!Next
    <3>1. /\ Asker(w) \in Clients /\ status[Asker(w)] = "open"
          /\ status' = [status EXCEPT ![Asker(w)] = "mismatch"]
          /\ asked' = asked /\ replies' = replies
          /\ status \in [Clients -> {"open", "hung_up", "mismatch"}]
      BY <2>5 DEF MismatchedAnswer, RepliesInv, TypeOK, Query, Asker, Open
    <3>2. Service!Leave(Asker(w))
      BY <3>1, ClosingLeaves
    <3> QED BY <3>1, <3>2 DEF Service!Next
  <2> QED BY <2>1, <2>2, <2>3, <2>4, <2>5, ClientSide
<1>3. Init => RepliesInv
  BY InitReplies
<1>4. RepliesInv /\ [Next]_vars => RepliesInv'
  BY NextReplies
<1> QED BY <1>1, <1>2, <1>3, <1>4, PTL DEF Spec, Serves, Service!Spec

--------------------------------------------------------------------------------
(**************** nothing is lost, nothing is doubled *********************)

Listed(I, w) == \E i \in 1..Len(I) : I[i] = w

\* A query of c waits in the queue or at a worker.
Waits(P, M, c) == \/ \E i \in 1..Len(P) : P[i].client = c
                  \/ \E w \in Workers : M[w] # None /\ M[w].client = c

LEMMA BehindStays ==
  ASSUME NEW S, NEW s \in Seq(S), NEW a \in 0..Len(s), NEW j \in 1..Len(s), a < j
  PROVE  \E k \in 1..Len(SubSeq(s, a + 1, Len(s))) : SubSeq(s, a + 1, Len(s))[k] = s[j]
<1>0. Len(s) \in Nat
  BY LenProperties
<1>1. \A k \in (a + 1)..Len(s) : s[k] \in S
  BY <1>0, ElementOfSeq
<1>2. /\ Len(SubSeq(s, a + 1, Len(s))) = Len(s) - (a + 1) + 1
      /\ \A k \in 1..(Len(s) - (a + 1) + 1) : SubSeq(s, a + 1, Len(s))[k] = s[a + 1 + k - 1]
  BY <1>0, <1>1, SubSeqProperties
<1>3. j - a \in 1..(Len(s) - (a + 1) + 1) /\ a + 1 + (j - a) - 1 = j
  BY <1>0
<1> QED BY <1>0, <1>2, <1>3

\* ProcessQueues forgets no connected worker and no query of an open client.
LEMMA ProcessQueuesForgetsNone ==
  ASSUME TypeOK, NEW I \in Seq(Workers), NEW P \in Seq(Query),
         NEW M \in [Workers -> Query \cup {None}], ProcessQueues(I, P, M),
         \A i \in 1..Len(I) : I[i] \notin closed => M[I[i]] = None
  PROVE  /\ \A w \in Workers : w \notin closed /\ (M[w] # None \/ Listed(I, w))
                                 => mapping'[w] # None \/ Listed(idle', w)
         /\ \A c \in Clients : status[c] = "open" /\ Waits(P, M, c)
                                 => Waits(pending', mapping', c)
<1>0. /\ Len(P) \in Nat /\ Len(I) \in Nat
      /\ \A i \in 1..Len(I) : I[i] \in Workers
      /\ \A i \in 1..Len(P) : P[i] \in Query
      /\ None \notin Query
  BY LenProperties, ElementOfSeq, NoneAssumption
<1>1. CASE idle' = I /\ pending' = P /\ mapping' = M
  BY <1>1
<1>2. CASE /\ \A i \in 1..Len(P) : ~Open(P[i])
           /\ idle' = I /\ mapping' = M
  BY <1>2 DEF Waits, Open
<1>3. CASE /\ \A i \in 1..Len(I) : ~Connected(I[i])
           /\ \E p \in 1..Len(P) :
                /\ IsFirst(P, Open, p)
                /\ pending' = SubSeq(P, p, Len(P)) /\ mapping' = M
  <2>1. PICK p \in 1..Len(P) :
          IsFirst(P, Open, p) /\ pending' = SubSeq(P, p, Len(P)) /\ mapping' = M
    BY <1>3
  <2>2. \A i \in 1..(p - 1) : ~Open(P[i])
    BY <2>1 DEF IsFirst
  <2>3. ASSUME NEW i \in 1..Len(P), Open(P[i])
        PROVE  \E k \in 1..Len(pending') : pending'[k] = P[i]
    <3> DEFINE a == p - 1
    <3>1. a \in 0..Len(P) /\ a < i /\ a + 1 = p
      BY <1>0, <2>2, <2>3
    <3> HIDE DEF a
    <3>2. \E k \in 1..Len(SubSeq(P, a + 1, Len(P))) : SubSeq(P, a + 1, Len(P))[k] = P[i]
      BY <3>1, BehindStays
    <3> QED BY <2>1, <3>1, <3>2
  <2> QED BY <1>3, <2>1, <2>3 DEF Waits, Open, Listed, Connected
<1>4. CASE \E p \in 1..Len(P), i \in 1..Len(I) :
             /\ IsFirst(P, Open, p) /\ IsFirst(I, Connected, i)
             /\ idle' = SubSeq(I, i + 1, Len(I))
             /\ pending' = SubSeq(P, p + 1, Len(P))
             /\ mapping' = [M EXCEPT ![I[i]] = P[p]]
  <2>1. PICK p \in 1..Len(P), i \in 1..Len(I) :
             /\ IsFirst(P, Open, p) /\ IsFirst(I, Connected, i)
             /\ idle' = SubSeq(I, i + 1, Len(I))
             /\ pending' = SubSeq(P, p + 1, Len(P))
             /\ mapping' = [M EXCEPT ![I[i]] = P[p]]
    BY <1>4
  <2>2. /\ \A k \in 1..(p - 1) : ~Open(P[k])
        /\ \A k \in 1..(i - 1) : ~Connected(I[k])
        /\ Connected(I[i])
    BY <2>1 DEF IsFirst
  <2>3. /\ I[i] \in Workers /\ P[p] \in Query /\ mapping'[I[i]] = P[p] /\ P[p] # None
        /\ M[I[i]] = None
        /\ \A w \in Workers : w # I[i] => mapping'[w] = M[w]
    BY <1>0, <2>1, <2>2 DEF Connected
  <2>4. ASSUME NEW k \in 1..Len(P), Open(P[k]), k # p
        PROVE  \E l \in 1..Len(pending') : pending'[l] = P[k]
    <3>1. p \in 0..Len(P) /\ p < k
      BY <1>0, <2>2, <2>4
    <3> QED BY <1>0, <2>1, <3>1, BehindStays
  <2>5. ASSUME NEW k \in 1..Len(I), Connected(I[k]), k # i
        PROVE  \E l \in 1..Len(idle') : idle'[l] = I[k]
    <3>1. i \in 0..Len(I) /\ i < k
      BY <1>0, <2>2, <2>5
    <3> QED BY <1>0, <2>1, <3>1, BehindStays
  <2>6. ASSUME NEW w \in Workers, w \notin closed, M[w] # None \/ Listed(I, w)
        PROVE  mapping'[w] # None \/ Listed(idle', w)
    <3>1. CASE M[w] # None
      BY <2>3, <3>1
    <3>2. CASE Listed(I, w)
      <4>1. PICK k \in 1..Len(I) : I[k] = w
        BY <3>2 DEF Listed
      <4> QED BY <2>3, <2>5, <2>6, <4>1 DEF Listed, Connected
    <3> QED BY <2>6, <3>1, <3>2
  <2>7. ASSUME NEW c \in Clients, status[c] = "open", Waits(P, M, c)
        PROVE  Waits(pending', mapping', c)
    <3>1. ASSUME NEW k \in 1..Len(P), P[k].client = c PROVE Waits(pending', mapping', c)
      <4>1. CASE k = p
        BY <2>3, <3>1, <4>1 DEF Waits
      <4>2. CASE k # p
        BY <2>4, <2>7, <3>1, <4>2 DEF Waits, Open
      <4> QED BY <4>1, <4>2
    <3>2. ASSUME NEW w \in Workers, M[w] # None, M[w].client = c
          PROVE  Waits(pending', mapping', c)
      BY <2>3, <3>2 DEF Waits
    <3> QED BY <2>7, <3>1, <3>2 DEF Waits
  <2> QED BY <2>6, <2>7
<1> QED BY <1>1, <1>2, <1>3, <1>4 DEF ProcessQueues

Placed(w) == mapping[w] # None \/ Listed(idle, w)

\* A connected query worker that is not to die is idle or has a query.
AllPlaced ==
  \A w \in child : job[w] = QueryWorker /\ Connected(w) /\ w \notin todie => Placed(w)

\* An open client's query is answered or waits somewhere.
AllWait ==
  \A c \in Clients : status[c] = "open" =>
    asked[c] = Len(replies[c]) \/ Waits(pending, mapping, c)

\* An idle worker is added to the list, matched or asked to die.
LEMMA NoteIdlePlaces ==
  ASSUME RepliesInv, NEW w \in Workers, mapping[w] # None, NoteIdleQueryWorker(w)
  PROVE  /\ \A v \in Workers : v \notin closed /\ v \notin todie' /\ Placed(v) => Placed(v)'
         /\ todie \subseteq todie'
         /\ \A c \in Clients : /\ status[c] = "open"
                               /\ Waits(pending, [mapping EXCEPT ![w] = None], c)
                               => Waits(pending', mapping', c)
<1> DEFINE M == [mapping EXCEPT ![w] = None]
<1>t. /\ idle \in Seq(Workers) /\ pending \in Seq(Query) /\ Len(idle) \in Nat
      /\ mapping \in [Workers -> Query \cup {None}] /\ TypeOK
      /\ PoolOK(idle, mapping, closed, child)
  BY LenProperties DEF RepliesInv, TypeOK
<1>m. /\ M \in [Workers -> Query \cup {None}] /\ M[w] = None
      /\ \A v \in Workers : v # w => M[v] = mapping[v]
  BY <1>t
<1>i. \A i \in 1..Len(idle) : idle[i] \in Workers
  BY <1>t, ElementOfSeq
<1>1. CASE AskWorkerToDie(w) /\ mapping' = M /\ UNCHANGED <<idle, pending>>
  <2>1. w \in todie' /\ todie \subseteq todie'
    BY <1>1 DEF AskWorkerToDie
  <2> QED BY <1>1, <1>m, <2>1 DEF Placed
<1>2. CASE ProcessQueues(Append(idle, w), pending, M) /\ UNCHANGED todie
  <2> DEFINE I == Append(idle, w)
  <2>1. /\ I \in Seq(Workers) /\ Len(I) = Len(idle) + 1 /\ I[Len(idle) + 1] = w
        /\ \A i \in 1..Len(idle) : I[i] = idle[i]
        /\ ProcessQueues(I, pending, M)
    BY <1>t, <1>2, AppendProperties
  <2>2. \A i \in 1..Len(I) : i \in 1..Len(idle) \/ i = Len(idle) + 1
    BY <1>t, <2>1
  <2>3. Len(idle) + 1 \in 1..Len(I) /\ \A i \in 1..Len(idle) : i \in 1..Len(I)
    BY <1>t, <2>1
  <2> HIDE DEF I, M
  <2>4. \A i \in 1..Len(I) : I[i] \notin closed => M[I[i]] = None
    BY <1>t, <1>m, <1>i, <2>1, <2>2 DEF PoolOK
  <2>5. /\ \A v \in Workers : v \notin closed /\ (M[v] # None \/ Listed(I, v))
                                => mapping'[v] # None \/ Listed(idle', v)
        /\ \A c \in Clients : status[c] = "open" /\ Waits(pending, M, c)
                                => Waits(pending', mapping', c)
    BY <1>t, <1>m, <2>1, <2>4, ProcessQueuesForgetsNone
  <2>6. \A v \in Workers : Placed(v) => M[v] # None \/ Listed(I, v)
    BY <1>m, <2>1, <2>3 DEF Placed, Listed
  <2> QED BY <1>2, <2>5, <2>6 DEF Placed, M
<1> QED BY <1>1, <1>2 DEF NoteIdleQueryWorker

\* A dead worker's query goes back to the queue and perhaps on.
LEMMA NoteDeadPlaces ==
  ASSUME RepliesInv, NEW w \in Workers,
         NoteDeadWorkerConn(w) \/ (w \in closed /\ UNCHANGED <<queueVars, inbox>>)
  PROVE  /\ \A v \in Workers : v # w /\ v \notin closed /\ Placed(v) => Placed(v)'
         /\ \A c \in Clients : status[c] = "open" /\ Waits(pending, mapping, c)
                                 => Waits(pending', mapping', c)
<1> DEFINE M == [mapping EXCEPT ![w] = None]
           P == <<mapping[w]>> \o pending
<1>t. /\ idle \in Seq(Workers) /\ pending \in Seq(Query) /\ Len(pending) \in Nat
      /\ mapping \in [Workers -> Query \cup {None}] /\ TypeOK
      /\ PoolOK(idle, mapping, closed, child)
  BY LenProperties DEF RepliesInv, TypeOK
<1>m. /\ M \in [Workers -> Query \cup {None}] /\ M[w] = None
      /\ \A v \in Workers : v # w => M[v] = mapping[v]
  BY <1>t
<1>i. \A i \in 1..Len(idle) : idle[i] \in Workers
  BY <1>t, ElementOfSeq
<1>1. CASE UNCHANGED <<queueVars, inbox>>
  BY <1>1 DEF queueVars, Placed
<1>2. CASE mapping[w] # None /\ ProcessQueues(idle, P, M)
  <2>1. /\ mapping[w] \in Query /\ P \in Seq(Query) /\ P[1] = mapping[w] /\ 1 \in 1..Len(P)
        /\ \A i \in 1..Len(pending) : i + 1 \in 1..Len(P) /\ P[i + 1] = pending[i]
    <3>1. /\ mapping[w] \in Query
          /\ <<mapping[w]>> \in Seq(Query) /\ Len(<<mapping[w]>>) = 1
          /\ <<mapping[w]>>[1] = mapping[w]
      BY <1>t, <1>2
    <3> QED BY <3>1, <1>t, ConcatProperties
  <2>p. ProcessQueues(idle, P, M)
    BY <1>2
  <2> HIDE DEF P, M
  <2>2. \A i \in 1..Len(idle) : idle[i] \notin closed => M[idle[i]] = None
    BY <1>t, <1>m, <1>i DEF PoolOK
  <2>3. /\ \A v \in Workers : v \notin closed /\ (M[v] # None \/ Listed(idle, v))
                                => mapping'[v] # None \/ Listed(idle', v)
        /\ \A c \in Clients : status[c] = "open" /\ Waits(P, M, c)
                                => Waits(pending', mapping', c)
    BY <1>t, <1>m, <2>1, <2>2, <2>p, ProcessQueuesForgetsNone
  <2>4. \A c \in Clients : Waits(pending, mapping, c) => Waits(P, M, c)
    <3> TAKE c \in Clients
    <3>1. ASSUME NEW i \in 1..Len(pending), pending[i].client = c PROVE Waits(P, M, c)
      BY <2>1, <3>1 DEF Waits
    <3>2. ASSUME NEW v \in Workers, mapping[v] # None, mapping[v].client = c
          PROVE  Waits(P, M, c)
      BY <1>m, <2>1, <3>2 DEF Waits
    <3> QED BY <3>1, <3>2 DEF Waits
  <2> QED BY <1>m, <2>3, <2>4 DEF Placed
<1> QED BY <1>1, <1>2 DEF NoteDeadWorkerConn

PlacesInv == RepliesInv /\ AllPlaced /\ AllWait

LEMMA EnqueuePlaces ==
  ASSUME PlacesInv, NEW c \in Clients, EnqueueCommandRequest(c)
  PROVE  AllPlaced' /\ AllWait'
<1> DEFINE q == [client |-> c, n |-> asked[c] + 1]
           P == Append(pending, q)
<1>t. /\ idle \in Seq(Workers) /\ pending \in Seq(Query) /\ Len(pending) \in Nat
      /\ mapping \in [Workers -> Query \cup {None}] /\ asked \in [Clients -> Nat]
      /\ child \subseteq Workers /\ TypeOK /\ PoolOK(idle, mapping, closed, child)
  BY LenProperties DEF PlacesInv, RepliesInv, TypeOK
<1>1. /\ P \in Seq(Query) /\ Len(pending) + 1 \in 1..Len(P) /\ P[Len(pending) + 1] = q
      /\ \A i \in 1..Len(pending) : i \in 1..Len(P) /\ P[i] = pending[i]
  <2>1. q \in Query
    BY <1>t DEF Query
  <2> QED BY <1>t, <2>1, AppendProperties
<1>2. /\ ProcessQueues(idle, P, mapping) /\ asked' = [asked EXCEPT ![c] = @ + 1]
      /\ UNCHANGED <<replies, status, closed, child, job, todie>>
  BY DEF EnqueueCommandRequest, staffVars, connVars
<1>q. q.client = c
  OBVIOUS
<1> HIDE DEF P, q
<1>3. /\ \A w \in Workers : w \notin closed /\ Placed(w) => Placed(w)'
      /\ \A d \in Clients : status[d] = "open" /\ Waits(P, mapping, d)
                              => Waits(pending', mapping', d)
  BY <1>t, <1>1, <1>2, ProcessQueuesForgetsNone DEF PoolOK, Placed
<1>4. AllPlaced'
  BY <1>t, <1>2, <1>3 DEF PlacesInv, AllPlaced, Connected
<1>5. Waits(P, mapping, c) /\ \A d \in Clients : Waits(pending, mapping, d) => Waits(P, mapping, d)
  <2>1. Waits(P, mapping, c)
    BY <1>1, <1>q DEF Waits
  <2>2. ASSUME NEW d \in Clients, Waits(pending, mapping, d) PROVE Waits(P, mapping, d)
    <3>1. ASSUME NEW i \in 1..Len(pending), pending[i].client = d PROVE Waits(P, mapping, d)
      BY <1>1, <3>1 DEF Waits
    <3> QED BY <2>2, <3>1 DEF Waits
  <2> QED BY <2>1, <2>2
<1>6. \A d \in Clients : d # c => asked'[d] = asked[d]
  BY <1>t, <1>2
<1>7. AllWait'
  BY <1>2, <1>3, <1>5, <1>6 DEF PlacesInv, AllWait
<1> QED BY <1>4, <1>7

LEMMA RequestPlaces ==
  ASSUME PlacesInv, NEW j \in Jobs, NEW n \in Wanted, RequestJobProcess(j, n)
  PROVE  AllPlaced' /\ AllWait'
<1> DEFINE k == IF j = QueryWorker THEN CullCount(n) ELSE 0
           culled == {idle[i] : i \in 1..k}
<1>1. /\ n \in Nat /\ Len(idle) \in Nat /\ idle \in Seq(Workers)
      /\ current[QueryWorker] \in Int
  BY WantedAssumption, JobAssumption, LenProperties DEF PlacesInv, RepliesInv, TypeOK
<1>2. k \in 0..Len(idle)
  BY <1>1 DEF CullCount
<1>3. /\ UNCHANGED <<asked, replies, status, pending, mapping, child, job, closed>>
      /\ idle' = SubSeq(idle, k + 1, Len(idle))
      /\ todie' = todie \cup culled
  BY DEF RequestJobProcess, clientVars, connVars
<1>c. \A i \in 1..k : idle[i] \in culled
  OBVIOUS
<1> HIDE DEF k, culled
<1>4. ASSUME NEW w, Listed(idle, w), w \notin todie' PROVE Listed(idle', w)
  <2>1. PICK i \in 1..Len(idle) : idle[i] = w
    BY <1>4 DEF Listed
  <2>2. k < i
    BY <1>1, <1>2, <1>3, <1>4, <1>c, <2>1
  <2> QED BY <1>1, <1>2, <1>3, <2>1, <2>2, BehindStays DEF Listed
<1>5. AllPlaced'
  BY <1>3, <1>4 DEF PlacesInv, AllPlaced, Placed, Connected
<1>6. AllWait'
  BY <1>3 DEF PlacesInv, AllWait
<1> QED BY <1>5, <1>6

LEMMA ReadPlaces ==
  ASSUME PlacesInv, NEW w \in Workers,
         IgnoreAnswer(w) \/ DropAnswer(w) \/ MismatchedAnswer(w) \/ AnswerPing(w)
         \/ RelayAnswer(w)
  PROVE  AllPlaced' /\ AllWait'
<1> DEFINE M == [mapping EXCEPT ![w] = None]
<1>t. /\ mapping \in [Workers -> Query \cup {None}] /\ child \subseteq Workers
      /\ replies \in [Clients -> Seq(Query)] /\ RepliesInv
  BY DEF PlacesInv, RepliesInv, TypeOK
<1>1. CASE IgnoreAnswer(w)
  BY <1>1 DEF IgnoreAnswer, clientVars, queueVars, staffVars, connVars, PlacesInv, AllPlaced,
     AllWait, Placed, Connected
<1>2. CASE MismatchedAnswer(w) \/ AnswerPing(w)
  <2>1. /\ UNCHANGED <<asked, replies, pending, idle, mapping, closed, child, job>>
        /\ todie \subseteq todie'
        /\ \A c \in Clients : status'[c] = "open" => status[c] = "open"
    <3>1. CASE MismatchedAnswer(w)
      BY <1>t, <3>1 DEF MismatchedAnswer, AskWorkerToDie, queueVars, connVars, PlacesInv,
         RepliesInv, TypeOK
    <3>2. CASE AnswerPing(w)
      BY <3>2 DEF AnswerPing, AskWorkerToDie, clientVars, queueVars, connVars
    <3> QED BY <1>2, <3>1, <3>2
  <2> QED BY <2>1 DEF PlacesInv, AllPlaced, AllWait, Placed, Connected
<1>3. CASE DropAnswer(w) \/ RelayAnswer(w)
  <2>1. /\ mapping[w] # None /\ NoteIdleQueryWorker(w)
        /\ UNCHANGED <<asked, status, closed, child, job>>
    BY <1>3 DEF DropAnswer, RelayAnswer, clientVars, connVars
  <2>2. /\ \A v \in Workers : v \notin closed /\ v \notin todie' /\ Placed(v) => Placed(v)'
        /\ todie \subseteq todie'
        /\ \A c \in Clients : status[c] = "open" /\ Waits(pending, M, c)
                               => Waits(pending', mapping', c)
    BY <1>t, <2>1, NoteIdlePlaces
  <2>3. AllPlaced'
    BY <1>t, <2>1, <2>2 DEF PlacesInv, AllPlaced, Connected
  \* The client of the line's query is gone or has its answer; the others wait elsewhere.
  <2>4. ASSUME NEW c \in Clients, status[c] = "open", asked[c] # Len(replies[c]),
               c # mapping[w].client
        PROVE  Waits(pending', mapping', c)
    <3>1. Waits(pending, mapping, c)
      BY <2>4 DEF PlacesInv, AllWait
    <3>2. Waits(pending, M, c)
      <4>1. \A v \in Workers : v # w => M[v] = mapping[v]
        BY <1>t
      <4> HIDE DEF M
      <4> QED BY <2>4, <3>1, <4>1 DEF Waits
    <3> QED BY <2>2, <2>4, <3>2
  <2>5. AllWait'
    <3>1. CASE DropAnswer(w)
      <4>1. replies' = replies /\ status[mapping[w].client] # "open"
        BY <3>1 DEF DropAnswer, clientVars, Open
      <4> QED BY <2>1, <2>4, <4>1 DEF AllWait
    <3>2. CASE RelayAnswer(w)
      <4>1. /\ mapping[w].client \in Clients
            /\ asked[mapping[w].client] = Len(replies[mapping[w].client]) + 1
            /\ replies' = [replies EXCEPT ![mapping[w].client] = Append(@, Answer(w).query)]
        <5>1. mapping[w] \in Query /\ Due(mapping[w], asked, replies, status)
              /\ status[mapping[w].client] = "open"
          BY <1>t, <2>1, <3>2 DEF RelayAnswer, RepliesInv, QueueOK, Open
        <5> QED BY <3>2, <5>1 DEF RelayAnswer, Asker, Due, Query
      <4>2. Answer(w).query \in Query
        <5>1. Answer(w) \in Line
          BY <1>t, <3>2, ReadLineType DEF RelayAnswer, RepliesInv
        <5> QED BY <5>1 DEF Line
      <4>3. /\ Len(replies'[mapping[w].client]) = Len(replies[mapping[w].client]) + 1
            /\ \A c \in Clients : c # mapping[w].client => replies'[c] = replies[c]
        BY <1>t, <4>1, <4>2, AppendProperties
      <4> QED BY <2>1, <2>4, <4>1, <4>3 DEF AllWait
    <3> QED BY <1>3, <3>1, <3>2
  <2> QED BY <2>3, <2>5
<1> QED BY <1>1, <1>2, <1>3

LEMMA DeathPlaces ==
  ASSUME PlacesInv, NEW w \in Workers, CloseDeadConn(w) \/ ReapChild(w)
  PROVE  AllPlaced' /\ AllWait'
<1>1. /\ UNCHANGED <<asked, replies, status, job>>
      /\ closed' = closed \cup {w}
      /\ child' \subseteq child /\ todie \subseteq todie' \cup {w} /\ child \subseteq Workers
      /\ NoteDeadWorkerConn(w) \/ (w \in closed /\ UNCHANGED <<queueVars, inbox>>)
  BY DEF CloseDeadConn, ReapChild, clientVars, staffVars, Connected, PlacesInv, RepliesInv,
         TypeOK
<1>2. /\ \A v \in Workers : v # w /\ v \notin closed /\ Placed(v) => Placed(v)'
      /\ \A c \in Clients : status[c] = "open" /\ Waits(pending, mapping, c)
                              => Waits(pending', mapping', c)
  BY <1>1, NoteDeadPlaces DEF PlacesInv
<1>3. AllPlaced'
  BY <1>1, <1>2 DEF PlacesInv, AllPlaced, Connected
<1>4. AllWait'
  BY <1>1, <1>2 DEF PlacesInv, AllWait
<1> QED BY <1>3, <1>4

LEMMA RegisterPlaces ==
  ASSUME PlacesInv, NEW w \in Workers, RegisterWorkerConn(w)
  PROVE  AllPlaced' /\ AllWait'
<1> DEFINE I == Append(idle, w)
<1>t. /\ idle \in Seq(Workers) /\ pending \in Seq(Query) /\ Len(idle) \in Nat
      /\ mapping \in [Workers -> Query \cup {None}] /\ child \subseteq Workers /\ TypeOK
      /\ PoolOK(idle, mapping, closed, child)
  BY LenProperties DEF PlacesInv, RepliesInv, TypeOK
<1>1. /\ child' = child \cup {w} /\ w \notin child
      /\ UNCHANGED <<asked, replies, status, closed, job, todie>>
  BY DEF RegisterWorkerConn, clientVars, connVars
<1>2. CASE job[w] # QueryWorker
  BY <1>1, <1>2 DEF RegisterWorkerConn, queueVars, PlacesInv, AllPlaced, AllWait, Placed,
     Connected
<1>3. CASE job[w] = QueryWorker
  <2>1. /\ I \in Seq(Workers) /\ Len(I) = Len(idle) + 1 /\ I[Len(idle) + 1] = w
        /\ \A i \in 1..Len(idle) : I[i] = idle[i]
        /\ ProcessQueues(I, pending, mapping)
    BY <1>t, <1>3, AppendProperties DEF RegisterWorkerConn
  <2>2. /\ \A i \in 1..Len(I) : i \in 1..Len(idle) \/ i = Len(idle) + 1
        /\ Len(idle) + 1 \in 1..Len(I) /\ \A i \in 1..Len(idle) : i \in 1..Len(I)
    BY <1>t, <2>1
  <2> HIDE DEF I
  <2>3. \A i \in 1..Len(I) : I[i] \notin closed => mapping[I[i]] = None
    BY <1>t, <1>1, <2>1, <2>2 DEF PoolOK
  <2>4. /\ \A v \in Workers : v \notin closed /\ (mapping[v] # None \/ Listed(I, v))
                                => Placed(v)'
        /\ \A c \in Clients : status[c] = "open" /\ Waits(pending, mapping, c)
                                => Waits(pending', mapping', c)
    BY <1>t, <2>1, <2>3, ProcessQueuesForgetsNone DEF Placed
  <2>5. Listed(I, w) /\ \A v \in Workers : Listed(idle, v) => Listed(I, v)
    BY <2>1, <2>2 DEF Listed
  <2>6. AllPlaced'
    BY <1>t, <1>1, <2>4, <2>5 DEF PlacesInv, AllPlaced, Placed, Connected
  <2>7. AllWait'
    BY <1>1, <2>4 DEF PlacesInv, AllWait
  <2> QED BY <2>6, <2>7
<1> QED BY <1>2, <1>3

LEMMA NextPlaces == PlacesInv /\ [Next]_vars => PlacesInv'
<1> SUFFICES ASSUME PlacesInv, [Next]_vars PROVE AllPlaced' /\ AllWait'
  BY NextReplies DEF PlacesInv
<1>1. ASSUME UNCHANGED <<asked, replies, pending, idle, mapping, closed, child, job, todie>>,
             \A c \in Clients : status'[c] = "open" => status[c] = "open"
      PROVE  AllPlaced' /\ AllWait'
  BY <1>1 DEF PlacesInv, AllPlaced, AllWait, Placed, Connected
<1>2. CASE \/ \E c \in Clients : ClientClose(c)
           \/ \E w \in Workers : WorkerRuns(w) \/ Crash(w)
           \/ NobodyToReap \/ AllJobsVisited
           \/ \E j \in Jobs : ForkFails(j)
           \/ UNCHANGED vars
  <2>1. ASSUME NEW c \in Clients, ClientClose(c) PROVE AllPlaced' /\ AllWait'
    <3>1. \A d \in Clients : status'[d] = "open" => status[d] = "open"
      BY <2>1 DEF ClientClose, PlacesInv, RepliesInv, TypeOK
    <3> QED BY <1>1, <2>1, <3>1 DEF ClientClose, queueVars, staffVars, connVars
  <2>2. ASSUME NEW w \in Workers, WorkerRuns(w) \/ Crash(w) PROVE AllPlaced' /\ AllWait'
    BY <1>1, <2>2 DEF WorkerRuns, TakeQuery, WriteLine, ObeyShutdown, ParentPing,
       HearStayAlive, Crash, clientVars, queueVars, staffVars, connVars
  <2>3. CASE \/ NobodyToReap \/ AllJobsVisited
             \/ \E j \in Jobs : ForkFails(j)
             \/ UNCHANGED vars
    BY <1>1, <2>3 DEF NobodyToReap, AllJobsVisited, ForkFails, vars, clientVars, queueVars,
       staffVars, connVars
  <2> QED BY <1>2, <2>1, <2>2, <2>3
<1>3. ASSUME NEW j \in Jobs, NEW w \in Workers, Fork(j, w) PROVE AllPlaced' /\ AllWait'
  <2>1. /\ w \notin child
        /\ \A v \in child : job'[v] = job[v]
        /\ closed' = closed \ {w}
        /\ UNCHANGED <<asked, replies, status, pending, idle, mapping, child, todie>>
    BY <1>3 DEF Fork, Unused, clientVars, PlacesInv, RepliesInv, NamesFree, TypeOK
  <2> QED BY <2>1 DEF PlacesInv, AllPlaced, AllWait, Placed, Connected
<1>4. ASSUME NEW w \in Workers, ParentReads(w) PROVE AllPlaced' /\ AllWait'
  BY <1>4, ReadPlaces, DeathPlaces DEF ParentReads
<1> QED BY <1>2, <1>3, <1>4, EnqueuePlaces, RequestPlaces, DeathPlaces, RegisterPlaces
        DEF Next, CheckChildren

LEMMA PlacesHold == Spec => []PlacesInv
<1>1. Init => PlacesInv
  <2> SUFFICES ASSUME Init PROVE AllPlaced /\ AllWait
    BY InitReplies DEF PlacesInv
  <2>1. \A c \in Clients : asked[c] = Len(replies[c])
    BY EmptySeq DEF Init
  <2> QED BY <2>1 DEF Init, AllPlaced, AllWait
<1> QED BY <1>1, NextPlaces, PTL DEF Spec

\* A query worker whose connection is up is idle once, or has one query, or was asked to
\* die: none is forgotten by the parent's tables, whatever crashes, and none is given two
\* queries at a time.
THEOREM NobodyIsForgotten == Spec => []NoWorkerLost
<1>1. PlacesInv => NoWorkerLost
  <2> SUFFICES ASSUME PlacesInv, NEW w \in child, job[w] = QueryWorker, Connected(w)
               PROVE  LET places == Cardinality({i \in 1..Len(idle) : idle[i] = w})
                                      + (IF mapping[w] = None THEN 0 ELSE 1)
                      IN  places <= 1 /\ (w \notin todie => places = 1)
    BY DEF NoWorkerLost
  <2> DEFINE S == {i \in 1..Len(idle) : idle[i] = w}
  <2>1. CASE Listed(idle, w)
    <3>1. PICK i \in 1..Len(idle) : idle[i] = w
      BY <2>1 DEF Listed
    <3>2. mapping[w] = None /\ \A l \in 1..Len(idle) : l # i => idle[l] # w
      BY <3>1 DEF PlacesInv, RepliesInv, PoolOK, Connected
    <3>3. S = {i}
      BY <3>1, <3>2
    <3>4. Cardinality(S) = 1
      BY <3>3, FS_Singleton
    <3> QED BY <3>2, <3>4
  <2>2. CASE ~Listed(idle, w)
    <3>1. S = {}
      BY <2>2 DEF Listed
    <3>2. Cardinality(S) = 0
      BY <3>1, FS_EmptySet
    <3>3. w \notin todie => mapping[w] # None
      BY <2>2 DEF PlacesInv, AllPlaced, Placed
    <3> QED BY <3>2, <3>3
  <2> QED BY <2>1, <2>2
<1> QED BY <1>1, PlacesHold, PTL

\* The query an open client waits for is in exactly one place, the queue or one worker's
\* mapping, and a client that waits for nothing has none anywhere: crashes, requeueing,
\* reaping and late answers neither lose nor double a query.
THEOREM EveryQueryIsInOnePlace == Spec => []OutstandingOnce
<1>1. PlacesInv => OutstandingOnce
  <2> SUFFICES ASSUME PlacesInv, NEW c \in Clients, status[c] = "open"
               PROVE  Occurrences(c) = asked[c] - Len(replies[c])
    BY DEF OutstandingOnce
  <2> DEFINE Q == {i \in 1..Len(pending) : pending[i].client = c}
             W == {w \in Workers : mapping[w] # None /\ mapping[w].client = c}
  <2>t. /\ asked[c] \in Nat /\ Len(replies[c]) \in Nat
        /\ QueueOK(pending, mapping, asked, replies, status)
    BY LenProperties DEF PlacesInv, RepliesInv, TypeOK
  <2>1. /\ \A i \in Q : asked[c] = Len(replies[c]) + 1
        /\ \A w \in W : asked[c] = Len(replies[c]) + 1
    BY <2>t DEF QueueOK, Due
  <2>2. /\ \A i, j \in Q : i = j
        /\ \A v, w \in W : v = w
        /\ Q = {} \/ W = {}
    BY <2>t DEF QueueOK, Apart
  <2>3. Waits(pending, mapping, c) <=> Q # {} \/ W # {}
    BY DEF Waits
  <2>4. asked[c] = Len(replies[c]) \/ Q # {} \/ W # {}
    BY <2>3 DEF PlacesInv, AllWait
  <2> HIDE DEF Q, W
  <2>5. /\ Q = {} \/ \E i : Q = {i}
        /\ W = {} \/ \E w : W = {w}
    BY <2>2
  <2>6. Cardinality({}) = 0 /\ \A x : Cardinality({x}) = 1
    BY FS_EmptySet, FS_Singleton
  <2>7. Cardinality(Q) + Cardinality(W) = asked[c] - Len(replies[c])
    <3>1. CASE Q = {} /\ W = {}
      BY <2>t, <2>4, <2>6, <3>1
    <3>2. CASE Q # {}
      <4>1. Cardinality(Q) = 1 /\ Cardinality(W) = 0
        BY <2>2, <2>5, <2>6, <3>2
      <4>2. asked[c] = Len(replies[c]) + 1
        BY <2>1, <3>2
      <4> QED BY <2>t, <4>1, <4>2
    <3>3. CASE W # {}
      <4>1. Cardinality(Q) = 0 /\ Cardinality(W) = 1
        BY <2>2, <2>5, <2>6, <3>3
      <4>2. asked[c] = Len(replies[c]) + 1
        BY <2>1, <3>3
      <4> QED BY <2>t, <4>1, <4>2
    <3> QED BY <3>1, <3>2, <3>3
  <2> QED BY <2>7 DEF Occurrences, Q, W
<1> QED BY <1>1, PlacesHold, PTL

--------------------------------------------------------------------------------
(************************** counting workers ******************************)

\* Only query workers are listed as idle or have queries.
PoolServes ==
  \A w \in Workers : Listed(idle, w) \/ mapping[w] # None => job[w] = QueryWorker

\* A process that is not registered yet has a name nothing refers to.
NewIsFresh ==
  \A w \in Workers : w \notin child /\ proc[w] # "none" => w \notin todie /\ ~Listed(idle, w)

\* ProcessQueues brings nobody into the pool.
LEMMA ProcessQueuesPool ==
  ASSUME TypeOK, NEW I \in Seq(Workers), NEW P \in Seq(Query),
         NEW M \in [Workers -> Query \cup {None}], ProcessQueues(I, P, M)
  PROVE  /\ \A w \in Workers : Listed(idle', w) => Listed(I, w)
         /\ \A w \in Workers : mapping'[w] # None => M[w] # None \/ Listed(I, w)
<1>0. Len(P) \in Nat /\ Len(I) \in Nat /\ \A i \in 1..Len(I) : I[i] \in Workers
  BY LenProperties, ElementOfSeq
<1>1. PICK a \in 0..Len(P), b \in 0..Len(I) : Effect(I, P, M, a, b)
  BY ProcessQueuesEffect
<1>2. ASSUME NEW w \in Workers, Listed(idle', w) PROVE Listed(I, w)
  <2>1. PICK k \in 1..Len(idle') : idle'[k] = w
    BY <1>2 DEF Listed
  <2>2. b + k \in 1..Len(I) /\ I[b + k] = w
    BY <1>0, <1>1, <2>1 DEF Effect, Suffix
  <2> QED BY <2>2 DEF Listed
<1>3. ASSUME NEW w \in Workers, mapping'[w] # None PROVE M[w] # None \/ Listed(I, w)
  <2>1. CASE mapping' = M
    BY <1>3, <2>1
  <2>2. ASSUME NEW i \in 1..Len(I), NEW q, mapping' = [M EXCEPT ![I[i]] = q]
        PROVE  M[w] # None \/ Listed(I, w)
    BY <1>3, <2>2 DEF Listed
  <2>3. \A p \in 1..a, i \in 1..b : i \in 1..Len(I)
    BY <1>0
  <2> QED BY <1>1, <2>1, <2>2, <2>3 DEF Effect
<1> QED BY <1>2, <1>3

\* Who enters the pool: a registered query worker, and one that is in it already.
LEMMA PoolStep ==
  ASSUME RepliesInv, [Next]_vars, NEW w \in Workers, Listed(idle', w) \/ mapping'[w] # None
  PROVE  \/ Listed(idle, w) \/ mapping[w] # None
         \/ RegisterWorkerConn(w) /\ job[w] = QueryWorker
<1> DEFINE Was == \/ Listed(idle, w) \/ mapping[w] # None
                  \/ RegisterWorkerConn(w) /\ job[w] = QueryWorker
<1>t. /\ idle \in Seq(Workers) /\ pending \in Seq(Query) /\ Len(idle) \in Nat
      /\ mapping \in [Workers -> Query \cup {None}] /\ TypeOK
  BY LenProperties DEF RepliesInv, TypeOK
<1>a. ASSUME NEW v \in Workers
      PROVE  /\ Append(idle, v) \in Seq(Workers)
             /\ Listed(Append(idle, v), w) => Listed(idle, w) \/ w = v
  <2>1. /\ Append(idle, v) \in Seq(Workers) /\ Len(Append(idle, v)) = Len(idle) + 1
        /\ Append(idle, v)[Len(idle) + 1] = v
        /\ \A i \in 1..Len(idle) : Append(idle, v)[i] = idle[i]
    BY <1>t, AppendProperties
  <2>2. \A i \in 1..Len(Append(idle, v)) : i \in 1..Len(idle) \/ i = Len(idle) + 1
    BY <1>t, <2>1
  <2> QED BY <2>1, <2>2 DEF Listed
<1>0. ASSUME UNCHANGED <<idle, mapping>> PROVE Was
  BY <1>0
<1>1. ASSUME NEW c \in Clients, EnqueueCommandRequest(c) PROVE Was
  <2>1. Append(pending, [client |-> c, n |-> asked[c] + 1]) \in Seq(Query)
    <3>1. [client |-> c, n |-> asked[c] + 1] \in Query
      BY <1>t DEF TypeOK, Query
    <3> QED BY <3>1, <1>t, AppendProperties
  <2> QED BY <1>1, <1>t, <2>1, ProcessQueuesPool DEF EnqueueCommandRequest
<1>2. ASSUME NEW j \in Jobs, NEW n \in Wanted, RequestJobProcess(j, n) PROVE Was
  <2> DEFINE k == IF j = QueryWorker THEN CullCount(n) ELSE 0
  <2>1. n \in Nat /\ current[QueryWorker] \in Int
    BY <1>t, WantedAssumption, JobAssumption DEF TypeOK
  <2>2. k \in 0..Len(idle)
    BY <1>t, <2>1 DEF CullCount
  <2>3. idle' = SubSeq(idle, k + 1, Len(idle)) /\ mapping' = mapping
    BY <1>2 DEF RequestJobProcess
  <2> HIDE DEF k
  <2>4. \A i \in 1..Len(idle') : k + i \in 1..Len(idle) /\ idle'[i] = idle[k + i]
    BY <1>t, <2>2, <2>3, SubSeqProperties, ElementOfSeq
  <2> QED BY <2>3, <2>4 DEF Listed
<1>3. ASSUME NEW v \in Workers, NoteIdleQueryWorker(v), mapping[v] # None PROVE Was
  <2> DEFINE M == [mapping EXCEPT ![v] = None]
  <2>1. /\ M \in [Workers -> Query \cup {None}]
        /\ \A u \in Workers : M[u] # None => mapping[u] # None
    BY <1>t
  <2>2. CASE mapping' = M /\ idle' = idle
    BY <2>1, <2>2
  <2>3. CASE ProcessQueues(Append(idle, v), pending, M)
    <3> HIDE DEF M
    <3>1. Listed(Append(idle, v), w) \/ M[w] # None
      BY <1>t, <1>a, <2>1, <2>3, ProcessQueuesPool
    <3> QED BY <1>3, <1>a, <2>1, <3>1
  <2> QED BY <1>3, <2>2, <2>3 DEF NoteIdleQueryWorker
<1>4. ASSUME NEW v \in Workers, NoteDeadWorkerConn(v) PROVE Was
  <2> DEFINE M == [mapping EXCEPT ![v] = None]
  <2>1. /\ M \in [Workers -> Query \cup {None}]
        /\ \A u \in Workers : M[u] # None => mapping[u] # None
    BY <1>t
  <2>2. CASE UNCHANGED queueVars
    BY <2>2 DEF queueVars
  <2>3. CASE mapping[v] # None /\ ProcessQueues(idle, <<mapping[v]>> \o pending, M)
    <3>1. <<mapping[v]>> \o pending \in Seq(Query)
      <4>1. mapping[v] \in Query
        BY <1>t, <2>3
      <4> QED BY <4>1, <1>t, ConcatProperties
    <3> QED BY <1>t, <2>1, <2>3, <3>1, ProcessQueuesPool
  <2> QED BY <1>4, <2>2, <2>3 DEF NoteDeadWorkerConn
<1>5. ASSUME NEW v \in Workers, ParentReads(v) \/ ReapChild(v) PROVE Was
  <2>1. CASE IgnoreAnswer(v) \/ MismatchedAnswer(v) \/ AnswerPing(v)
    BY <1>0, <2>1 DEF IgnoreAnswer, MismatchedAnswer, AnswerPing, queueVars
  <2>2. CASE DropAnswer(v) \/ RelayAnswer(v)
    BY <1>3, <2>2 DEF DropAnswer, RelayAnswer
  <2>3. CASE CloseDeadConn(v) \/ ReapChild(v)
    BY <1>0, <1>4, <2>3 DEF CloseDeadConn, ReapChild, queueVars
  <2> QED BY <1>5, <2>1, <2>2, <2>3 DEF ParentReads
<1>6. ASSUME NEW v \in Workers, RegisterWorkerConn(v) PROVE Was
  <2>1. CASE job[v] # QueryWorker
    BY <1>0, <1>6, <2>1 DEF RegisterWorkerConn, queueVars
  <2>2. CASE job[v] = QueryWorker
    <3>1. ProcessQueues(Append(idle, v), pending, mapping)
      BY <1>6, <2>2 DEF RegisterWorkerConn
    <3>2. Listed(Append(idle, v), w) \/ mapping[w] # None
      BY <1>t, <1>a, <3>1, ProcessQueuesPool
    <3> QED BY <1>6, <1>a, <2>2, <3>2
  <2> QED BY <2>1, <2>2
<1>7. CASE \/ \E c \in Clients : ClientClose(c)
           \/ \E v \in Workers : WorkerRuns(v) \/ Crash(v)
           \/ NobodyToReap \/ AllJobsVisited
           \/ \E j \in Jobs : ForkFails(j) \/ \E v \in Workers : Fork(j, v)
           \/ UNCHANGED vars
  BY <1>0, <1>7 DEF ClientClose, WorkerRuns, TakeQuery, WriteLine, ObeyShutdown,
     ParentPing, HearStayAlive, Crash, NobodyToReap, AllJobsVisited, ForkFails, Fork,
     queueVars, vars
<1> QED BY <1>1, <1>2, <1>5, <1>6, <1>7 DEF Next, CheckChildren

\* What a step does to the names of workers.
LEMMA NamesStep ==
  ASSUME RepliesInv, [Next]_vars, NEW w \in Workers
  PROVE  /\ job'[w] # job[w] \/ (proc[w] = "none" /\ proc'[w] # "none")
              => \E j \in Jobs : Fork(j, w)
         /\ w \in child \ child' => proc'[w] = "none"
         /\ w \in todie' => w \in todie \/ w \in child \/ Listed(idle, w)
         /\ RegisterWorkerConn(w) => w \in child'
<1> DEFINE Goal == /\ job'[w] # job[w] \/ (proc[w] = "none" /\ proc'[w] # "none")
                        => \E j \in Jobs : Fork(j, w)
                   /\ w \in child \ child' => proc'[w] = "none"
                   /\ w \in todie' => w \in todie \/ w \in child \/ Listed(idle, w)
<1>r. RegisterWorkerConn(w) => w \in child'
  BY DEF RegisterWorkerConn
<1>t. /\ proc \in [Workers -> {"none", "alive", "dead"}] /\ job \in [Workers -> Jobs]
      /\ TypeOK
  BY DEF RepliesInv, TypeOK
<1>0. ASSUME UNCHANGED <<job, proc, child, todie>> PROVE Goal
  BY <1>0
<1>1. CASE \/ \E c \in Clients : EnqueueCommandRequest(c) \/ ClientClose(c)
           \/ NobodyToReap \/ AllJobsVisited
           \/ \E j \in Jobs : ForkFails(j)
           \/ UNCHANGED vars
  <2>1. UNCHANGED <<job, proc, child, todie>>
    BY <1>1 DEF EnqueueCommandRequest, ClientClose, NobodyToReap, AllJobsVisited,
       ForkFails, staffVars, connVars, vars
  <2> QED BY <1>0, <1>r, <2>1
<1>2. ASSUME NEW j \in Jobs, NEW n \in Wanted, RequestJobProcess(j, n) PROVE Goal
  <2> DEFINE k == IF j = QueryWorker THEN CullCount(n) ELSE 0
  <2>1. n \in Nat /\ current[QueryWorker] \in Int /\ Len(idle) \in Nat
    BY <1>t, WantedAssumption, JobAssumption, LenProperties DEF TypeOK
  <2>2. k \in 0..Len(idle)
    BY <2>1 DEF CullCount
  <2>3. /\ todie' = todie \cup {idle[i] : i \in 1..k}
        /\ UNCHANGED <<job, proc, child>>
    BY <1>2 DEF RequestJobProcess, connVars
  <2> HIDE DEF k
  <2> QED BY <2>1, <2>2, <2>3 DEF Listed
<1>3. ASSUME NEW v \in Workers, ParentReads(v) PROVE Goal
  <2>1. v \in child /\ UNCHANGED <<job, proc, child>>
    BY <1>3 DEF ParentReads, IgnoreAnswer, DropAnswer, MismatchedAnswer, RelayAnswer,
       AnswerPing, CloseDeadConn, ReadLine, staffVars, connVars
  <2>2. todie' = todie \/ todie' = todie \cup {v}
    BY <1>3 DEF ParentReads, IgnoreAnswer, DropAnswer, MismatchedAnswer, RelayAnswer,
       AnswerPing, CloseDeadConn, NoteIdleQueryWorker, AskWorkerToDie, staffVars
  <2> QED BY <2>1, <2>2
<1>4. ASSUME NEW v \in Workers, WorkerRuns(v) \/ Crash(v) PROVE Goal
  <2>1. /\ UNCHANGED <<job, child, todie>>
        /\ proc' = proc \/ (proc[v] = "alive" /\ proc' = [proc EXCEPT ![v] = "dead"])
    BY <1>4 DEF WorkerRuns, TakeQuery, WriteLine, ObeyShutdown, ParentPing, HearStayAlive,
       Crash, Dies, Hears, staffVars, connVars
  <2> QED BY <1>t, <2>1
<1>5. ASSUME NEW v \in Workers, ReapChild(v) PROVE Goal
  <2>1. /\ job' = job /\ proc' = [proc EXCEPT ![v] = "none"]
        /\ child' = child \ {v} /\ todie' = todie \ {v}
    BY <1>5 DEF ReapChild
  <2> QED BY <1>t, <2>1
<1>6. ASSUME NEW j \in Jobs, NEW v \in Workers, Fork(j, v) PROVE Goal
  <2>1. /\ job' = [job EXCEPT ![v] = j] /\ proc' = [proc EXCEPT ![v] = "alive"]
        /\ UNCHANGED <<child, todie>>
    BY <1>6 DEF Fork
  <2> QED BY <1>t, <1>6, <2>1
<1>7. ASSUME NEW v \in Workers, RegisterWorkerConn(v) PROVE Goal
  BY <1>7 DEF RegisterWorkerConn, connVars
<1> QED BY <1>r, <1>1, <1>2, <1>3, <1>4, <1>5, <1>6, <1>7 DEF Next, CheckChildren

LEMMA PoolServesStep ==
  ASSUME RepliesInv, PoolServes, [Next]_vars
  PROVE  PoolServes'
<1> SUFFICES ASSUME NEW w \in Workers, Listed(idle', w) \/ mapping'[w] # None
             PROVE  job'[w] = QueryWorker
  BY DEF PoolServes
<1>1. job[w] = QueryWorker
  BY PoolStep DEF PoolServes
<1>2. ASSUME NEW j \in Jobs, Fork(j, w) PROVE FALSE
  <2>1. proc[w] = "none" /\ ~Listed(idle, w) /\ UNCHANGED <<idle, mapping>>
    BY <1>2 DEF Fork, Unused, Listed
  <2>2. mapping[w] = None
    BY <2>1 DEF RepliesInv, NamesFree, PoolOK
  <2> QED BY <2>1, <2>2
<1> QED BY <1>1, <1>2, NamesStep

LEMMA NewIsFreshStep ==
  ASSUME RepliesInv, NewIsFresh, [Next]_vars
  PROVE  NewIsFresh'
<1> SUFFICES ASSUME NEW w \in Workers, w \notin child', proc'[w] # "none"
             PROVE  w \notin todie' /\ ~Listed(idle', w)
  BY DEF NewIsFresh
<1>1. w \notin child
  BY NamesStep
<1>2. mapping[w] = None
  BY <1>1 DEF RepliesInv, PoolOK
<1>3. CASE proc[w] # "none"
  <2>1. w \notin todie /\ ~Listed(idle, w)
    BY <1>1, <1>3 DEF NewIsFresh
  <2> QED BY <1>1, <1>2, <2>1, NamesStep, PoolStep
<1>4. CASE proc[w] = "none"
  <2>1. PICK j \in Jobs : Fork(j, w)
    BY <1>4, NamesStep
  <2> QED BY <2>1 DEF Fork, Unused, Listed
<1> QED BY <1>3, <1>4

CountInv == RepliesInv /\ PoolServes /\ NewIsFresh /\ IsFiniteSet(child) /\ NeverOvercounted

LEMMA ServingCounted ==
  ASSUME IsFiniteSet(child), NEW j
  PROVE  IsFiniteSet(Serving(j)) /\ Cardinality(Serving(j)) \in Nat
<1>1. Serving(j) \subseteq child
  BY DEF Serving
<1> QED BY <1>1, FS_Subset, FS_CardinalityType

\* A worker that is asked to die is subtracted, and serves no more if it did.
LEMMA AskCounts ==
  ASSUME CountInv, NEW w \in child,
         todie' = todie \cup {w}, current' = [current EXCEPT ![job[w]] = @ - 1],
         UNCHANGED <<child, job>>
  PROVE  NeverOvercounted'
<1> SUFFICES ASSUME NEW j \in Jobs PROVE current'[j] <= Cardinality(Serving(j)')
  BY DEF NeverOvercounted
<1>1. /\ IsFiniteSet(Serving(j)) /\ Cardinality(Serving(j)) \in Nat
      /\ current[j] <= Cardinality(Serving(j))
      /\ current \in [Jobs -> Int] /\ job[w] \in Jobs
  BY ServingCounted DEF CountInv, NeverOvercounted, RepliesInv, TypeOK
<1>2. CASE job[w] = j
  <2>1. Serving(j)' = Serving(j) \ {w}
    BY <1>2 DEF Serving
  <2>2. \/ Cardinality(Serving(j)') = Cardinality(Serving(j)) - 1
        \/ Cardinality(Serving(j)') = Cardinality(Serving(j))
    BY <1>1, <2>1, FS_RemoveElement
  <2>3. current'[j] = current[j] - 1 /\ current[j] \in Int
    BY <1>1, <1>2
  <2> QED BY <1>1, <2>2, <2>3
<1>3. CASE job[w] # j
  <2>1. Serving(j)' = Serving(j)
    BY <1>3 DEF Serving
  <2> QED BY <1>1, <1>3, <2>1
<1> QED BY <1>2, <1>3

LEMMA SameCounts ==
  ASSUME CountInv, UNCHANGED <<current, child, todie>>, \A w \in child : job'[w] = job[w]
  PROVE  NeverOvercounted'
<1>1. \A j \in Jobs : Serving(j)' = Serving(j)
  BY DEF Serving
<1> QED BY <1>1 DEF CountInv, NeverOvercounted

\* The cull takes at most as many workers as it counts, all of them query workers.
LEMMA CullCounts ==
  ASSUME CountInv, NEW j \in Jobs, NEW n \in Wanted, RequestJobProcess(j, n)
  PROVE  NeverOvercounted'
<1> DEFINE k == IF j = QueryWorker THEN CullCount(n) ELSE 0
           culled == {idle[i] : i \in 1..k}
<1>1. /\ n \in Nat /\ Len(idle) \in Nat /\ \A i \in 1..Len(idle) : idle[i] \in Workers
      /\ current \in [Jobs -> Int]
  BY WantedAssumption, LenProperties, ElementOfSeq DEF CountInv, RepliesInv, TypeOK
<1>2. k \in 0..Len(idle)
  BY <1>1, JobAssumption DEF CullCount
<1>3. /\ UNCHANGED <<child, job>>
      /\ todie' = todie \cup culled
      /\ current' = [current EXCEPT ![QueryWorker] = @ - k]
  BY DEF RequestJobProcess, connVars
<1> HIDE DEF k
<1>4. IsFiniteSet(culled) /\ Cardinality(culled) <= k /\ Cardinality(culled) \in Nat
  <2> DEFINE f == [i \in 1..k |-> idle[i]]
  <2>1. f \in Surjection(1..k, culled)
    BY DEF Surjection
  <2>2. IsFiniteSet(1..k) /\ Cardinality(1..k) = k
    BY <1>1, <1>2, FS_Interval
  <2> HIDE DEF f, culled
  <2> QED BY <2>1, <2>2, FS_Surjection, FS_CardinalityType
<1>5. \A w \in culled : w \in Workers /\ job[w] = QueryWorker
  BY <1>1, <1>2 DEF CountInv, PoolServes, Listed
<1> HIDE DEF culled
<1> SUFFICES ASSUME NEW i \in Jobs PROVE current'[i] <= Cardinality(Serving(i)')
  BY DEF NeverOvercounted
<1>6. /\ IsFiniteSet(Serving(i)) /\ Cardinality(Serving(i)) \in Nat
      /\ current[i] <= Cardinality(Serving(i)) /\ current[i] \in Int
  BY <1>1, ServingCounted DEF CountInv, NeverOvercounted
<1>7. CASE i = QueryWorker
  <2>1. Serving(i)' = Serving(i) \ culled
    BY <1>3 DEF Serving
  <2>2. Cardinality(Serving(i) \cap culled) <= Cardinality(culled)
        /\ Cardinality(Serving(i) \cap culled) \in Nat
    BY <1>4, FS_Intersection, FS_CardinalityType
  <2>3. Cardinality(Serving(i)') = Cardinality(Serving(i)) - Cardinality(Serving(i) \cap culled)
    BY <1>6, <2>1, FS_Difference
  <2>4. current'[i] = current[i] - k
    BY <1>1, <1>3, <1>7
  <2> QED BY <1>2, <1>4, <1>6, <2>2, <2>3, <2>4
<1>8. CASE i # QueryWorker
  <2>1. Serving(i)' = Serving(i)
    BY <1>3, <1>5, <1>8 DEF Serving, CountInv, RepliesInv, TypeOK
  <2>2. current'[i] = current[i]
    BY <1>1, <1>3, <1>8
  <2> QED BY <1>6, <2>1, <2>2
<1> QED BY <1>7, <1>8

LEMMA ReapCounts ==
  ASSUME CountInv, NEW w \in Workers, ReapChild(w)
  PROVE  NeverOvercounted'
<1>1. /\ w \in child /\ child' = child \ {w} /\ todie' = todie \ {w} /\ job' = job
      /\ current' = DeathCounted(w)
  BY DEF ReapChild
<1> SUFFICES ASSUME NEW j \in Jobs PROVE current'[j] <= Cardinality(Serving(j)')
  BY DEF NeverOvercounted
<1>2. /\ IsFiniteSet(Serving(j)) /\ Cardinality(Serving(j)) \in Nat
      /\ current[j] <= Cardinality(Serving(j)) /\ current[j] \in Int
      /\ current \in [Jobs -> Int] /\ job[w] \in Jobs
  BY ServingCounted DEF CountInv, NeverOvercounted, RepliesInv, TypeOK
<1>3. Serving(j)' = Serving(j) \ {w}
  BY <1>1 DEF Serving
<1>4. /\ Cardinality(Serving(j)') =
           IF w \in Serving(j) THEN Cardinality(Serving(j)) - 1 ELSE Cardinality(Serving(j))
  BY <1>2, <1>3, FS_RemoveElement
<1>5. CASE w \in Serving(j)
  <2>1. current'[j] = current[j] - 1
    BY <1>1, <1>2, <1>5 DEF DeathCounted, Serving
  <2> QED BY <1>2, <1>4, <1>5, <2>1
<1>6. CASE w \notin Serving(j)
  <2>1. current'[j] <= current[j]
    BY <1>1, <1>2 DEF DeathCounted
  <2>2. current'[j] \in Int
    BY <1>1, <1>2 DEF DeathCounted
  <2> QED BY <1>2, <1>4, <1>6, <2>1, <2>2
<1> QED BY <1>5, <1>6

LEMMA RegisterCounts ==
  ASSUME CountInv, NEW w \in Workers, RegisterWorkerConn(w)
  PROVE  NeverOvercounted' /\ IsFiniteSet(child')
<1>1. /\ w \notin child /\ w \notin todie /\ child' = child \cup {w}
      /\ UNCHANGED <<todie, job>>
      /\ current' = [current EXCEPT ![job[w]] = @ + 1]
  BY DEF RegisterWorkerConn, connVars, CountInv, NewIsFresh
<1>2. IsFiniteSet(child')
  BY <1>1, FS_AddElement DEF CountInv
<1>3. ASSUME NEW j \in Jobs PROVE current'[j] <= Cardinality(Serving(j)')
  <2>1. /\ IsFiniteSet(Serving(j)) /\ Cardinality(Serving(j)) \in Nat
        /\ current[j] <= Cardinality(Serving(j)) /\ current[j] \in Int
        /\ current \in [Jobs -> Int] /\ job[w] \in Jobs
    BY ServingCounted DEF CountInv, NeverOvercounted, RepliesInv, TypeOK
  <2>2. CASE job[w] = j
    <3>1. Serving(j)' = Serving(j) \cup {w} /\ w \notin Serving(j)
      BY <1>1, <2>2 DEF Serving
    <3>2. Cardinality(Serving(j)') = Cardinality(Serving(j)) + 1
      BY <2>1, <3>1, FS_AddElement
    <3>3. current'[j] = current[j] + 1
      BY <1>1, <2>1, <2>2
    <3> QED BY <2>1, <3>2, <3>3
  <2>3. CASE job[w] # j
    <3>1. Serving(j)' = Serving(j)
      BY <1>1, <2>3 DEF Serving
    <3>2. current'[j] = current[j]
      BY <1>1, <2>1, <2>3
    <3> QED BY <2>1, <3>1, <3>2
  <2> QED BY <2>2, <2>3
<1> QED BY <1>2, <1>3 DEF NeverOvercounted

LEMMA NextCounts == CountInv /\ [Next]_vars => CountInv'
<1> SUFFICES ASSUME CountInv, [Next]_vars PROVE IsFiniteSet(child') /\ NeverOvercounted'
  BY NextReplies, PoolServesStep, NewIsFreshStep DEF CountInv
<1>0. ASSUME UNCHANGED <<current, child, todie>>, \A w \in child : job'[w] = job[w]
      PROVE  IsFiniteSet(child') /\ NeverOvercounted'
  BY <1>0, SameCounts DEF CountInv
<1>1. CASE \/ \E c \in Clients : EnqueueCommandRequest(c) \/ ClientClose(c)
           \/ \E w \in Workers : WorkerRuns(w) \/ Crash(w)
           \/ NobodyToReap \/ AllJobsVisited
           \/ \E j \in Jobs : ForkFails(j)
           \/ UNCHANGED vars
  BY <1>0, <1>1 DEF EnqueueCommandRequest, ClientClose, WorkerRuns, TakeQuery, WriteLine,
     ObeyShutdown, ParentPing, HearStayAlive, Crash, NobodyToReap, AllJobsVisited,
     ForkFails, staffVars, connVars, vars
<1>2. ASSUME NEW j \in Jobs, NEW n \in Wanted, RequestJobProcess(j, n)
      PROVE  IsFiniteSet(child') /\ NeverOvercounted'
  BY <1>2, CullCounts DEF RequestJobProcess, CountInv
<1>3. ASSUME NEW w \in Workers, ParentReads(w)
      PROVE  IsFiniteSet(child') /\ NeverOvercounted'
  <2>1. w \in child /\ UNCHANGED <<child, job>>
    BY <1>3 DEF ParentReads, IgnoreAnswer, DropAnswer, MismatchedAnswer, RelayAnswer,
       AnswerPing, CloseDeadConn, ReadLine, staffVars, connVars
  <2>2. UNCHANGED <<todie, current>> \/ AskWorkerToDie(w)
    BY <1>3 DEF ParentReads, IgnoreAnswer, DropAnswer, MismatchedAnswer, RelayAnswer,
       AnswerPing, CloseDeadConn, NoteIdleQueryWorker, staffVars
  <2> QED BY <1>0, <2>1, <2>2, AskCounts DEF AskWorkerToDie, CountInv
<1>4. ASSUME NEW w \in Workers, ReapChild(w)
      PROVE  IsFiniteSet(child') /\ NeverOvercounted'
  <2>1. IsFiniteSet(child')
    BY <1>4, FS_RemoveElement DEF ReapChild, CountInv
  <2> QED BY <1>4, <2>1, ReapCounts
<1>5. ASSUME NEW j \in Jobs, NEW w \in Workers, Fork(j, w)
      PROVE  IsFiniteSet(child') /\ NeverOvercounted'
  <2>1. w \notin child
    BY <1>5 DEF Fork, Unused, CountInv, RepliesInv, NamesFree
  <2>2. /\ UNCHANGED <<current, child, todie>>
        /\ \A v \in child : job'[v] = job[v]
    BY <1>5, <2>1 DEF Fork, CountInv, RepliesInv, TypeOK
  <2> QED BY <1>0, <2>2
<1> QED BY <1>1, <1>2, <1>3, <1>4, <1>5, RegisterCounts DEF Next, CheckChildren

LEMMA InitCounts == Init => CountInv
<1> SUFFICES ASSUME Init PROVE CountInv
  OBVIOUS
<1>1. PoolServes /\ NewIsFresh
  BY EmptySeq DEF Init, PoolServes, NewIsFresh, Listed
<1>2. IsFiniteSet(child) /\ \A j \in Jobs : Serving(j) = {}
  BY FS_EmptySet DEF Init, Serving
<1>3. NeverOvercounted
  <2>1. \A j \in Jobs : current[j] = 0 /\ Cardinality(Serving(j)) = 0
    BY <1>2, FS_EmptySet DEF Init
  <2> QED BY <2>1 DEF NeverOvercounted
<1> QED BY <1>1, <1>2, <1>3, InitReplies DEF CountInv

\* The number the parent keeps for a job never exceeds the workers that serve it, however
\* they are culled, asked to die, crash and are replaced: if it did, the job would be left
\* short, since only the number decides about forking.
THEOREM CountsDoNotExceed == Spec => []NeverOvercounted
<1>1. CountInv => NeverOvercounted
  BY DEF CountInv
<1> QED BY <1>1, InitCounts, NextCounts, PTL DEF Spec

--------------------------------------------------------------------------------
(********************** one line for each query ***************************)
(* Where every query writes one line (MaxLines = 1), a worker with a query *)
(* has one message about it and no other worker has any: the query is in   *)
(* its inbox, or it works on it, or the answer is in its outbox.           *)

Quiet(s, kind) == \A i \in 1..Len(s) : s[i].kind # kind

Single(s, kind, m) ==
  \E i \in 1..Len(s) : /\ s[i] = m /\ m.kind = kind
                       /\ \A j \in 1..Len(s) : j # i => s[j].kind # kind

Settled(b, t, o) == Quiet(b, "query") /\ t = None /\ Quiet(o, "answer")

Handed(b, t, o, r) ==
  t = None /\ Quiet(o, "answer") /\ \E m \in ToWorker : m.id = r /\ Single(b, "query", m)

Working(b, t, o, r) ==
  Quiet(b, "query") /\ t # None /\ t.id = r /\ t.left = 1 /\ Quiet(o, "answer")

Replied(b, t, o, r) ==
  Quiet(b, "query") /\ t = None /\ \E m \in ToParent : m.line.id = r /\ Single(o, "answer", m)

OneMessage(b, t, o, r, q) ==
  \/ Settled(b, t, o)
  \/ q # None /\ (Handed(b, t, o, r) \/ Working(b, t, o, r) \/ Replied(b, t, o, r))

LEMMA AppendLine ==
  ASSUME NEW S, NEW s \in Seq(S), NEW e \in S, NEW kind
  PROVE  /\ e.kind # kind /\ Quiet(s, kind) => Quiet(Append(s, e), kind)
         /\ e.kind = kind /\ Quiet(s, kind) => Single(Append(s, e), kind, e)
         /\ \A m : e.kind # kind /\ Single(s, kind, m) => Single(Append(s, e), kind, m)
<1>1. /\ Len(s) \in Nat /\ Len(Append(s, e)) = Len(s) + 1
      /\ Append(s, e)[Len(s) + 1] = e
      /\ \A i \in 1..Len(s) : Append(s, e)[i] = s[i]
  BY LenProperties, AppendProperties
<1> DEFINE a == Append(s, e)
<1> HIDE DEF a
<1>2. /\ Len(a) = Len(s) + 1 /\ a[Len(a)] = e /\ Len(a) \in 1..Len(a)
      /\ \A i \in 1..Len(s) : a[i] = s[i] /\ i \in 1..Len(a)
      /\ \A i \in 1..Len(a) : i \in 1..Len(s) \/ i = Len(a)
  BY <1>1 DEF a
<1>3. e.kind # kind /\ Quiet(s, kind) => Quiet(a, kind)
  BY <1>2 DEF Quiet
<1>4. e.kind = kind /\ Quiet(s, kind) => Single(a, kind, e)
  BY <1>2 DEF Quiet, Single
<1>5. ASSUME NEW m, e.kind # kind, Single(s, kind, m) PROVE Single(a, kind, m)
  <2>1. PICK i \in 1..Len(s) : /\ s[i] = m /\ m.kind = kind
                               /\ \A j \in 1..Len(s) : j # i => s[j].kind # kind
    BY <1>5 DEF Single
  <2>2. \A j \in 1..Len(a) : j # i => a[j].kind # kind
    BY <1>2, <1>5, <2>1
  <2> QED BY <1>2, <2>1, <2>2 DEF Single
<1> QED BY <1>3, <1>4, <1>5 DEF a

LEMMA TailLine ==
  ASSUME NEW S, NEW s \in Seq(S), s # <<>>, NEW kind
  PROVE  /\ Quiet(s, kind) => Quiet(Tail(s), kind)
         /\ \A m : Single(s, kind, m) =>
              IF Head(s).kind = kind THEN Head(s) = m /\ Quiet(Tail(s), kind)
                                     ELSE Single(Tail(s), kind, m)
<1> DEFINE t == Tail(s)
<1>1. /\ Len(s) \in Nat /\ Len(t) = Len(s) - 1 /\ Head(s) = s[1] /\ Len(s) >= 1
      /\ \A i \in 1..Len(t) : t[i] = s[i + 1]
  BY LenProperties, HeadTailProperties, EmptySeq
<1> HIDE DEF t
<1>2. /\ 1 \in 1..Len(s)
      /\ \A i \in 1..Len(t) : i + 1 \in 1..Len(s) /\ i + 1 # 1
      /\ \A i \in 1..Len(s) : i # 1 => i - 1 \in 1..Len(t) /\ t[i - 1] = s[i]
  BY <1>1
<1>3. Quiet(s, kind) => Quiet(t, kind)
  BY <1>1, <1>2 DEF Quiet
<1>4. ASSUME NEW m, Single(s, kind, m)
      PROVE  IF s[1].kind = kind THEN s[1] = m /\ Quiet(t, kind) ELSE Single(t, kind, m)
  <2>1. PICK i \in 1..Len(s) : /\ s[i] = m /\ m.kind = kind
                               /\ \A j \in 1..Len(s) : j # i => s[j].kind # kind
    BY <1>4 DEF Single
  <2>2. CASE i = 1
    BY <1>1, <1>2, <2>1, <2>2 DEF Quiet
  <2>3. CASE i # 1
    <3>1. i - 1 \in 1..Len(t) /\ t[i - 1] = m
      BY <1>2, <2>1, <2>3
    <3>2. \A j \in 1..Len(t) : j # i - 1 => j + 1 # i
      OBVIOUS
    <3>3. \A j \in 1..Len(t) : j # i - 1 => t[j].kind # kind
      BY <1>1, <1>2, <2>1, <3>2
    <3>4. s[1].kind # kind
      BY <1>2, <2>1, <2>3
    <3> QED BY <2>1, <3>1, <3>3, <3>4 DEF Single
  <2> QED BY <2>2, <2>3
<1> QED BY <1>1, <1>3, <1>4 DEF t

\* A control line changes nothing, written or lost.
LEMMA ControlKeepsOne ==
  ASSUME TypeOK, NEW u \in Workers, NEW m \in ToWorker, m.kind # "query",
         NEW w \in Workers, NEW t, NEW o, NEW r, NEW q, OneMessage(inbox[w], t, o, r, q)
  PROVE  OneMessage(Send(inbox, u, m)[w], t, o, r, q)
<1>1. inbox[w] \in Seq(ToWorker)
  BY DEF TypeOK
<1>2. OneMessage(Append(inbox[w], m), t, o, r, q)
  BY <1>1, AppendLine DEF OneMessage, Settled, Handed, Working, Replied
<1>3. Send(inbox, u, m)[w] = inbox[w] \/ Send(inbox, u, m)[w] = Append(inbox[w], m)
  BY DEF Send, TypeOK
<1> QED BY <1>2, <1>3

\* A worker that is given a query had no message left about the one before.
LEMMA ProcessQueuesOne ==
  ASSUME TypeOK, NEW I \in Seq(Workers), NEW P \in Seq(Query),
         NEW M \in [Workers -> Query \cup {None}], ProcessQueues(I, P, M),
         \A i \in 1..Len(I) : I[i] \notin closed => M[I[i]] = None,
         NEW T, NEW O,
         \A w \in Workers : OneMessage(inbox[w], T[w], O[w], reqid[w], M[w])
  PROVE  \A w \in Workers : OneMessage(inbox'[w], T[w], O[w], reqid'[w], mapping'[w])
<1>1. PICK a \in 0..Len(P), b \in 0..Len(I) : Effect(I, P, M, a, b)
  BY ProcessQueuesEffect
<1> SUFFICES ASSUME NEW w \in Workers
             PROVE  OneMessage(inbox'[w], T[w], O[w], reqid'[w], mapping'[w])
  OBVIOUS
<1>2. CASE mapping' = M /\ UNCHANGED <<reqid, inbox>>
  BY <1>2
<1>3. ASSUME NEW p \in 1..a, NEW i \in 1..b,
             /\ I[i] \notin closed
             /\ mapping' = [M EXCEPT ![I[i]] = P[p]]
             /\ reqid' = [reqid EXCEPT ![I[i]] = @ + 1]
             /\ inbox' = Send(inbox, I[i], QueryLine(I[i], P[p]))
      PROVE  OneMessage(inbox'[w], T[w], O[w], reqid'[w], mapping'[w])
  <2>1. /\ p \in 1..Len(P) /\ i \in 1..Len(I)
    BY LenProperties
  <2> DEFINE u == I[i]
             m == QueryLine(u, P[p])
  <2>2. u \in Workers /\ P[p] \in Query /\ M[u] = None
    BY <1>3, <2>1, ElementOfSeq
  <2>3. m \in ToWorker /\ m.kind = "query" /\ m.id = reqid[u] + 1
    <3> HIDE DEF u
    <3>1. reqid \in [Workers -> Nat] /\ u \in Workers
      BY <2>2 DEF TypeOK
    <3>2. reqid[u] + 1 \in Nat
      BY <3>1
    <3> QED BY <2>2, <3>2 DEF QueryLine, ToWorker
  <2>4. /\ inbox' = Send(inbox, u, m)
        /\ mapping' = [M EXCEPT ![u] = P[p]]
        /\ reqid' = [reqid EXCEPT ![u] = @ + 1]
    BY <1>3
  <2> HIDE DEF u, m
  <2>5. CASE w # u
    <3>1. inbox'[w] = inbox[w] /\ reqid'[w] = reqid[w] /\ mapping'[w] = M[w]
      BY <2>4, <2>5 DEF Send, TypeOK
    <3> QED BY <3>1
  <2>6. CASE w = u
    <3>1. Settled(inbox[u], T[u], O[u])
      BY <2>2 DEF OneMessage
    <3>2. reqid'[u] = reqid[u] + 1 /\ mapping'[u] = P[p] /\ P[p] # None
      BY <2>2, <2>4, NoneAssumption DEF TypeOK
    <3>3. CASE inbox'[u] = inbox[u]
      BY <2>6, <3>1, <3>3 DEF OneMessage
    <3>4. CASE inbox'[u] = Append(inbox[u], m)
      <4>1. Single(inbox'[u], "query", m)
        <5>1. inbox[u] \in Seq(ToWorker) /\ Quiet(inbox[u], "query")
          BY <2>2, <3>1 DEF Settled, TypeOK
        <5>2. Single(Append(inbox[u], m), "query", m)
          BY <2>3, <5>1, AppendLine
        <5> QED BY <3>4, <5>2
      <4>2. Handed(inbox'[u], T[u], O[u], reqid'[u])
        BY <2>3, <3>1, <3>2, <4>1 DEF Handed, Settled
      <4> QED BY <2>6, <3>2, <4>2 DEF OneMessage
    <3> QED BY <2>2, <2>4, <3>3, <3>4 DEF Send, TypeOK
  <2> QED BY <2>5, <2>6
<1> QED BY <1>1, <1>2, <1>3 DEF Effect

OneMessageEach ==
  \A w \in Workers : OneMessage(inbox[w], task[w], outbox[w], reqid[w], mapping[w])

LEMMA NoteIdleOne ==
  ASSUME RepliesInv, NEW w \in Workers, mapping[w] # None, NoteIdleQueryWorker(w), NEW O,
         \A v \in Workers : v # w => OneMessage(inbox[v], task[v], O[v], reqid[v], mapping[v]),
         Settled(inbox[w], task[w], O[w])
  PROVE  \A v \in Workers : OneMessage(inbox'[v], task[v], O[v], reqid'[v], mapping'[v])
<1> DEFINE M == [mapping EXCEPT ![w] = None]
<1>t. /\ TypeOK /\ PoolOK(idle, mapping, closed, child)
      /\ idle \in Seq(Workers) /\ pending \in Seq(Query)
      /\ mapping \in [Workers -> Query \cup {None}]
  BY DEF RepliesInv, TypeOK
<1>m. /\ M \in [Workers -> Query \cup {None}] /\ M[w] = None
      /\ \A v \in Workers : v # w => M[v] = mapping[v]
  BY <1>t
<1>n. \/ AskWorkerToDie(w) /\ mapping' = M /\ reqid' = reqid
      \/ ProcessQueues(Append(idle, w), pending, M)
  BY DEF NoteIdleQueryWorker
<1> HIDE DEF M
<1>1. \A v \in Workers : OneMessage(inbox[v], task[v], O[v], reqid[v], M[v])
  BY <1>m DEF OneMessage
<1>2. CASE AskWorkerToDie(w) /\ mapping' = M /\ reqid' = reqid
  <2>1. /\ inbox' = Send(inbox, w, [kind |-> "shutdown"])
        /\ [kind |-> "shutdown"] \in ToWorker /\ [kind |-> "shutdown"].kind # "query"
    BY <1>2 DEF AskWorkerToDie, ToWorker
  <2> QED BY <1>t, <1>1, <1>2, <2>1, ControlKeepsOne
<1>3. CASE ProcessQueues(Append(idle, w), pending, M)
  <2>1. /\ Append(idle, w) \in Seq(Workers) /\ Len(Append(idle, w)) = Len(idle) + 1
        /\ Append(idle, w)[Len(idle) + 1] = w /\ Len(idle) \in Nat
        /\ \A i \in 1..Len(idle) : Append(idle, w)[i] = idle[i] /\ idle[i] \in Workers
    BY <1>t, AppendProperties, ElementOfSeq, LenProperties
  <2> DEFINE I == Append(idle, w)
  <2> HIDE DEF I
  <2>2. \A i \in 1..Len(I) : I[i] \notin closed => M[I[i]] = None
    <3>1. \A i \in 1..Len(I) : i \in 1..Len(idle) \/ i = Len(idle) + 1
      BY <2>1 DEF I
    <3>2. \A i \in 1..Len(idle) : idle[i] \notin closed => M[idle[i]] = None
      BY <1>t, <1>m, <2>1 DEF PoolOK
    <3> QED BY <1>m, <2>1, <3>1, <3>2 DEF I
  <2>3. I \in Seq(Workers) /\ ProcessQueues(I, pending, M)
    BY <1>3, <2>1 DEF I
  <2> QED BY <1>t, <1>m, <1>1, <2>2, <2>3, ProcessQueuesOne
<1> QED BY <1>n, <1>2, <1>3

LEMMA NoteDeadOne ==
  ASSUME RepliesInv, NEW w \in Workers, proc[w] = "dead", NoteDeadWorkerConn(w), NEW O,
         \A v \in Workers : v # w => OneMessage(inbox[v], task[v], O[v], reqid[v], mapping[v]),
         O[w] = <<>>
  PROVE  \A v \in Workers : OneMessage(inbox'[v], task[v], O[v], reqid'[v], mapping'[v])
<1> DEFINE M == [mapping EXCEPT ![w] = None]
<1>t. /\ TypeOK /\ PoolOK(idle, mapping, closed, child)
      /\ idle \in Seq(Workers) /\ pending \in Seq(Query)
      /\ mapping \in [Workers -> Query \cup {None}]
      /\ \A i \in 1..Len(idle) : idle[i] \in Workers
  BY ElementOfSeq DEF RepliesInv, TypeOK
<1>m. /\ M \in [Workers -> Query \cup {None}] /\ M[w] = None
      /\ \A v \in Workers : v # w => M[v] = mapping[v]
  BY <1>t
<1>n. \/ UNCHANGED <<queueVars, inbox>>
      \/ mapping[w] # None /\ ProcessQueues(idle, <<mapping[w]>> \o pending, M)
  BY DEF NoteDeadWorkerConn
<1>s. Settled(inbox[w], task[w], O[w])
  BY EmptySeq DEF RepliesInv, NamesFree, Settled, Quiet
<1> HIDE DEF M
<1>1. CASE UNCHANGED <<queueVars, inbox>>
  BY <1>1, <1>s DEF queueVars, OneMessage
<1>2. CASE mapping[w] # None /\ ProcessQueues(idle, <<mapping[w]>> \o pending, M)
  <2>1. <<mapping[w]>> \o pending \in Seq(Query)
    <3>1. mapping[w] \in Query
      BY <1>t, <1>2
    <3> QED BY <3>1, <1>t, ConcatProperties
  <2>2. \A v \in Workers : OneMessage(inbox[v], task[v], O[v], reqid[v], M[v])
    BY <1>m, <1>s DEF OneMessage
  <2>3. \A i \in 1..Len(idle) : idle[i] \notin closed => M[idle[i]] = None
    BY <1>t, <1>m DEF PoolOK
  <2> QED BY <1>t, <1>m, <1>2, <2>1, <2>2, <2>3, ProcessQueuesOne
<1> QED BY <1>n, <1>1, <1>2

LEMMA LineReadOne ==
  ASSUME RepliesInv, OneMessageEach, NEW w \in Workers, NEW kind, ReadLine(w, kind)
  PROVE  /\ \A v \in Workers : v # w => outbox'[v] = outbox[v]
         /\ kind = "answer" =>
              /\ mapping[w] # None /\ Answer(w).id = reqid[w]
              /\ Settled(inbox[w], task[w], outbox'[w])
         /\ kind # "answer" =>
              OneMessage(inbox[w], task[w], outbox'[w], reqid[w], mapping[w])
<1>1. /\ outbox[w] # <<>> /\ Head(outbox[w]).kind = kind
      /\ outbox' = [outbox EXCEPT ![w] = Tail(@)]
      /\ outbox \in [Workers -> Seq(ToParent)]
  BY DEF ReadLine, RepliesInv, TypeOK
<1>2. outbox'[w] = Tail(outbox[w]) /\ outbox[w] \in Seq(ToParent)
  BY <1>1
<1>3. OneMessage(inbox[w], task[w], outbox[w], reqid[w], mapping[w])
  BY DEF OneMessageEach
<1>4. /\ Quiet(outbox[w], "answer") => Quiet(Tail(outbox[w]), "answer")
      /\ \A m : Single(outbox[w], "answer", m) =>
              IF Head(outbox[w]).kind = "answer"
              THEN Head(outbox[w]) = m /\ Quiet(Tail(outbox[w]), "answer")
              ELSE Single(Tail(outbox[w]), "answer", m)
  BY <1>1, <1>2, TailLine
<1>5. Quiet(outbox[w], "answer") => Head(outbox[w]).kind # "answer"
  <2>1. Head(outbox[w]) = outbox[w][1] /\ 1 \in 1..Len(outbox[w])
    BY <1>1, <1>2, HeadTailProperties, LenProperties, EmptySeq
  <2> QED BY <2>1 DEF Quiet
<1>6. CASE kind = "answer"
  <2>1. mapping[w] # None /\ Replied(inbox[w], task[w], outbox[w], reqid[w])
    BY <1>1, <1>3, <1>5, <1>6 DEF OneMessage, Settled, Handed, Working
  <2>2. Head(outbox[w]).line.id = reqid[w] /\ Quiet(Tail(outbox[w]), "answer")
    BY <1>1, <1>4, <1>6, <2>1 DEF Replied
  <2> QED BY <1>1, <1>2, <1>6, <2>1, <2>2 DEF Replied, Settled, Answer
<1>7. CASE kind # "answer"
  <2>1. OneMessage(inbox[w], task[w], Tail(outbox[w]), reqid[w], mapping[w])
    BY <1>1, <1>3, <1>4, <1>7 DEF OneMessage, Settled, Handed, Working, Replied
  <2> QED BY <1>1, <1>2, <1>7, <2>1
<1> QED BY <1>6, <1>7

LEMMA ReadOne ==
  ASSUME RepliesInv, OneMessageEach, NEW w \in Workers, ParentReads(w)
  PROVE  OneMessageEach' /\ status' = status
<1>t. TypeOK
  BY DEF RepliesInv
<1>1. CASE IgnoreAnswer(w) \/ MismatchedAnswer(w)
  <2>1. ReadLine(w, "answer") /\ (mapping[w] = None \/ ~IdMatches(w))
    BY <1>1 DEF IgnoreAnswer, MismatchedAnswer
  <2> QED BY <2>1, LineReadOne DEF IdMatches
<1>2. CASE DropAnswer(w) \/ RelayAnswer(w)
  <2>1. /\ ReadLine(w, "answer") /\ mapping[w] # None /\ NoteIdleQueryWorker(w)
        /\ UNCHANGED <<status, task>>
    BY <1>2 DEF DropAnswer, RelayAnswer, clientVars
  <2>2. /\ \A v \in Workers : v # w => outbox'[v] = outbox[v]
        /\ Settled(inbox[w], task[w], outbox'[w])
    BY <2>1, LineReadOne
  <2> DEFINE O == outbox'
  <2>3. \A v \in Workers : v # w => OneMessage(inbox[v], task[v], O[v], reqid[v], mapping[v])
    BY <2>2 DEF OneMessageEach
  <2>4. Settled(inbox[w], task[w], O[w])
    BY <2>2
  <2> HIDE DEF O
  <2>5. \A v \in Workers : OneMessage(inbox'[v], task[v], O[v], reqid'[v], mapping'[v])
    BY <2>1, <2>3, <2>4, NoteIdleOne
  <2> QED BY <2>1, <2>5 DEF OneMessageEach, O
<1>3. CASE AnswerPing(w)
  <2>1. PICK m \in {[kind |-> "shutdown"], [kind |-> "stay_alive"]} :
             inbox' = Send(inbox, w, m)
    BY <1>3 DEF AnswerPing, AskWorkerToDie
  <2>2. m \in ToWorker /\ m.kind # "query"
    BY DEF ToWorker
  <2>3. ReadLine(w, ":ping") /\ UNCHANGED <<status, task, reqid, mapping>>
    BY <1>3 DEF AnswerPing, clientVars, queueVars
  <2>4. \A v \in Workers : OneMessage(inbox[v], task[v], outbox'[v], reqid[v], mapping[v])
    BY <2>3, LineReadOne DEF OneMessageEach
  <2> QED BY <1>t, <2>1, <2>2, <2>3, <2>4, ControlKeepsOne DEF OneMessageEach
<1>4. CASE CloseDeadConn(w)
  <2>1. /\ proc[w] = "dead" /\ NoteDeadWorkerConn(w)
        /\ outbox' = [outbox EXCEPT ![w] = <<>>] /\ UNCHANGED <<status, task>>
    BY <1>4 DEF CloseDeadConn, clientVars
  <2> DEFINE O == [outbox EXCEPT ![w] = <<>>]
  <2>2. O[w] = <<>> /\ \A v \in Workers : v # w => O[v] = outbox[v]
    BY <1>t DEF TypeOK
  <2> HIDE DEF O
  <2>3. \A v \in Workers : v # w => OneMessage(inbox[v], task[v], O[v], reqid[v], mapping[v])
    BY <2>2 DEF OneMessageEach
  <2>4. \A v \in Workers : OneMessage(inbox'[v], task[v], O[v], reqid'[v], mapping'[v])
    BY <2>1, <2>2, <2>3, NoteDeadOne
  <2> QED BY <2>1, <2>4 DEF OneMessageEach, O
<1> QED BY <1>1, <1>2, <1>3, <1>4 DEF ParentReads

LEMMA WorkerOne ==
  ASSUME MaxLines = 1, RepliesInv, OneMessageEach, NEW w \in Workers, WorkerRuns(w) \/ Crash(w)
  PROVE  OneMessageEach'
<1>t. /\ TypeOK /\ inbox \in [Workers -> Seq(ToWorker)]
      /\ outbox \in [Workers -> Seq(ToParent)] /\ task \in [Workers -> Task \cup {None}]
      /\ inbox[w] \in Seq(ToWorker) /\ outbox[w] \in Seq(ToParent)
  BY DEF RepliesInv, TypeOK
<1>o. OneMessage(inbox[w], task[w], outbox[w], reqid[w], mapping[w])
  BY DEF OneMessageEach
<1>0. ASSUME \A v \in Workers : v # w => /\ inbox'[v] = inbox[v] /\ outbox'[v] = outbox[v]
                                         /\ task'[v] = task[v],
             UNCHANGED <<reqid, mapping>>,
             OneMessage(inbox'[w], task'[w], outbox'[w], reqid[w], mapping[w])
      PROVE  OneMessageEach'
  BY <1>0 DEF OneMessageEach
<1>a. ASSUME inbox[w] # <<>>
      PROVE  /\ Quiet(inbox[w], "query") => Head(inbox[w]).kind # "query"
                                            /\ Quiet(Tail(inbox[w]), "query")
             /\ \A m : Single(inbox[w], "query", m) =>
                  IF Head(inbox[w]).kind = "query"
                  THEN Head(inbox[w]) = m /\ Quiet(Tail(inbox[w]), "query")
                  ELSE Single(Tail(inbox[w]), "query", m)
  <2>1. Head(inbox[w]) = inbox[w][1] /\ 1 \in 1..Len(inbox[w])
    BY <1>t, <1>a, HeadTailProperties, LenProperties, EmptySeq
  <2>2. Quiet(inbox[w], "query") => Head(inbox[w]).kind # "query"
    BY <2>1 DEF Quiet
  <2> QED BY <1>t, <1>a, <2>2, TailLine
<1>1. CASE TakeQuery(w)
  <2>1. PICK n \in 1..MaxLines :
          task' = [task EXCEPT ![w] = [id |-> Head(inbox[w]).id,
                                       query |-> Head(inbox[w]).query, left |-> n]]
    BY <1>1 DEF TakeQuery
  <2>2. /\ task[w] = None /\ inbox[w] # <<>> /\ Head(inbox[w]).kind = "query"
        /\ inbox' = [inbox EXCEPT ![w] = Tail(@)]
        /\ UNCHANGED <<outbox, reqid, mapping>>
    BY <1>1 DEF TakeQuery, Hears, queueVars
  <2>3. mapping[w] # None /\ Handed(inbox[w], task[w], outbox[w], reqid[w])
    BY <1>a, <1>o, <2>2 DEF OneMessage, Settled, Working, Replied
  <2>4. Head(inbox[w]).id = reqid[w] /\ Quiet(Tail(inbox[w]), "query")
        /\ Quiet(outbox[w], "answer")
    BY <1>a, <2>2, <2>3 DEF Handed
  <2>5. task'[w] # None
    <3>1. Head(inbox[w]) \in ToWorker
      BY <1>t, <2>2, HeadTailProperties
    <3>2. Head(inbox[w]).id \in Nat /\ Head(inbox[w]).query \in Query
      BY <2>2, <3>1 DEF ToWorker
    <3>3. [id |-> Head(inbox[w]).id, query |-> Head(inbox[w]).query, left |-> n] \in Task
      BY <3>2, BoundAssumption DEF Task
    <3> QED BY <1>t, <2>1, <3>3, NoneAssumption
  <2>6. task'[w].id = reqid[w] /\ task'[w].left = 1
    BY <1>t, <2>1, <2>4
  <2>7. inbox'[w] = Tail(inbox[w]) /\ outbox'[w] = outbox[w]
    BY <1>t, <2>2
  <2>8. OneMessage(inbox'[w], task'[w], outbox'[w], reqid[w], mapping[w])
    BY <2>3, <2>4, <2>5, <2>6, <2>7 DEF OneMessage, Working
  <2>9. \A v \in Workers : v # w => /\ inbox'[v] = inbox[v] /\ outbox'[v] = outbox[v]
                                    /\ task'[v] = task[v]
    BY <1>t, <2>1, <2>2
  <2> QED BY <1>0, <2>2, <2>8, <2>9
<1>2. CASE WriteLine(w)
  <2> DEFINE m == [kind |-> "answer", line |-> [id |-> task[w].id, query |-> task[w].query]]
  <2>1. /\ task[w] # None
        /\ outbox' = [outbox EXCEPT ![w] = Append(@, m)]
        /\ task' = [task EXCEPT ![w] = AfterALine(task[w])]
        /\ UNCHANGED <<inbox, reqid, mapping>>
    BY <1>2 DEF WriteLine, queueVars
  <2>2. mapping[w] # None /\ Working(inbox[w], task[w], outbox[w], reqid[w])
    BY <1>o, <2>1 DEF OneMessage, Settled, Handed, Replied
  <2>3. task'[w] = None /\ outbox'[w] = Append(outbox[w], m) /\ inbox'[w] = inbox[w]
    BY <1>t, <2>1, <2>2 DEF Working, AfterALine
  <2>4. m \in ToParent /\ m.kind = "answer" /\ m.line.id = reqid[w]
    <3>1. task[w] \in Task
      BY <1>t, <2>1
    <3> QED BY <2>2, <3>1 DEF ToParent, Line, Task, Working
  <2>9. \A v \in Workers : v # w => /\ inbox'[v] = inbox[v] /\ outbox'[v] = outbox[v]
                                    /\ task'[v] = task[v]
    BY <1>t, <2>1
  <2> HIDE DEF m
  <2>5. Quiet(outbox[w], "answer") /\ Quiet(inbox[w], "query")
    BY <2>2 DEF Working
  <2>6. Single(Append(outbox[w], m), "answer", m)
    BY <1>t, <2>4, <2>5, AppendLine
  <2>7. OneMessage(inbox'[w], task'[w], outbox'[w], reqid[w], mapping[w])
    BY <2>2, <2>3, <2>4, <2>5, <2>6 DEF OneMessage, Replied
  <2> QED BY <1>0, <2>1, <2>7, <2>9
<1>3. CASE ObeyShutdown(w) \/ Crash(w)
  <2>1. /\ inbox' = [inbox EXCEPT ![w] = <<>>] /\ task' = [task EXCEPT ![w] = None]
        /\ UNCHANGED <<outbox, reqid, mapping>>
    BY <1>3 DEF ObeyShutdown, Crash, Dies, queueVars
  <2>2. inbox'[w] = <<>> /\ task'[w] = None /\ outbox'[w] = outbox[w]
    BY <1>t, <2>1
  <2>3. Quiet(inbox'[w], "query")
    BY <2>2, EmptySeq DEF Quiet
  <2>4. OneMessage(inbox'[w], task'[w], outbox'[w], reqid[w], mapping[w])
    BY <1>o, <2>2, <2>3 DEF OneMessage, Settled, Handed, Working, Replied
  <2>9. \A v \in Workers : v # w => /\ inbox'[v] = inbox[v] /\ outbox'[v] = outbox[v]
                                    /\ task'[v] = task[v]
    BY <1>t, <2>1
  <2> QED BY <1>0, <2>1, <2>4, <2>9
<1>4. CASE ParentPing(w)
  <2>1. /\ outbox' = [outbox EXCEPT ![w] = Append(@, [kind |-> ":ping"])]
        /\ UNCHANGED <<inbox, task, reqid, mapping>>
    BY <1>4 DEF ParentPing, queueVars
  <2>2. outbox'[w] = Append(outbox[w], [kind |-> ":ping"])
    BY <1>t, <2>1
  <2>3. [kind |-> ":ping"] \in ToParent /\ [kind |-> ":ping"].kind # "answer"
    BY DEF ToParent
  <2>4. /\ Quiet(outbox[w], "answer") => Quiet(outbox'[w], "answer")
        /\ \A m : Single(outbox[w], "answer", m) => Single(outbox'[w], "answer", m)
    BY <1>t, <2>2, <2>3, AppendLine
  <2>5. OneMessage(inbox'[w], task'[w], outbox'[w], reqid[w], mapping[w])
    BY <1>o, <2>1, <2>4 DEF OneMessage, Settled, Handed, Working, Replied
  <2>9. \A v \in Workers : v # w => /\ inbox'[v] = inbox[v] /\ outbox'[v] = outbox[v]
                                    /\ task'[v] = task[v]
    BY <1>t, <2>1
  <2> QED BY <1>0, <2>1, <2>5, <2>9
<1>5. CASE HearStayAlive(w)
  <2>1. /\ inbox[w] # <<>> /\ Head(inbox[w]).kind # "query"
        /\ inbox' = [inbox EXCEPT ![w] = Tail(@)]
        /\ UNCHANGED <<outbox, task, reqid, mapping>>
    BY <1>5 DEF HearStayAlive, Hears, queueVars
  <2>2. inbox'[w] = Tail(inbox[w])
    BY <1>t, <2>1
  <2>3. OneMessage(inbox'[w], task'[w], outbox'[w], reqid[w], mapping[w])
    BY <1>a, <1>o, <2>1, <2>2 DEF OneMessage, Settled, Handed, Working, Replied
  <2>9. \A v \in Workers : v # w => /\ inbox'[v] = inbox[v] /\ outbox'[v] = outbox[v]
                                    /\ task'[v] = task[v]
    BY <1>t, <2>1
  <2> QED BY <1>0, <2>1, <2>3, <2>9
<1> QED BY <1>1, <1>2, <1>3, <1>4, <1>5 DEF WorkerRuns

SingleInv == RepliesInv /\ OneMessageEach /\ NoMismatch

LEMMA NextSingle ==
  ASSUME MaxLines = 1, SingleInv, [Next]_vars
  PROVE  SingleInv'
<1> USE DEF SingleInv
<1>t. /\ TypeOK /\ PoolOK(idle, mapping, closed, child) /\ TypeOK'
      /\ idle \in Seq(Workers) /\ pending \in Seq(Query)
      /\ mapping \in [Workers -> Query \cup {None}] /\ reqid \in [Workers -> Nat]
      /\ \A i \in 1..Len(idle) : idle[i] \in Workers
  BY NextReplies, ElementOfSeq DEF RepliesInv, TypeOK
<1> SUFFICES OneMessageEach' /\ NoMismatch'
  BY NextReplies
<1>0. ASSUME UNCHANGED <<inbox, task, outbox, reqid, mapping>> PROVE OneMessageEach'
  BY <1>0 DEF OneMessageEach
<1>s. ASSUME status' = status PROVE NoMismatch'
  BY <1>s DEF NoMismatch
<1>1. ASSUME NEW c \in Clients, EnqueueCommandRequest(c) PROVE OneMessageEach' /\ NoMismatch'
  <2>1. Append(pending, [client |-> c, n |-> asked[c] + 1]) \in Seq(Query)
    <3>1. [client |-> c, n |-> asked[c] + 1] \in Query
      BY <1>t DEF TypeOK, Query
    <3> QED BY <3>1, <1>t, AppendProperties
  <2>2. \A i \in 1..Len(idle) : idle[i] \notin closed => mapping[idle[i]] = None
    BY <1>t DEF PoolOK
  <2>3. \A w \in Workers : OneMessage(inbox'[w], task[w], outbox[w], reqid'[w], mapping'[w])
    <3>1. ProcessQueues(idle, Append(pending, [client |-> c, n |-> asked[c] + 1]), mapping)
      BY <1>1 DEF EnqueueCommandRequest
    <3> QED BY <1>t, <2>1, <2>2, <3>1, ProcessQueuesOne DEF OneMessageEach
  <2>4. UNCHANGED <<status, task, outbox>>
    BY <1>1 DEF EnqueueCommandRequest
  <2> QED BY <1>s, <2>3, <2>4 DEF OneMessageEach
<1>2. ASSUME NEW c \in Clients, ClientClose(c) PROVE OneMessageEach' /\ NoMismatch'
  BY <1>0, <1>2, <1>t DEF ClientClose, NoMismatch, TypeOK, queueVars, pipeVars
<1>3. ASSUME NEW j \in Jobs, NEW n \in Wanted, RequestJobProcess(j, n)
      PROVE  OneMessageEach' /\ NoMismatch'
  <2>1. UNCHANGED <<status, task, outbox, reqid, mapping>>
    BY <1>3 DEF RequestJobProcess, clientVars
  <2>2. \A w \in Workers : \/ inbox'[w] = Send(inbox, w, [kind |-> "shutdown"])[w]
                           \/ inbox'[w] = inbox[w]
    BY <1>3 DEF RequestJobProcess
  <2>3. [kind |-> "shutdown"] \in ToWorker /\ [kind |-> "shutdown"].kind # "query"
    BY DEF ToWorker
  <2>4. \A w \in Workers : OneMessage(inbox'[w], task[w], outbox[w], reqid[w], mapping[w])
    BY <1>t, <2>2, <2>3, ControlKeepsOne DEF OneMessageEach
  <2> QED BY <1>s, <2>1, <2>4 DEF OneMessageEach
<1>4. ASSUME NEW w \in Workers, ReapChild(w) PROVE OneMessageEach' /\ NoMismatch'
  <2>1. /\ proc[w] = "dead" /\ outbox' = [outbox EXCEPT ![w] = <<>>]
        /\ NoteDeadWorkerConn(w) \/ UNCHANGED <<queueVars, inbox>>
        /\ UNCHANGED <<status, task>>
    BY <1>4 DEF ReapChild, clientVars
  <2> DEFINE O == [outbox EXCEPT ![w] = <<>>]
  <2>2. O[w] = <<>> /\ \A v \in Workers : v # w => O[v] = outbox[v]
    BY <1>t DEF TypeOK
  <2> HIDE DEF O
  <2>3. \A v \in Workers : v # w => OneMessage(inbox[v], task[v], O[v], reqid[v], mapping[v])
    BY <2>2 DEF OneMessageEach
  <2>4. CASE NoteDeadWorkerConn(w)
    <3>1. \A v \in Workers : OneMessage(inbox'[v], task[v], O[v], reqid'[v], mapping'[v])
      BY <2>1, <2>2, <2>3, <2>4, NoteDeadOne
    <3> QED BY <1>s, <2>1, <3>1 DEF OneMessageEach, O
  <2>5. CASE UNCHANGED <<queueVars, inbox>>
    <3>1. OneMessage(inbox[w], task[w], O[w], reqid[w], mapping[w])
      BY <2>1, <2>2, EmptySeq DEF RepliesInv, NamesFree, OneMessage, Settled, Quiet
    <3> QED BY <1>s, <2>1, <2>3, <2>5, <3>1 DEF OneMessageEach, O, queueVars
  <2> QED BY <2>1, <2>4, <2>5
<1>5. ASSUME NEW w \in Workers, RegisterWorkerConn(w) PROVE OneMessageEach' /\ NoMismatch'
  <2>1. w \notin child /\ UNCHANGED <<status, task, outbox>>
    BY <1>5 DEF RegisterWorkerConn, clientVars
  <2>2. CASE UNCHANGED <<queueVars, inbox>>
    BY <1>0, <1>s, <2>1, <2>2 DEF queueVars
  <2>3. CASE ProcessQueues(Append(idle, w), pending, mapping)
    <3>1. /\ Append(idle, w) \in Seq(Workers) /\ Len(Append(idle, w)) = Len(idle) + 1
          /\ Append(idle, w)[Len(idle) + 1] = w /\ Len(idle) \in Nat
          /\ \A i \in 1..Len(idle) : Append(idle, w)[i] = idle[i]
      BY <1>t, AppendProperties, LenProperties
    <3> DEFINE I == Append(idle, w)
    <3> HIDE DEF I
    <3>2. \A i \in 1..Len(I) : i \in 1..Len(idle) \/ i = Len(idle) + 1
      BY <3>1 DEF I
    <3>3. \A i \in 1..Len(I) : I[i] \notin closed => mapping[I[i]] = None
      BY <1>t, <2>1, <3>1, <3>2 DEF I, PoolOK
    <3>4. I \in Seq(Workers) /\ ProcessQueues(I, pending, mapping)
      BY <2>3, <3>1 DEF I
    <3>5. \A v \in Workers : OneMessage(inbox'[v], task[v], outbox[v], reqid'[v], mapping'[v])
      BY <1>t, <3>3, <3>4, ProcessQueuesOne DEF OneMessageEach
    <3> QED BY <1>s, <2>1, <3>5 DEF OneMessageEach
  <2> QED BY <1>5, <2>2, <2>3 DEF RegisterWorkerConn
<1>6. ASSUME NEW j \in Jobs, NEW w \in Workers, Fork(j, w) PROVE OneMessageEach' /\ NoMismatch'
  <2>1. /\ proc[w] = "none" /\ reqid' = [reqid EXCEPT ![w] = 0]
        /\ UNCHANGED <<status, inbox, task, outbox, mapping>>
    BY <1>6 DEF Fork, Unused, clientVars, pipeVars
  <2>2. OneMessage(inbox[w], task[w], outbox[w], reqid'[w], mapping[w])
    BY <2>1, EmptySeq DEF RepliesInv, NamesFree, OneMessage, Settled, Quiet
  <2>3. \A v \in Workers : v # w => reqid'[v] = reqid[v]
    BY <1>t, <2>1
  <2> QED BY <1>s, <2>1, <2>2, <2>3 DEF OneMessageEach
<1>7. CASE NobodyToReap \/ AllJobsVisited \/ (\E j \in Jobs : ForkFails(j)) \/ UNCHANGED vars
  BY <1>0, <1>s, <1>7 DEF NobodyToReap, AllJobsVisited, ForkFails, clientVars, queueVars,
     pipeVars, vars
<1>8. ASSUME NEW w \in Workers, WorkerRuns(w) \/ Crash(w) PROVE OneMessageEach' /\ NoMismatch'
  <2>1. status' = status
    BY <1>8 DEF WorkerRuns, TakeQuery, WriteLine, ObeyShutdown, ParentPing, HearStayAlive,
       Crash, clientVars
  <2> QED BY <1>8, <1>s, <2>1, WorkerOne
<1>9. ASSUME NEW w \in Workers, ParentReads(w) PROVE OneMessageEach' /\ NoMismatch'
  BY <1>9, <1>s, ReadOne
<1> QED BY <1>1, <1>2, <1>3, <1>4, <1>5, <1>6, <1>7, <1>8, <1>9 DEF Next, CheckChildren

LEMMA InitSingle == Init => SingleInv
<1> SUFFICES ASSUME Init PROVE SingleInv
  OBVIOUS
<1>1. OneMessageEach
  BY EmptySeq DEF Init, OneMessageEach, OneMessage, Settled, Quiet
<1>2. NoMismatch
  BY DEF Init, NoMismatch
<1> QED BY <1>1, <1>2, InitReplies DEF SingleInv

\* Where no query writes a second line no client is ever closed for a mismatch: crashes,
\* requeued queries and clients that hang up leave no old answer behind in a worker that
\* is given its next query.
THEOREM NoClientIsClosedForNothing ==
  ASSUME MaxLines = 1
  PROVE  Spec => []NoMismatch
<1>1. SingleInv /\ [Next]_vars => SingleInv'
  BY NextSingle
<1>2. SingleInv => NoMismatch
  BY DEF SingleInv
<1> QED BY <1>1, <1>2, InitSingle, PTL DEF Spec

--------------------------------------------------------------------------------
(********************** all our kids are running **************************)
(* Where no fork fails either, `each %jobs` always runs to its end, and no *)
(* worker is asked to die twice, which would be subtracted twice: one that *)
(* was asked has no query, nothing to say, and the order in its inbox.     *)

\* A query worker never pings; another job's worker has one ping out at most.
Pings ==
  \A w \in Workers : IF job[w] = QueryWorker THEN Quiet(outbox[w], ":ping")
                                             ELSE Len(outbox[w]) <= 1

Ordered(b) == \E i \in 1..Len(b) : b[i].kind = "shutdown"

Told ==
  \A w \in child \ closed : w \in todie =>
    /\ mapping[w] = None /\ ~Listed(idle, w) /\ outbox[w] = <<>>
    /\ proc[w] = "alive" => Ordered(inbox[w])

LEMMA NothingLeft ==
  ASSUME NEW s \in Seq(ToParent), Quiet(s, "answer"), Quiet(s, ":ping")
  PROVE  s = <<>>
<1>1. ASSUME s # <<>> PROVE FALSE
  <2>1. 1 \in 1..Len(s)
    BY <1>1, LenProperties, EmptySeq
  <2>2. s[1] \in ToParent
    BY <2>1, ElementOfSeq
  <2> QED BY <2>1, <2>2 DEF Quiet, ToParent
<1> QED BY <1>1

LEMMA OrderStays ==
  ASSUME NEW b \in Seq(ToWorker)
  PROVE  /\ \A m \in ToWorker : Ordered(b) \/ m.kind = "shutdown" => Ordered(Append(b, m))
         /\ b # <<>> /\ Head(b).kind # "shutdown" /\ Ordered(b) => Ordered(Tail(b))
         /\ Ordered(b) => b # <<>>
<1>0. Len(b) \in Nat
  BY LenProperties
<1>1. ASSUME NEW m \in ToWorker, Ordered(b) \/ m.kind = "shutdown"
      PROVE  Ordered(Append(b, m))
  <2>1. /\ Len(Append(b, m)) = Len(b) + 1 /\ Append(b, m)[Len(b) + 1] = m
        /\ \A i \in 1..Len(b) : Append(b, m)[i] = b[i]
    BY AppendProperties
  <2> DEFINE a == Append(b, m)
  <2> HIDE DEF a
  <2>2. /\ Len(b) + 1 \in 1..Len(a) /\ a[Len(b) + 1] = m
        /\ \A i \in 1..Len(b) : i \in 1..Len(a) /\ a[i] = b[i]
    BY <1>0, <2>1 DEF a
  <2>3. Ordered(a)
    BY <1>1, <2>2 DEF Ordered
  <2> QED BY <2>3 DEF a
<1>2. ASSUME b # <<>>, Head(b).kind # "shutdown", Ordered(b) PROVE Ordered(Tail(b))
  <2>1. PICK i \in 1..Len(b) : b[i].kind = "shutdown"
    BY <1>2 DEF Ordered
  <2>2. /\ Head(b) = b[1] /\ Len(Tail(b)) = Len(b) - 1
        /\ \A j \in 1..Len(Tail(b)) : Tail(b)[j] = b[j + 1]
    BY <1>2, HeadTailProperties
  <2> DEFINE t == Tail(b)
  <2> HIDE DEF t
  <2>3. i # 1 /\ i - 1 \in 1..Len(t) /\ (i - 1) + 1 = i
    BY <1>0, <1>2, <2>1, <2>2 DEF t
  <2>4. t[i - 1].kind = "shutdown"
    BY <2>1, <2>2, <2>3 DEF t
  <2> QED BY <2>3, <2>4 DEF Ordered, t
<1>3. Ordered(b) => b # <<>>
  BY EmptySeq DEF Ordered
<1> QED BY <1>1, <1>2, <1>3

LEMMA PingsStep ==
  ASSUME RepliesInv, PoolServes, OneMessageEach, Pings, [Next]_vars
  PROVE  Pings'
<1>t. /\ outbox \in [Workers -> Seq(ToParent)] /\ job \in [Workers -> Jobs]
      /\ \A w \in Workers : outbox[w] \in Seq(ToParent) /\ Len(outbox[w]) \in Nat
  BY LenProperties DEF RepliesInv, TypeOK
<1>e. Len(<<>>) = 0 /\ Quiet(<<>>, ":ping")
  BY EmptySeq DEF Quiet
<1>0. ASSUME UNCHANGED <<outbox, job>> PROVE Pings'
  BY <1>0 DEF Pings
<1>w. ASSUME NEW w \in Workers, \A v \in Workers : v # w => outbox'[v] = outbox[v],
             job' = job, \/ outbox'[w] = <<>>
                         \/ outbox[w] # <<>> /\ outbox'[w] = Tail(outbox[w])
      PROVE  Pings'
  <2>1. CASE outbox'[w] = <<>>
    BY <1>w, <1>e, <2>1 DEF Pings
  <2>2. CASE outbox[w] # <<>> /\ outbox'[w] = Tail(outbox[w])
    <3>1. Len(outbox'[w]) = Len(outbox[w]) - 1
      BY <1>t, <2>2, HeadTailProperties
    <3>2. Quiet(outbox[w], ":ping") => Quiet(outbox'[w], ":ping")
      BY <1>t, <2>2, TailLine
    <3>3. IF job[w] = QueryWorker THEN Quiet(outbox'[w], ":ping") ELSE Len(outbox'[w]) <= 1
      BY <1>t, <3>1, <3>2 DEF Pings
    <3> QED BY <1>w, <3>3 DEF Pings
  <2> QED BY <1>w, <2>1, <2>2
<1>1. ASSUME NEW w \in Workers, ParentReads(w) \/ ReapChild(w) PROVE Pings'
  <2>1. /\ job' = job
        /\ \/ outbox' = [outbox EXCEPT ![w] = <<>>]
           \/ outbox[w] # <<>> /\ outbox' = [outbox EXCEPT ![w] = Tail(@)]
    BY <1>1 DEF ParentReads, IgnoreAnswer, DropAnswer, MismatchedAnswer, RelayAnswer,
       AnswerPing, CloseDeadConn, ReapChild, ReadLine, connVars
  <2>2. /\ \A v \in Workers : v # w => outbox'[v] = outbox[v]
        /\ outbox'[w] = <<>> \/ (outbox[w] # <<>> /\ outbox'[w] = Tail(outbox[w]))
    BY <1>t, <2>1
  <2> QED BY <1>w, <2>1, <2>2
<1>2. ASSUME NEW j \in Jobs, NEW w \in Workers, Fork(j, w) PROVE Pings'
  <2>1. proc[w] = "none" /\ outbox' = outbox /\ job' = [job EXCEPT ![w] = j]
    BY <1>2 DEF Fork, Unused, pipeVars
  <2>2. outbox'[w] = <<>> /\ \A v \in Workers : v # w => job'[v] = job[v]
    BY <1>t, <2>1 DEF RepliesInv, NamesFree
  <2> QED BY <1>e, <2>1, <2>2 DEF Pings
<1>3. ASSUME NEW w \in Workers, WriteLine(w) PROVE Pings'
  <2> DEFINE m == [kind |-> "answer", line |-> [id |-> task[w].id, query |-> task[w].query]]
  <2>1. task[w] # None /\ job' = job /\ outbox' = [outbox EXCEPT ![w] = Append(@, m)]
    BY <1>3 DEF WriteLine, connVars
  <2>2. job[w] = QueryWorker
    BY <2>1 DEF OneMessageEach, OneMessage, Settled, PoolServes
  <2>3. m \in ToParent /\ m.kind # ":ping"
    <3>1. task[w] \in Task
      BY <2>1 DEF RepliesInv, TypeOK
    <3> QED BY <3>1 DEF ToParent, Line, Task
  <2>4. outbox'[w] = Append(outbox[w], m) /\ \A v \in Workers : v # w => outbox'[v] = outbox[v]
    BY <1>t, <2>1
  <2> HIDE DEF m
  <2>5. Quiet(outbox'[w], ":ping")
    BY <1>t, <2>2, <2>3, <2>4, AppendLine DEF Pings
  <2> QED BY <2>1, <2>2, <2>4, <2>5 DEF Pings
<1>4. ASSUME NEW w \in Workers, ParentPing(w) PROVE Pings'
  <2>1. /\ job[w] # QueryWorker /\ job' = job /\ outbox[w] = <<>>
        /\ outbox' = [outbox EXCEPT ![w] = Append(@, [kind |-> ":ping"])]
    BY <1>4 DEF ParentPing, connVars
  <2>2. /\ outbox'[w] = Append(outbox[w], [kind |-> ":ping"])
        /\ \A v \in Workers : v # w => outbox'[v] = outbox[v]
        /\ [kind |-> ":ping"] \in ToParent
    BY <1>t, <2>1 DEF ToParent
  <2>3. Len(outbox'[w]) = 1
    BY <1>t, <1>e, <2>1, <2>2, AppendProperties
  <2> QED BY <2>1, <2>2, <2>3 DEF Pings
<1>5. CASE \/ \E c \in Clients : EnqueueCommandRequest(c) \/ ClientClose(c)
           \/ \E j \in Jobs, n \in Wanted : RequestJobProcess(j, n)
           \/ \E w \in Workers : TakeQuery(w) \/ ObeyShutdown(w) \/ HearStayAlive(w)
                                 \/ Crash(w) \/ RegisterWorkerConn(w)
           \/ NobodyToReap \/ AllJobsVisited \/ \E j \in Jobs : ForkFails(j)
           \/ UNCHANGED vars
  BY <1>0, <1>5 DEF EnqueueCommandRequest, ClientClose, RequestJobProcess, TakeQuery,
     ObeyShutdown, HearStayAlive, Crash, RegisterWorkerConn, NobodyToReap, AllJobsVisited,
     ForkFails, connVars, pipeVars, vars
<1> QED BY <1>1, <1>2, <1>3, <1>4, <1>5 DEF Next, CheckChildren, WorkerRuns

\* ProcessQueues sends one line at most to each worker.
LEMMA ProcessQueuesSends ==
  ASSUME TypeOK, NEW I \in Seq(Workers), NEW P \in Seq(Query),
         NEW M \in [Workers -> Query \cup {None}], ProcessQueues(I, P, M), NEW w \in Workers
  PROVE  inbox'[w] = inbox[w] \/ \E m \in ToWorker : inbox'[w] = Append(inbox[w], m)
<1>1. PICK a \in 0..Len(P), b \in 0..Len(I) : Effect(I, P, M, a, b)
  BY ProcessQueuesEffect
<1>2. CASE inbox' = inbox
  BY <1>2
<1>3. ASSUME NEW p \in 1..a, NEW i \in 1..b, inbox' = Send(inbox, I[i], QueryLine(I[i], P[p]))
      PROVE  inbox'[w] = inbox[w] \/ \E m \in ToWorker : inbox'[w] = Append(inbox[w], m)
  <2>1. p \in 1..Len(P) /\ i \in 1..Len(I)
    BY LenProperties
  <2>2. I[i] \in Workers /\ P[p] \in Query
    BY <2>1, ElementOfSeq
  <2>3. \A u \in Workers, q \in Query : QueryLine(u, q) \in ToWorker
    <3>1. \A u \in Workers : reqid[u] + 1 \in Nat
      BY DEF TypeOK
    <3> QED BY <3>1 DEF QueryLine, ToWorker
  <2>4. \A u, m : Send(inbox, u, m)[w] = inbox[w] \/ Send(inbox, u, m)[w] = Append(inbox[w], m)
    BY DEF Send, TypeOK
  <2> QED BY <1>3, <2>2, <2>3, <2>4
<1> QED BY <1>1, <1>2, <1>3 DEF Effect

LEMMA SendAppends ==
  ASSUME TypeOK, NEW u \in Workers, NEW m \in ToWorker, NEW w \in Workers
  PROVE  Send(inbox, u, m)[w] = inbox[w] \/ Send(inbox, u, m)[w] = Append(inbox[w], m)
BY DEF Send, TypeOK

\* A live process loses the order to shut down in no way but by obeying it.
LEMMA InboxStep ==
  ASSUME RepliesInv, [Next]_vars, NEW w \in Workers
  PROVE  \/ inbox'[w] = inbox[w]
         \/ \E m \in ToWorker : inbox'[w] = Append(inbox[w], m)
         \/ inbox[w] # <<>> /\ Head(inbox[w]).kind # "shutdown" /\ inbox'[w] = Tail(inbox[w])
         \/ proc'[w] = "dead"
<1> DEFINE Goal == \/ inbox'[w] = inbox[w]
                   \/ \E m \in ToWorker : inbox'[w] = Append(inbox[w], m)
                   \/ /\ inbox[w] # <<>> /\ Head(inbox[w]).kind # "shutdown"
                      /\ inbox'[w] = Tail(inbox[w])
                   \/ proc'[w] = "dead"
<1>t. /\ TypeOK /\ idle \in Seq(Workers) /\ pending \in Seq(Query)
      /\ mapping \in [Workers -> Query \cup {None}]
      /\ inbox \in [Workers -> Seq(ToWorker)]
      /\ proc \in [Workers -> {"none", "alive", "dead"}]
      /\ \A v \in Workers : Append(idle, v) \in Seq(Workers)
                            /\ [mapping EXCEPT ![v] = None] \in [Workers -> Query \cup {None}]
  BY AppendProperties DEF RepliesInv, TypeOK
<1>s. /\ [kind |-> "shutdown"] \in ToWorker /\ [kind |-> "stay_alive"] \in ToWorker
  BY DEF ToWorker
<1>i. ASSUME NEW v \in Workers, NoteIdleQueryWorker(v) PROVE Goal
  <2>1. \/ inbox' = Send(inbox, v, [kind |-> "shutdown"])
        \/ ProcessQueues(Append(idle, v), pending, [mapping EXCEPT ![v] = None])
    BY <1>i DEF NoteIdleQueryWorker, AskWorkerToDie
  <2>2. CASE inbox' = Send(inbox, v, [kind |-> "shutdown"])
    BY <1>t, <1>s, <2>2, SendAppends
  <2>3. CASE ProcessQueues(Append(idle, v), pending, [mapping EXCEPT ![v] = None])
    BY <1>t, <2>3, ProcessQueuesSends
  <2> QED BY <2>1, <2>2, <2>3
<1>d. ASSUME NEW v \in Workers, NoteDeadWorkerConn(v) PROVE Goal
  <2>1. CASE inbox' = inbox
    BY <2>1
  <2>2. CASE mapping[v] # None
             /\ ProcessQueues(idle, <<mapping[v]>> \o pending, [mapping EXCEPT ![v] = None])
    <3>1. mapping[v] \in Query
      BY <1>t, <2>2
    <3>2. <<mapping[v]>> \o pending \in Seq(Query)
      BY <3>1, <1>t, ConcatProperties
    <3> QED BY <1>t, <2>2, <3>2, ProcessQueuesSends
  <2> QED BY <1>d, <2>1, <2>2 DEF NoteDeadWorkerConn
<1>1. ASSUME NEW c \in Clients, EnqueueCommandRequest(c) PROVE Goal
  <2>1. Append(pending, [client |-> c, n |-> asked[c] + 1]) \in Seq(Query)
    <3>1. [client |-> c, n |-> asked[c] + 1] \in Query
      BY <1>t DEF TypeOK, Query
    <3> QED BY <3>1, <1>t, AppendProperties
  <2>2. ProcessQueues(idle, Append(pending, [client |-> c, n |-> asked[c] + 1]), mapping)
    BY <1>1 DEF EnqueueCommandRequest
  <2> QED BY <1>t, <2>1, <2>2, ProcessQueuesSends
<1>2. ASSUME NEW j \in Jobs, NEW n \in Wanted, RequestJobProcess(j, n) PROVE Goal
  <2>1. \/ inbox'[w] = Send(inbox, w, [kind |-> "shutdown"])[w]
        \/ inbox'[w] = inbox[w]
    BY <1>2 DEF RequestJobProcess
  <2> QED BY <1>t, <1>s, <2>1, SendAppends
<1>3. ASSUME NEW v \in Workers, ParentReads(v) \/ ReapChild(v) PROVE Goal
  <2>1. CASE IgnoreAnswer(v)
    BY <2>1 DEF IgnoreAnswer
  <2>2. CASE DropAnswer(v) \/ RelayAnswer(v)
    BY <1>i, <2>2 DEF DropAnswer, RelayAnswer
  <2>3. CASE MismatchedAnswer(v) \/ AnswerPing(v)
    <3>1. \/ inbox' = Send(inbox, v, [kind |-> "shutdown"])
          \/ inbox' = Send(inbox, v, [kind |-> "stay_alive"])
      BY <2>3 DEF MismatchedAnswer, AnswerPing, AskWorkerToDie
    <3>2. CASE inbox' = Send(inbox, v, [kind |-> "shutdown"])
      BY <1>t, <1>s, <3>2, SendAppends
    <3>3. CASE inbox' = Send(inbox, v, [kind |-> "stay_alive"])
      BY <1>t, <1>s, <3>3, SendAppends
    <3> QED BY <3>1, <3>2, <3>3
  <2>4. CASE CloseDeadConn(v) \/ ReapChild(v)
    <3>1. NoteDeadWorkerConn(v) \/ inbox' = inbox
      BY <2>4 DEF CloseDeadConn, ReapChild
    <3> QED BY <1>d, <3>1
  <2> QED BY <1>3, <2>1, <2>2, <2>3, <2>4 DEF ParentReads
<1>4. ASSUME NEW v \in Workers, RegisterWorkerConn(v) PROVE Goal
  <2>1. ProcessQueues(Append(idle, v), pending, mapping) \/ inbox' = inbox
    BY <1>4 DEF RegisterWorkerConn
  <2> QED BY <1>t, <2>1, ProcessQueuesSends
<1>5. ASSUME NEW v \in Workers, WorkerRuns(v) \/ Crash(v) PROVE Goal
  <2>1. CASE TakeQuery(v) \/ HearStayAlive(v)
    BY <1>t, <2>1 DEF TakeQuery, HearStayAlive, Hears
  <2>2. CASE WriteLine(v) \/ ParentPing(v)
    BY <2>2 DEF WriteLine, ParentPing
  <2>3. CASE ObeyShutdown(v) \/ Crash(v)
    BY <1>t, <2>3 DEF ObeyShutdown, Crash, Dies
  <2> QED BY <1>5, <2>1, <2>2, <2>3 DEF WorkerRuns
<1>6. CASE \/ \E c \in Clients : ClientClose(c)
           \/ NobodyToReap \/ AllJobsVisited
           \/ \E j \in Jobs : ForkFails(j) \/ \E v \in Workers : Fork(j, v)
           \/ UNCHANGED vars
  BY <1>6 DEF ClientClose, NobodyToReap, AllJobsVisited, ForkFails, Fork, pipeVars, vars
<1> QED BY <1>1, <1>2, <1>3, <1>4, <1>5, <1>6 DEF Next, CheckChildren

\* A worker that has been asked to die says nothing more.
LEMMA SilentStep ==
  ASSUME RepliesInv, OneMessageEach, [Next]_vars, NEW w \in Workers, outbox[w] = <<>>,
         mapping[w] = None, proc[w] = "alive" => inbox[w] # <<>>
  PROVE  outbox'[w] = <<>>
<1>t. outbox \in [Workers -> Seq(ToParent)]
  BY DEF RepliesInv, TypeOK
<1>1. CASE outbox' = outbox
  BY <1>1
<1>2. ASSUME NEW v \in Workers, NEW e,
             outbox' = [outbox EXCEPT ![v] = e], v # w \/ e = <<>>
      PROVE  outbox'[w] = <<>>
  BY <1>t, <1>2
<1>3. ASSUME NEW v \in Workers, ParentReads(v) \/ ReapChild(v) PROVE outbox'[w] = <<>>
  <2>1. \/ outbox' = [outbox EXCEPT ![v] = <<>>]
        \/ outbox[v] # <<>> /\ outbox' = [outbox EXCEPT ![v] = Tail(outbox[v])]
    BY <1>3 DEF ParentReads, IgnoreAnswer, DropAnswer, MismatchedAnswer, RelayAnswer,
       AnswerPing, CloseDeadConn, ReapChild, ReadLine
  <2> QED BY <1>2, <2>1
<1>4. ASSUME NEW v \in Workers, WriteLine(v) \/ ParentPing(v) PROVE outbox'[w] = <<>>
  <2>1. v # w
    BY <1>4 DEF WriteLine, ParentPing, OneMessageEach, OneMessage, Settled
  <2> QED BY <1>t, <1>4, <2>1 DEF WriteLine, ParentPing
<1>5. CASE \/ \E c \in Clients : EnqueueCommandRequest(c) \/ ClientClose(c)
           \/ \E j \in Jobs, n \in Wanted : RequestJobProcess(j, n)
           \/ \E v \in Workers : TakeQuery(v) \/ ObeyShutdown(v) \/ HearStayAlive(v)
                                 \/ Crash(v) \/ RegisterWorkerConn(v)
           \/ NobodyToReap \/ AllJobsVisited
           \/ \E j \in Jobs : ForkFails(j) \/ \E v \in Workers : Fork(j, v)
           \/ UNCHANGED vars
  BY <1>1, <1>5 DEF EnqueueCommandRequest, ClientClose, RequestJobProcess, TakeQuery,
     ObeyShutdown, HearStayAlive, Crash, RegisterWorkerConn, NobodyToReap, AllJobsVisited,
     ForkFails, Fork, pipeVars, vars
<1> QED BY <1>3, <1>4, <1>5 DEF Next, CheckChildren, WorkerRuns

\* Who is asked to die is a worker whose connection is up, that was not asked before;
\* from then on it has no query, is not idle, has said all, and the order is on its way.
FreshlyTold(w) ==
  /\ w \in child /\ w \notin closed /\ w \notin todie
  /\ mapping'[w] = None /\ ~Listed(idle', w) /\ outbox'[w] = <<>>
  /\ inbox' = Send(inbox, w, [kind |-> "shutdown"])
  /\ UNCHANGED proc

LEMMA AnswerTold ==
  ASSUME RepliesInv, PoolServes, OneMessageEach, Pings, Told, [Next]_vars,
         NEW w \in Workers, ReadLine(w, "answer"), NoteIdleQueryWorker(w), AskWorkerToDie(w),
         idle' = idle, mapping' = [mapping EXCEPT ![w] = None], UNCHANGED proc
  PROVE  FreshlyTold(w)
<1>1. /\ mapping[w] # None /\ Quiet(outbox'[w], "answer")
      /\ w \in child /\ w \notin closed
  BY LineReadOne DEF Settled, ReadLine, Connected
<1>2. job[w] = QueryWorker /\ Quiet(outbox[w], ":ping")
  BY <1>1 DEF PoolServes, Pings
<1>3. /\ outbox \in [Workers -> Seq(ToParent)] /\ outbox[w] # <<>>
      /\ outbox'[w] = Tail(outbox[w])
  BY DEF ReadLine, RepliesInv, TypeOK
<1>4. Quiet(outbox'[w], ":ping") /\ outbox'[w] \in Seq(ToParent)
  BY <1>2, <1>3, TailLine, HeadTailProperties
<1>5. outbox'[w] = <<>>
  BY <1>1, <1>4, NothingLeft
<1>6. w \notin todie
  BY <1>1 DEF Told
<1>7. mapping'[w] = None
  BY DEF RepliesInv, TypeOK
<1>8. ~Listed(idle, w)
  BY <1>1 DEF RepliesInv, PoolOK, Listed
<1> QED BY <1>1, <1>5, <1>6, <1>7, <1>8 DEF FreshlyTold, AskWorkerToDie

LEMMA PingTold ==
  ASSUME RepliesInv, PoolServes, Pings, Told, NEW w \in Workers, AnswerPing(w),
         AskWorkerToDie(w)
  PROVE  FreshlyTold(w)
<1>1. /\ w \in child /\ w \notin closed /\ outbox[w] # <<>> /\ Head(outbox[w]).kind = ":ping"
      /\ outbox' = [outbox EXCEPT ![w] = Tail(@)]
      /\ UNCHANGED <<idle, mapping, proc>>
      /\ inbox' = Send(inbox, w, [kind |-> "shutdown"])
  BY DEF AnswerPing, AskWorkerToDie, ReadLine, Connected, queueVars, connVars
<1>2. /\ outbox[w] \in Seq(ToParent) /\ outbox'[w] = Tail(outbox[w])
  BY <1>1 DEF RepliesInv, TypeOK
<1>3. job[w] # QueryWorker
  <2>1. Head(outbox[w]) = outbox[w][1] /\ 1 \in 1..Len(outbox[w])
    BY <1>1, <1>2, HeadTailProperties, LenProperties, EmptySeq
  <2> QED BY <1>1, <2>1 DEF Pings, Quiet
<1>4. mapping[w] = None /\ ~Listed(idle, w)
  BY <1>3 DEF PoolServes
<1>5. outbox'[w] = <<>>
  <2>1. Len(outbox[w]) <= 1 /\ Len(outbox[w]) \in Nat /\ Len(outbox'[w]) = Len(outbox[w]) - 1
        /\ outbox'[w] \in Seq(ToParent) /\ Len(outbox'[w]) \in Nat
    BY <1>1, <1>2, <1>3, HeadTailProperties, LenProperties DEF Pings
  <2> DEFINE old == Len(outbox[w])
             new == Len(outbox'[w])
  <2>2. old <= 1 /\ old \in Nat /\ new = old - 1 /\ new \in Nat
    BY <2>1
  <2> HIDE DEF old, new
  <2>3. new = 0
    BY <2>2
  <2> QED BY <2>1, <2>3, EmptySeq DEF new
<1>6. w \notin todie
  BY <1>1 DEF Told
<1> QED BY <1>1, <1>4, <1>5, <1>6 DEF FreshlyTold

\* An idle worker whose connection is up has nothing to say, so that culling it is safe.
LEMMA CulledTold ==
  ASSUME RepliesInv, PoolServes, OneMessageEach, Pings, NEW j \in Jobs, NEW n \in Wanted,
         RequestJobProcess(j, n), NEW w \in child \ closed, w \in todie', w \notin todie
  PROVE  /\ mapping'[w] = None /\ ~Listed(idle', w) /\ outbox'[w] = <<>>
         /\ inbox'[w] = Send(inbox, w, [kind |-> "shutdown"])[w]
<1> DEFINE k == IF j = QueryWorker THEN CullCount(n) ELSE 0
<1>t. /\ n \in Nat /\ Len(idle) \in Nat /\ current[QueryWorker] \in Int
      /\ idle \in Seq(Workers) /\ w \in Workers
      /\ \A i \in 1..Len(idle) : idle[i] \in Workers
  BY WantedAssumption, JobAssumption, LenProperties, ElementOfSeq DEF RepliesInv, TypeOK
<1>1. k \in 0..Len(idle)
  BY <1>t DEF CullCount
<1>2. /\ todie' = todie \cup {idle[i] : i \in 1..k}
      /\ idle' = SubSeq(idle, k + 1, Len(idle))
      /\ UNCHANGED <<mapping, outbox>>
      /\ inbox' = [v \in Workers |-> IF v \in {idle[i] : i \in 1..k}
                                     THEN Send(inbox, v, [kind |-> "shutdown"])[v]
                                     ELSE inbox[v]]
  BY DEF RequestJobProcess
<1> HIDE DEF k
<1>3. PICK i \in 1..k : idle[i] = w
  BY <1>2
<1>4. i \in 1..Len(idle)
  BY <1>t, <1>1
<1>5. mapping[w] = None /\ \A l \in 1..Len(idle) : l # i => idle[l] # w
  BY <1>3, <1>4 DEF RepliesInv, PoolOK
<1>6. ~Listed(idle', w)
  <2>1. \A l \in 1..Len(idle') : k + l \in 1..Len(idle) /\ idle'[l] = idle[k + l]
    BY <1>t, <1>1, <1>2, SubSeqProperties, ElementOfSeq
  <2>2. \A l \in 1..Len(idle') : k + l # i
    BY <1>1, <1>3
  <2> QED BY <1>5, <2>1, <2>2 DEF Listed
<1>7. job[w] = QueryWorker
  BY <1>t, <1>3, <1>4 DEF PoolServes, Listed
<1>8. Quiet(outbox[w], "answer") /\ Quiet(outbox[w], ":ping") /\ outbox[w] \in Seq(ToParent)
  BY <1>t, <1>5, <1>7 DEF OneMessageEach, OneMessage, Settled, Pings, RepliesInv, TypeOK
<1>9. outbox[w] = <<>>
  BY <1>8, NothingLeft
<1> QED BY <1>t, <1>2, <1>3, <1>5, <1>6, <1>9

KidsInv == SingleInv /\ CountInv /\ Pings /\ Told /\ visit = Jobs /\ AllKidsUp

\* The handler of a line asks nobody, or the line's own worker, and that one only once.
LEMMA ReadTold ==
  ASSUME KidsInv, [Next]_vars, NEW w \in Workers, ParentReads(w)
  PROVE  \/ UNCHANGED <<todie, current>>
         \/ AskWorkerToDie(w) /\ FreshlyTold(w)
<1> USE DEF KidsInv
<1>1. CASE IgnoreAnswer(w) \/ CloseDeadConn(w)
  BY <1>1 DEF IgnoreAnswer, CloseDeadConn, staffVars
<1>2. CASE MismatchedAnswer(w)
  <2>1. ReadLine(w, "answer") /\ ~IdMatches(w)
    BY <1>2 DEF MismatchedAnswer
  <2> QED BY <2>1, LineReadOne DEF IdMatches, SingleInv
<1>3. CASE DropAnswer(w) \/ RelayAnswer(w)
  <2>1. ReadLine(w, "answer") /\ NoteIdleQueryWorker(w) /\ UNCHANGED proc
    BY <1>3 DEF DropAnswer, RelayAnswer, connVars
  <2>2. CASE /\ AskWorkerToDie(w) /\ idle' = idle
             /\ mapping' = [mapping EXCEPT ![w] = None]
    BY <2>1, <2>2, AnswerTold DEF SingleInv, CountInv
  <2>3. CASE UNCHANGED <<todie, current>>
    BY <2>3
  <2> QED BY <2>1, <2>2, <2>3 DEF NoteIdleQueryWorker
<1>4. CASE AnswerPing(w)
  BY <1>4, PingTold DEF AnswerPing, SingleInv, CountInv
<1> QED BY <1>1, <1>2, <1>3, <1>4 DEF ParentReads

LEMMA ToldStep ==
  ASSUME KidsInv, RepliesInv', [Next]_vars
  PROVE  Told'
<1> USE DEF KidsInv, SingleInv, CountInv
<1> SUFFICES ASSUME NEW w \in child' \ closed', w \in todie'
             PROVE  /\ mapping'[w] = None /\ ~Listed(idle', w) /\ outbox'[w] = <<>>
                    /\ proc'[w] = "alive" => Ordered(inbox'[w])
  BY DEF Told
<1>t. /\ w \in Workers /\ inbox[w] \in Seq(ToWorker)
      /\ proc \in [Workers -> {"none", "alive", "dead"}]
  BY DEF RepliesInv, TypeOK
<1>s. [kind |-> "shutdown"] \in ToWorker /\ [kind |-> "shutdown"].kind = "shutdown"
  BY DEF ToWorker
<1>1. w \in child /\ w \notin closed
  <2>1. ASSUME NEW v \in Workers, RegisterWorkerConn(v), v = w PROVE FALSE
    BY <1>t, <2>1 DEF RegisterWorkerConn, NewIsFresh
  <2>2. ASSUME NEW j \in Jobs, NEW v \in Workers, Fork(j, v), v = w PROVE FALSE
    BY <1>t, <2>2 DEF Fork, Unused
  <2>3. \/ child' \subseteq child /\ closed \subseteq closed'
        \/ \E v \in Workers : RegisterWorkerConn(v)
        \/ \E j \in Jobs, v \in Workers : Fork(j, v)
    BY DEF Next, CheckChildren, ParentReads, WorkerRuns, EnqueueCommandRequest, ClientClose,
       RequestJobProcess, IgnoreAnswer, DropAnswer, MismatchedAnswer, RelayAnswer, AnswerPing,
       CloseDeadConn, TakeQuery, WriteLine, ObeyShutdown, ParentPing, HearStayAlive, Crash,
       ReapChild, NobodyToReap, AllJobsVisited, ForkFails, staffVars, connVars, vars
  <2>4. CASE \E v \in Workers : RegisterWorkerConn(v)
    BY <2>1, <2>4 DEF RegisterWorkerConn, connVars
  <2>5. CASE \E j \in Jobs, v \in Workers : Fork(j, v)
    BY <2>2, <2>5 DEF Fork
  <2> QED BY <2>3, <2>4, <2>5
<1>2. CASE w \in todie
  <2>1. /\ mapping[w] = None /\ ~Listed(idle, w) /\ outbox[w] = <<>>
        /\ proc[w] = "alive" => Ordered(inbox[w])
    BY <1>1, <1>2 DEF Told
  <2>2. ~RegisterWorkerConn(w)
    BY <1>1 DEF RegisterWorkerConn
  <2>3. mapping'[w] = None /\ ~Listed(idle', w)
    BY <1>t, <2>1, <2>2, PoolStep
  <2>4. outbox'[w] = <<>>
    BY <1>t, <2>1, SilentStep, OrderStays
  <2>5. ASSUME proc'[w] = "alive" PROVE Ordered(inbox'[w])
    <3>1. proc[w] = "alive"
      <4>1. proc[w] # "none"
        BY <1>1, <1>t DEF RepliesInv, NamesFree
      <4>2. proc[w] = "dead" => proc'[w] # "alive"
        BY <1>1, <1>t DEF Next, CheckChildren, ParentReads, WorkerRuns, EnqueueCommandRequest,
           ClientClose, RequestJobProcess, IgnoreAnswer, DropAnswer, MismatchedAnswer,
           RelayAnswer, AnswerPing, CloseDeadConn, TakeQuery, WriteLine, ObeyShutdown,
           ParentPing, HearStayAlive, Crash, Dies, ReapChild, RegisterWorkerConn, Fork, Unused,
           NobodyToReap, AllJobsVisited, ForkFails, staffVars, connVars, vars
      <4> QED BY <1>t, <2>5, <4>1, <4>2
    <3> QED BY <1>t, <2>1, <2>5, <3>1, InboxStep, OrderStays
  <2> QED BY <2>3, <2>4, <2>5
<1>3. CASE w \notin todie
  <2>1. /\ mapping'[w] = None /\ ~Listed(idle', w) /\ outbox'[w] = <<>>
        /\ inbox'[w] = Send(inbox, w, [kind |-> "shutdown"])[w]
        /\ proc' = proc
    <3>1. ASSUME NEW j \in Jobs, NEW n \in Wanted, RequestJobProcess(j, n)
          PROVE  /\ mapping'[w] = None /\ ~Listed(idle', w) /\ outbox'[w] = <<>>
                 /\ inbox'[w] = Send(inbox, w, [kind |-> "shutdown"])[w]
                 /\ proc' = proc
      BY <1>1, <1>3, <3>1, CulledTold DEF RequestJobProcess, connVars
    <3>2. ASSUME NEW v \in Workers, ParentReads(v)
          PROVE  v = w /\ FreshlyTold(w)
      BY <1>3, <3>2, ReadTold DEF AskWorkerToDie
    <3>3. CASE todie' \subseteq todie
      BY <1>3, <3>3
    <3>4. \/ todie' \subseteq todie
          \/ \E j \in Jobs, n \in Wanted : RequestJobProcess(j, n)
          \/ \E v \in Workers : ParentReads(v)
      BY DEF Next, CheckChildren, WorkerRuns, EnqueueCommandRequest, ClientClose,
         TakeQuery, WriteLine, ObeyShutdown, ParentPing, HearStayAlive, Crash,
         ReapChild, RegisterWorkerConn, Fork, NobodyToReap, AllJobsVisited, ForkFails,
         staffVars, vars
    <3> QED BY <3>1, <3>2, <3>3, <3>4 DEF FreshlyTold
  <2>2. ASSUME proc'[w] = "alive" PROVE Ordered(inbox'[w])
    <3>1. inbox'[w] = Append(inbox[w], [kind |-> "shutdown"])
      BY <1>t, <2>1, <2>2 DEF Send, RepliesInv, TypeOK
    <3> QED BY <1>t, <1>s, <3>1, OrderStays
  <2> QED BY <2>1, <2>2
<1> QED BY <1>2, <1>3

Dying(j) == {w \in child : job[w] = j /\ w \in todie}

LEMMA DyingCounted ==
  ASSUME IsFiniteSet(child), NEW j
  PROVE  IsFiniteSet(Dying(j)) /\ Cardinality(Dying(j)) \in Nat
<1>1. Dying(j) \subseteq child
  BY DEF Dying
<1> QED BY <1>1, FS_Subset, FS_CardinalityType

\* What the count loses by asking a worker, those asked to die gain.
LEMMA AskKids ==
  ASSUME KidsInv, NEW w \in Workers, AskWorkerToDie(w), FreshlyTold(w),
         UNCHANGED <<child, job, wanted, allkidsup>>
  PROVE  AllKidsUp'
<1> SUFFICES ASSUME allkidsup, NEW j \in Jobs
             PROVE  wanted[j] <= current'[j] + Cardinality(Dying(j)')
  BY DEF AllKidsUp, Dying
<1>1. /\ IsFiniteSet(Dying(j)) /\ Cardinality(Dying(j)) \in Nat
      /\ wanted[j] <= current[j] + Cardinality(Dying(j))
      /\ wanted[j] \in Nat /\ current[j] \in Int
      /\ current \in [Jobs -> Int] /\ job[w] \in Jobs
  BY DyingCounted DEF KidsInv, AllKidsUp, Dying, CountInv, RepliesInv, TypeOK
<1>2. /\ w \in child /\ w \notin todie
      /\ todie' = todie \cup {w} /\ current' = [current EXCEPT ![job[w]] = @ - 1]
  BY DEF FreshlyTold, AskWorkerToDie
<1>3. CASE job[w] = j
  <2>1. Dying(j)' = Dying(j) \cup {w} /\ w \notin Dying(j)
    BY <1>2, <1>3 DEF Dying
  <2>2. Cardinality(Dying(j)') = Cardinality(Dying(j)) + 1
    BY <1>1, <2>1, FS_AddElement
  <2>3. current'[j] = current[j] - 1
    BY <1>1, <1>2, <1>3
  <2> QED BY <1>1, <2>2, <2>3
<1>4. CASE job[w] # j
  <2>1. Dying(j)' = Dying(j)
    BY <1>2, <1>4 DEF Dying
  <2>2. current'[j] = current[j]
    BY <1>1, <1>2, <1>4
  <2> QED BY <1>1, <2>1, <2>2
<1> QED BY <1>3, <1>4

LEMMA NextKids ==
  ASSUME MaxLines = 1, MaxForkFails = 0, KidsInv, [Next]_vars
  PROVE  KidsInv'
<1>1. SingleInv' /\ CountInv' /\ RepliesInv'
  BY NextSingle, NextCounts DEF KidsInv, SingleInv
<1>2. Pings'
  BY PingsStep DEF KidsInv, SingleInv, CountInv
<1>3. Told'
  BY <1>1, ToldStep
<1>f. ~(\E j \in Jobs : ForkFails(j))
  BY DEF ForkFails, KidsInv, CountInv, RepliesInv, TypeOK
<1>4. visit' = Jobs
  BY <1>f DEF KidsInv, Next, CheckChildren, ParentReads, WorkerRuns, EnqueueCommandRequest,
     ClientClose, RequestJobProcess, IgnoreAnswer, DropAnswer, MismatchedAnswer, RelayAnswer,
     AnswerPing, CloseDeadConn, TakeQuery, WriteLine, ObeyShutdown, ParentPing,
     HearStayAlive, Crash, ReapChild, RegisterWorkerConn, Fork, NobodyToReap,
     AllJobsVisited, staffVars, vars
<1>5. AllKidsUp'
  <2>0. ASSUME UNCHANGED <<allkidsup, wanted, current, child, todie>>,
               \A w \in child : job'[w] = job[w]
        PROVE  AllKidsUp'
    <3>1. \A j \in Jobs : Dying(j)' = Dying(j)
      BY <2>0 DEF Dying
    <3> QED BY <2>0, <3>1 DEF KidsInv, AllKidsUp, Dying
  <2>1. ASSUME NEW w \in Workers, ParentReads(w) PROVE AllKidsUp'
    <3>1. UNCHANGED <<allkidsup, wanted, child, job>>
      BY <2>1 DEF ParentReads, IgnoreAnswer, DropAnswer, MismatchedAnswer, RelayAnswer,
         AnswerPing, CloseDeadConn, staffVars, connVars
    <3> QED BY <2>0, <2>1, <3>1, ReadTold, AskKids
  <2>2. CASE \/ \E j \in Jobs, n \in Wanted : RequestJobProcess(j, n)
             \/ \E w \in Workers : ReapChild(w)
    BY <2>2 DEF RequestJobProcess, ReapChild, AllKidsUp
  <2>3. ASSUME NEW w \in Workers, RegisterWorkerConn(w) PROVE AllKidsUp'
    <3> SUFFICES ASSUME allkidsup', NEW j \in Jobs
                 PROVE  wanted'[j] <= current'[j] + Cardinality(Dying(j)')
      BY DEF AllKidsUp, Dying
    <3>1. /\ w \notin child /\ w \notin todie /\ child' = child \cup {w}
          /\ current' = [current EXCEPT ![job[w]] = @ + 1]
          /\ UNCHANGED <<allkidsup, wanted, todie, job>>
      BY <2>3 DEF RegisterWorkerConn, connVars, KidsInv, CountInv, NewIsFresh
    <3>2. Dying(j)' = Dying(j)
      BY <3>1 DEF Dying
    <3>3. /\ wanted[j] <= current[j] + Cardinality(Dying(j))
          /\ Cardinality(Dying(j)) \in Nat /\ wanted[j] \in Nat /\ current[j] \in Int
          /\ current \in [Jobs -> Int]
      BY <3>1, DyingCounted DEF KidsInv, AllKidsUp, Dying, CountInv, RepliesInv, TypeOK
    <3>4. current'[j] \in Int /\ current'[j] >= current[j]
      BY <3>1, <3>3
    <3> QED BY <3>1, <3>2, <3>3, <3>4
  <2>4. CASE AllJobsVisited
    <3> SUFFICES ASSUME NEW j \in Jobs
                 PROVE  wanted'[j] <= current'[j] + Cardinality(Dying(j)')
      BY DEF AllKidsUp, Dying
    <3>1. UNCHANGED <<wanted, current, child, todie, job>> /\ Missing(j) <= 0
      BY <2>4 DEF AllJobsVisited, connVars, KidsInv
    <3>2. Dying(j)' = Dying(j)
      BY <3>1 DEF Dying
    <3>3. Cardinality(Dying(j)) \in Nat /\ wanted[j] \in Nat /\ current[j] \in Int
      BY DyingCounted DEF KidsInv, CountInv, RepliesInv, TypeOK
    <3> QED BY <3>1, <3>2, <3>3 DEF Missing
  <2>5. ASSUME NEW j \in Jobs, NEW w \in Workers, Fork(j, w) PROVE AllKidsUp'
    <3>1. w \notin child
      BY <2>5 DEF Fork, Unused, KidsInv, CountInv, RepliesInv, NamesFree
    <3>2. /\ UNCHANGED <<allkidsup, wanted, current, child, todie>>
          /\ \A v \in child : job'[v] = job[v]
      BY <2>5, <3>1 DEF Fork, KidsInv, CountInv, RepliesInv, TypeOK
    <3> QED BY <2>0, <3>2
  <2>6. CASE \/ \E c \in Clients : EnqueueCommandRequest(c) \/ ClientClose(c)
             \/ \E w \in Workers : WorkerRuns(w) \/ Crash(w)
             \/ NobodyToReap \/ UNCHANGED vars
    BY <2>0, <2>6 DEF EnqueueCommandRequest, ClientClose, WorkerRuns, TakeQuery, WriteLine,
       ObeyShutdown, ParentPing, HearStayAlive, Crash, NobodyToReap, staffVars, connVars, vars
  <2> QED BY <1>f, <2>1, <2>2, <2>3, <2>4, <2>5, <2>6 DEF Next, CheckChildren
<1> QED BY <1>1, <1>2, <1>3, <1>4, <1>5 DEF KidsInv

\* Where no query writes a second line and no fork fails, $allkidsup says what it means:
\* a worker that dies, is culled or is asked to go clears it or is still counted as one
\* that was asked, so that the parent never stops looking while a job is short.
THEOREM KidsAreUp ==
  ASSUME MaxLines = 1, MaxForkFails = 0
  PROVE  Spec => []AllKidsUp
<1>1. Init => KidsInv
  <2> SUFFICES ASSUME Init PROVE KidsInv
    OBVIOUS
  <2>1. CountInv
    BY InitCounts
  <2>2. SingleInv
    BY InitSingle
  <2>3. Pings /\ Told /\ visit = Jobs /\ AllKidsUp
    BY EmptySeq DEF Init, Pings, Told, Quiet, AllKidsUp
  <2> QED BY <2>1, <2>2, <2>3 DEF KidsInv
<1>2. KidsInv /\ [Next]_vars => KidsInv'
  BY NextKids
<1>3. KidsInv => AllKidsUp
  BY DEF KidsInv
<1> QED BY <1>1, <1>2, <1>3, PTL DEF Spec
====
