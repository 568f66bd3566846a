------------------------------ MODULE ClientUpload ------------------------------
(***************************************************************************)
(* The C++ client stores one file (YlemClient::ylem_putfile): CREATE_OPEN  *)
(* at the tracker, the content in sections to the storage node, one        *)
(* connection each and hardly an answer awaited, then CREATE_CLOSE.  The   *)
(* node's workers take the sections in any order, the tracker asks the     *)
(* node for the size and gives the file its key.  A unit is a byte: small  *)
(* numbers keep the code's comparison of bytes with a number of tries.     *)
(***************************************************************************)
EXTENDS StorageNode

CONSTANTS
  Name,       \* the path the tracker gives out
  Sizes,      \* sizes of files
  Block,      \* MAXFILEBLOCK
  LoopNumber  \* LOOPNUMBER

ASSUME UploadAssumption ==
  /\ Name \in Paths /\ Inodes # {}
  /\ Sizes \subseteq Nat /\ {Block, LoopNumber} \subseteq Nat \ {0}

VARIABLES
  up,       \* the client: where it is and the locals of putfile
  sent,     \* requests on their way to the node
  tracker,  \* the tracker: where it is, the tempfile row, what the key leads to
  lost      \* history: the labels of sections refused, cut short or not sent

uploadVars == <<nodeVars, up, sent, tracker, lost>>

NoFile  == -1     \* what the key leads to: nothing, an older file, or a length
OldFile == -2
NoSize  == -1     \* HEAD failed

Byte(i) == i      \* the i-th byte of the client's file
SizeRequest    == [method |-> "HEAD", path |-> Name, off |-> Whole, body |-> <<>>, to |-> Name, overwrite |-> TRUE]

UploadInit ==
  /\ NodeInit
  /\ entry = [p \in Paths |-> Absent] /\ data = [i \in Inodes |-> <<>>]
  /\ up \in {[pc |-> "open", size |-> s, left |-> s, at |-> 0, off |-> 0, tries |-> 1, total |-> 0,
              session |-> TRUE] : s \in Sizes}
  /\ sent = {} /\ lost = {}
  /\ tracker = [pc |-> "idle", temp |-> FALSE, key |-> OldFile]

NodeUnchanged == UNCHANGED nodeVars
Fault == faults < MaxFaults /\ faults' = faults + 1

-------------------------------------------------------------------------------
(* The sections *)

\* ylem_createopen; with an error ylem_putfile returns it.
CreateOpen ==
  /\ up.pc = "open"
  /\ \/ up' = [up EXCEPT !.pc = "section"] /\ tracker' = [tracker EXCEPT !.temp = TRUE] /\ UNCHANGED faults
     \/ up' = [up EXCEPT !.pc = "err", !.session = FALSE] /\ Fault
        /\ tracker' \in {tracker, [tracker EXCEPT !.temp = TRUE]}
  /\ UNCHANGED <<entry, data, job, cache, sent, lost>>

SendSize == Min({up.left, Block})
Section  == [method |-> "PUT", path |-> Name, off |-> up.at, to |-> Name, overwrite |-> TRUE,
             body |-> [i \in 1..SendSize |-> Byte(up.off + i)]]

\* What is left after a section, and whether there is another one.
DropsTail(left) == left - Block > 1                                         \* mutant
More(left)      == left - Block > 0

\* The end of putfile's loop.  What is left is compared with LOOPNUMBER, not the tries.
EndSection(u, isz) ==
  LET gaveUp == u.left = LoopNumber
      total == IF gaveUp THEN -1 ELSE u.total + isz
  IN  [u EXCEPT !.total = total, !.left = @ - Block, !.at = @ + SendSize, !.tries = 1,
                !.pc = IF ~gaveUp /\ More(u.left) THEN "section" ELSE IF total < 0 THEN "err" ELSE "close"]

\* sectsendfile: only after a section that is not full an answer is read.
SendSection ==
  /\ up.pc = "section"
  /\ sent' = sent \cup {Section}
  /\ LET u == [up EXCEPT !.off = @ + SendSize]
     IN  up' = IF SendSize # Block THEN [u EXCEPT !.pc = "recv"] ELSE EndSection(u, SendSize)
  /\ NodeUnchanged /\ UNCHANGED <<tracker, lost>>

\* Labels of sections the node has not answered.
Unanswered == {r.off : r \in {q \in sent \cup {job[w].req : w \in {v \in Procs : job[v] # Idle}} : q # SizeRequest}}

\* Whatever the answer is; or the node closed the connection.
ReadAnswer ==
  /\ up.pc = "recv"
  /\ up.at \notin Unanswered
  /\ up' = EndSection(up, SendSize)
  /\ NodeUnchanged /\ UNCHANGED <<sent, tracker, lost>>

\* sendfile() sends a part and the node waits for the rest until the connection is closed.
SendShort(n) ==
  /\ up.pc = "section" /\ n \in 1..(SendSize - 1) /\ Fault
  /\ up' = EndSection([up EXCEPT !.off = @ + n], n)
  /\ lost' = lost \cup {up.at}
  /\ UNCHANGED <<entry, data, job, cache, sent, tracker>>

\* No connection, or nothing is sent: LOOPNUMBER tries.  A node that is down stays down.
Retried(u) == [u EXCEPT !.tries = @ + 1]
SendFails ==
  /\ up.pc = "section" /\ IF up.tries = 1 THEN Fault ELSE UNCHANGED faults
  /\ up' = IF up.tries < LoopNumber THEN Retried(up) ELSE EndSection(up, -1)
  /\ lost' = IF up.tries < LoopNumber THEN lost ELSE lost \cup {up.at}
  /\ UNCHANGED <<entry, data, job, cache, sent, tracker>>

-------------------------------------------------------------------------------
(* CREATE_CLOSE *)

TriesForever(u, ok) == [u EXCEPT !.pc = IF ok THEN "ok" ELSE "close"]       \* mutant
\* parseSerLangue of the tracker's line; errors are tried again.
Told(u, ok) == [u EXCEPT !.tries = IF ok THEN @ ELSE @ + 1,
                         !.pc = IF ok THEN "ok" ELSE IF u.tries < LoopNumber THEN "close" ELSE "err"]

\* cmd_create_close up to the HEAD: the older file of the key is deleted before.
CreateClose ==
  /\ up.pc = "close" /\ up.session /\ tracker.pc = "idle"
  /\ IF tracker.temp
     THEN /\ up' = [up EXCEPT !.pc = "closing"] /\ sent' = sent \cup {SizeRequest}
          /\ tracker' = [tracker EXCEPT !.pc = "head", !.key = NoFile]
     ELSE up' = Told(up, FALSE) /\ UNCHANGED <<sent, tracker>>
  /\ NodeUnchanged /\ UNCHANGED lost

\* The tempfile row of an upload that takes too long is cleaned up.
TempfileExpires ==
  /\ tracker.temp /\ tracker.pc = "idle" /\ Fault
  /\ tracker' = [tracker EXCEPT !.temp = FALSE]
  /\ UNCHANGED <<entry, data, job, cache, up, sent, lost>>

\* Without a session every try fails at once.
CloseFails ==
  /\ up.pc = "close" /\ ~up.session
  /\ up' = Told(up, FALSE)
  /\ NodeUnchanged /\ UNCHANGED <<sent, tracker, lost>>

\* The rest of cmd_create_close: no size, no file.
CommitsAnything(n) == n # NoSize                                            \* mutant
Committable(n)     == n > 0
Sized(n) ==
  /\ tracker' = [tracker EXCEPT !.pc = "idle", !.temp = @ /\ ~Committable(n),
                                !.key = IF Committable(n) THEN n ELSE @]
  /\ up' = IF up.pc = "closing" THEN Told(up, Committable(n)) ELSE up

\* The connection to the tracker breaks; what the tracker does it does to the end.
SessionBreaks ==
  /\ up.pc \in {"close", "closing"} /\ up.session /\ Fault
  /\ up' = IF up.pc = "closing" THEN Told([up EXCEPT !.session = FALSE], FALSE)
           ELSE [up EXCEPT !.session = FALSE]
  /\ UNCHANGED <<entry, data, job, cache, sent, tracker, lost>>

-------------------------------------------------------------------------------
(* The node *)

TakeSent(w) ==
  /\ \E r \in sent : Take(w, r) /\ sent' = sent \ {r}
  /\ UNCHANGED <<up, tracker, lost>>

\* An answer goes to the tracker; the answers to sections go unread.
AnswerSent(w) ==
  /\ Answer(w) /\ UNCHANGED sent
  /\ IF job[w].req = SizeRequest
     THEN Sized(IF job[w].status = 200 THEN job[w].size ELSE NoSize) /\ UNCHANGED lost
     ELSE UNCHANGED <<up, tracker>> /\ lost' = IF job[w].status \in {200, 201} THEN lost ELSE lost \cup {job[w].req.off}

DiesAtWork(w) ==
  /\ Dies(w) /\ UNCHANGED sent
  /\ IF job[w].req = SizeRequest THEN Sized(NoSize) /\ UNCHANGED lost
     ELSE UNCHANGED <<up, tracker>> /\ lost' = lost \cup {job[w].req.off}

Client == CreateOpen \/ SendSection \/ ReadAnswer \/ CreateClose \/ CloseFails
Trouble == (\E n \in 1..Block : SendShort(n)) \/ SendFails \/ SessionBreaks \/ TempfileExpires \/ \E w \in Procs : DiesAtWork(w)
NodeAtWork(w) == \/ TakeSent(w) \/ AnswerSent(w)
                 \/ WorkerStep(w) /\ UNCHANGED <<up, sent, tracker, lost>>

UploadNext ==
  \/ Client \/ Trouble
  \/ \E w \in Procs : \/ NodeAtWork(w)
                      \/ Clock(w) /\ UNCHANGED <<up, sent, tracker, lost>>

UploadSpec == UploadInit /\ [][UploadNext]_uploadVars

\* Workers serve what comes in; the client goes on.
FairUploadSpec ==
  /\ UploadSpec /\ WF_uploadVars(Client)
  /\ \A w \in Procs : WF_uploadVars(NodeAtWork(w))

-------------------------------------------------------------------------------
Stored   == tracker.key > 0
Returned == up.pc \in {"ok", "err"}

\* As long as every section so far went out whole, whatever happened to them at the node, each
\* byte there is the byte of the client's file or a hole: sections are taken in any order, by
\* any worker, and a try that failed is repeated.  (putfile 231-257: the label is counted on
\* by the client, the place in the file by sendfile().)
InStep == up.off = up.at + (IF up.pc = "recv" THEN SendSize ELSE 0)
SectionsInPlace ==
  InStep => \A i \in DOMAIN View[Name].has : View[Name].has[i] \in {0, Byte(i)}

\* A file reported as stored is whole, once the sections still on their way have been served,
\* if none was refused or lost.  (YlemClient::ylem_putfile, which never hears of that.)
WholeOnceServed ==
  up.pc = "ok" /\ lost = {} /\ Unanswered = {} => View[Name] = File([i \in 1..up.size |-> Byte(i)])

\* The length the tracker stores is the file's, whatever became of other sections, if the last
\* one is not full, so that its answer was awaited, and it was not lost.  (cmd_create_close
\* asks the node, sectsendfile 516-527.)
LastLabel == ((up.size - 1) \div Block) * Block
LengthRight ==
  Stored /\ up.size % Block # 0 /\ LastLabel \notin lost /\ InStep => tracker.key = up.size

\* What the client returns is true: the file has its key, or it has not and will not have.
\* Without a session the client cannot know.  (ylem_createclose 301-327.)
ReportedTruly ==
  /\ up.pc = "ok" => Stored
  /\ up.pc = "err" /\ up.session => ~Stored /\ tracker.pc = "idle"

\* ylem_putfile returns, through retries, deaths of workers and a broken session.
Returns == <>Returned
================================================================================
