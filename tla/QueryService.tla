----------------------------- MODULE QueryService -----------------------------
(***************************************************************************)
(* What the parent process promises its clients, with no queues, workers   *)
(* or pipes: a client asks, and in one step either gets the answer to that *)
(* question or has its connection ended.  Nothing is answered that was not *)
(* asked, nothing twice, and nothing after the end.                        *)
(* ProcManager implements it (Serves).                                     *)
(***************************************************************************)
EXTENDS Naturals, Sequences

CONSTANT Clients

VARIABLES
  phase,   \* "quiet", "waiting" for an answer, or "gone"
  got      \* the answers each client has read

Init ==
  /\ phase = [c \in Clients |-> "quiet"]
  /\ got = [c \in Clients |-> <<>>]

Ask(c) ==
  /\ phase[c] = "quiet"
  /\ phase' = [phase EXCEPT ![c] = "waiting"]
  /\ UNCHANGED got

\* The answer to the question the client waits for: its (n + 1)st, after n answers.
Reply(c) ==
  /\ phase[c] = "waiting"
  /\ phase' = [phase EXCEPT ![c] = "quiet"]
  /\ got' = [got EXCEPT ![c] = Append(@, [client |-> c, n |-> Len(@) + 1])]

\* The client hangs up, or the parent closes its connection.
Leave(c) ==
  /\ phase[c] # "gone"
  /\ phase' = [phase EXCEPT ![c] = "gone"]
  /\ UNCHANGED got

Next == \E c \in Clients : Ask(c) \/ Reply(c) \/ Leave(c)

Spec == Init /\ [][Next]_<<phase, got>>
================================================================================
