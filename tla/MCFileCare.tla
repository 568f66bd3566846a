---------------------------- MODULE MCFileCare ----------------------------
(***************************************************************************)
(* An instance of FileCare for TLC.  Four processes at once are too many,  *)
(* so a behaviour has a crew of three, and the bounds that go with it: two *)
(* query workers and a deleter, or two deleters and a query worker.        *)
(***************************************************************************)
EXTENDS FileCare, TLC

CONSTANTS k1, k2, d1, q1, q2, x1, x2

VARIABLE crew

Alike == Permutations(Keys) \cup Permutations(Queryworkers) \cup Permutations(Deleters)

\* Who there is, and how many commands and deaths.
Crew(who, started, died) == [who : who, commands : {started}, deaths : {died}]
TwoQueryworkers == {Queryworkers \cup {x} : x \in Deleters}
TwoDeleters     == {Deleters \cup {q} : q \in Queryworkers}
Crews == Crew(TwoQueryworkers, MaxCommands, 0) \cup Crew(TwoQueryworkers, MaxCommands - 1, MaxDeaths)
           \cup Crew(TwoDeleters, 2, 0)

MCInit == CareInit /\ crew \in Crews
MCNext ==
  /\ CareNext
  /\ MaxCommands - commands' <= crew.commands
  /\ deaths'.query + deaths'.other <= crew.deaths
  /\ \A w \in (Queryworkers \cup Deleters) \ crew.who : at'[w] = at[w]
  /\ UNCHANGED crew
MCSpec == MCInit /\ [][MCNext]_<<careVars, crew>>
================================================================================
