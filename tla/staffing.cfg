\* Two jobs, !want, a crash, fairness; every query writes one line.
SPECIFICATION FairSpec
CONSTANTS
  c1 = c1
  c2 = c2
  w1 = w1
  w2 = w2
  w3 = w3
  w4 = w4
  queryworker = queryworker
  delete = delete
  Clients = {c1}
  Workers = {w1, w2, w3, w4}
  Jobs = {queryworker, delete}
  InitMin <- TwoAndOne
  Wanted = {0, 1}
  MaxReqs = 2
  MaxLines = 1
  MaxCrashes = 1
  MaxForkFails = 0
  MaxWants = 1
  QueryWorker = queryworker
  None = None
INVARIANTS NeverOvercounted AllKidsUp NoMismatch
PROPERTIES Answered Staffed Obeyed
\* The system stops when every client has hung up or had its queries answered.
CHECK_DEADLOCK FALSE
