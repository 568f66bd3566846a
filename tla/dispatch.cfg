\* Two clients, two query workers, a crash, a failing fork, queries that write two lines.
SPECIFICATION Spec
CONSTANTS
  c1 = c1
  c2 = c2
  w1 = w1
  w2 = w2
  w3 = w3
  w4 = w4
  queryworker = queryworker
  delete = delete
  Clients = {c1, c2}
  Workers = {w1, w2, w3}
  Jobs = {queryworker}
  InitMin <- TwoEach
  Wanted = {}
  MaxReqs = 2
  MaxLines = 2
  MaxCrashes = 1
  MaxForkFails = 1
  MaxWants = 0
  QueryWorker = queryworker
  None = None
SYMMETRY Interchangeable
INVARIANTS TypeOK RepliesMatch OutstandingOnce OneQueueEmpty NoWorkerLost
PROPERTIES Serves
\* The system stops when every client has hung up or had its queries answered.
CHECK_DEADLOCK FALSE
