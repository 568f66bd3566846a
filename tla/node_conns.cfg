\* Three clients for two connections, pipelined requests; a slow reader, one that hangs up, a
\* failure of the server, SIGINT.
SPECIFICATION Spec
CONSTANTS
  Clients = {1, 2, 3}
  Plan <- ThePlan
  MaxConns = 2
  FdsHigh = 1
  FdsLow = 2
  MaxKeepAlive = 1
  MaxReadIdle = 0
  MaxKeepAliveIdle = 0
  MaxWriteIdle = 0
  Room = 1
  MaxQuits = 1
  MaxFailures = 1
PROPERTIES ConnectionsEnd GracefulStops
INVARIANTS ListsAgree EventsHaveHandlers NobodyForgotten CutOffForAReason
\* Every client may be done, or the worker stopped.
CHECK_DEADLOCK FALSE
