\* Everything that should go goes in the end.
SPECIFICATION FairFileSpec
CONSTANTS
  k1 = k1
  k2 = k2
  d1 = d1
  d2 = d2
  q1 = q1
  q2 = q2
  x1 = x1
  x2 = x2
  Keys = {k1}
  Devs = {d1}
  Queryworkers = {q1}
  Deleters = {x1}
  None = None
  MaxFid = 2
  MaxCommands = 3
  MaxDeaths = 1
  Environment = {}
PROPERTIES Purged
\* With an empty database every process may be idle and every bound used up.
CHECK_DEADLOCK FALSE
