\* The database forgets its counter, or a command is started over.  MaxDeaths = 1 is part
\* of what is claimed: after two failures a fid may be live and open (see the README).
SPECIFICATION FileSpec
CONSTANTS
  k1 = k1
  k2 = k2
  d1 = d1
  d2 = d2
  q1 = q1
  q2 = q2
  x1 = x1
  x2 = x2
  Keys = {k1, k2}
  Devs = {d1}
  Queryworkers = {q1, q2}
  Deleters = {x1}
  None = None
  MaxFid = 2
  MaxCommands = 4
  MaxDeaths = 1
  Environment = {"reset", "renames", "requeue"}
SYMMETRY Alike
INVARIANTS LiveIsNotOpen
\* With an empty database every process may be idle and every bound used up.
CHECK_DEADLOCK FALSE
