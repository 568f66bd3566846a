\* Two query workers and a deleter, one of which may die; or two deleters and a query worker.
SPECIFICATION MCSpec
CONSTANTS
  k1 = k1
  k2 = k2
  d1 = d1
  q1 = q1
  q2 = q2
  x1 = x1
  x2 = x2
  Keys = {k1, k2}
  Devs = {d1}
  Queryworkers = {q1, q2}
  Deleters = {x1, x2}
  None = None
  MaxFid = 2
  MaxCommands = 5
  MaxDeaths = 1
  Environment = {"same_key", "abandon", "renames"}
SYMMETRY Alike
INVARIANTS LiveIsNotDoomed CopySurvives NothingForgotten
\* With an empty database every process may be idle and every bound used up.
CHECK_DEADLOCK FALSE
