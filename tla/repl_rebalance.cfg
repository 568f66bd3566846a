\* The Random rebalance policy: any copy may be moved anywhere, by both replicators.
CONSTANTS
  d1 = d1  d2 = d2  d3 = d3  r1 = r1  r2 = r2
  Devs = {d1, d2, d3}
  Host <- TwoHosts
  Replicators = {r1, r2}
  NoDev = none
  MinDevcount = 2
  RebalanceFrom = {d1, d2, d3}
  RebalanceAvoid = {}
  IgnoreMissing = FALSE
  Environment = {"delete"}
  Changes = {}
  MaxChanges = 0
  MaxCrashes = 2
  MaxFails = 1
SYMMETRY Alike
SPECIFICATION Spec
INVARIANTS CopyRemains
PROPERTIES NoWastedCopy
CHECK_DEADLOCK FALSE
