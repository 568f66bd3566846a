\* fsck over and over beside a replicator; a request fails or fsck dies.
CONSTANTS
  d1 = d1  d2 = d2  d3 = d3  r1 = r1  r2 = r2
  Devs = {d1, d2, d3}
  Host <- TwoHosts
  Replicators = {r1}
  NoDev = none
  MinDevcount = 2
  RebalanceFrom = {}
  RebalanceAvoid = {}
  IgnoreMissing = TRUE
  Environment = {}
  Changes = {}
  MaxChanges = 0
  MaxCrashes = 0
  MaxFails = 1
  PolicyOnly = FALSE
SPECIFICATION FairFsckSpec
PROPERTIES Repaired KeepsACopy
CHECK_DEADLOCK FALSE
