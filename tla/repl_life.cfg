\* A device is drained, or dies while the file is at rest; copies fail, workers die.
CONSTANTS
  d1 = d1  d2 = d2  d3 = d3  r1 = r1  r2 = r2
  Devs = {d1, d2, d3}
  Host <- TwoHosts
  Replicators = {r1, r2}
  NoDev = none
  MinDevcount = 2
  RebalanceFrom = {}
  RebalanceAvoid = {}
  IgnoreMissing = TRUE
  Environment = {}
  Changes = {"drain", "dead"}
  MaxChanges = 1
  MaxCrashes = 1
  MaxFails = 1
SPECIFICATION FairSpec
INVARIANTS OwedIsQueued
PROPERTIES Replicated Drained
CHECK_DEADLOCK FALSE
