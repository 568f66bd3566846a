\* Two workers, any two changing requests or up to four reading ones, one failure.
SPECIFICATION TreeSpec
CONSTANTS
  w1 = w1  w2 = w2
  Procs = {w1, w2}
  Paths <- ThePaths
  Inodes <- TheInodes
  Hash <- NoCollision
  Load <- TheLoad
  Trees <- TheTrees
  MaxBody = 2
  MaxRequests = 4
  MaxFaults = 1
SYMMETRY Alike
INVARIANTS AllOrNothing RefusedKeepsSource ServedIsCurrent
\* Every request may have been answered.
CHECK_DEADLOCK FALSE
