\* Files of less than, just and more than a section; one thing goes wrong.
SPECIFICATION FairUploadSpec
CONSTANTS
  w1 = w1  w2 = w2
  Procs = {w1, w2}
  Paths <- TheNames
  Inodes = {1, 2}
  Hash <- OneKey
  Name <- TheName
  MaxBody = 4
  MaxFaults = 1
  Sizes = {2, 5, 7, 8, 9}
  Block = 4
  LoopNumber = 3
INVARIANTS SectionsInPlace WholeOnceServed LengthRight ReportedTruly
PROPERTIES Returns
\* The client returns once.
CHECK_DEADLOCK FALSE
