SPECIFICATION FairSpec
CONSTANTS
  c1 = c1
  c2 = c2
  a1 = a1
  a2 = a2
  Cli = {c1, c2}
  Apply = {a1, a2}
  MaxEdits = 2
  MaxSyncs = 2
  MaxFaults = 1
  None = None
INVARIANTS TypeOK WritesUnderCitedIndex PointersFollow
PROPERTIES BaselineIsKept IndexNeverGoesBack LockIsFreed
CHECK_DEADLOCK FALSE
