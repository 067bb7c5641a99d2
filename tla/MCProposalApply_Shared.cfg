CONSTANTS
  P = P
  Q = Q
  o1 = o1
  o2 = o2
  k1 = k1
  k2 = k2
  old = old
  new = new
  edited = edited
  foreign = foreign
  vA = vA
  vB = vB
  None = None
  Proposal <- TwoProposals
  Op = {o1, o2}
  Key = {k1, k2}
  Value = {old, new, edited, foreign}
  Version = {vA, vB}
  Pid = {d1, d2, d3}
  Token = {t1, t2, t3}
  OpsOf <- SharedOps
  Order <- Listing
  KeyOf <- Keys
  OldOf <- Olds
  NewOf <- News
  Edited = edited
  SourceOf <- SameSource
  WikiBound = {}
  Decisions = {"EDIT"}
  FreshPids = TRUE
  Faults = {"crash", "edit", "unanswered", "raise"}
  MaxRevision = 2
  MaxFaults = 2
SPECIFICATION Spec
INVARIANTS
  RecoveryDropsOnlyLanded
PROPERTIES
  CheckpointMovesWithCommit
CHECK_DEADLOCK FALSE
