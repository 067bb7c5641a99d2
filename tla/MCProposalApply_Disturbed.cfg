CONSTANTS
  P = P
  Q = Q
  o1 = o1
  o2 = o2
  k1 = k1
  k2 = k2
  old = old
  new = new
  edited = edited
  foreign = foreign
  vA = vA
  vB = vB
  None = None
  Proposal <- OneProposal
  Op = {o1, o2}
  Key = {k1, k2}
  Value = {old, new, edited, foreign}
  Version = {vA, vB}
  Pid = {d1, d2, d3}
  Token = {t1, t2, t3}
  OpsOf <- OneOps
  Order <- Listing
  KeyOf <- Keys
  OldOf <- Olds
  NewOf <- News
  Edited = edited
  SourceOf <- OneSource
  WikiBound = {P}
  Decisions = {"EDIT", "DEFER"}
  FreshPids = TRUE
  Faults = {"crash", "edit", "source", "wiki", "unanswered", "raise", "release", "time"}
  MaxRevision = 2
  MaxFaults = 2
SPECIFICATION Spec
INVARIANTS
  TypeOK
  ReceiptMatchesStatus
  DoneMeansLanded
  RecoveryDropsOnlyLanded
PROPERTIES
  WritesAreAuthorised
  OverwritesOnlyReviewed
  WrittenOnce
  CheckpointMovesWithCommit
CHECK_DEADLOCK FALSE
