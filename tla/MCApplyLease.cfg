CONSTANTS
  Worker = {w1, w2}
  Pid = {d1, d2, d3}
  Proposal = {p1, p2}
  MaxRevision = 2
  Token = {t1, t2, t3}
  FreshPids = TRUE
  None = None
SPECIFICATION Spec
INVARIANTS TypeOK MutualExclusion HeartbeatFindsRow
SYMMETRY Symmetry
CHECK_DEADLOCK FALSE
