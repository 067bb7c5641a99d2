SPECIFICATION PatientSpec
CONSTANTS
  Proposal = {p1}
  Update = {u1, u2, u3}
  Database = {d1}
  Base = {b1, b2}
  Secret = {s1, s2}
  CreatorShown = TRUE
  Limit <- RecoveryLimit
  MaxFaults = 5
  None = none
  p1 = p1
  p2 = p2
  u1 = u1
  u2 = u2
  u3 = u3
  d1 = d1
  d2 = d2
  b1 = b1
  b2 = b2
  s1 = s1
  s2 = s2
  none = none
PROPERTIES AdoptionAttested AdoptableAdopted
CHECK_DEADLOCK FALSE
