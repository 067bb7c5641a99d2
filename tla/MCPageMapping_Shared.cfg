SPECIFICATION Spec
CONSTANTS
  e1 = e1
  e2 = e2
  e3 = e3
  t1 = t1
  t2 = t2
  t3 = t3
  v1 = v1
  v2 = v2
  q1 = q1
  q2 = q2
  q3 = q3
  Entity = {e1, e2}
  Title = {t1, t2, t3}
  Value = {v1, v2}
  Page = {q1, q2, q3}
  TitlesOf <- SharedTitle
  KeyTitle <- NoKeys
  Order <- Listing
  MaxEdits = 2
  MaxFaults = 0
  None = None
SYMMETRY Interchangeable
INVARIANT PageOfOneEntity
CHECK_DEADLOCK FALSE
