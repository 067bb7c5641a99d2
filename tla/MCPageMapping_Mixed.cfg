SPECIFICATION Spec
CONSTANTS
  e1 = e1
  e2 = e2
  e3 = e3
  t1 = t1
  t2 = t2
  t3 = t3
  v1 = v1
  v2 = v2
  q1 = q1
  q2 = q2
  q3 = q3
  Entity = {e1, e2, e3}
  Title = {t1, t2, t3}
  Value = {v1}
  Page = {q1, q2, q3}
  TitlesOf <- MixedTitles
  KeyTitle <- MixedKeys
  Order <- LongListing
  MaxEdits = 3
  MaxFaults = 2
  None = None
SYMMETRY Interchangeable
INVARIANTS TypeOK OnePageForProposal
PROPERTY CommitShowsApproved
CHECK_DEADLOCK FALSE
