SPECIFICATION FairSpec
CONSTANTS
  k1 = k1  k2 = k2
  a = a  b = b  c = c
  v0 = v0  v1 = v1  v2 = v2  v3 = v3
  None = None
  Key = {k1, k2}
  Value = {a, b, c}
  Version = {v0, v1, v2, v3}
  First = v0
  Follows <- OneByOne
  Restores <- Back
  Content <- NewContent
  Proposal = {"P"}
  MaxId = 2
  WikiKeys = {k2}
  Decisions = {"DEFER"}
  HandValues = {c}
  MaxEdits = 1
INVARIANT TypeOK
PROPERTIES CheckpointMirrored DeferredComesBack
CHECK_DEADLOCK FALSE
