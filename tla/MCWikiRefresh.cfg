SPECIFICATION FairSpec
CONSTANTS
  Folder = {1, 2}
  File = {11, 12}
  wide = wide
  narrow = narrow
  Policy = {wide, narrow}
  Roots <- RootsOf
  Refused = {}
  Unreadable = {12}
  MaxDocuments = 1
  MaxAttempts = 2
  MaxEdits = 2
  None = None
INVARIANTS TypeOK
PROPERTIES ImplementsSnapshot QuietSourceIndexed
CHECK_DEADLOCK TRUE
