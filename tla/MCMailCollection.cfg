SPECIFICATION FairSpec
CONSTANTS
  i1 = i1
  Id = {i1}
  Letters <- Any
  MaxMails = 3
  MaxMessages = 2
  MaxFaults = 1
  None = None
INVARIANTS TypeOK NothingLost
PROPERTY MailIsProcessed
CHECK_DEADLOCK TRUE
