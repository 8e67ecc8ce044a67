SPECIFICATION FairSpec
CONSTANTS
  Kinds = {mailbox, message}
  Mailbox = mailbox
  Classes = {"connection"}
  Advertised = {0, 1, 7, 9}
  Beat = 1
  Requested = 1
  MinCeiling = 1
  TooLarge = 9
  BackoffMin = 2
  BackoffMax = 4
  ReopenCap = 3
INVARIANTS
  TypeOK
  StallWindowFits
  ChangeCovered
  ReopensBackOff
PROPERTIES
  ChangePulled
CHECK_DEADLOCK FALSE
