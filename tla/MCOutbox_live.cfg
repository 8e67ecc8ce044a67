SPECIFICATION FairSpec
CONSTANTS
  Msg = {"m1"}
  Name = {"Inbox", "A", "B"}
  Fold <- MCFold
  Home <- MCHome
  Requests <- ReqLive
  Caller = {"p1"}
  Delays <- DelaysShort
  Hold = 1
  ChunkSize = 1
  WireBatch = 2
  ClaimRows = 3
  ClaimMessages = 3
  RefPage = 2
  Refusals = {"throttled", "connection"}
  FaultKinds = {"call", "lost", "reject", "tx", "crash"}
  MaxFaults = 3
  MaxIntents = 2
INVARIANTS
  ClaimDiscipline
  DeliveredWasApplied
  LandedCreateSucceeds
PROPERTIES
  Drains
CHECK_DEADLOCK FALSE
