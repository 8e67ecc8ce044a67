SPECIFICATION Spec
CONSTANTS
  Msg = {"m1"}
  Name = {"Inbox", "A"}
  Fold <- MCFold
  Home <- MCHome
  Requests <- ReqOutlives
  Caller = {"p1"}
  Delays <- DelaysReal
  Hold = 1
  ChunkSize = 1
  WireBatch = 50
  ClaimRows = 3
  ClaimMessages = 3
  RefPage = 2
  Refusals = {"connection"}
  FaultKinds = {"call"}
  MaxFaults = 4
  MaxIntents = 2
PROPERTIES
  MoveOutlivesItsCreate
CHECK_DEADLOCK FALSE
