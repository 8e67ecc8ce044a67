SPECIFICATION Spec
CONSTANTS
  Msg = {m1, m2}
  Name = {"Inbox", "A", "a"}
  Fold <- MCFold
  Home <- MCHome
  Requests <- ReqFill
  Caller = {p1, p2}
  Delays <- DelaysFlat
  Hold = 1
  ChunkSize = 1
  WireBatch = 2
  ClaimRows = 3
  ClaimMessages = 2
  RefPage = 1
  Refusals = {"throttled", "connection"}
  FaultKinds = {"lost", "tx", "crash", "other"}
  MaxFaults = 1
  MaxIntents = 3
SYMMETRY Symmetry
INVARIANTS
  TypeOK
  NothingLost
  RefsResolved
  FiledAsAsked
PROPERTIES
  OnlyACrashOrphans
  ImplementsIntentQueue
CHECK_DEADLOCK FALSE
