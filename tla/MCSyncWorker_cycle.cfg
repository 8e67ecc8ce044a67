SPECIFICATION FairSpec
CONSTANTS
  NRecords = 3
  Genesis <- GenesisTwo
  SyncKinds = {"message", "mailbox"}
  Drafts = 1
  PageSize = 1
  ChunkSize = 1
  ScanPage = 1
  MaxLog = 4
  MaxFaults = 3
INVARIANTS
  TypeOK
  WatermarkHonest
PROPERTIES
  StaleIsGone
  ImplementsReplica
  CycleEnds
  Converges
CHECK_DEADLOCK FALSE
