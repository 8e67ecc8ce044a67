SPECIFICATION Spec
CONSTANTS
  NRecords = 3
  Genesis <- GenesisTwo
  SyncKinds = {"message"}
  Drafts = 0
  PageSize = 1
  ChunkSize = 1
  ScanPage = 1
  MaxLog = 4
  MaxFaults = 0
INVARIANTS
  NothingForgotten
CHECK_DEADLOCK FALSE
