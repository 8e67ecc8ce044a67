SPECIFICATION FairSpec
CONSTANTS
  p1 = p1
  p2 = p2
  Process = {p1, p2}
  Build <- MCBuild
  Message = {m1}
  Folder = {f1, f2}
  MaxStarts = 3
  MaxKills = 2
  MaxIntents = 1
  MarkerSticks = TRUE
  Answers = {"accepts", "denied", "portal"}
INVARIANTS
  TypeOK
  StoreOutlivesEngines
  RunsSoundUnlessStale
  IntentsSurvive
  FolderIntentsKeep
PROPERTY
  RetrySettles
CHECK_DEADLOCK FALSE
