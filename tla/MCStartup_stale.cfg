SPECIFICATION Spec
CONSTANTS
  p1 = p1
  p2 = p2
  Process = {p1, p2}
  Build <- MCBuild
  Message = {m1}
  Folder = {f1}
  MaxStarts = 3
  MaxKills = 1
  MaxIntents = 0
  MarkerSticks = FALSE
  Answers = {"accepts"}
INVARIANT
  RunsSound
CHECK_DEADLOCK FALSE
