SPECIFICATION Spec
CONSTANTS
  Surface = {"1", "2"}
  Sizes <- MCSizes
  WheelRow = {1}
  undoWindowSeconds = 2
  MaxOutbox = 1
  MaxTimers = 2
  MaxSum = 2
  MaxSent = 2
CONSTRAINT Focus
INVARIANTS
  ScreensFit
  TimersLive
CHECK_DEADLOCK FALSE
