SPECIFICATION FairSpec
CONSTANTS
  Caller = {i1, i2, b1, b2}
  Interactive = {i1, i2}
  Reader = {r1}
  MaxCalls = 1
  MaxReads = 1
INVARIANTS
  TypeOK
  AnswersAreTrue
  LabelNeverAhead
  ClosedIsQuiet
  PassedOnce
PROPERTIES
  AllAnswered
CHECK_DEADLOCK FALSE
