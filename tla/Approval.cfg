SPECIFICATION FairSpec
CONSTANTS
  l1 = l1  c1 = c1
  NoLecture = NoLecture
  Lecture = {l1}
  Caller = {c1}
  MaxRows = 1
  MaxRuns = 1
  MayRetry = TRUE
  Methods = {TRUE, FALSE}
  UserOps = {"start", "confirm", "view", "cancel"}
INVARIANTS TerminalScrubbed BlockedRowsAttended
PROPERTY ActionsSettle
CHECK_DEADLOCK FALSE
