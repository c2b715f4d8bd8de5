SPECIFICATION Spec
CONSTANTS
  l1 = l1  c1 = c1
  NoLecture = NoLecture
  Lecture = {l1}
  Caller = {c1}
  MaxRows = 1
  MaxRuns = 2
  MayRetry = FALSE
  Methods = {TRUE, FALSE}
  UserOps = {"start", "confirm", "cancel", "view"}
INVARIANTS ActionsHaveMethod OneContinuation
CHECK_DEADLOCK FALSE
