SPECIFICATION FairSpec
CONSTANTS
  v1 = v1  v2 = v2  m1 = m1  q1 = q1
  Task = {v1, v2, m1, q1}
  CourseOf <- MCCourseOf
  Pos <- MCPos
  Kind <- MCKind
  Lengths <- MCLengths
  Unrecorded = {v1, v2, m1}
  MaxTasks = 2
  Target = 2
  CyberTarget = 2
  ChainMax = 4
  MaxAttempts = 2
  QuizLimit = 2
  Reading = 2
  MaxFaults = 1
INVARIANTS TypeOK NothingLeftOut ProcessedAreDone ChainWithinCap 
PROPERTY ChainEnds
CHECK_DEADLOCK FALSE
