SPECIFICATION FairSpec
CONSTANTS
  sy = sy  au = au  c1 = c1  n1 = n1  k1 = k1  k2 = k2  i1 = i1  t1 = t1
  Worker = {sy, au}
  Forced = {au}
  Course = {c1}
  Item = {i1}
  Task = {t1}
  Notice = {n1}
  Key = {k1, k2}
  NoticeOf <- MCNoticeOf
  Sequenced = {k1}
  CourseOf <- MCCourseOf
  Portals <- MCPortals
  MaxFailures = 1
INVARIANTS TypeOK CheckpointCovers EndedCoursesLeft OneMailPerDeadline NoticeMarksKept ItemMarksKept
PROPERTIES RowsConverge
CHECK_DEADLOCK FALSE
