SPECIFICATION FairSpec
CONSTANTS
  u1 = u1  sync = sync  notice = notice  learn1 = learn1  learn2 = learn2
  w1 = w1  w2 = w2  a1 = a1
  NoKey = NoKey  NoWorker = NoWorker
  User = {u1}
  Logical = {sync, notice}
  Cyber = {}
  Worker = {w1, w2}
  Admin = {}
  MayCrash = {w1}
  MayLapse = {}
  MayLose = {w1}
  AccountEdits = {"test"}
  MayPurge = FALSE
  UserOf <- MCUserOf
  TypeOf <- SyncTypeOf
  NextSegment <- NoSegments
  Request <- SyncRequest
  MaxJobs = 2
  AttemptCap = 2
PROPERTIES SyncRowsServed DeadWorkersJobRecovered ImplementsSyncSlots
CHECK_DEADLOCK FALSE
