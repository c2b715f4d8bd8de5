SPECIFICATION Spec
CONSTANTS
  u1 = u1  sync = sync  notice = notice  learn1 = learn1  learn2 = learn2
  w1 = w1  w2 = w2  a1 = a1
  NoKey = NoKey  NoWorker = NoWorker
  User = {u1}
  Logical = {learn1, learn2}
  Cyber = {}
  Worker = {w1, w2}
  Admin = {}
  MayCrash = {}
  MayLapse = {w1, w2}
  MayLose = {w1, w2}
  AccountEdits = {}
  MayPurge = FALSE
  UserOf <- MCUserOf
  TypeOf <- LearnTypeOf
  NextSegment <- Chain
  Request <- LearnRequest
  MaxJobs = 2
  AttemptCap = 2
SYMMETRY Symmetry
INVARIANTS ActiveRowsKeyed
CHECK_DEADLOCK FALSE
