SPECIFICATION Spec
CONSTANTS
  u1 = u1  sync = sync  notice = notice  learn1 = learn1  learn2 = learn2
  w1 = w1  w2 = w2  a1 = a1
  NoKey = NoKey  NoWorker = NoWorker
  User = {u1}
  Logical = {learn1, learn2}
  Cyber = {}
  Worker = {w1, w2}
  Admin = {a1}
  MayCrash = {}
  MayLapse = {w1, w2}
  MayLose = {}
  AccountEdits = {}
  MayPurge = TRUE
  UserOf <- MCUserOf
  TypeOf <- LearnTypeOf
  NextSegment <- Chain
  Request <- LearnRequest
  MaxJobs = 2
  AttemptCap = 1
SYMMETRY Symmetry
INVARIANTS KeyDiscipline OneRunningRowPerLogicalJob
PROPERTY ImplementsLearnSlots
CHECK_DEADLOCK FALSE
