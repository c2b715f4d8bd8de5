SPECIFICATION FairSpec
CONSTANTS
  u1 = u1  u2 = u2  s1 = s1  s2 = s2  a1 = a1  c1 = c1  c2 = c2
  NoUser = NoUser  NoJob = NoJob
  User = {u1, u2}
  Job = {s1, a1}
  UserOf <- MCUserOf
  TypeOf <- MCTypeOf
  MaxRuns = 2
  Page = 1
  Call = {c1}
  Capacity = 1
  MayDie = TRUE
  MayLapse = FALSE
  MayFail = TRUE
INVARIANT SyncRowsLookedAfter
PROPERTY DueRowsServed
