SPECIFICATION FairCheckSpec
CONSTANTS
  u1 = u1  s1 = s1  a1 = a1
  NoUser = NoUser  NoJob = NoJob
  User = {u1}
  Job = {s1, a1}
  UserOf <- MCUserOf
  TypeOf <- MCTypeOf
  MaxRuns = 2
  Page = 1
  MayDie = TRUE
  MayLapse = TRUE
  MayFail = TRUE
PROPERTIES RepairSparesLiveRuns OrphansRepaired
