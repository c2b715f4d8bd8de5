SPECIFICATION FairSpec
CONSTANTS
   a1 = a1  a2 = a2  l1 = l1  l2 = l2
  User = {u1, u2}
  NoUser = NoUser
  Process = {p1, p2}
  Load = {k1, k2}
  AdminCall = {a1, a2}
  Login = {l1, l2}
  Ttl = 1
  PolicyType = {terms, privacy}
  MaxVersion = 2
  Plans <- MCPlans
INVARIANTS ActiveIsApproved NoSessionForRefused SessionsConsented
PROPERTIES CachesConverge WithdrawnForgotten
CHECK_DEADLOCK FALSE
