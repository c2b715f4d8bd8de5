SPECIFICATION Spec
CONSTANTS
  t1 = t1  t2 = t2  u1 = u1  a1 = a1  m1 = m1
  None = None
  Tab = {t1, t2}
  Account = {u1, a1}
  Admin = {a1}
  Target = {m1}
  Timeout = 2
  MaxCalls = 1
SYMMETRY Symmetry
INVARIANTS IdleBound ChosenImpersonation
PROPERTY NoEarlyTimeout
