SPECIFICATION Spec
CONSTANTS
  s1 = s1
  None = None
  Job = {s1}
  ProviderOf <- MCProviderOf
  MaxFlight = 1
  MaxHandlers = 1
INVARIANTS TypeOK BlockedForAReason SyncingForAReason OneAnswerEach
