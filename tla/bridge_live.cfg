CONSTANTS
  a1 = a1  a2 = a2  f1 = f1  f2 = f2
  Awaits = {a1, a2}
  Futures = {f1, f2}
  FutureOf <- TwoFutures
  Api <- OneIdentity
  Timeout <- OneGuarded
  MaxWorkers = 1
  Poll = 1
  RequestLimit = 2
  TicksPerMs = 1
  Urgent = FALSE
  Disturbances = {"cancel", "exit"}
  IssueUntil = 0
  Horizon = 2
  NoOne = NoOne
SPECIFICATION FairSpec
PROPERTIES GuardedReturns SettledReturns WorkersFreed
CHECK_DEADLOCK FALSE
