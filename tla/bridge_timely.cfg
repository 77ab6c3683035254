CONSTANTS
  a1 = a1  a2 = a2  f1 = f1  f2 = f2
  Awaits = {a1, a2}
  Futures = {f1, f2}
  FutureOf <- TwoFutures
  Api <- OneIdentity
  Timeout <- BothGuarded
  MaxWorkers = 2
  Poll = 2
  RequestLimit = 2
  TicksPerMs = 2
  Urgent = TRUE
  Disturbances = {"fail", "cancel", "close", "exit"}
  IssueUntil = 1
  Horizon = 6
  NoOne = NoOne
SPECIFICATION Spec
PROPERTIES NoEarlyTimeout TimeoutOnlyWithoutAnswer
CHECK_DEADLOCK FALSE
