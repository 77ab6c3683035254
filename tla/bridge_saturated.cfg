CONSTANTS
  a1 = a1  a2 = a2  f1 = f1  f2 = f2
  Awaits = {a1, a2}
  Futures = {f1, f2}
  FutureOf <- TwoFutures
  Api <- AllRequests
  Timeout <- BothGuarded
  MaxWorkers = 1
  Poll = 1
  RequestLimit = 4
  TicksPerMs = 1
  Urgent = TRUE
  Disturbances = {}
  IssueUntil = 0
  Horizon = 4
  NoOne = NoOne
SPECIFICATION Spec
PROPERTIES TimeoutOnlyWithoutAnswer
CHECK_DEADLOCK FALSE
