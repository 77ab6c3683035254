CONSTANTS
  a1 = a1  a2 = a2  f1 = f1  f2 = f2
  Awaits = {a1, a2}
  Futures = {f1}
  FutureOf <- OneFuture
  Api <- AllRequests
  Timeout <- OneGuarded
  MaxWorkers = 2
  Poll = 1
  RequestLimit = 2
  TicksPerMs = 1
  Urgent = FALSE
  Disturbances = {"cancel", "close", "exit"}
  IssueUntil = 1
  Horizon = 2
  NoOne = NoOne
SPECIFICATION Spec
INVARIANTS TypeOK OneGetPerFuture NoLostWakeup IInv
PROPERTIES OutcomeSetOnce PromiseSpec
CHECK_DEADLOCK FALSE
