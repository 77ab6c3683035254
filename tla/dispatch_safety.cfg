CONSTANTS
  c1 = c1  c2 = c2  c3 = c3  t1 = t1  t2 = t2  endpoint = endpoint  stream = stream
  Calls = {c1, c2, c3}
  Threads = {t1, t2}
  ThreadOf <- TwoThreads
  Kind <- TwoRequests
  Loopless = {c2}
  Owners = {endpoint, stream}
  ResultTimeout = 1
  Disturbances = {"close", "stop"}
  Horizon = 1
  Nobody = Nobody
SPECIFICATION Spec
INVARIANTS TypeOK NoSelfJoin YesIsTheHandlers ErrorAccounted IInv
CHECK_DEADLOCK FALSE
