CONSTANTS
  c1 = c1  c2 = c2  c3 = c3  t1 = t1  t2 = t2  endpoint = endpoint  stream = stream
  Calls = {c1, c2}
  Threads = {t1}
  ThreadOf <- TwoThreads
  Kind <- Kinds
  Loopless = {}
  Owners = {endpoint}
  ResultTimeout = 1
  Disturbances = {}
  Horizon = 1
  Nobody = Nobody
SPECIFICATION FairSpec
PROPERTIES AbandonedKeepsRunning
CHECK_DEADLOCK FALSE
