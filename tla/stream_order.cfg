CONSTANTS
  p = p  q = q  write1 = write1  end1 = end1  end2 = end2  write2 = write2  l1 = l1  l2 = l2
  Ops = {write1, end1, end2, write2}
  Tasks = {p, q}
  Program <- Programs
  Loops = {l1, l2}
  LoopOf <- LoopEach
  Sync = {end2}
  Disturbances = {"cancel", "restart", "exit"}
  MaxPools = 2
  None = None
SPECIFICATION FairSpec
INVARIANTS TypeOK SubmissionOrder ProgramOrder ToldTheTruth NothingForgotten IInv
PROPERTIES CallsReturn OrderedSpec
CHECK_DEADLOCK FALSE
