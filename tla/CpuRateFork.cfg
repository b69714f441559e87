CONSTANTS
  t1 = t1
  t2 = t2
  None = None
  Threads <- TwoThreads
  Ops = {"sample"}
  Depth = 1
  Unreliable = {}
  Cores = {1}
  Bursts = {1}
  Intervals = {}
  ShortestWindow = 1
  Resolution = 1
  MaxTime = 0
  MaxEra = 0
  MaxRestarts = 0
  MaxCalls = 1
  Forking = TRUE
SPECIFICATION FairSpec
PROPERTIES SampleNeverWaits
CHECK_DEADLOCK FALSE
