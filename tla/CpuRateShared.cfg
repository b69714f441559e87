CONSTANTS
  t1 = t1
  t2 = t2
  None = None
  Threads <- TwoThreads
  Ops = {"sample", "measure"}
  Depth = 1
  Unreliable = {1}
  Cores = {1}
  Bursts = {1}
  Intervals = {1}
  ShortestWindow = 1
  Resolution = 1
  MaxTime = 2
  MaxEra = 0
  MaxRestarts = 0
  MaxCalls = 2
  Forking = TRUE
SPECIFICATION FairSpec
INVARIANTS BaselineOwnership EachReadingBasesOneWindow
PROPERTIES SharesOneSlot EveryCallReturns
CHECK_DEADLOCK FALSE
