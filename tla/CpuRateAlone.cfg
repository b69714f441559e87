CONSTANTS
  t1 = t1
  t2 = t2
  None = None
  Threads <- OneThread
  Ops = {"sample", "measure"}
  Depth = 2
  Unreliable = {2}
  Cores = {1}
  Bursts = {0, 2}
  Intervals = {0, 1, 2}
  ShortestWindow = 1
  Resolution = 2
  MaxTime = 3
  MaxEra = 1
  MaxRestarts = 1
  MaxCalls = 3
  Forking = FALSE
SPECIFICATION Spec
INVARIANTS TypeOK NoTimeReportedTwice NeverOverreported MeasuredPairIsLongEnough OneChangeVoidsTheWindow
CHECK_DEADLOCK FALSE
