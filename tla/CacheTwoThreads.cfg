CONSTANTS
  t1 = t1
  t2 = t2
  None = None
  Nowhere = Nowhere
  Threads <- TwoThreads
  MaxMoves = 2
  MaxClears = 2
  MaxLookups = 2
SYMMETRY Symmetry
SPECIFICATION Spec
INVARIANTS TypeOK StaleOnlyWhenOvertaken ChildDiscoversForItself
CHECK_DEADLOCK FALSE
