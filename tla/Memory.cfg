CONSTANTS
  None = None
  Unlimited = Unlimited
  Unusable = Unusable
  Depth = 2
  Machine = 3
  Limits = {0, 1, 2}
  Unreliable = {2}
  Carriers = {"chain", "no_controller", "no_mechanism"}
  Ceilings = {3, None}
  DirtyCounted = {"both", "one", "none"}
  MaxChurn = 2
SPECIFICATION MCSpec
INVARIANTS TypeOK PromiseIsBounded NothingToReconcile QuietReadingIsExact SilenceMeansNoLimit
