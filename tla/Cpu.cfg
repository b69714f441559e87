CONSTANTS
  None = None
  Unlimited = Unlimited
  Inherited = Inherited
  Absent = Absent
  Unusable = Unusable
  Groups <- FourGroups
  Locations <- EachLocation
  Quotas = {1, 3}
  Periods = {1, 2}
  Interfaces <- TwoInterfaces
  Countings <- AnyLevels
  Machine = 4
  MachineAnswers = {4, None}
  Scale = 2
  MaxChurn = 1
SPECIFICATION MCSpec
INVARIANTS TypeOK QuietReadingIsExact SilenceMeansNoLimit NeverLooserThanWhatStood TimeOfTheLimit
