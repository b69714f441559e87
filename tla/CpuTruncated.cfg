CONSTANTS
  None = None
  Unlimited = Unlimited
  Inherited = Inherited
  Absent = Absent
  Unusable = Unusable
  Groups <- FourGroups
  Locations <- Truncated
  Quotas = {1}
  Periods = {1}
  Interfaces <- OneInterface
  Countings <- AnyLevels
  Machine = 4
  MachineAnswers = {4}
  Scale = 2
  MaxChurn = 0
SPECIFICATION Spec
INVARIANTS TimeOfTheLimit
