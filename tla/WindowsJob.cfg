CONSTANTS
  None = None
  Calls <- AllCalls
  Limits = {1, 2}
  Controls <- ThreeForms
  Affinities <- OneOrTwoCores
  Machines <- OneGroupOrTwo
  Joinable <- TightOrLoose
  CommitLimit = 3
  Unreliable <- AllQueries
  Scale = 2
  MaxChurn = 2
SPECIFICATION MCSpec
INVARIANTS TypeOK PairFitsTheLimit PromiseIsBounded NeverLooserThanWhatStood QuietReadingIsExact SilenceMeansNoLimit DescriptionListsItsLevel
