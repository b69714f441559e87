CONSTANTS
  Garbled = Garbled
  Empty = Empty
  NoDash = NoDash
  Counting = Counting
  None = None
  Firsts = {0, 1, 2, 3}
  Lasts <- Negative
  Lists <- UpToThreeParts
SPECIFICATION Spec
INVARIANTS TypeOK CountsTheCores RefusedIffNotCanonical NeverZero
CHECK_DEADLOCK FALSE
