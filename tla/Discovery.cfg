CONSTANTS
  None = None
  OldHierarchies = {"x", "y"}
  Unified = "v2"
  Places <- FourPlaces
  MountTables <- AllTablesToo
  Bindings <- AllBindings
  MaxChurn = 2
SPECIFICATION MCSpec
INVARIANTS TypeOK LevelsAreItsAncestors FoundWhereBound TimeIsCountedBesideTheLimits SeenOrNoticed UnavailableMeansNothingHolds
