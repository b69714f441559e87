CONSTANTS
  None = None
  OldHierarchies = {"x"}
  Unified = "v2"
  Places <- FourPlaces
  MountTables <- OneSubtree
  Bindings <- UnifiedAlone
  MaxChurn = 0
SPECIFICATION Spec
INVARIANTS HiddenIsNoticed
