CONSTANTS
  None = None
  Specs <- TheSpecs
  Extents = {0, 1, 5, 8}
  Counts = {0, 2, 3}
SPECIFICATION Spec
INVARIANTS
  PartitionsTileTheDomain
  NoSlackAccumulates
  DerivedListsStillTile
CHECK_DEADLOCK FALSE
