CONSTANTS
  None = None
  Lanes = 4
  Leases <- TheLeases
  DependencyEpochs = {0, 1}
  FragmentPolicies = {"Scalarize", "PadAndVectorize"}
  Bursts = {1, 2, 5}
SPECIFICATION Spec
INVARIANTS
  OutputIsTheLease
  OwnedLanesAreEvaluatedOnce
CHECK_DEADLOCK FALSE
