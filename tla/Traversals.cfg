CONSTANTS
  None = None
  Shuffled <- Rotated
  Traversals <- TheTraversals
  WireValues <- TheWires
  Dispensed <- Driven
SPECIFICATION Spec
INVARIANTS
  EvaluatorsAgree
  AddressingIsExact
  OrdersSelectTuples
  ActivationsAreRepeatable
  OrdinalsVisitedOnce
