CONSTANTS
  c1 = c1
  c2 = c2
  x = x
  e = e
  s1 = s1
  self = self
  p1 = p1
  w1 = w1
  none = none
  Cells = {c1, c2}
  Writers = {self, p1}
  Word <- OneWord
  MaxStores = 1
  Slots = {s1, x}
  NodeCount = 4
  Wiring <- Volatile
  Provenance <- VolatileProvenance
  NondetNodes = {1, 2, 4}
  NoCell = none
  Binding <- BindSmall
  Attachable <- SwapCell
  Coordinates = {x}
  InputValues = {0, 1}
  Builds <- EachSurface
  SideSteps = {2}
  FailingSteps = {3}
  Outputs = {2, 4}
  AnyNone = TRUE
  CellWrites = TRUE
  Self = self
  Interleaved = FALSE
SPECIFICATION Spec
INVARIANTS
  AnswersSeeCompletedWrites
PROPERTIES
  VolatileStepsAlwaysRun
