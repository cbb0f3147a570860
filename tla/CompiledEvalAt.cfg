CONSTANTS
  c1 = c1
  c2 = c2
  x = x
  e = e
  s1 = s1
  self = self
  p1 = p1
  w1 = w1
  none = none
  Cells = {c1}
  Writers = {self, p1}
  Word <- OneWord
  MaxStores = 2
  Slots = {s1, x}
  NodeCount = 2
  Wiring <- Small
  Provenance <- SmallProvenance
  NondetNodes = {}
  NoCell = none
  Binding <- FreeSmall
  Attachable = {}
  Coordinates = {x}
  InputValues = {0, 1}
  Builds <- BothSurfaces
  SideSteps = {2}
  FailingSteps = {}
  Outputs = {2}
  AnyNone = FALSE
  CellWrites = FALSE
  Self = self
  Interleaved = FALSE
SPECIFICATION Spec
INVARIANTS
  AnswersSeeLocalWrites
