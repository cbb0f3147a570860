CONSTANTS
  c1 = c1
  c2 = c2
  x = x
  e = e
  s1 = s1
  self = self
  p1 = p1
  w1 = w1
  none = none
  Cells = {c1}
  Writers = {self, p1}
  Word <- OneWord
  MaxStores = 2
  Slots = {s1, x, e}
  NodeCount = 4
  Wiring <- Fork
  Provenance <- ForkProvenance
  NondetNodes = {}
  NoCell = none
  Binding <- FreeFork
  Attachable = {}
  Coordinates = {x}
  InputValues = {0, 1}
  Builds <- BySlot
  SideSteps = {2}
  FailingSteps = {}
  Outputs = {1, 3, 4}
  AnyNone = FALSE
  CellWrites = FALSE
  Self = self
  Interleaved = FALSE
SPECIFICATION Spec
INVARIANTS
  AnswersSeeLocalWrites
