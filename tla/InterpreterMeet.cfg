CONSTANTS
  c1 = c1
  c2 = c2
  c3 = c3
  s1 = s1
  s2 = s2
  x = x
  self = self
  p1 = p1
  p2 = p2
  wA = wA
  wB = wB
  none = none
  Cells <- ThreeCells
  Writers = {self, p1}
  Word <- MixedWords
  MaxStores = 1
  Slots <- TwoSlots
  NodeCount = 4
  Wiring <- Meet
  Provenance <- MeetProvenance
  NondetNodes = {4}
  NoCell = none
  Binding <- BindSecond
  Attachable <- AttachFirst
  Coordinates = {x}
  InputValues = {0, 1}
  Outputs = {1, 4}
  FailingNodes = {1}
  Self = self
  Interleaved = TRUE
SPECIFICATION Spec
INVARIANTS
  ReadsSeeCompletedWrites
  ReadsSeeLocalWrites
  CompletedIsAdvertised
