CONSTANTS
  c1 = c1
  c2 = c2
  c3 = c3
  s1 = s1
  s2 = s2
  x = x
  self = self
  p1 = p1
  p2 = p2
  wA = wA
  wB = wB
  none = none
  Cells <- OneCell
  Writers = {self, p1, p2}
  Word <- OneWord
  MaxStores = 2
  Slots <- OneSlot
  NodeCount = 4
  Wiring <- Chain
  Provenance <- ChainProvenance
  NondetNodes = {}
  NoCell = none
  Binding <- BindOne
  Attachable = {}
  Coordinates = {x}
  InputValues = {0, 1}
  Outputs = {3, 4}
  FailingNodes = {}
  Self = self
  Interleaved = TRUE
SPECIFICATION FairSpec
INVARIANTS
  StaleIsDetectable
  SettledRevisionCounts
PROPERTIES
  BuffersMoveForward
  ReadsConverge
