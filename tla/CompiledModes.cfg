CONSTANTS
  c1 = c1
  c2 = c2
  x = x
  e = e
  s1 = s1
  self = self
  p1 = p1
  w1 = w1
  none = none
  Cells = {c1}
  Writers = {self, p1}
  Word <- OneWord
  MaxStores = 2
  Slots = {s1, x}
  NodeCount = 3
  Wiring <- Trio
  Provenance <- TrioProvenance
  NondetNodes = {3}
  NoCell = none
  Binding <- FreeSmall
  Attachable <- GiveCell
  Coordinates = {x}
  InputValues = {0, 1}
  Builds <- EachMode
  SideSteps = {2, 3}
  FailingSteps = {1}
  Outputs = {2, 3}
  AnyNone = FALSE
  CellWrites = TRUE
  Self = self
  Interleaved = TRUE
SPECIFICATION Spec
INVARIANTS
  AnswersSeeLocalWrites
  AnswersSeeCompletedWrites
  OwedIsNotCurrent
  UnmovedCellIsRead
PROPERTIES
  SideChannelsFireOnce
  VolatileStepsAlwaysRun
