CONSTANTS
  f1 = f1
  f2 = f2
  srcA = srcA
  srcB = srcB
  srcC = srcC
  None = None
  Readers = {f1, f2}
  Sources = {srcA, srcB, srcC}
  Start <- TheStart
  End <- TheEnd
  Modulus = 6
  Wraps = TRUE
  MaxRounds = 2
  InputNames <- TheInputs
  InputProvenance <- TheProvenance
  FieldChoices <- TheFields
  Factories = {srcA, srcB, srcC}
  Demands = {2, 3}
  MaxHeld = 2
  Executors = {f1}
  Lanes = 2
  Broadcasts = {0, 1}
  Epochs = {0, 1}
  Bursts = {1, 2}
SPECIFICATION Spec
PROPERTIES
  SourcesKeepPromise
CHECK_DEADLOCK FALSE
