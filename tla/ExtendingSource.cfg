CONSTANTS
  f1 = f1
  f2 = f2
  host = host
  nobody = nobody
  Readers = {f1, f2}
  Start = 1
  Limit = 5
  Base = 2
  Strides = {1, 3}
  Policy <- AnyAnswer
  Host = host
  Unlocked = nobody
  Overlap = TRUE
  MaxRounds = 3
SPECIFICATION FairSpec
PROPERTIES
  KeepsPromise
  ReserveReturns
CHECK_DEADLOCK FALSE
