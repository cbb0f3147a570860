CONSTANTS
  Fibers = 3
  ChunkCount = 3
  Streams <- TwoStreams
  Offset <- TheOffset
  Modes <- AllModes
  Orders = {FALSE, TRUE}
  Failing = {1, 3}
SPECIFICATION FairSpec
INVARIANTS
  NoPieceTwice
  OutputIsAPrefix
  OutputIsComplete
PROPERTIES
  RunEnds
CHECK_DEADLOCK FALSE
