SPECIFICATION Spec
CONSTANTS
  Request <- EvictRequest
  Id <- EvictId
  Base <- EvictBase
  Blocks <- EvictBlocks
  Writes = {1, 2}
  NumSets = 1
  Depth = 1
  Slots = 3
  Headroom = 1
  MissQDepth = 1
  InPerCycle = 1
  LargeBlocks = 3
PROPERTIES
  WritebackIgnored

CHECK_DEADLOCK FALSE
