SPECIFICATION FairSpec
CONSTANTS
  Request <- ReadRequest
  Id <- ReadId
  Base <- ReadBase
  Blocks <- ReadBlocks
  Writes = {}
  NumSets = 1
  Depth = 1
  Slots = 4
  Headroom = 2
  MissQDepth = 1
  InPerCycle = 2
  LargeBlocks = 9
INVARIANTS
  SlotsConsistent
  SlotLeftForMiss
  BlocksCounted
PROPERTIES
  ServesMemory
