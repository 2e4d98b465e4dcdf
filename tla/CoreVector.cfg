SPECIFICATION FairSpec
CONSTANTS
  Feed <- VectorFeed
  Queued = {}
  SpadAddr <- MCSpadAddr
  AccAddr <- MCAccAddr
  SpadSize = 3
  AccSize = 2
  PipelineDepth = 2
  FinishPeriod = 2
  FusedOp = {"attention", "concat", "none"}
INVARIANTS
  RemainCounts
  QueuedStillReady
  RoomCounted
  WritesCounted
PROPERTIES
  StoreSeesResults
  KeepsSlots
  ComesToRest
