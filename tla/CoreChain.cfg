SPECIFICATION Spec
CONSTANTS
  Feed <- Chain
  Queued = {2, 3, 4, 5}
  SpadAddr <- MCSpadAddr
  AccAddr <- MCAccAddr
  SpadSize = 2
  AccSize = 2
  PipelineDepth = 1
  FinishPeriod = 2
  FusedOp = {"gemm", "none"}
INVARIANTS
  TypeOK
  NoAbort
  HalvesApart
PROPERTIES
  FlushHitsNothing
