SPECIFICATION Spec
CONSTANTS
  Feed <- Heads
  Queued = {2, 3}
  SpadAddr <- MCSpadAddr
  AccAddr <- MCAccAddr
  SpadSize = 2
  AccSize = 2
  PipelineDepth = 1
  FinishPeriod = 2
  FusedOp = {"gemm", "none"}
INVARIANTS
  NoAbort
CHECK_DEADLOCK FALSE
