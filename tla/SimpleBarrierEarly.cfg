CONSTANTS
  NumCores = 2
  MaxTiles = 2
  Partition <- OnePartition
  PartitionMap <- OnePartitionMap
  Model <- EarlyModels
  Workloads <- EarlyWorkloads
  Layer <- EarlyLayers
  LayersOf <- EarlyLayersOf
  ChildNodes <- EarlyChildren
  TilesOf <- EarlyTiles
  Regressive = {}
  FirstAxes <- EarlyAxes
  OutputLen <- EarlyOutput
  AxisLimit = 4
  Stray <- NoStray

SPECIFICATION Spec

INVARIANTS
  BarrierRespected
