CONSTANTS
  NumCores = 3
  MaxTiles = 2
  Partition <- OnePartition
  PartitionMap <- OnePartitionMap
  Model <- GraphModels
  Workloads <- GraphWorkloads
  Layer <- GraphLayers
  LayersOf <- GraphLayersOf
  ChildNodes <- GraphChildren
  TilesOf <- GraphTiles
  Regressive <- GraphRegressive
  FirstAxes <- GraphAxes
  OutputLen <- GraphOutput
  AxisLimit = 4
  Stray <- SomeStray

SPECIFICATION FairSpec

INVARIANTS
  LayerAccounting
  OldestRequestOnly
  LoadIsWhatWasIssued

PROPERTIES
  ExecutesGraph
  AllServed
