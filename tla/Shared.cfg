CONSTANTS
  NumCores = 3
  MaxTiles = 2
  Partition <- TwoPartitions
  PartitionMap <- TwoPartitionMap
  Policy <- AllPolicies
  PartitionOf <- ModelPartition
  Model <- SomeModels
  Workloads <- SomeWorkloads
  Layer <- SomeLayers
  LayersOf <- SomeLayersOf
  ChildNodes <- SomeChildren
  TilesOf <- SomeTiles
  Regressive <- SomeRegressive
  FirstAxes <- SomeAxes
  OutputLen <- SomeOutput
  AxisLimit = 4
  Stray <- NoStray

SPECIFICATION FairSpec

INVARIANTS
  LayerAccounting

PROPERTIES
  ExecutesGraph
  AllServed
