SPECIFICATION FairSpec
CONSTANT
  Layer <- SmallLayers
INVARIANTS
  TileFits
  TileRuns
  ComputesOperation
  ArgsInRange
PROPERTY
  SearchEnds
