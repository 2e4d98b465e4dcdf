SPECIFICATION InferenceSpec
CONSTANTS
  NumRequests = 5
  Prompt <- TracePrompt
  Cached <- TraceCached
  Target <- TraceTarget
  Config <- TraceConfig
  WeightSize = 1
  KvSize = 1
  ActSize = 1
  Schedulers <- TraceSchedulers
  NumLayers = 2
  Transformer <- SmallTransformers
INVARIANTS
  OneInference
  BatchBounded
  OldestFirst
  ReadyIsQueued
  ShapesAgree
  CacheWithinTarget
PROPERTIES
  ServesTokens
  RunsEveryInference
