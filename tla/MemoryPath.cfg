SPECIFICATION FairSpec
CONSTANTS
  NumCores = 2
  Ports = 1
  Channels = 1
  Latency = 0
  r1 = r1
  r2 = r2
  r3 = r3
  r4 = r4
  Request <- BusyRequest
  CoreOf <- BusyCoreOf
  ChannelOf <- BusyChannelOf
INVARIANTS
  OnItsWay
PROPERTIES
  ServesMemory
