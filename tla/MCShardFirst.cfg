SPECIFICATION FairSpec
CONSTANTS
  MaxDepth = 2
  MaxObserved = 2
  MaxId = 12
  Depth = 2
  Capacity = 5
  VoiceDepth = 2
  Shards = {1}
  Conns = {1}
  Env = {"write"}
  Worlds <- CongestionWorlds
  MaxVersion = 3
PROPERTY CatchesUp
CHECK_DEADLOCK FALSE
