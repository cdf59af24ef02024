SPECIFICATION Spec
CONSTANTS
  MaxDepth = 2
  MaxObserved = 2
  MaxId = 5
  Depth = 2
  Capacity = 100
  VoiceDepth = 2
  Shards = {1}
  Conns = {1, 2}
  Env = {}
  Worlds <- CalmWorlds
  MaxVersion = 4
INVARIANTS Oracle Sound ButtonsShown NeverRevived RoutesSeen
CHECK_DEADLOCK FALSE
