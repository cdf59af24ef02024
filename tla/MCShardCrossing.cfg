SPECIFICATION Spec
CONSTANTS
  MaxDepth = 2
  MaxObserved = 2
  MaxId = 6
  Depth = 2
  Capacity = 5
  VoiceDepth = 2
  Shards = {1, 2}
  Conns = {1}
  Env = {"write"}
  Worlds <- MigrationWorlds
  MaxVersion = 1
INVARIANTS Oracle Sound ButtonsOffered
CHECK_DEADLOCK FALSE
