SPECIFICATION IoSpec
CONSTANTS
  MaxFd = 2
  Std = 1
  Buckets = 2
  CacheSize = 2
  LogNames <- MCLogNames
  EarlyLines = 1
  Paths <- MCPaths
  Programs <- MCPrograms
  Sizes = {1}
  MaxPid = 2
  MaxNode = 11
  MaxLen = 1
  MaxLines = 6
  MaxStreams = 1
CHECK_DEADLOCK FALSE
INVARIANTS  OffsetsInFile LogKept
