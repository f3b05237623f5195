SPECIFICATION TreeSpec
CONSTANTS
  Name <- MCName
  Parts <- MCParts
  Folded <- MCFolded
  Base <- MCBase
  Stem <- MCStem
  Shown <- MCShown
  Garbled = Garbled
  Slots = 2
  MaxCluster = 5
  MaxTail = 3
  MaxLen = 1
  LAST_CLUSTER = LAST_CLUSTER
  None = None
  ab = ab
  AB = AB
  abc = abc
SYMMETRY MCSymmetry
CHECK_DEADLOCK FALSE
INVARIANTS CacheIsDisk OwnChains NothingLost NamesKept NodesAreEntries
