SPECIFICATION PagingSpec
CONSTANTS
  Frames = 44
  PerTable = 16
  Low = 2
  HeapStart = 32
  HeapInitial = 13
  HeapMin = 8
  HeapMax = 16
  Images <- MCImages
  UserStart = 20
  UserHeap = 11
  Blocks = {1, 3}
  MaxDirs = 3
  MaxBlocks = 3
  None = None
CHECK_DEADLOCK FALSE
INVARIANTS FramesOwned KernelShared 
