SPECIFICATION MCFatSpec
CONSTANTS
  PerSector = 2
  FatSectors = 3
  Root = 2
  MaxGrow = 2
  Fat16 = FALSE
  LAST = LAST
  FAIL = FAIL
  NoCluster = NoCluster
  FsInfo = FsInfo
  Invalid = Invalid
CHECK_DEADLOCK FALSE
INVARIANTS FatTypeOK DirtyIsTable CleanIsDisk 
PROPERTIES ImplementsFatMap 
