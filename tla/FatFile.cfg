SPECIFICATION FileSpec
CONSTANTS
  File = {f1, f2}
  Byte = {0, 1, 2}
  None = None
  SectorSize = 2
  PerCluster = 2
  MaxCluster = 3
  MaxSize = 5
  Texts <- MCTexts
  LAST = LAST
SYMMETRY MCSymmetry
CHECK_DEADLOCK FALSE
INVARIANT PlaceIsChain
 
