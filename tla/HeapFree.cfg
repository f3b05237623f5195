SPECIFICATION HeapSpec
CONSTANTS
  Requests <- MCRequests
  MaxBlocks = 4
  EndAddress = 524288
  MaxAddress = 1572864
  MinSize = 458752
  Page = 4096
CHECK_DEADLOCK FALSE
INVARIANT BlocksApart
