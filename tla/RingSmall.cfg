SPECIFICATION Spec
CONSTANTS
  v1 = v1
  v2 = v2
  Value <- Bytes
  NoValue = NoValue
  Length = 3
INVARIANT TypeOK
PROPERTY ImplementsFifo
