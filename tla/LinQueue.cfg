SPECIFICATION Spec
CONSTANTS
  v1 = v1
  v2 = v2
  None = None
  Values = {None, v1, v2}
  Timestamps <- FourTimestamps
  MaxReads = 2
CHECK_DEADLOCK FALSE
INVARIANT TypeOK
INVARIANT BasicInv
INVARIANT WriteDomInv
INVARIANT ReadDomInv
