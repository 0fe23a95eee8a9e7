SPECIFICATION Spec
CONSTANTS
  Xfer = {f1, l1}
  LongText = {l1}
  None = none
  Unnamed = unnamed
  MaxReceives = 1
  MaxFaults = 1
INVARIANT MisfiledNeedsSkew
CHECK_DEADLOCK FALSE
