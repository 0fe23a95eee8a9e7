SPECIFICATION Spec
CONSTANTS
  Xfer = {f1, l1}
  LongText = {l1}
  None = none
  Unnamed = unnamed
  MaxReceives = 2
  MaxFaults = 0
INVARIANT LongTextIntact
CHECK_DEADLOCK FALSE
