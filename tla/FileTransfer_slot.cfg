SPECIFICATION Spec
CONSTANTS
  Xfer = {f1, f2}
  LongText = {}
  None = none
  Unnamed = unnamed
  MaxReceives = 1
  MaxFaults = 1
INVARIANT BusyMeansSending
CHECK_DEADLOCK FALSE
