SPECIFICATION FairSpec
CONSTANTS
  Xfer = {f1, f2}
  LongText = {}
  None = none
  Unnamed = unnamed
  MaxReceives = 1
  MaxFaults = 1
INVARIANTS TypeOK OneFileAtATime
PROPERTY SendersReturn
CHECK_DEADLOCK FALSE
