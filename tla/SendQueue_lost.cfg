SPECIFICATION Spec
CONSTANTS
  Msg = {m1}
  Texts = {m1}
  Files = {}
  ToGroup = {}
  Peer = {p1}
  HubGroup = hubGroup
  KindOf <- MCKindOf
  TargetOf <- MCTargetOf
  Drainer = {d1}
  Receiver = {r1}
  NoCallback = noCallback
  PastRun = pastRun
  MaxFaults = 0
INVARIANT StoredUntilDrained
