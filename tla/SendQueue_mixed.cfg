SPECIFICATION Spec
CONSTANTS
  Msg = {m1, m2}
  Texts = {}
  Files = {m1}
  ToGroup = {m2}
  Peer = {p1}
  HubGroup = hubGroup
  KindOf <- MCKindOf
  TargetOf <- MCTargetOf
  Drainer = {d1, d2}
  Receiver = {r1}
  NoCallback = noCallback
  PastRun = pastRun
  MaxFaults = 0
INVARIANT LossNeedsOverlap
