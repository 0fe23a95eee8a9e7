CONSTANTS
  Link = {l1, l2, l3}
  Peer = {"p", "q"}
  Other = {l2}
  SerialLinks = {l3}
  PeerOf <- MCPeerOf
  FamilyOf <- MCFamilyOf
  Inbound = {l1, l2}
  Rns = {r1}
  Ui = ui
  Conn = conn
  Limit = 1
  Parallel = FALSE
  NoLink = NoLink
  NoPeer = NoPeer
  MaxCommands = 1
SPECIFICATION Spec
CHECK_DEADLOCK FALSE
INVARIANTS LinksAtRest DisconnectHolds
