SPECIFICATION Spec
CONSTANTS
  None = None
  Client = {"c1", "c2"}
  Msg = {"m1"}
  AuthorOf <- MCAuthorOf
  Thread = {"timer", "loop"}
  HubServer = "server"
  Unknown = "unknown"
  MaxSends = 2
  HubMaxLinks = 2
  HubMaxFaults = 1
  MaxSyncs = 1
  Transfer = {"t1", "t2"}
  NameOf <- MCNameOf
  MaxTokens = 2
  OfferMaxFaults = 1
  DialNode = {"a", "b"}
  DialMaxLinks = 2
  MaxTries = 2
  MaxUser = 2
  DialMaxFaults = 1
  Session = {"s1"}
  Upload = {"u1", "u2"}
  Download = {"g1"}
  SizeOf <- MCSizeOf
  Ttl = 0
  MaxTime = 1
  MaxOpens = 1
  MaxAsks = 3
  ShareMaxFaults = 1
  LifeServer = {"p1", "p2"}
  Forced = {"p2"}
  MaxStops = 1
INVARIANTS TypeOK  TwiceNeedsOverlap ServedIsSaved SlotWatched DeafNeedsLeft LinkedAfterConnect ListedIsTarget MixNeedsOverlap ReleasedIsDown LastTakesOver
CHECK_DEADLOCK FALSE
