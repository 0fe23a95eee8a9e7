SPECIFICATION Spec
CONSTANTS
  None = None
  Torn = Torn
  Out = {"m1", "m2"}
  In = {"i1"}
  File = {"m1"}
  Peer = {"p", "q"}
  HistoryPeerOf <- MCHistoryPeerOf
  MaxCopies = 1
  MaxRemovals = 1
  HistoryMaxCrashes = 1
  PeersHash = {"h1", "h2", "s1"}
  PeersIdent = {"i1", "i2"}
  Advert <- Adverts
  Net <- MCNet
  Scope = {"a"}
  Own = "s1"
  PeersSaved = {"h1"}
  Fresh = 1
  Stale = 1
  Ttl = 2
  MaxFailures = 2
  MaxTime = 2
  MaxHears = 2
  PeersMaxChanges = 1
  BookHash = {"h1", "h2", "s1"}
  BookIdent = {"i1", "i2", "j1"}
  Ip = {"ip1", "ip2"}
  Name = {"n1", "n2"}
  Rank <- MCRank
  Heard <- Reports
  BookPeerOf <- MCBookPeerOf
  MaxSaves = 2
  MaxHeard = 1
  Request = {"r1"}
  RadioMaxChanges = 2
  MaxFaults = 1
  Handler = {"u1", "u2"}
  Worker = {"w"}
  Starter = "start"
  MaxEdits = 2
  ConfigMaxCrashes = 1
  Caller = {"loop", "resume"}
  MaxEvents = 3
  PlugThread = {"watch", "loop"}
  MaxPlugs = 2
INVARIANTS TypeOK RowLossNeedsOverlap   TableHolds DeletedStaysDeleted SavedIsFound   OneBeaconThread SettingLossNeedsOverlap   OneInterface SetUpNeedsOneThread
 
CHECK_DEADLOCK FALSE
