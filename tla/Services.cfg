SPECIFICATION ServicesSpec
CONSTANTS
  None = None
  Callers = {c1, c2}
  MaxToken = 2
  SavesMayFail = TRUE
  ProxyAccounts = {p1, p2}
  Nodes = {n1, n2}
  BasePort = 1
  APIPort = 2
  BasePorts = {1, 2}
  APIPorts = {2, 3}
  Margin = 1
  Threshold = 1
  MaxEvents = 2
  Keys = {k1, k2}
  MaxCalls = 2
  Leases = {l1, l2}
  LeaseAccounts = {b1, b2}
  NoAccount = NoAccount
  SlotsEach = 1
  MaxLeaseSwitches = 2
  PingAccounts = {q1, q2}
  Jobs = {j1, j2}
  NoJob = NoJob
  Chats = {h1, h2}
  Limits = {0, 1}
  DefaultLimit = 1
  MaxRevision = 3
  Phones = {1, 2}
  Lists = {1}
  MaxChanges = 2
  MaxIDs = 2
  Given = {3}
  Members = {m1, m2}
  MaxCount = 1
  MaxStandings = 2
  MaxLines = 2
  ChanCap = 1
INVARIANTS
  TypesOK OneLoginAtATime NeverOlder
  PortsAndProxiesAgree
  CleanMeansSaved NeverOvercounted
  SlotsOwned OneWindowPerAccount
  HistoryShownAndSaved
  ConfigKept
  RosterInOrder StreamFaithful
PROPERTIES
  NoInheritedCancellation
  ManualBindingKept ServicesEnd
CHECK_DEADLOCK FALSE
