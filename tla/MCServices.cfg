SPECIFICATION ServicesSpec
CONSTANTS
  Caller = {c1, c2, c3}
  Tracked = {c1, c2, c3}
  failure_threshold = 1
  cooldown = 1
  max_retries = 2
  Key = {k1}
  key_of <- MCKeyOf
  LetterId = {"d1", "d2", "d3"}
  Times = {1, 2}
  ReportLimit = 2
  PageLimit = 1
  SensitiveName = {"token"}
  JsonKey = {"token", "id", "0"}
  HeaderName = {"authorization", "date"}
  SensitiveHeader = {"authorization"}
  Text <- MCText
  LogBodies <- MCBodies
  NotLogged = NotLogged
  Alnum = {"a"}
  OtherByte = {"_"}
  MIN_DOMAIN_LEN = 3
  MAX_DOMAIN_LEN = 5
  MAX_LABEL_LEN = 2
  Domains <- MCDomains
  Address = {"p", "q", "r"}
  Lists <- MCLists
  ThresholdArg = {0, 1, 2, 3}
  MaxNonce = 2
  MaxRotations = 3
  Listener = {l1, l2, l3}
  MaxReloads = 2
  MaxListeners = 3
  MaxRegistrations = 4
  Attestor = {"x", "y"}
  perAttestorLimit = 2
  globalLimit = 3
  windowMs = 2
  idleRetentionMs = 4
  pruneIntervalCalls = 2
  MaxTime = 5
  MaxBackSteps = 1
  TransactionId = {"t1", "t2"}
  maxWatched = 2
  FinalStatus = 1
  MaxWatches = 2
  MaxRequests = 3
  Secret = {"s1", "s2"}
  Notification = {"n1", "n2"}
  secret = "s1"
INVARIANTS
  ServicesTypeOK
  RepeatHasCause
  DuplicatesAgree
  ReadersMissNothing
  LoggedLeafByLeaf
  VerdictIsRight
  ListenersUpToDate
  CountersExact
  NoDoubleBurst
  WatchersServed
  ShowsLatestSuccesses
  AcceptedWasSent

  
CHECK_DEADLOCK FALSE
