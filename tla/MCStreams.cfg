SPECIFICATION StreamsSpec
CONSTANTS
  Caller = {d1, d2, d3}
  Tracked = {d1, d2}
  failure_threshold = 2
  cooldown = 2
  max_retries = 2
  maxReconnectAttempts = 2
  FinalVersion = 2
  PreferredModes = {"sse", "long-poll", "polling"}
  TransactionId = {"t"}
  maxWatched = 2
  FinalStatus = 1
  MaxWatches = 2
  MAX_RECONNECT_ATTEMPTS = 3
  FinalWatched = 2
  Anchor = {a1, a2}
  Nothing = Nothing
  MaxSwitches = 2
  TomlField = {"TRANSFER_SERVER", "TRANSFER_SERVER_SEP0024", "KYC_SERVER"}
  Asset = {"x"}
  MaxReconfigured = 1
  Rest <- MCRest
  MaxLines = 2
  MaxLedger = 2
INVARIANTS
  StreamsTypeOK
  RequestsBounded
  LoopAccounted
  EndsAsReported
  CliOutcome
  FlowConsistent
PROPERTIES
  BreakerRecovers
  DeliveriesReturn
  ImplementsBreaker
  UpdatesInOrder
  StreamsEnd
  CommandEnds
  HeadersOrTimeout
CHECK_DEADLOCK FALSE
