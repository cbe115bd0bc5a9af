\* Every method, on one pair and one type that is too long.
CONSTANTS
  Address = {a1, a2}
  Subject = {s1}
  Type = {"kyc", "too_long"}
  LongType = {"too_long"}
  TypeLen <- MCTypeLen
  Hash = {h1}
  U64Max = 3
  DefaultMaxTtl = 1
  TtlArg = {0, 1, 3}
  CapArg = {0, 2}
  BatchArg <- MCBatchArg
  MaxBatch = 1
  SeqBound = 3
SPECIFICATION Spec
INVARIANTS
  RevocationsFollowWhatTheyRevoke
  HistoryIsChronological
  EventsTellTheState
  PagesCoverHistory
PROPERTIES
  NewEntriesJustified
  ValidOnlyByFreshAttest
  ImplementsReference
