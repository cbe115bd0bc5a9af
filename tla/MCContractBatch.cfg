\* Batches over two pairs, one attestor, fixed caps.
CONSTANTS
  Address = {a1}
  Subject = {s1, s2}
  Type = {"kyc"}
  LongType = {}
  TypeLen <- MCTypeLen
  Hash = {h1}
  U64Max = 2
  DefaultMaxTtl = 1
  TtlArg = {1, 2}
  CapArg = {}
  BatchArg <- MCBatchArg
  MaxBatch = 3
  SeqBound = 3
SPECIFICATION Spec
INVARIANTS
  HistoryTailIsCurrent
PROPERTIES
  HistoryAppendOnly
  BatchAllOrNothing
  ImplementsRegistry
