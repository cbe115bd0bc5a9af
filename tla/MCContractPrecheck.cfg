\* Does attest_batch refuse a batch before it writes any of its entries?
CONSTANTS
  Address = {a1}
  Subject = {s1, s2}
  Type = {"kyc"}
  LongType = {}
  TypeLen <- MCTypeLen
  Hash = {h1}
  U64Max = 2
  DefaultMaxTtl = 1
  TtlArg = {1, 2}
  CapArg = {}
  BatchArg <- MCBatchArg
  MaxBatch = 2
  SeqBound = 2
SPECIFICATION Spec
INVARIANT RefusedBeforeAnyWrite
