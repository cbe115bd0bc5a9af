SPECIFICATION Spec
CONSTANTS
  SECONDS_PER_LEDGER = 2
  MIN_ATTESTATION_TTL_EXTEND_TO = 2
  MAX_ENTRY_TTL_LEDGERS = 10
  ATTESTOR_TTL_THRESHOLD = 2
  MinPersistentTtl = 2
  TtlArg = {4}
  RenewEvery = 6
  LedgerBound = 16
  SeqBound = 1
INVARIANT
  RenewedAttestorIsLive
