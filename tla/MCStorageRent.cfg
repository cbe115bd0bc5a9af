\* A ledger is two seconds; lifetimes lie below the minimum window, between it
\* and the ceiling, and beyond the ceiling.  An operator who renews does so every
\* second ledger, the longest period that the attestors' threshold allows.
SPECIFICATION Spec
CONSTANTS
  SECONDS_PER_LEDGER = 2
  MIN_ATTESTATION_TTL_EXTEND_TO = 6
  MAX_ENTRY_TTL_LEDGERS = 8
  ATTESTOR_TTL_THRESHOLD = 2
  MinPersistentTtl = 3
  TtlArg = {3, 15, 19}
  RenewEvery = 2
  LedgerBound = 9
  SeqBound = 2
INVARIANTS
  RenewedAttestationIsLive
  RenewedAttestorIsLive
  HistoryCoversLifetime
