----------------------------- MODULE StorageRent -----------------------------
(***************************************************************************)
(* How long the contract's persistent entries stay live.  The storage      *)
(* layer (src/src/storage.rs) buys rent for an entry whenever it writes    *)
(* it; the host archives an entry whose rent has run out, and an           *)
(* invocation can use an archived entry only once it has been restored.    *)
(*                                                                         *)
(* The state is the four kinds of entries that one attestor and one        *)
(* (subject, type) pair own: the allow-list entry, the attestation, its    *)
(* history entries and its sequence counter.  For each entry the model     *)
(* keeps the last ledger at which it is live, 0 when it does not exist.    *)
(* Who may call what, and the content of entries, is in AnchorKitContract. *)
(*                                                                         *)
(* A definition whose comment begins "Wrong on purpose" is a plausible     *)
(* mistake in the definition after it; no action uses it.                  *)
(***************************************************************************)
EXTENDS Integers, Sequences

CONSTANTS
  SECONDS_PER_LEDGER,
  MIN_ATTESTATION_TTL_EXTEND_TO,  \* 30 days of ledgers
  MAX_ENTRY_TTL_LEDGERS,          \* the network ceiling, about 365 days
  ATTESTOR_TTL_THRESHOLD,         \* 90 days of ledgers
  MinPersistentTtl,               \* what the network gives a new entry
  TtlArg,                         \* the ttl_seconds of attestations
  RenewEvery,                     \* a renewing operator's period, in ledgers
  LedgerBound,                    \* bound on the ledger number
  SeqBound                        \* bound on the number of history entries

ASSUME RentAssumption ==
  /\ SECONDS_PER_LEDGER \in Nat \ {0}
  /\ MIN_ATTESTATION_TTL_EXTEND_TO \in Nat \ {0}
  /\ MAX_ENTRY_TTL_LEDGERS \in Nat
  /\ MAX_ENTRY_TTL_LEDGERS > MIN_ATTESTATION_TTL_EXTEND_TO
  /\ ATTESTOR_TTL_THRESHOLD \in 1..(MAX_ENTRY_TTL_LEDGERS - 1)
  /\ MinPersistentTtl \in 1..MAX_ENTRY_TTL_LEDGERS
  /\ TtlArg \subseteq Nat \ {0}
  /\ RenewEvery \in Nat \ {0}
  /\ LedgerBound \in Nat
  /\ SeqBound \in Nat

VARIABLES
  renews,        \* whether the operator renews, settled at the start
  ledger,        \* the current ledger number, from 1
  attestor,      \* the allow-list entry is live up to here
  attestation,   \* the attestation entry is live up to here
  seq,           \* the AttestationSeq entry is live up to here
  history,       \* of each history entry: when written, expiry, status, last live
  attestorAt,    \* when attestor was last written
  attestationAt  \* when attestation was last written

vars == <<renews, ledger, attestor, attestation, seq, history, attestorAt, attestationAt>>

\* Ledgers close every SECONDS_PER_LEDGER seconds.
timestamp == ledger * SECONDS_PER_LEDGER

Usable(l) == l = 0 \/ l >= ledger

Current == history[Len(history)]

Valid ==
  /\ history # << >>
  /\ Current.status = "Active"
  /\ timestamp < Current.expires_at

-----------------------------------------------------------------------------
(* The host: a first write gives an entry the network's minimum, a later    *)
(* one leaves its rent alone; extend_ttl extends only an entry that has no  *)
(* more than `threshold' ledgers left, and never past the ceiling.          *)

set(l) == IF l = 0 THEN ledger + MinPersistentTtl - 1 ELSE l

extend_ttl(l, threshold, extend_to) ==
  LET ceiling == ledger + MAX_ENTRY_TTL_LEDGERS - 1
      new == IF ledger + extend_to > ceiling THEN ceiling ELSE ledger + extend_to
  IN  IF l - ledger <= threshold /\ new > l THEN new ELSE l

-----------------------------------------------------------------------------
(* storage.rs *)

\* Wrong on purpose: one window for every lifetime.
attestation_extend_to_flat(remaining_seconds) == MIN_ATTESTATION_TTL_EXTEND_TO

attestation_extend_to(remaining_seconds) ==
  LET ledgers == remaining_seconds \div SECONDS_PER_LEDGER
  IN  IF ledgers < MIN_ATTESTATION_TTL_EXTEND_TO
      THEN MIN_ATTESTATION_TTL_EXTEND_TO
      ELSE IF ledgers > MAX_ENTRY_TTL_LEDGERS THEN MAX_ENTRY_TTL_LEDGERS
      ELSE ledgers

\* expires_at.saturating_sub(now)
remaining(expires_at) ==
  IF expires_at > timestamp THEN expires_at - timestamp ELSE 0

threshold(extend_to) == extend_to \div 2

\* Wrong on purpose: the write does not extend.
bought_nothing(l, expires_at) == set(l)

\* A write of an entry: set, then extend_ttl with attestation_ttl_window.
bought(l, expires_at) ==
  LET extend_to == attestation_extend_to(remaining(expires_at))
  IN  extend_ttl(set(l), threshold(extend_to), extend_to)

set_attestation(expires_at) ==
  /\ attestation' = bought(attestation, expires_at)
  /\ attestationAt' = ledger

\* The new history entry buys the same window; the counter buys nothing.
push_attestation_history(expires_at, status) ==
  /\ seq' = set(seq)
  /\ history' = Append(history, [at |-> ledger, expires_at |-> expires_at,
                                 status |-> status, live |-> bought(0, expires_at)])

\* Wrong on purpose: the write does not extend.
set_attestor_without_extension(l) == set(l)

set_attestor(l) ==
  extend_ttl(set(l), ATTESTOR_TTL_THRESHOLD, MAX_ENTRY_TTL_LEDGERS)

-----------------------------------------------------------------------------
(* The contract's entry points, by the entries they touch. *)

Init ==
  /\ renews \in BOOLEAN
  /\ ledger = 1
  /\ attestor = 0 /\ attestation = 0 /\ seq = 0
  /\ history = << >>
  /\ attestorAt = 0 /\ attestationAt = 0

AttestorUnchanged == UNCHANGED <<attestor, attestorAt>>
AttestationUnchanged == UNCHANGED <<attestation, attestationAt, seq, history>>

\* attest, and attest_batch for each of its entries.
Attest(ttl_seconds) ==
  /\ attestor # 0 /\ Usable(attestor)
  /\ Usable(attestation) /\ Usable(seq)
  /\ Len(history) < SeqBound
  /\ set_attestation(timestamp + ttl_seconds)
  /\ push_attestation_history(timestamp + ttl_seconds, "Active")
  /\ AttestorUnchanged /\ UNCHANGED ledger

Revoke ==
  /\ history # << >> /\ Current.status = "Active"
  /\ Usable(attestation) /\ Usable(seq)
  /\ Len(history) < SeqBound
  /\ set_attestation(Current.expires_at)
  /\ push_attestation_history(Current.expires_at, "Revoked")
  /\ AttestorUnchanged /\ UNCHANGED ledger

RenewAttestation ==
  /\ history # << >>
  /\ Usable(attestation)
  /\ set_attestation(Current.expires_at)
  /\ AttestorUnchanged /\ UNCHANGED <<ledger, seq, history>>

AddAttestor ==
  /\ attestor = 0
  /\ attestor' = set_attestor(attestor)
  /\ attestorAt' = ledger
  /\ AttestationUnchanged /\ UNCHANGED ledger

RemoveAttestor ==
  /\ attestor # 0 /\ Usable(attestor)
  /\ attestor' = 0
  /\ AttestationUnchanged /\ UNCHANGED <<ledger, attestorAt>>

RenewAttestor ==
  /\ attestor # 0 /\ Usable(attestor)
  /\ attestor' = set_attestor(attestor)
  /\ attestorAt' = ledger
  /\ AttestationUnchanged /\ UNCHANGED ledger

-----------------------------------------------------------------------------
(* The network and the operator.  An archived entry can be restored, with   *)
(* the network's minimum.  Ledgers close; an operator who renews every       *)
(* RenewEvery ledgers does so before the next ledger closes.                 *)

Restored == ledger + MinPersistentTtl - 1

RestoreAttestor ==
  /\ ~Usable(attestor)
  /\ attestor' = Restored
  /\ AttestationUnchanged /\ UNCHANGED <<ledger, attestorAt>>

RestoreAttestation ==
  /\ ~Usable(attestation)
  /\ attestation' = Restored
  /\ AttestorUnchanged /\ UNCHANGED <<ledger, seq, history, attestationAt>>

RestoreSeq ==
  /\ ~Usable(seq)
  /\ seq' = Restored
  /\ AttestorUnchanged /\ UNCHANGED <<ledger, attestation, history, attestationAt>>

RestoreHistory(i) ==
  /\ ~Usable(history[i].live)
  /\ history' = [history EXCEPT ![i].live = Restored]
  /\ AttestorUnchanged /\ UNCHANGED <<ledger, attestation, seq, attestationAt>>

RenewalDue ==
  /\ renews
  /\ \/ Valid /\ ledger - attestationAt >= RenewEvery
     \/ attestor # 0 /\ ledger - attestorAt >= RenewEvery

CloseLedger ==
  /\ ledger < LedgerBound
  /\ ~RenewalDue
  /\ ledger' = ledger + 1
  /\ AttestorUnchanged /\ AttestationUnchanged

Next ==
  /\ UNCHANGED renews
  /\ \/ \E ttl_seconds \in TtlArg : Attest(ttl_seconds)
     \/ Revoke \/ RenewAttestation
     \/ AddAttestor \/ RemoveAttestor \/ RenewAttestor
     \/ RestoreAttestor \/ RestoreAttestation \/ RestoreSeq
     \/ \E i \in 1..Len(history) : RestoreHistory(i)
     \/ CloseLedger

Spec == Init /\ [][Next]_vars

-----------------------------------------------------------------------------
HistoryRecord ==
  [at : Nat, expires_at : Nat, status : {"Active", "Revoked"}, live : Nat]

\* The entries.  Ledger numbers are natural numbers, and the
\* attestation, its counter and its first history entry appear together:
\* record_attestation writes all three.
EntriesOK ==
  /\ ledger \in Nat \ {0}
  /\ attestor \in Nat /\ attestation \in Nat /\ seq \in Nat
  /\ attestorAt \in 0..ledger /\ attestationAt \in 0..ledger
  /\ history \in Seq(HistoryRecord)
  /\ history = << >> <=> attestation = 0
  /\ history = << >> <=> seq = 0

\* Type correctness.
TypeOK == EntriesOK /\ renews \in BOOLEAN

\* The last ledger whose timestamp is before the expiry.
LastValidLedger(expires_at) == (expires_at - 1) \div SECONDS_PER_LEDGER

\* Whatever mix of attest, revoke, renew_attestation and restores came
\* before, an attestation entry that is written keeps at least half of the
\* minimum window: either it had more than the threshold left, or it is
\* extended.
HalfWindow ==
  history # << >> =>
    attestation >= attestationAt + MIN_ATTESTATION_TTL_EXTEND_TO \div 2

\* An operator who calls renew_attestation at least every half minimum
\* window keeps a valid attestation from being archived, however long its
\* ttl_seconds: the threshold of attestation_ttl_window never makes such a
\* call too early to count.
RenewedAttestationIsLive == renews /\ Valid => Usable(attestation)

\* An operator who calls renew_attestor at least every
\* ATTESTOR_TTL_THRESHOLD ledgers keeps a registered attestor's allow-list
\* entry live.
RenewedAttestorIsLive == renews /\ attestor # 0 => Usable(attestor)

\* push_attestation_history extends a history entry to the end of the
\* lifetime it records, or as far as the network allows.
HistoryCoversLifetime ==
  \A i \in 1..Len(history) :
    \/ history[i].live >= LastValidLedger(history[i].expires_at)
    \/ history[i].live >= history[i].at + MAX_ENTRY_TTL_LEDGERS - 1

-----------------------------------------------------------------------------
(* What a document says, and the code does not do. *)

\* docs/storage-rent-cost-analysis.md: "the purchased window still
\* comfortably outlives the attestation's own logical expiry", for lifetimes
\* a single extension can buy.
WindowOutlivesExpiry ==
  Valid /\ LastValidLedger(Current.expires_at) < Current.at + MAX_ENTRY_TTL_LEDGERS
    => attestation >= LastValidLedger(Current.expires_at)

=============================================================================
