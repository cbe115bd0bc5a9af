-------------------------- MODULE AnchorKitContract --------------------------
(***************************************************************************)
(* The attestation contract: src/src/contract.rs on top of the storage     *)
(* layer of src/src/storage.rs and the events of src/src/events.rs.        *)
(*                                                                         *)
(* The host runs one invocation at a time, checks every require_auth, and  *)
(* throws away all the writes of an invocation that returns an error.  An  *)
(* invocation that fails is therefore a stuttering step, and the actions   *)
(* below are the invocations that succeed.  The order in which a method    *)
(* tests its arguments is kept in the *_result operators.                  *)
(*                                                                         *)
(* attest_batch is the only method with a loop over caller supplied data.  *)
(* It runs as several steps on a working copy of the attestation data,     *)
(* which the host commits when the last entry is written and discards      *)
(* when an entry is refused.                                               *)
(*                                                                         *)
(* Storage entries do not archive here: StorageRent models that.           *)
(*                                                                         *)
(* Next to some definitions stands a second, deliberately wrong one.  It   *)
(* takes the place of the definition that follows it when a property is    *)
(* tested for its power to detect that error.                              *)
(***************************************************************************)
EXTENDS Integers, Sequences, FiniteSets, FiniteSetsExt

CONSTANTS
  Address,        \* accounts: administrators, attestors, callers
  Subject,        \* what attestations are about
  Type,           \* attestation types (Soroban symbols)
  TypeLen,        \* number of characters of each type
  Hash,           \* payload hashes
  U64Max,         \* the largest timestamp or TTL (u64::MAX in the code)
  DefaultMaxTtl,  \* DEFAULT_MAX_ATTESTATION_TTL_SECONDS
  TtlArg,         \* the ttl_seconds that callers pass
  CapArg,         \* the max_ttl_seconds that the administrator passes
  BatchArg,       \* the entry vectors that callers pass to attest_batch
  SeqBound        \* bound on the history length of a pair

Pair == Subject \X Type

Entry == [pair : Pair, payload_hash : Hash, ttl_seconds : 0..U64Max]

ASSUME ConstantsAssumption ==
  /\ TypeLen \in [Type -> Nat]
  /\ U64Max \in Nat \ {0}
  /\ DefaultMaxTtl \in 0..U64Max
  /\ TtlArg \subseteq 0..U64Max
  /\ CapArg \subseteq 0..U64Max
  /\ BatchArg \subseteq Seq(Entry)
  /\ SeqBound \in Nat

MAX_ATTESTATION_TYPE_LEN == 24

VARIABLES
  admin,      \* {} before initialize, then the singleton of the administrator
  paused,     \* DataKey::Paused, FALSE when the key is absent
  attestors,  \* the allow-list
  caps,       \* the DefaultMaxAttestationTtl and MaxAttestationTtl keys
  now,        \* the ledger timestamp
  store,      \* the committed attestation data
  work,       \* the attestation data as the running batch sees it
  batch,      \* the entries of the running batch, << >> between invocations
  next,       \* index of the batch entry to be recorded next
  observed    \* what a consumer of the configuration events knows

vars == <<admin, paused, attestors, caps, now, store, work, batch, next,
          observed>>

Idle == batch = << >>

-----------------------------------------------------------------------------
(* Key-value storage.  A store holds the Attestation, AttestationSeq,      *)
(* AttestationHistory and AttestationCount keys, and in `seen' what the    *)
(* Attested and Revoked events published so far say about each pair.       *)

Put(f, k, v) == [x \in DOMAIN f \cup {k} |-> IF x = k THEN v ELSE f[x]]

EmptyMap == [x \in {} |-> x]

Status == {"Active", "Revoked"}

Attestation ==
  [attestor : Address, payload_hash : Hash, issued_at : 0..U64Max,
   expires_at : 0..U64Max, status : Status]

HistoryEntry ==
  [sequence : Nat \ {0}, attestor : Address, payload_hash : Hash,
   issued_at : 0..U64Max, expires_at : 0..U64Max, status : Status]

EmptyStore ==
  [attestation |-> EmptyMap, seq |-> [p \in Pair |-> 0],
   history |-> [p \in Pair |-> EmptyMap], count |-> 0, seen |-> EmptyMap]

DefaultKey == <<"DefaultMaxAttestationTtl">>
CapKey(t) == <<"MaxAttestationTtl", t>>

wrapping_add(a, b) == (a + b) % (U64Max + 1)

saturating_add(a, b) == IF a + b > U64Max THEN U64Max ELSE a + b

set_attestation_once(st, p, a) ==
  IF p \in DOMAIN st.attestation THEN st
  ELSE [st EXCEPT !.attestation = Put(st.attestation, p, a)]

set_attestation(st, p, a) ==
  [st EXCEPT !.attestation = Put(st.attestation, p, a)]

bump_attestation_count(st) == [st EXCEPT !.count = st.count + 1]

AsEntry(n, a) ==
  [sequence |-> n, attestor |-> a.attestor, payload_hash |-> a.payload_hash,
   issued_at |-> a.issued_at, expires_at |-> a.expires_at, status |-> a.status]

push_over_the_last(st, p, a) ==
  LET n == IF st.seq[p] = 0 THEN 1 ELSE st.seq[p]
  IN  [st EXCEPT !.seq = [st.seq EXCEPT ![p] = n],
                 !.history = [st.history EXCEPT
                                ![p] = Put(st.history[p], n, AsEntry(n, a))]]

push_attestation_history(st, p, a) ==
  LET n == st.seq[p] + 1
  IN  [st EXCEPT !.seq = [st.seq EXCEPT ![p] = n],
                 !.history = [st.history EXCEPT
                                ![p] = Put(st.history[p], n, AsEntry(n, a))]]

\* The Attested event carries everything but the time of issue.
attested(st, p, a) ==
  [st EXCEPT !.seen = Put(st.seen, p,
     [attestor |-> a.attestor, payload_hash |-> a.payload_hash,
      expires_at |-> a.expires_at, status |-> "Active"])]

no_revoked_event(st, p) == st

\* The Revoked event names the pair only.
revoked(st, p) ==
  [st EXCEPT !.seen = Put(st.seen, p, [st.seen[p] EXCEPT !.status = "Revoked"])]

get_max_attestation_ttl(t) ==
  IF CapKey(t) \in DOMAIN caps THEN caps[CapKey(t)]
  ELSE IF DefaultKey \in DOMAIN caps THEN caps[DefaultKey]
  ELSE DefaultMaxTtl

validate_attestation_type(t) ==
  IF TypeLen[t] > MAX_ATTESTATION_TYPE_LEN THEN "AttestationTypeTooLong" ELSE "Ok"

-----------------------------------------------------------------------------
(* The methods of the contract.  A *_result operator is what the method     *)
(* returns, error by error in the order of the code.                       *)

\* What attest_batch checks of an entry before it writes anything.
precheck(e) ==
  IF e.ttl_seconds = 0 THEN "InvalidExpiration"
  ELSE validate_attestation_type(e.pair[2])

record_uncapped(e) == precheck(e)

\* What record_attestation checks.
record_result(e) ==
  IF precheck(e) # "Ok" THEN precheck(e)
  ELSE IF e.ttl_seconds > get_max_attestation_ttl(e.pair[2]) THEN "ExceedsMaxTtl"
  ELSE "Ok"

attest_result_when_paused(attestor, e) ==
  IF attestor \notin attestors THEN "AttestorNotRegistered"
  ELSE record_result(e)

attest_result(attestor, e) ==
  IF paused THEN "ContractPaused"
  ELSE IF attestor \notin attestors THEN "AttestorNotRegistered"
  ELSE record_result(e)

attest_batch_result(attestor, entries) ==
  LET bad == {i \in DOMAIN entries : precheck(entries[i]) # "Ok"}
  IN  IF paused THEN "ContractPaused"
      ELSE IF attestor \notin attestors THEN "AttestorNotRegistered"
      ELSE IF entries = << >> THEN "EmptyBatch"
      ELSE IF bad # {} THEN precheck(entries[Min(bad)])
      ELSE "Ok"

revoke_again_result(caller, p) ==
  IF paused THEN "ContractPaused"
  ELSE IF p \notin DOMAIN store.attestation THEN "AttestationNotFound"
  ELSE IF caller \notin admin /\ caller # store.attestation[p].attestor
       THEN "Unauthorized"
  ELSE "Ok"

revoke_result(caller, p) ==
  IF paused THEN "ContractPaused"
  ELSE IF p \notin DOMAIN store.attestation THEN "AttestationNotFound"
  ELSE IF admin = {} THEN "NotInitialized"
  ELSE IF caller \notin admin /\ caller # store.attestation[p].attestor
       THEN "Unauthorized"
  ELSE IF store.attestation[p].status = "Revoked" THEN "AttestationAlreadyRevoked"
  ELSE "Ok"

\* The attestation that record_attestation makes of an entry.
NewAttestation(attestor, e) ==
  [attestor |-> attestor, payload_hash |-> e.payload_hash, issued_at |-> now,
   expires_at |-> saturating_add(now, e.ttl_seconds), status |-> "Active"]

record_attestation(st, attestor, e) ==
  LET a == NewAttestation(attestor, e)
  IN  attested(bump_attestation_count(
        push_attestation_history(set_attestation(st, e.pair, a), e.pair, a)),
        e.pair, a)

revoke_without_history(st, p) ==
  revoked(set_attestation(st, p, [st.attestation[p] EXCEPT !.status = "Revoked"]), p)

record_revocation(st, p) ==
  LET a == [st.attestation[p] EXCEPT !.status = "Revoked"]
  IN  revoked(push_attestation_history(set_attestation(st, p, a), p, a), p)

is_valid_once_expired(p) ==
  /\ p \in DOMAIN store.attestation
  /\ store.attestation[p].status = "Active"
  /\ now >= store.attestation[p].expires_at

is_valid(p) ==
  /\ p \in DOMAIN store.attestation
  /\ store.attestation[p].status = "Active"
  /\ now < store.attestation[p].expires_at

PageKeysShort(total, start_seq, limit, reverse) ==
  IF reverse
  THEN [i \in 1..Min({limit, start_seq}) |-> start_seq - i + 1]
  ELSE [i \in 1..Min({limit, total - start_seq}) |-> start_seq + i - 1]

\* The sequence numbers a page of list_attestation_history asks for: at most
\* `limit' of them, down to 1 or up to the last one issued.
PageKeys(total, start_seq, limit, reverse) ==
  IF reverse
  THEN [i \in 1..Min({limit, start_seq}) |-> start_seq - i + 1]
  ELSE [i \in 1..Min({limit, total - start_seq + 1}) |-> start_seq + i - 1]

\* The entries found under the given keys, in the order of the keys: a missing
\* one is left out.
Found(entries, keys) ==
  LET results[i \in 0..Len(keys)] ==
        IF i = 0 THEN << >>
        ELSE IF keys[i] \in DOMAIN entries
        THEN Append(results[i - 1], entries[keys[i]])
        ELSE results[i - 1]
  IN  results[Len(keys)]

list_attestation_history(p, start_seq, limit, reverse) ==
  LET total == store.seq[p]
  IN  IF limit = 0 THEN [result |-> "InvalidPagination", page |-> << >>]
      ELSE IF total = 0 \/ start_seq > total
      THEN [result |-> "Ok", page |-> << >>]
      ELSE [result |-> "Ok",
            page |-> Found(store.history[p],
                           PageKeys(total, start_seq, limit, reverse))]

-----------------------------------------------------------------------------
Init ==
  /\ admin = {}
  /\ paused = FALSE
  /\ attestors = {}
  /\ caps = EmptyMap
  /\ now \in 0..U64Max
  /\ store = EmptyStore
  /\ work = EmptyStore
  /\ batch = << >>
  /\ next = 1
  /\ observed = [admin |-> {}, paused |-> FALSE, attestors |-> {},
                 caps |-> EmptyMap]

DataUnchanged == UNCHANGED <<now, store, work, batch, next>>
ConfigUnchanged == UNCHANGED <<admin, paused, attestors, caps, observed>>

Initialize(a) ==
  /\ Idle
  /\ admin = {}
  /\ admin' = {a}
  /\ paused' = FALSE
  /\ observed' = [observed EXCEPT !.admin = {a}, !.paused = FALSE]
  /\ UNCHANGED <<attestors, caps>>
  /\ DataUnchanged

\* get_admin fails before initialize; then the caller's authorization is the
\* administrator's.
AsAdmin(caller) == Idle /\ caller \in admin

SetAdmin(caller, new_admin) ==
  /\ AsAdmin(caller)
  /\ admin' = {new_admin}
  /\ observed' = [observed EXCEPT !.admin = {new_admin}]
  /\ UNCHANGED <<paused, attestors, caps>>
  /\ DataUnchanged

\* pause and unpause: neither looks at the current value.
SetPaused(caller, value) ==
  /\ AsAdmin(caller)
  /\ paused' = value
  /\ observed' = [observed EXCEPT !.paused = value]
  /\ UNCHANGED <<admin, attestors, caps>>
  /\ DataUnchanged

Pause(caller) == SetPaused(caller, TRUE)

Unpause(caller) == SetPaused(caller, FALSE)

AddAttestor(caller, a) ==
  /\ AsAdmin(caller)
  /\ a \notin attestors
  /\ attestors' = attestors \cup {a}
  /\ observed' = [observed EXCEPT !.attestors = @ \cup {a}]
  /\ UNCHANGED <<admin, paused, caps>>
  /\ DataUnchanged

RemoveAttestor(caller, a) ==
  /\ AsAdmin(caller)
  /\ a \in attestors
  /\ attestors' = attestors \ {a}
  /\ observed' = [observed EXCEPT !.attestors = @ \ {a}]
  /\ UNCHANGED <<admin, paused, caps>>
  /\ DataUnchanged

SetCap(caller, key, max_ttl_seconds) ==
  /\ AsAdmin(caller)
  /\ max_ttl_seconds # 0
  /\ caps' = Put(caps, key, max_ttl_seconds)
  /\ observed' = [observed EXCEPT !.caps = Put(@, key, max_ttl_seconds)]
  /\ UNCHANGED <<admin, paused, attestors>>
  /\ DataUnchanged

SetDefaultMaxAttestationTtl(caller, max_ttl_seconds) ==
  SetCap(caller, DefaultKey, max_ttl_seconds)

SetMaxAttestationTtl(caller, t, max_ttl_seconds) ==
  SetCap(caller, CapKey(t), max_ttl_seconds)

\* An invocation that runs in one step leaves the working copy equal to the
\* committed data.
Commit(st) == store' = st /\ work' = st

Attest(attestor, e) ==
  /\ Idle
  /\ store.seq[e.pair] < SeqBound
  /\ attest_result(attestor, e) = "Ok"
  /\ Commit(record_attestation(store, attestor, e))
  /\ UNCHANGED <<now, batch, next>>
  /\ ConfigUnchanged

\* attest_batch up to the end of its first loop.
AttestBatch(attestor, entries) ==
  /\ Idle
  /\ \A p \in Pair : store.seq[p] + Len(entries) <= SeqBound
  /\ attest_batch_result(attestor, entries) = "Ok"
  /\ batch' = [i \in 1..Len(entries) |->
                [attestor |-> attestor, pair |-> entries[i].pair,
                 payload_hash |-> entries[i].payload_hash,
                 ttl_seconds |-> entries[i].ttl_seconds]]
  /\ next' = 1
  /\ UNCHANGED <<now, store, work>>
  /\ ConfigUnchanged

EndBatch == batch' = << >> /\ next' = 1

\* One turn of the second loop; the host commits after the last one.
BatchRecord ==
  /\ ~Idle
  /\ record_result(batch[next]) = "Ok"
  /\ work' = record_attestation(work, batch[next].attestor, batch[next])
  /\ IF next = Len(batch)
     THEN store' = work' /\ EndBatch
     ELSE next' = next + 1 /\ UNCHANGED <<store, batch>>
  /\ UNCHANGED now
  /\ ConfigUnchanged

BatchAbortKeepingWrites ==
  /\ ~Idle
  /\ record_result(batch[next]) # "Ok"
  /\ store' = work
  /\ EndBatch
  /\ UNCHANGED <<now, work>>
  /\ ConfigUnchanged

\* record_attestation refuses an entry, `?' returns the error, and the host
\* rolls the invocation back.
BatchAbort ==
  /\ ~Idle
  /\ record_result(batch[next]) # "Ok"
  /\ work' = store
  /\ EndBatch
  /\ UNCHANGED <<now, store>>
  /\ ConfigUnchanged

Revoke(caller, p) ==
  /\ Idle
  /\ store.seq[p] < SeqBound
  /\ revoke_result(caller, p) = "Ok"
  /\ Commit(record_revocation(store, p))
  /\ UNCHANGED <<now, batch, next>>
  /\ ConfigUnchanged

\* The ledger closes.
Tick ==
  /\ Idle
  /\ now < U64Max
  /\ now' = now + 1
  /\ UNCHANGED <<store, work, batch, next>>
  /\ ConfigUnchanged

ArgEntry == [pair : Pair, payload_hash : Hash, ttl_seconds : TtlArg]

Next ==
  \/ \E a \in Address : Initialize(a)
  \/ \E caller, a \in Address : \/ SetAdmin(caller, a)
                                \/ AddAttestor(caller, a)
                                \/ RemoveAttestor(caller, a)
  \/ \E caller \in Address : Pause(caller) \/ Unpause(caller)
  \/ \E caller \in Address, m \in CapArg :
       \/ SetDefaultMaxAttestationTtl(caller, m)
       \/ \E t \in Type : SetMaxAttestationTtl(caller, t, m)
  \/ \E a \in Address, e \in ArgEntry : Attest(a, e)
  \/ \E a \in Address, entries \in BatchArg : AttestBatch(a, entries)
  \/ BatchRecord
  \/ BatchAbort
  \/ \E caller \in Address, p \in Pair : Revoke(caller, p)
  \/ Tick

Spec == Init /\ [][Next]_vars

-----------------------------------------------------------------------------
(* Types *)

MapsInto(f, D, R) == DOMAIN f \subseteq D /\ f \in [DOMAIN f -> R]

Seen == [attestor : Address, payload_hash : Hash, expires_at : 0..U64Max,
         status : Status]

StoreTypeOK(st) ==
  /\ st = [attestation |-> st.attestation, seq |-> st.seq,
           history |-> st.history, count |-> st.count, seen |-> st.seen]
  /\ MapsInto(st.attestation, Pair, Attestation)
  /\ st.seq \in [Pair -> Nat]
  /\ DOMAIN st.history = Pair
  /\ \A p \in Pair : MapsInto(st.history[p], Nat \ {0}, HistoryEntry)
  /\ st.count \in Nat
  /\ MapsInto(st.seen, Pair, Seen)

Submitted == [attestor : Address, pair : Pair, payload_hash : Hash,
              ttl_seconds : 0..U64Max]

CapKeys == {DefaultKey} \cup {CapKey(t) : t \in Type}

\* Every variable holds a value of the kind the code stores, at every step of
\* every invocation; caps are never zero, at most one administrator exists,
\* and the index of the batch loop stays inside the batch.
TypeOK ==
  /\ admin \in {{}} \cup {{a} : a \in Address}
  /\ paused \in BOOLEAN
  /\ attestors \subseteq Address
  /\ MapsInto(caps, CapKeys, 1..U64Max)
  /\ now \in 0..U64Max
  /\ StoreTypeOK(store)
  /\ StoreTypeOK(work)
  /\ batch \in Seq(Submitted)
  /\ next \in 1..(IF Idle THEN 1 ELSE Len(batch))
  /\ DOMAIN observed = {"admin", "paused", "attestors", "caps"}

-----------------------------------------------------------------------------
(* Invariants *)

ActiveKeys(st) ==
  UNION {{<<p, n>> : n \in {m \in DOMAIN st.history[p] :
                             st.history[p][m].status = "Active"}} : p \in Pair}

HistoryTail(st) ==
  \A p \in Pair :
    /\ DOMAIN st.history[p] = 1..st.seq[p]
    /\ \A n \in 1..st.seq[p] : st.history[p][n].sequence = n
    /\ p \in DOMAIN st.attestation <=> st.seq[p] > 0
    /\ st.seq[p] > 0 =>
         st.history[p][st.seq[p]] = AsEntry(st.seq[p], st.attestation[p])

\* The three places that record a pair agree after every invocation: history
\* numbers have no gap and no reuse, and the newest history entry is the
\* current attestation, whether attest, attest_batch or revoke wrote last.
HistoryTailIsCurrent == HistoryTail(store)

\* get_attestation_count is the number of attestations ever issued:
\* revocations append to the history but are not counted, batches count every
\* entry, rolled back batches count nothing.
CountIsAttestations == store.count = Cardinality(ActiveKeys(store))

SameContent(x, y) ==
  /\ x.attestor = y.attestor
  /\ x.payload_hash = y.payload_hash
  /\ x.issued_at = y.issued_at
  /\ x.expires_at = y.expires_at

Chain(st) ==
  \A p \in Pair : \A n \in DOMAIN st.history[p] :
    st.history[p][n].status = "Revoked" =>
      /\ n > 1
      /\ st.history[p][n-1].status = "Active"
      /\ SameContent(st.history[p][n], st.history[p][n-1])

\* A revocation in the history directly follows the attestation it revokes
\* and repeats its content, so no attestation is revoked twice and the trail
\* always tells which one a revocation ended (revoke).
RevocationsFollowWhatTheyRevoke == Chain(store)

Chronological(st, t) ==
  \A p \in Pair : \A n \in DOMAIN st.history[p] :
    LET e == st.history[p][n]
    IN  /\ e.issued_at <= t
        /\ n > 1 => st.history[p][n-1].issued_at <= e.issued_at
        /\ e.issued_at < e.expires_at \/ e.expires_at = U64Max

\* History is in order of issue, nothing was issued in the future, and an
\* attestation expires after it was issued: the saturating addition of
\* record_attestation never wraps an expiry back into the past.
HistoryIsChronological == Chronological(store, now)

SeenOf(a) == [attestor |-> a.attestor, payload_hash |-> a.payload_hash,
              expires_at |-> a.expires_at, status |-> a.status]

SeenTells(st) ==
  /\ DOMAIN st.seen = DOMAIN st.attestation
  /\ \A p \in DOMAIN st.seen : st.seen[p] = SeenOf(st.attestation[p])

\* A consumer that only follows the events knows the configuration, and for
\* every pair all of the current attestation but its time of issue: no
\* successful call changes state without the event that says so, and no
\* event survives a rolled back batch.
EventsTellTheState ==
  /\ observed = [admin |-> admin, paused |-> paused, attestors |-> attestors,
                 caps |-> caps]
  /\ SeenTells(store)

PagesOf(p, limit) ==
  LET total == store.seq[p]
      skipped(n) == ((n - 1) \div limit) * limit
      up(n) == list_attestation_history(p, skipped(n) + 1, limit, FALSE).page
      down(n) == list_attestation_history(p, total - skipped(n), limit, TRUE).page
  IN  \A n \in 1..total :
        /\ Len(up(n)) = Min({limit, total - skipped(n)})
        /\ Len(down(n)) = Len(up(n))
        /\ up(n)[n - skipped(n)] = store.history[p][n]
        /\ down(n)[n - skipped(n)] = store.history[p][total + 1 - n]

\* A client that walks the pages of list_attestation_history in either
\* direction, each starting after the last sequence number of the one before,
\* meets every history entry exactly once and in order, whatever the limit.
PagesCoverHistory ==
  \A p \in Pair : \A limit \in 1..(SeqBound + 1) : PagesOf(p, limit)

-----------------------------------------------------------------------------
(* Action properties *)

AppendOnlyStep ==
  \A p \in Pair :
    /\ store.seq[p] <= store'.seq[p]
    /\ \A n \in 1..store.seq[p] : store'.history[p][n] = store.history[p][n]

\* Nothing ever rewrites or drops a history entry, and no step hands out a
\* sequence number again (push_attestation_history: "an immutable history
\* entry that's never overwritten").
HistoryAppendOnly == [][AppendOnlyStep]_vars

JustifiedStep ==
  \A p \in Pair : \A n \in (store.seq[p] + 1)..store'.seq[p] :
    LET e == store'.history[p][n]
    IN  /\ ~paused
        /\ \/ /\ e.status = "Active"
              /\ e.attestor \in attestors
              /\ e.issued_at = now
              /\ e.expires_at - now <= get_max_attestation_ttl(p[2])
           \/ /\ e.status = "Revoked"
              /\ n = store.seq[p] + 1
              /\ n = store'.seq[p]
              /\ store.attestation[p].status = "Active"

\* Every entry that a committed invocation adds is justified by the state it
\* ran in: the contract is not paused, and the entry either ends the pair's
\* current Active attestation or is issued at the current time by a listed
\* attestor for no longer than the maximum in force for its type.
NewEntriesJustified == [][JustifiedStep]_vars

FreshStep ==
  \A p \in Pair : ~is_valid(p) /\ is_valid(p)' =>
    /\ store'.seq[p] > store.seq[p]
    /\ store'.attestation[p].issued_at = now

\* A pair becomes valid only by a fresh attestation: not by the passing of
\* time, a change of administrator, attestor, cap or pause, nor a revocation.
ValidOnlyByFreshAttest == [][FreshStep]_vars

ForPair(n, p) == {j \in 1..n : batch[j].pair = p}

HoldsFirst(st, n) ==
  /\ st.count = store.count + n
  /\ \A p \in Pair : st.seq[p] = store.seq[p] + Cardinality(ForPair(n, p))
  /\ \A i \in 1..n :
       LET p == batch[i].pair
           k == store.seq[p] + Cardinality(ForPair(i, p))
       IN  st.history[p][k] =
             AsEntry(k, NewAttestation(batch[i].attestor, batch[i]))

BatchStep == ~Idle /\ store' # store => HoldsFirst(store', Len(batch))

\* A batch is all or nothing: when the data changes while a batch runs, every
\* one of its entries is in the history, at the place its position among the
\* entries for the same pair gives it, and nothing else is.
BatchAllOrNothing == [][BatchStep]_vars

\* What docs/pre-audit-security-checklist.md says of attest_batch: the TTL
\* and the max-TTL check of every entry come before any entry is written.  So
\* when an entry is refused, the invocation has written nothing.
RefusedBeforeAnyWrite ==
  ~Idle /\ record_result(batch[next]) # "Ok" => work = store

-----------------------------------------------------------------------------
(* Refinement *)

Content(e) ==
  [attestor |-> e.attestor, payload_hash |-> e.payload_hash,
   issued_at |-> e.issued_at, expires_at |-> e.expires_at, status |-> e.status]

LogOf(st) == [p \in Pair |-> [n \in 1..st.seq[p] |-> Content(st.history[p][n])]]

Registry ==
  INSTANCE AttestationRegistry WITH
    Attestor <- Address, Payload <- Hash,
    log <- LogOf(store), current <- store.attestation, clock <- now

\* The contract implements the registry: its stored attestations behave as
\* the last records of append-only logs, and a whole batch, commit or
\* rollback, appears as one step.
ImplementsRegistry == Registry!Spec

EntryOf(a) ==
  [attestor |-> a.attestor, expires_at |-> a.expires_at,
   revoked |-> a.status = "Revoked"]

Reference ==
  INSTANCE ReferenceModel WITH
    entries <- [p \in DOMAIN store.attestation |-> EntryOf(store.attestation[p])]

AnswersAsPredicted ==
  \A p \in Pair :
    /\ is_valid(p) <=> Reference!is_valid(p)
    /\ \A caller \in Address :
         revoke_result(caller, p) = "Ok" <=> Reference!expect_ok(caller, p)

\* What the repository's differential test samples
\* (attestation_model_proptest.rs:112-215), for every sequence of calls: the
\* contract takes only the steps of the reference model, is_valid and the
\* outcome of revoke are always what the model predicts, and a batch appears
\* to it as one step.
ImplementsReference == Reference!ReferenceSpec /\ []AnswersAsPredicted

=============================================================================
