--------------------------- MODULE ReferenceModel ---------------------------
(***************************************************************************)
(* The reference model that the repository's differential test             *)
(* (src/src/attestation_model_proptest.rs) runs beside the contract: a     *)
(* pause flag and, for each (subject, type) pair, who attested, until when *)
(* and whether it was revoked.  The test compares the two after every call *)
(* of random sequences of at most twenty calls.                            *)
(*                                                                         *)
(* Who is administrator and who is on the allow-list is set up by the test *)
(* before it starts; here they are variables that the model only reads.    *)
(***************************************************************************)
EXTENDS Integers

CONSTANTS Pair, Address,
          U64Max   \* the largest ttl, and where the addition saturates

VARIABLES
  paused, entries,
  now,             \* env.ledger().timestamp()
  admin, attestors

RefEntry == [attestor : Address, expires_at : 0..U64Max, revoked : BOOLEAN]

ReferenceInit ==
  /\ paused = FALSE
  /\ entries = [p \in {} |-> p]
  /\ now \in 0..U64Max

is_valid(p) ==
  /\ p \in DOMAIN entries
  /\ ~entries[p].revoked
  /\ now < entries[p].expires_at

NewEntry(attestor, ttl) ==
  [attestor |-> attestor, revoked |-> FALSE,
   expires_at |-> IF now + ttl > U64Max THEN U64Max ELSE now + ttl]

\* Action::Attest, for one pair or, as attest_batch does and the test does not,
\* for several.
Attest(attestor, pairs) ==
  /\ ~paused
  /\ attestor \in attestors
  /\ DOMAIN entries' = DOMAIN entries \cup pairs
  /\ \A p \in DOMAIN entries' :
       IF p \in pairs
       THEN \E ttl \in 1..U64Max : entries'[p] = NewEntry(attestor, ttl)
       ELSE entries'[p] = entries[p]
  /\ UNCHANGED <<paused, now>>

\* What the test predicts of Action::Revoke.
expect_ok(caller, p) ==
  /\ ~paused
  /\ p \in DOMAIN entries
  /\ ~entries[p].revoked
  /\ caller \in admin \/ caller = entries[p].attestor

Revoke(caller, p) ==
  /\ expect_ok(caller, p)
  /\ entries' = [entries EXCEPT ![p].revoked = TRUE]
  /\ UNCHANGED <<paused, now>>

Pause == paused' = TRUE /\ UNCHANGED <<entries, now>>

Unpause == paused' = FALSE /\ UNCHANGED <<entries, now>>

AdvanceTime == now' \in now..U64Max /\ UNCHANGED <<paused, entries>>

ReferenceNext ==
  \/ \E a \in Address, pairs \in SUBSET Pair : Attest(a, pairs)
  \/ \E caller \in Address, p \in Pair : Revoke(caller, p)
  \/ Pause
  \/ Unpause
  \/ AdvanceTime

ReferenceSpec == ReferenceInit /\ [][ReferenceNext]_<<paused, entries, now>>

=============================================================================
