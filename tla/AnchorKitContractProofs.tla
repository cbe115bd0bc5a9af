----------------------- MODULE AnchorKitContractProofs -----------------------
(***************************************************************************)
(* Proofs about AnchorKitContract, for any addresses, subjects, types,     *)
(* hashes, bounds and arguments.                                           *)
(***************************************************************************)
EXTENDS AnchorKitContract, FiniteSetTheorems, WellFoundedInduction, TLAPS

-----------------------------------------------------------------------------
(* Storage: what a write does to each field of a store.                    *)

\* A non-empty set of natural numbers has a least element, its minimum
\* (attest_batch reports the error of its first bad entry).
LEMMA MinMember ==
  ASSUME NEW S, S \subseteq Nat, S # {}
  PROVE  Min(S) \in S /\ \A y \in S : Min(S) =< y
<1>1. PICK x \in S : \A y \in S : ~(<<y, x>> \in OpToRel(<, Nat))
  BY NatLessThanWellFounded, WFMin, Zenon
<1>2. ASSUME NEW y \in S PROVE ~(y < x)
  <2>1. <<y, x>> \in Nat \X Nat /\ <<y, x>>[1] = y /\ <<y, x>>[2] = x
    BY Zenon
  <2>2. QED
    BY <1>1, <2>1, Zenon DEF OpToRel
<1>3. \A y \in S : x =< y
  BY <1>2
<1>4. QED
  BY <1>3, Zenon DEF Min

\* Storing a value of the right type under a key keeps a map typed.
LEMMA PutType ==
  ASSUME NEW f, NEW D, NEW R, NEW k \in D, NEW v \in R, MapsInto(f, D, R)
  PROVE  MapsInto(Put(f, k, v), D, R)
  BY Zenon DEF Put, MapsInto

\* st2 is st after set_attestation and push_attestation_history of a at p.
Appended(st, st2, p, a) ==
  /\ st2.attestation = Put(st.attestation, p, a)
  /\ st2.seq = [st.seq EXCEPT ![p] = st.seq[p] + 1]
  /\ st2.history = [st.history EXCEPT ![p] =
                      Put(st.history[p], st.seq[p] + 1, AsEntry(st.seq[p] + 1, a))]

IsStore(st) ==
  st = [attestation |-> st.attestation, seq |-> st.seq,
        history |-> st.history, count |-> st.count, seen |-> st.seen]

\* What set_attestation and push_attestation_history together do to a store.
LEMMA PushFields ==
  ASSUME NEW st, IsStore(st), NEW p, NEW a
  PROVE  LET st2 == push_attestation_history(set_attestation(st, p, a), p, a)
         IN  /\ IsStore(st2)
             /\ Appended(st, st2, p, a)
             /\ st2.count = st.count
             /\ st2.seen = st.seen
<1> DEFINE st1 == set_attestation(st, p, a)
           n == st.seq[p] + 1
           st2 == push_attestation_history(st1, p, a)
<1>1. st1 = [attestation |-> Put(st.attestation, p, a), seq |-> st.seq,
             history |-> st.history, count |-> st.count, seen |-> st.seen]
  BY DEF IsStore, set_attestation
<1> HIDE DEF st1
<1>2. st2 = [attestation |-> Put(st.attestation, p, a),
             seq |-> [st.seq EXCEPT ![p] = n],
             history |-> [st.history EXCEPT ![p] =
                            Put(st.history[p], n, AsEntry(n, a))],
             count |-> st.count, seen |-> st.seen]
  <2> DEFINE h == [st.history EXCEPT ![p] = Put(st.history[p], n, AsEntry(n, a))]
             q == [st.seq EXCEPT ![p] = n]
  <2>1. st2 = [st1 EXCEPT !.seq = q, !.history = h]
    BY <1>1, Zenon DEF push_attestation_history
  <2> HIDE DEF h, q
  <2>2. st2 = [attestation |-> Put(st.attestation, p, a), seq |-> q,
               history |-> h, count |-> st.count, seen |-> st.seen]
    BY <1>1, <2>1, Zenon
  <2>3. QED
    BY <2>2, Zenon DEF h, q
<1> HIDE DEF st2
<1>3. QED
  BY <1>2 DEF IsStore, Appended, st2, st1

\* What record_attestation does to each field of a store.
LEMMA RecordFields ==
  ASSUME NEW st, IsStore(st), NEW attestor, NEW e
  PROVE  LET st2 == record_attestation(st, attestor, e)
             a == NewAttestation(attestor, e)
         IN  /\ IsStore(st2)
             /\ Appended(st, st2, e.pair, a)
             /\ st2.count = st.count + 1
             /\ st2.seen = Put(st.seen, e.pair, SeenOf(a))
<1> DEFINE a == NewAttestation(attestor, e)
           st1 == push_attestation_history(set_attestation(st, e.pair, a), e.pair, a)
           st2 == attested(bump_attestation_count(st1), e.pair, a)
<1>1. /\ IsStore(st1)
      /\ Appended(st, st1, e.pair, a)
      /\ st1.count = st.count
      /\ st1.seen = st.seen
  BY PushFields, Zenon
<1>2. a.status = "Active"
  BY Zenon DEF NewAttestation
<1> HIDE DEF a, st1
<1>3. st2 = [attestation |-> st1.attestation, seq |-> st1.seq,
             history |-> st1.history, count |-> st.count + 1,
             seen |-> Put(st.seen, e.pair, SeenOf(a))]
  <2> DEFINE s == Put(st.seen, e.pair, SeenOf(a))
             b == bump_attestation_count(st1)
  <2>1. b = [attestation |-> st1.attestation, seq |-> st1.seq,
             history |-> st1.history, count |-> st.count + 1, seen |-> st.seen]
    BY <1>1 DEF IsStore, bump_attestation_count
  <2> HIDE DEF b
  <2>2. st2 = [b EXCEPT !.seen = s]
    BY <1>2, <2>1 DEF attested, SeenOf, b
  <2> HIDE DEF s
  <2>3. QED
    BY <2>1, <2>2, Zenon DEF s
<1> HIDE DEF st2
<1>4. /\ IsStore(st2)
      /\ Appended(st, st2, e.pair, a)
      /\ st2.count = st.count + 1
      /\ st2.seen = Put(st.seen, e.pair, SeenOf(a))
  BY <1>1, <1>3, Zenon DEF IsStore, Appended
<1>5. QED
  BY <1>4, Zenon DEF record_attestation, a, st1, st2

\* What revoke does to each field of a store.
LEMMA RevokeFields ==
  ASSUME NEW st, IsStore(st), NEW p
  PROVE  LET st2 == record_revocation(st, p)
             a == [st.attestation[p] EXCEPT !.status = "Revoked"]
         IN  /\ IsStore(st2)
             /\ Appended(st, st2, p, a)
             /\ st2.count = st.count
             /\ st2.seen = Put(st.seen, p, [st.seen[p] EXCEPT !.status = "Revoked"])
<1> DEFINE a == [st.attestation[p] EXCEPT !.status = "Revoked"]
           st1 == push_attestation_history(set_attestation(st, p, a), p, a)
           st2 == revoked(st1, p)
           s == Put(st.seen, p, [st.seen[p] EXCEPT !.status = "Revoked"])
<1>1. /\ IsStore(st1)
      /\ Appended(st, st1, p, a)
      /\ st1.count = st.count
      /\ st1.seen = st.seen
  BY PushFields
<1> HIDE DEF a, st1
<1>2. st2 = [attestation |-> st1.attestation, seq |-> st1.seq,
             history |-> st1.history, count |-> st.count, seen |-> s]
  BY <1>1 DEF IsStore, revoked
<1> HIDE DEF st2, s
<1>3. IsStore(st2) /\ Appended(st, st2, p, a) /\ st2.count = st.count /\ st2.seen = s
  BY <1>1, <1>2, Zenon DEF IsStore, Appended
<1>4. QED
  BY <1>3, Zenon DEF record_revocation, a, st1, st2, s

\* The same, pair by pair and entry by entry.
LEMMA AppendedAt ==
  ASSUME NEW st, StoreTypeOK(st), HistoryTail(st),
         NEW p \in Pair, NEW a, NEW st2, Appended(st, st2, p, a)
  PROVE  /\ st2.seq \in [Pair -> Nat]
         /\ st2.seq[p] = st.seq[p] + 1
         /\ DOMAIN st2.history = Pair
         /\ DOMAIN st2.history[p] = 1..(st.seq[p] + 1)
         /\ st2.history[p][st.seq[p] + 1] = AsEntry(st.seq[p] + 1, a)
         /\ \A m \in 1..st.seq[p] : st2.history[p][m] = st.history[p][m]
         /\ \A q \in Pair : q # p => /\ st2.seq[q] = st.seq[q]
                                     /\ st2.history[q] = st.history[q]
         /\ DOMAIN st2.attestation = DOMAIN st.attestation \cup {p}
         /\ st2.attestation[p] = a
         /\ \A q \in DOMAIN st.attestation :
              q # p => st2.attestation[q] = st.attestation[q]
<1> DEFINE n == st.seq[p] + 1
           h == Put(st.history[p], n, AsEntry(n, a))
<1>1. st.seq \in [Pair -> Nat] /\ DOMAIN st.history = Pair
      /\ DOMAIN st.history[p] = 1..st.seq[p]
  BY Zenon DEF StoreTypeOK, HistoryTail
<1>2. n \in Nat /\ n \notin 1..st.seq[p] /\ 1..n = (1..st.seq[p]) \cup {n}
  BY <1>1
<1>3. /\ DOMAIN h = 1..n
      /\ h[n] = AsEntry(n, a)
      /\ \A m \in 1..st.seq[p] : h[m] = st.history[p][m]
  BY <1>1, <1>2, Zenon DEF Put
<1> HIDE DEF h, n
<1>4. /\ st2.seq \in [Pair -> Nat] /\ st2.seq[p] = n
      /\ \A q \in Pair : q # p => st2.seq[q] = st.seq[q]
  BY <1>1, <1>2 DEF Appended, n
<1>5. /\ DOMAIN st2.history = Pair /\ st2.history[p] = h
      /\ \A q \in Pair : q # p => st2.history[q] = st.history[q]
  BY <1>1, Zenon DEF Appended, n, h
<1>6. /\ DOMAIN st2.attestation = DOMAIN st.attestation \cup {p}
      /\ st2.attestation[p] = a
      /\ \A q \in DOMAIN st.attestation :
           q # p => st2.attestation[q] = st.attestation[q]
  BY Zenon DEF Appended, Put
<1>7. QED
  BY <1>3, <1>4, <1>5, <1>6, Zenon DEF n

\* Appending an attestation keeps the store typed.
LEMMA AppendedType ==
  ASSUME NEW st, StoreTypeOK(st), HistoryTail(st),
         NEW p \in Pair, NEW a \in Attestation,
         NEW st2, IsStore(st2), Appended(st, st2, p, a),
         st2.count \in Nat, MapsInto(st2.seen, Pair, Seen)
  PROVE  StoreTypeOK(st2)
<1>1. MapsInto(st2.attestation, Pair, Attestation)
  BY PutType DEF StoreTypeOK, Appended
<1>2. AsEntry(st.seq[p] + 1, a) \in HistoryEntry /\ st.seq[p] + 1 \in Nat \ {0}
  BY DEF AsEntry, HistoryEntry, Attestation, StoreTypeOK
<1>3. ASSUME NEW q \in Pair
      PROVE  MapsInto(st2.history[q], Nat \ {0}, HistoryEntry)
  <2>1. CASE q = p
    <3>1. MapsInto(Put(st.history[p], st.seq[p] + 1, AsEntry(st.seq[p] + 1, a)),
                   Nat \ {0}, HistoryEntry)
      BY <1>2, PutType, Zenon DEF StoreTypeOK
    <3>2. QED
      BY <2>1, <3>1, Zenon DEF Appended, StoreTypeOK
  <2>2. CASE q # p
    BY <2>2, AppendedAt DEF StoreTypeOK
  <2>3. QED
    BY <2>1, <2>2, Zenon
<1>4. QED
  BY <1>1, <1>3, AppendedAt DEF StoreTypeOK, IsStore

\* After an append the newest history entry is the stored attestation again.
LEMMA AppendedTail ==
  ASSUME NEW st, StoreTypeOK(st), HistoryTail(st),
         NEW p \in Pair, NEW a, NEW st2, Appended(st, st2, p, a)
  PROVE  HistoryTail(st2)
<1> SUFFICES ASSUME NEW q \in Pair
             PROVE  /\ DOMAIN st2.history[q] = 1..st2.seq[q]
                    /\ \A n \in 1..st2.seq[q] : st2.history[q][n].sequence = n
                    /\ q \in DOMAIN st2.attestation <=> st2.seq[q] > 0
                    /\ st2.seq[q] > 0 => st2.history[q][st2.seq[q]] =
                                           AsEntry(st2.seq[q], st2.attestation[q])
  BY Zenon DEF HistoryTail
<1>1. CASE q = p
  <2>1. st.seq[p] \in Nat
    BY Zenon DEF StoreTypeOK
  <2>2. AsEntry(st.seq[p] + 1, a).sequence = st.seq[p] + 1
    BY Zenon DEF AsEntry
  <2>3. \A n \in 1..st.seq[p] : st2.history[p][n].sequence = n
    BY AppendedAt DEF HistoryTail
  <2>4. QED
    BY <1>1, <2>1, <2>2, <2>3, AppendedAt
<1>2. CASE q # p
  <2>1. /\ st2.seq[q] = st.seq[q] /\ st2.history[q] = st.history[q]
        /\ DOMAIN st2.attestation = DOMAIN st.attestation \cup {p}
        /\ q \in DOMAIN st.attestation => st2.attestation[q] = st.attestation[q]
    BY <1>2, AppendedAt
  <2>2. QED
    BY <1>2, <2>1, Zenon DEF HistoryTail
<1>3. QED
  BY <1>1, <1>2, Zenon

\* Membership in ActiveKeys, spelled out.
LEMMA ActiveKeysMember ==
  ASSUME NEW st, NEW k
  PROVE  k \in ActiveKeys(st) <=>
           \E q \in Pair : \E m \in DOMAIN st.history[q] :
             k = <<q, m>> /\ st.history[q][m].status = "Active"
  BY DEF ActiveKeys

Counted(st) ==
  IsFiniteSet(ActiveKeys(st)) /\ st.count = Cardinality(ActiveKeys(st))

\* An Active entry adds one key, a Revoked entry none.
LEMMA AppendedKeys ==
  ASSUME NEW st, StoreTypeOK(st), HistoryTail(st),
         NEW p \in Pair, NEW a, NEW st2, Appended(st, st2, p, a)
  PROVE  /\ ActiveKeys(st2) = IF a.status = "Active"
                              THEN ActiveKeys(st) \cup {<<p, st.seq[p] + 1>>}
                              ELSE ActiveKeys(st)
         /\ <<p, st.seq[p] + 1>> \notin ActiveKeys(st)
<1> DEFINE n == st.seq[p] + 1
<1>1. st.seq[p] \in Nat /\ DOMAIN st.history[p] = 1..st.seq[p]
  BY Zenon DEF StoreTypeOK, HistoryTail
<1>2. <<p, n>> \notin ActiveKeys(st)
  BY <1>1, ActiveKeysMember
<1>3. AsEntry(n, a).status = a.status
  BY Zenon DEF AsEntry
<1>4. ASSUME NEW q \in Pair, NEW m
      PROVE  (m \in DOMAIN st2.history[q] /\ st2.history[q][m].status = "Active")
             <=> \/ m \in DOMAIN st.history[q] /\ st.history[q][m].status = "Active"
                 \/ q = p /\ m = n /\ a.status = "Active"
  <2>1. CASE q = p
    <3>1. m \in 1..n <=> m \in 1..st.seq[p] \/ m = n
      BY <1>1
    <3>2. DOMAIN st2.history[p] = 1..n /\ st2.history[p][n] = AsEntry(n, a)
      BY AppendedAt
    <3>3. \A i \in 1..st.seq[p] : st2.history[p][i] = st.history[p][i]
      BY AppendedAt
    <3>4. CASE m \in 1..st.seq[p]
      BY <1>1, <2>1, <3>1, <3>2, <3>3, <3>4
    <3>5. CASE m \notin 1..st.seq[p]
      BY <1>1, <1>3, <2>1, <3>1, <3>2, <3>5, Zenon
    <3>6. QED
      BY <3>4, <3>5, Zenon
  <2>2. CASE q # p
    BY <2>2, AppendedAt
  <2>3. QED
    BY <2>1, <2>2, Zenon
<1> HIDE DEF n
<1>5. ASSUME NEW k
      PROVE  k \in ActiveKeys(st2) <=>
               k \in ActiveKeys(st) \/ (k = <<p, n>> /\ a.status = "Active")
  BY <1>4, ActiveKeysMember
<1>6. QED
  BY <1>2, <1>5, Zenon DEF n

\* The count stays the number of Active entries: attest bumps it, revoke
\* does not.
LEMMA AppendedCount ==
  ASSUME NEW st, StoreTypeOK(st), HistoryTail(st), Counted(st),
         NEW p \in Pair, NEW a, NEW st2, Appended(st, st2, p, a),
         \/ a.status = "Active" /\ st2.count = st.count + 1
         \/ a.status = "Revoked" /\ st2.count = st.count
  PROVE  Counted(st2)
<1>1. CASE a.status = "Active" /\ st2.count = st.count + 1
  <2> DEFINE k == <<p, st.seq[p] + 1>>
  <2>1. ActiveKeys(st2) = ActiveKeys(st) \cup {k} /\ k \notin ActiveKeys(st)
    BY <1>1, AppendedKeys
  <2> HIDE DEF k
  <2>2. /\ IsFiniteSet(ActiveKeys(st) \cup {k})
        /\ Cardinality(ActiveKeys(st) \cup {k}) = Cardinality(ActiveKeys(st)) + 1
    BY <2>1, FS_AddElement, Zenon DEF Counted
  <2>3. QED
    BY <1>1, <2>1, <2>2, Zenon DEF Counted
<1>2. CASE a.status = "Revoked" /\ st2.count = st.count
  <2>1. a.status # "Active"
    BY <1>2, Zenon
  <2>2. ActiveKeys(st2) = ActiveKeys(st)
    BY <2>1, AppendedKeys, Zenon
  <2>3. QED
    BY <1>2, <2>2, Zenon DEF Counted
<1>3. QED
  BY <1>1, <1>2, Zenon

\* The new last entry either is Active or revokes the Active last entry.
Follows(st, p, a) ==
  \/ a.status = "Active"
  \/ /\ a.status = "Revoked"
     /\ p \in DOMAIN st.attestation
     /\ st.attestation[p].status = "Active"
     /\ SameContent(a, st.attestation[p])

\* A Revoked entry appended to an Active one keeps the chain.
LEMMA AppendedChain ==
  ASSUME NEW st, StoreTypeOK(st), HistoryTail(st), Chain(st),
         NEW p \in Pair, NEW a, NEW st2, Appended(st, st2, p, a),
         Follows(st, p, a)
  PROVE  Chain(st2)
<1> DEFINE n == st.seq[p] + 1
<1>1. st.seq[p] \in Nat /\ DOMAIN st.history[p] = 1..st.seq[p]
  BY Zenon DEF StoreTypeOK, HistoryTail
<1>2. ASSUME NEW q \in Pair, NEW m \in DOMAIN st2.history[q],
             st2.history[q][m].status = "Revoked"
      PROVE  /\ m > 1
             /\ st2.history[q][m-1].status = "Active"
             /\ SameContent(st2.history[q][m], st2.history[q][m-1])
  <2>1. CASE q # p
    <3>1. st2.history[q] = st.history[q]
      BY <2>1, AppendedAt
    <3>2. QED
      BY <1>2, <3>1, Zenon DEF Chain
  <2>2. CASE q = p /\ m # n
    <3>1. m \in 1..st.seq[p] /\ st2.history[p][m] = st.history[p][m]
      <4>1. /\ DOMAIN st2.history[p] = 1..n
            /\ \A i \in 1..st.seq[p] : st2.history[p][i] = st.history[p][i]
        BY AppendedAt
      <4>2. QED
        BY <1>1, <2>2, <4>1
    <3>2. /\ m > 1
          /\ st.history[p][m-1].status = "Active"
          /\ SameContent(st.history[p][m], st.history[p][m-1])
      <4>1. m \in DOMAIN st.history[p] /\ st.history[p][m].status = "Revoked"
        BY <1>1, <1>2, <2>2, <3>1, Zenon
      <4>2. QED
        BY <4>1, Zenon DEF Chain
    <3>3. m - 1 \in 1..st.seq[p]
      BY <1>1, <3>1, <3>2
    <3>4. st2.history[p][m-1] = st.history[p][m-1]
      BY <3>3, AppendedAt
    <3>5. QED
      BY <2>2, <3>1, <3>2, <3>4, Zenon
  <2>3. CASE q = p /\ m = n
    <3>1. st2.history[p][n] = AsEntry(n, a)
      BY AppendedAt
    <3>2. a.status = "Revoked"
      BY <1>2, <2>3, <3>1 DEF AsEntry
    <3>3. /\ p \in DOMAIN st.attestation
          /\ st.attestation[p].status = "Active"
          /\ SameContent(a, st.attestation[p])
      BY <3>2, Zenon DEF Follows
    <3>4. st.seq[p] > 0
          /\ st.history[p][st.seq[p]] = AsEntry(st.seq[p], st.attestation[p])
      BY <3>3, Zenon DEF HistoryTail
    <3>5. st.seq[p] \in 1..st.seq[p] /\ n - 1 = st.seq[p] /\ n > 1
      BY <1>1, <3>4
    <3>6. st2.history[p][st.seq[p]] = AsEntry(st.seq[p], st.attestation[p])
      <4>1. \A i \in 1..st.seq[p] : st2.history[p][i] = st.history[p][i]
        BY AppendedAt
      <4>2. QED
        BY <3>4, <3>5, <4>1, Zenon
    <3>7. /\ SameContent(AsEntry(n, a), AsEntry(st.seq[p], st.attestation[p]))
          /\ AsEntry(st.seq[p], st.attestation[p]).status = "Active"
      BY <3>3, Zenon DEF AsEntry, SameContent
    <3>8. QED
      BY <2>3, <3>1, <3>5, <3>6, <3>7, Zenon
  <2>4. QED
    BY <2>1, <2>2, <2>3, Zenon
<1>3. QED
  BY <1>2, Zenon DEF Chain

\* The new last entry is issued now, or repeats the times of the last entry.
LEMMA AppendedTime ==
  ASSUME NEW st, StoreTypeOK(st), HistoryTail(st), Chronological(st, now),
         NEW p \in Pair, NEW a \in Attestation,
         NEW st2, Appended(st, st2, p, a),
         now \in 0..U64Max, U64Max \in Nat,
         \/ /\ a.issued_at = now
            /\ a.issued_at < a.expires_at \/ a.expires_at = U64Max
         \/ /\ p \in DOMAIN st.attestation
            /\ SameContent(a, st.attestation[p])
  PROVE  Chronological(st2, now)
<1> DEFINE n == st.seq[p] + 1
           Fits(h, i) == /\ h[i].issued_at <= now
                         /\ i > 1 => h[i-1].issued_at <= h[i].issued_at
                         /\ \/ h[i].issued_at < h[i].expires_at
                            \/ h[i].expires_at = U64Max
<1>1. /\ st.seq[p] \in Nat /\ DOMAIN st.history[p] = 1..st.seq[p]
      /\ \A i \in 1..st.seq[p] : st.history[p][i] \in HistoryEntry
  BY DEF StoreTypeOK, HistoryTail, MapsInto
<1>2. /\ DOMAIN st2.history[p] = 1..n
      /\ st2.history[p][n] = AsEntry(n, a)
      /\ \A i \in 1..st.seq[p] : st2.history[p][i] = st.history[p][i]
      /\ \A q \in Pair : q # p => st2.history[q] = st.history[q]
  BY AppendedAt
<1>3. \A q \in Pair : \A i \in DOMAIN st.history[q] : Fits(st.history[q], i)
  BY Zenon DEF Chronological
<1>4. AsEntry(n, a).issued_at = a.issued_at /\ AsEntry(n, a).expires_at = a.expires_at
  BY Zenon DEF AsEntry
<1>5. ASSUME st.seq[p] > 0
      PROVE  /\ st.history[p][st.seq[p]].issued_at <= now
             /\ st.history[p][st.seq[p]].issued_at <= a.issued_at
  <2>1. st.seq[p] \in 1..st.seq[p]
    BY <1>1, <1>5
  <2>2. st.history[p][st.seq[p]] = AsEntry(st.seq[p], st.attestation[p])
    BY <1>5, Zenon DEF HistoryTail
  <2>3. /\ st.history[p][st.seq[p]].issued_at = st.attestation[p].issued_at
        /\ st.history[p][st.seq[p]].issued_at \in 0..U64Max
    <3>1. AsEntry(st.seq[p], st.attestation[p]).issued_at = st.attestation[p].issued_at
      BY Zenon DEF AsEntry
    <3>2. st.history[p][st.seq[p]] \in HistoryEntry
      BY <1>1, <2>1, Zenon
    <3>3. st.history[p][st.seq[p]].issued_at \in 0..U64Max
      BY <3>2, Zenon DEF HistoryEntry
    <3>4. QED
      BY <2>2, <3>1, <3>3, Zenon
  <2>4. st.history[p][st.seq[p]].issued_at <= now
    BY <1>1, <1>3, <2>1, Zenon
  <2>5. QED
    BY <2>3, <2>4 DEF SameContent
<1>6. a.issued_at <= now /\ (a.issued_at < a.expires_at \/ a.expires_at = U64Max)
  <2>1. CASE p \in DOMAIN st.attestation /\ SameContent(a, st.attestation[p])
    <3>1. st.seq[p] > 0
          /\ st.history[p][st.seq[p]] = AsEntry(st.seq[p], st.attestation[p])
      BY <2>1, Zenon DEF HistoryTail
    <3>2. Fits(st.history[p], st.seq[p])
      <4>1. st.seq[p] \in DOMAIN st.history[p]
        BY <1>1, <3>1
      <4>2. QED
        BY <1>3, <4>1, Zenon
    <3>3. /\ st.history[p][st.seq[p]].issued_at = a.issued_at
          /\ st.history[p][st.seq[p]].expires_at = a.expires_at
      BY <2>1, <3>1 DEF SameContent, AsEntry
    <3>4. QED
      BY <3>2, <3>3, Zenon
  <2>2. QED
    BY <2>1
<1>7. ASSUME NEW q \in Pair, NEW i \in DOMAIN st2.history[q]
      PROVE  Fits(st2.history[q], i)
  <2>1. CASE q # p
    BY <1>2, <1>3, <1>7, <2>1
  <2>2. CASE q = p /\ i \in 1..st.seq[p]
    <3>1. i > 1 => i - 1 \in 1..st.seq[p]
      BY <1>1, <2>2
    <3>2. Fits(st.history[p], i)
      BY <1>1, <1>3, <2>2, Zenon
    <3>3. QED
      BY <1>2, <2>2, <3>1, <3>2, Zenon
  <2>3. CASE q = p /\ i = n
    <3>1. i > 1 => i - 1 = st.seq[p] /\ st.seq[p] \in 1..st.seq[p]
      BY <1>1, <2>3
    <3>2. ASSUME i > 1
          PROVE  st2.history[p][i-1].issued_at <= a.issued_at
      <4>1. i - 1 = st.seq[p] /\ st.seq[p] \in 1..st.seq[p]
        BY <3>1, <3>2
      <4>2. st.seq[p] > 0
        BY <1>1, <4>1
      <4>3. st2.history[p][st.seq[p]] = st.history[p][st.seq[p]]
        BY <1>2, <4>1, Zenon
      <4>4. QED
        BY <1>5, <4>1, <4>2, <4>3, Zenon
    <3>3. QED
      BY <1>2, <1>4, <1>6, <2>3, <3>2, Zenon
  <2>4. i \in 1..n /\ i # n => i \in 1..st.seq[p]
    BY <1>1
  <2>5. QED
    BY <1>2, <1>7, <2>1, <2>2, <2>3, <2>4, ZenonT(60)
<1>8. QED
  BY <1>7, Zenon DEF Chronological

\* The events keep telling the stored attestations.
LEMMA AppendedSeen ==
  ASSUME NEW st, NEW p, NEW a, NEW st2, Appended(st, st2, p, a),
         SeenTells(st), st2.seen = Put(st.seen, p, SeenOf(a))
  PROVE  SeenTells(st2)
  BY DEF SeenTells, Appended, Put

-----------------------------------------------------------------------------
(* What holds of the attestation data at every point of an invocation.      *)

StoreInv(st, t) ==
  /\ StoreTypeOK(st)
  /\ HistoryTail(st)
  /\ Counted(st)
  /\ Chain(st)
  /\ Chronological(st, t)
  /\ SeenTells(st)

\* The invariant of the attestation data holds before the first invocation.
LEMMA EmptyStoreInv == \A t : StoreInv(EmptyStore, t)
<1> TAKE t
<1>1. StoreTypeOK(EmptyStore)
  BY Zenon DEF StoreTypeOK, EmptyStore, EmptyMap, MapsInto
<1>2. HistoryTail(EmptyStore) /\ Chain(EmptyStore) /\ Chronological(EmptyStore, t)
  <2>1. \A p \in Pair : DOMAIN EmptyStore.history[p] = {}
    BY Zenon DEF EmptyStore, EmptyMap
  <2>2. \A p \in Pair : EmptyStore.seq[p] = 0 /\ p \notin DOMAIN EmptyStore.attestation
    BY Zenon DEF EmptyStore, EmptyMap
  <2>3. 1..0 = {}
    OBVIOUS
  <2>4. HistoryTail(EmptyStore)
    <3> SUFFICES ASSUME NEW p \in Pair
                 PROVE  /\ DOMAIN EmptyStore.history[p] = 1..EmptyStore.seq[p]
                        /\ 1..EmptyStore.seq[p] = {}
                        /\ p \notin DOMAIN EmptyStore.attestation
                        /\ ~(EmptyStore.seq[p] > 0)
      BY Zenon DEF HistoryTail
    <3>1. EmptyStore.seq[p] = 0
      BY <2>2, Zenon
    <3>2. 1..EmptyStore.seq[p] = {} /\ ~(EmptyStore.seq[p] > 0)
      BY <2>3, <3>1
    <3>3. QED
      BY <2>1, <2>2, <3>2, Zenon
  <2>5. QED
    BY <2>1, <2>4, Zenon DEF Chain, Chronological
<1>3. SeenTells(EmptyStore)
  BY Zenon DEF SeenTells, EmptyStore, EmptyMap
<1>4. ActiveKeys(EmptyStore) = {}
  BY Zenon DEF ActiveKeys, EmptyStore, EmptyMap
<1>5. Counted(EmptyStore)
  BY <1>4, FS_EmptySet, Zenon DEF Counted, EmptyStore
<1>6. QED
  BY <1>1, <1>2, <1>3, <1>5, Zenon DEF StoreInv

\* An entry as attest and attest_batch hand it to record_attestation.
IsEntry(e) ==
  e.pair \in Pair /\ e.payload_hash \in Hash /\ e.ttl_seconds \in 0..U64Max

\* record_attestation makes a well-formed Active attestation that does not
\* expire before it is issued, nor later than its ttl allows.
LEMMA NewAttestationType ==
  ASSUME now \in 0..U64Max, NEW attestor \in Address, NEW e, IsEntry(e),
         e.ttl_seconds # 0
  PROVE  LET a == NewAttestation(attestor, e)
         IN  /\ a \in Attestation
             /\ a.attestor = attestor
             /\ a.issued_at = now
             /\ a.issued_at < a.expires_at \/ a.expires_at = U64Max
             /\ a.expires_at - now <= e.ttl_seconds
             /\ a.status = "Active"
  BY ConstantsAssumption
  DEF NewAttestation, Attestation, Status, saturating_add, IsEntry

\* record_attestation keeps the invariant of the attestation data.
LEMMA RecordKeepsInv ==
  ASSUME NEW st, StoreInv(st, now), now \in 0..U64Max, NEW attestor \in Address,
         NEW e, IsEntry(e), e.ttl_seconds # 0
  PROVE  StoreInv(record_attestation(st, attestor, e), now)
<1> DEFINE a == NewAttestation(attestor, e)
           st2 == record_attestation(st, attestor, e)
           p == e.pair
<1>1. /\ IsStore(st2) /\ Appended(st, st2, p, a) /\ st2.count = st.count + 1
      /\ st2.seen = Put(st.seen, p, SeenOf(a))
  BY RecordFields DEF StoreInv, StoreTypeOK, IsStore
<1>2. /\ a \in Attestation /\ a.issued_at = now /\ a.status = "Active"
      /\ a.issued_at < a.expires_at \/ a.expires_at = U64Max
  BY NewAttestationType, Zenon
<1>3. p \in Pair
  BY Zenon DEF IsEntry
<1> HIDE DEF a, st2, p
<1>4. SeenOf(a) \in Seen
  BY <1>2, Zenon DEF Attestation, Seen, SeenOf
<1>5. StoreTypeOK(st2)
  <2>1. MapsInto(st2.seen, Pair, Seen)
    BY <1>1, <1>3, <1>4, PutType, Zenon DEF StoreInv, StoreTypeOK
  <2>2. st2.count \in Nat
    BY <1>1 DEF StoreInv, StoreTypeOK
  <2>3. QED
    BY <1>1, <1>2, <1>3, <2>1, <2>2, AppendedType, Zenon DEF StoreInv
<1>6. HistoryTail(st2)
  BY <1>1, <1>3, AppendedTail, Zenon DEF StoreInv
<1>7. Counted(st2)
  BY <1>1, <1>2, <1>3, AppendedCount, Zenon DEF StoreInv
<1>8. Chain(st2)
  BY <1>1, <1>2, <1>3, AppendedChain, Zenon DEF StoreInv, Follows
<1>9. Chronological(st2, now)
  BY <1>1, <1>2, <1>3, AppendedTime, ConstantsAssumption, Zenon DEF StoreInv
<1>10. SeenTells(st2)
  BY <1>1, AppendedSeen, Zenon DEF StoreInv
<1>11. QED
  BY <1>5, <1>6, <1>7, <1>8, <1>9, <1>10, Zenon DEF StoreInv, st2

\* revoke keeps the invariant of the attestation data.
LEMMA RevokeKeepsInv ==
  ASSUME NEW st, StoreInv(st, now), now \in 0..U64Max,
         NEW p \in Pair, p \in DOMAIN st.attestation,
         st.attestation[p].status = "Active"
  PROVE  StoreInv(record_revocation(st, p), now)
<1> DEFINE b == st.attestation[p]
           a == [b EXCEPT !.status = "Revoked"]
           st2 == record_revocation(st, p)
<1>1. /\ IsStore(st2) /\ Appended(st, st2, p, a) /\ st2.count = st.count
      /\ st2.seen = Put(st.seen, p, [st.seen[p] EXCEPT !.status = "Revoked"])
  BY RevokeFields, Zenon DEF StoreInv, StoreTypeOK, IsStore
<1>2. b \in Attestation
  BY Zenon DEF StoreInv, StoreTypeOK, MapsInto
<1>3. st.seen[p] = SeenOf(b)
  BY Zenon DEF StoreInv, SeenTells
<1> HIDE DEF b, st2
<1>4. a \in Attestation /\ a.status = "Revoked" /\ SameContent(a, b)
  BY <1>2, Zenon DEF Attestation, Status, SameContent
<1>5. [st.seen[p] EXCEPT !.status = "Revoked"] = SeenOf(a)
  BY <1>2, <1>3 DEF SeenOf, Attestation
<1> HIDE DEF a
<1>6. SeenOf(a) \in Seen
  BY <1>4, Zenon DEF Attestation, Seen, SeenOf
<1>7. StoreTypeOK(st2)
  <2>1. MapsInto(st2.seen, Pair, Seen)
    BY <1>1, <1>5, <1>6, PutType DEF StoreInv, StoreTypeOK
  <2>2. st2.count \in Nat
    BY <1>1, Zenon DEF StoreInv, StoreTypeOK
  <2>3. QED
    BY <1>1, <1>4, <2>1, <2>2, AppendedType, Zenon DEF StoreInv
<1>8. HistoryTail(st2)
  BY <1>1, AppendedTail, Zenon DEF StoreInv
<1>9. Counted(st2)
  BY <1>1, <1>4, AppendedCount, Zenon DEF StoreInv
<1>10. Chain(st2)
  BY <1>1, <1>4, AppendedChain, Zenon DEF StoreInv, Follows, b
<1>11. Chronological(st2, now)
  BY <1>1, <1>4, AppendedTime, ConstantsAssumption, Zenon DEF StoreInv, b
<1>12. SeenTells(st2)
  BY <1>1, <1>5, AppendedSeen, Zenon DEF StoreInv
<1>13. QED
  BY <1>7, <1>8, <1>9, <1>10, <1>11, <1>12, Zenon DEF StoreInv, st2

\* The invariant of the attestation data survives the passing of time.
LEMMA StoreInvLater ==
  ASSUME NEW st, NEW t \in Nat, NEW u \in Nat, t <= u, StoreInv(st, t)
  PROVE  StoreInv(st, u)
<1> SUFFICES Chronological(st, u)
  BY Zenon DEF StoreInv
<1> SUFFICES ASSUME NEW p \in Pair, NEW n \in DOMAIN st.history[p]
             PROVE  st.history[p][n].issued_at <= u
  BY Zenon DEF StoreInv, Chronological
<1>1. st.history[p][n].issued_at <= t
  BY Zenon DEF StoreInv, Chronological
<1>2. st.history[p][n].issued_at \in Nat
  BY ConstantsAssumption DEF StoreInv, StoreTypeOK, MapsInto, HistoryEntry
<1>3. QED
  BY <1>1, <1>2

-----------------------------------------------------------------------------
(* The inductive invariant.                                                 *)

\* wk is st with more entries, all of them issued in the running batch.
Issued(e, p) ==
  /\ e.status = "Active"
  /\ e.attestor = batch[1].attestor
  /\ e.issued_at = now
  /\ e.expires_at - now <= get_max_attestation_ttl(p[2])

ExtendsStore(wk) ==
  \A p \in Pair :
    /\ store.seq[p] <= wk.seq[p]
    /\ \A n \in 1..store.seq[p] : wk.history[p][n] = store.history[p][n]
    /\ \A n \in (store.seq[p] + 1)..wk.seq[p] : Issued(wk.history[p][n], p)

WorkExtendsStore == ExtendsStore(work)

BatchAllowed ==
  /\ Idle => work = store
  /\ ~Idle => ~paused
  /\ \A i \in DOMAIN batch : /\ batch[i].attestor = batch[1].attestor
                             /\ batch[i].attestor \in attestors
                             /\ batch[i].ttl_seconds # 0

ObservedTells ==
  observed = [admin |-> admin, paused |-> paused, attestors |-> attestors,
              caps |-> caps]

IInv ==
  /\ TypeOK
  /\ StoreInv(store, now)
  /\ StoreInv(work, now)
  /\ WorkExtendsStore
  /\ BatchAllowed
  /\ ObservedTells

\* The inductive invariant holds initially.
LEMMA InitInv == Init => IInv
<1> SUFFICES ASSUME Init PROVE IInv
  BY Zenon
<1>1. StoreInv(store, now) /\ StoreInv(work, now)
  BY EmptyStoreInv, Zenon DEF Init
<1>2. TypeOK
  <2>1. batch \in Seq(Submitted) /\ Idle /\ next \in 1..1
    BY DEF Init, Idle
  <2>2. MapsInto(caps, CapKeys, 1..U64Max)
    BY Zenon DEF Init, MapsInto, EmptyMap
  <2>3. /\ admin \in {{}} \cup {{a} : a \in Address} /\ paused \in BOOLEAN
        /\ attestors \subseteq Address /\ now \in 0..U64Max
        /\ DOMAIN observed = {"admin", "paused", "attestors", "caps"}
    BY Zenon DEF Init
  <2>4. QED
    BY <1>1, <2>1, <2>2, <2>3, Zenon DEF TypeOK, StoreInv
<1>3. WorkExtendsStore
  BY DEF Init, WorkExtendsStore, ExtendsStore, EmptyStore
<1>4. BatchAllowed /\ ObservedTells
  <2>1. Idle /\ work = store /\ DOMAIN batch = {}
    BY DEF Init, Idle
  <2>2. QED
    BY <2>1, Zenon DEF Init, BatchAllowed, ObservedTells
<1>5. QED
  BY <1>1, <1>2, <1>3, <1>4, Zenon DEF IInv

\* The administrator's methods leave the attestation data alone, and run
\* between batches.
LEMMA ConfigStep ==
  ASSUME IInv, Idle, DataUnchanged,
         admin' \in {{}} \cup {{a} : a \in Address}, paused' \in BOOLEAN,
         attestors' \subseteq Address, MapsInto(caps', CapKeys, 1..U64Max),
         ObservedTells'
  PROVE  IInv'
<1>1. /\ now' = now /\ store' = store /\ work' = work /\ batch' = batch
      /\ next' = next /\ Idle' /\ work = store
  BY Zenon DEF DataUnchanged, IInv, BatchAllowed, Idle
<1>2. StoreInv(store, now)' /\ StoreInv(work, now)'
  BY <1>1, Zenon DEF IInv
<1>3. TypeOK'
  <2>1. StoreTypeOK(store') /\ StoreTypeOK(work')
    BY <1>2, Zenon DEF StoreInv
  <2>2. DOMAIN observed' = {"admin", "paused", "attestors", "caps"}
    BY Zenon DEF ObservedTells
  <2>3. now' \in 0..U64Max /\ batch' \in Seq(Submitted) /\ next' \in 1..1
    BY <1>1, Zenon DEF IInv, TypeOK
  <2>4. QED
    BY <1>1, <2>1, <2>2, <2>3, Zenon DEF TypeOK
<1>4. WorkExtendsStore'
  <2>1. \A p \in Pair : store'.seq[p] \in Nat
    BY <1>2, Zenon DEF StoreInv, StoreTypeOK
  <2>2. QED
    BY <1>1, <2>1 DEF WorkExtendsStore, ExtendsStore
<1>5. BatchAllowed'
  <2>1. DOMAIN batch' = {}
    BY <1>1 DEF Idle
  <2>2. QED
    BY <1>1, <2>1, Zenon DEF BatchAllowed
<1>6. QED
  BY <1>2, <1>3, <1>4, <1>5, Zenon DEF IInv

\* attest and revoke: one committed write between batches.
LEMMA CommitStep ==
  ASSUME IInv, Idle, NEW st, StoreInv(st, now), Commit(st),
         UNCHANGED <<now, batch, next>>, ConfigUnchanged
  PROVE  IInv'
<1>1. /\ now' = now /\ store' = st /\ work' = st /\ batch' = batch
      /\ next' = next /\ Idle'
  BY Zenon DEF Commit, Idle
<1>2. /\ admin' = admin /\ paused' = paused /\ attestors' = attestors
      /\ caps' = caps /\ observed' = observed
  BY Zenon DEF ConfigUnchanged
<1>3. StoreInv(store, now)' /\ StoreInv(work, now)'
  BY <1>1, Zenon
<1>4. StoreTypeOK(st)
  BY Zenon DEF StoreInv
<1>5. TypeOK'
  BY <1>1, <1>2, <1>4, Zenon DEF IInv, TypeOK
<1>6. WorkExtendsStore'
  <2>1. \A p \in Pair : st.seq[p] \in Nat
    BY <1>4, Zenon DEF StoreTypeOK
  <2>2. QED
    BY <1>1, <2>1 DEF WorkExtendsStore, ExtendsStore
<1>7. BatchAllowed' /\ ObservedTells'
  <2>1. DOMAIN batch' = {}
    BY <1>1 DEF Idle
  <2>2. QED
    BY <1>1, <1>2, <2>1, Zenon DEF BatchAllowed, ObservedTells, IInv
<1>8. QED
  BY <1>3, <1>5, <1>6, <1>7, Zenon DEF IInv

\* get_max_attestation_ttl bounds what record_attestation accepts.
LEMMA Recorded ==
  ASSUME TypeOK, NEW e, IsEntry(e), record_result(e) = "Ok"
  PROVE  e.ttl_seconds # 0 /\ e.ttl_seconds <= get_max_attestation_ttl(e.pair[2])
<1>1. get_max_attestation_ttl(e.pair[2]) \in Nat
  BY ConstantsAssumption DEF TypeOK, MapsInto, get_max_attestation_ttl
<1>2. ~(e.ttl_seconds > get_max_attestation_ttl(e.pair[2]))
  BY Zenon DEF record_result
<1>3. e.ttl_seconds # 0
  BY Zenon DEF record_result, precheck
<1>4. QED
  BY <1>1, <1>2, <1>3, ConstantsAssumption DEF IsEntry

\* The attestor's entries pass the checks that precede the writing loop.
LEMMA BatchStart ==
  ASSUME IInv, NEW attestor \in Address, NEW entries \in BatchArg,
         AttestBatch(attestor, entries)
  PROVE  IInv'
<1> DEFINE E(i) == [attestor |-> attestor, pair |-> entries[i].pair,
                    payload_hash |-> entries[i].payload_hash,
                    ttl_seconds |-> entries[i].ttl_seconds]
<1>1. entries \in Seq(Entry)
  BY ConstantsAssumption, Zenon
<1>2. /\ ~paused /\ attestor \in attestors /\ entries # << >>
      /\ \A i \in DOMAIN entries : precheck(entries[i]) = "Ok"
  <2> DEFINE bad == {i \in DOMAIN entries : precheck(entries[i]) # "Ok"}
  <2>1. /\ ~paused /\ attestor \in attestors /\ entries # << >>
        /\ bad # {} => precheck(entries[Min(bad)]) = "Ok"
    BY Zenon DEF AttestBatch, attest_batch_result
  <2>2. bad = {}
    <3>1. bad # {} => Min(bad) \in bad
      BY <1>1, MinMember
    <3>2. QED
      BY <2>1, <3>1, Zenon
  <2>3. QED
    BY <2>1, <2>2, Zenon
<1>3. Len(entries) \in Nat \ {0} /\ DOMAIN entries = 1..Len(entries)
  BY <1>1, <1>2
<1>4. \A i \in 1..Len(entries) :
        /\ E(i) \in Submitted
        /\ E(i).attestor = attestor
        /\ E(i).ttl_seconds # 0
  <2> SUFFICES ASSUME NEW i \in 1..Len(entries)
               PROVE  E(i) \in Submitted /\ E(i).ttl_seconds # 0
    BY Zenon
  <2>1. entries[i] \in Entry
    BY <1>1, <1>3
  <2>2. entries[i].ttl_seconds # 0
    BY <1>2, <1>3, Zenon DEF precheck
  <2>3. QED
    BY <2>1, <2>2, Zenon DEF Entry, Submitted
<1>5. /\ batch' = [i \in 1..Len(entries) |-> E(i)] /\ next' = 1
      /\ now' = now /\ store' = store /\ work' = work /\ work = store
      /\ admin' = admin /\ paused' = paused /\ attestors' = attestors
      /\ caps' = caps /\ observed' = observed
  BY Zenon DEF AttestBatch, ConfigUnchanged, IInv, BatchAllowed
<1> HIDE DEF E
<1>6. /\ batch' \in Seq(Submitted) /\ Len(batch') = Len(entries)
      /\ DOMAIN batch' = 1..Len(entries)
      /\ \A i \in 1..Len(entries) : batch'[i] = E(i)
  BY <1>3, <1>4, <1>5
<1>7. TypeOK'
  BY <1>3, <1>5, <1>6 DEF IInv, TypeOK, Idle
<1>8. WorkExtendsStore'
  <2>1. \A p \in Pair : store.seq[p] \in Nat
    BY Zenon DEF IInv, StoreInv, StoreTypeOK
  <2>2. QED
    BY <1>5, <2>1 DEF WorkExtendsStore, ExtendsStore
<1>9. BatchAllowed'
  BY <1>2, <1>3, <1>4, <1>5, <1>6 DEF BatchAllowed, Idle
<1>10. QED
  BY <1>5, <1>7, <1>8, <1>9, Zenon DEF IInv, ObservedTells

\* What one turn of the writing loop makes of the working copy.
LEMMA BatchGrows ==
  ASSUME IInv, ~Idle, record_result(batch[next]) = "Ok"
  PROVE  LET wk == record_attestation(work, batch[next].attestor, batch[next])
         IN  StoreInv(wk, now) /\ ExtendsStore(wk)
<1> DEFINE e == batch[next]
           a == NewAttestation(e.attestor, e)
           p == e.pair
           n == work.seq[p] + 1
           wk == record_attestation(work, e.attestor, e)
<1>1. TypeOK /\ StoreInv(work, now) /\ now \in 0..U64Max
  BY Zenon DEF IInv, TypeOK
<1>2. next \in DOMAIN batch /\ e \in Submitted
  BY <1>1 DEF TypeOK
<1>3. IsEntry(e) /\ e.attestor \in Address /\ p \in Pair
  BY <1>2, Zenon DEF Submitted, IsEntry
<1>4. e.ttl_seconds # 0 /\ e.ttl_seconds <= get_max_attestation_ttl(p[2])
  BY <1>1, <1>3, Recorded, Zenon
<1>5. e.attestor = batch[1].attestor
  BY <1>2, Zenon DEF IInv, BatchAllowed
<1>6. get_max_attestation_ttl(p[2]) \in Nat /\ e.ttl_seconds \in Nat
  BY <1>1, <1>3, ConstantsAssumption
  DEF TypeOK, MapsInto, get_max_attestation_ttl, IsEntry
<1>7. Appended(work, wk, p, a)
  BY <1>1, RecordFields, Zenon DEF StoreInv, StoreTypeOK, IsStore
<1>8. /\ a \in Attestation /\ a.attestor = e.attestor /\ a.issued_at = now
      /\ a.expires_at - now <= e.ttl_seconds /\ a.status = "Active"
  BY <1>1, <1>3, <1>4, NewAttestationType
<1>9. StoreInv(wk, now)
  BY <1>1, <1>3, <1>4, RecordKeepsInv, Zenon
<1> HIDE DEF e, a, p, n, wk
<1>10. /\ work.seq \in [Pair -> Nat] /\ store.seq \in [Pair -> Nat]
       /\ StoreTypeOK(work) /\ HistoryTail(work)
  BY Zenon DEF IInv, StoreInv, StoreTypeOK
<1>11. /\ wk.seq[p] = n /\ wk.history[p][n] = AsEntry(n, a)
       /\ \A m \in 1..work.seq[p] : wk.history[p][m] = work.history[p][m]
       /\ \A q \in Pair : q # p => /\ wk.seq[q] = work.seq[q]
                                   /\ wk.history[q] = work.history[q]
  BY <1>3, <1>7, <1>10, AppendedAt DEF n
<1>12. Issued(AsEntry(n, a), p)
  <2>1. a.expires_at \in Int /\ now \in Int
    BY <1>1, <1>8, ConstantsAssumption DEF Attestation
  <2>2. a.expires_at - now <= get_max_attestation_ttl(p[2])
    BY <1>4, <1>6, <1>8, <2>1
  <2>3. QED
    BY <1>5, <1>8, <2>2, Zenon DEF Issued, AsEntry
<1>13. ExtendsStore(wk)
  <2> SUFFICES ASSUME NEW q \in Pair
               PROVE  /\ store.seq[q] <= wk.seq[q]
                      /\ \A m \in 1..store.seq[q] :
                           wk.history[q][m] = store.history[q][m]
                      /\ \A m \in (store.seq[q] + 1)..wk.seq[q] :
                           Issued(wk.history[q][m], q)
    BY Zenon DEF ExtendsStore
  <2>1. /\ store.seq[q] <= work.seq[q]
        /\ \A m \in 1..store.seq[q] : work.history[q][m] = store.history[q][m]
        /\ \A m \in (store.seq[q] + 1)..work.seq[q] :
             Issued(work.history[q][m], q)
    BY Zenon DEF IInv, WorkExtendsStore, ExtendsStore
  <2>2. CASE q # p
    BY <1>11, <2>1, <2>2, Zenon
  <2>3. CASE q = p
    <3>1. store.seq[q] <= wk.seq[q] /\ 1..store.seq[q] \subseteq 1..work.seq[p]
      BY <1>3, <1>10, <1>11, <2>1, <2>3 DEF n
    <3>2. \A m \in 1..store.seq[q] : wk.history[q][m] = store.history[q][m]
      BY <1>11, <2>1, <2>3, <3>1, Zenon
    <3>3. ASSUME NEW m \in (store.seq[q] + 1)..wk.seq[q]
          PROVE  Issued(wk.history[q][m], q)
      <4>1. m = n \/ (m \in (store.seq[q] + 1)..work.seq[q] /\ m \in 1..work.seq[p])
        BY <1>3, <1>10, <1>11, <2>3 DEF n
      <4>2. CASE m = n
        BY <1>11, <1>12, <2>3, <4>2, Zenon
      <4>3. CASE m \in (store.seq[q] + 1)..work.seq[q] /\ m \in 1..work.seq[p]
        BY <1>11, <2>1, <2>3, <4>3, Zenon
      <4>4. QED
        BY <4>1, <4>2, <4>3, Zenon
    <3>4. QED
      BY <3>1, <3>2, <3>3, Zenon
  <2>4. QED
    BY <2>2, <2>3, Zenon
<1>14. QED
  BY <1>9, <1>13, Zenon DEF wk, e

\* One turn of the writing loop of attest_batch keeps the invariant.
LEMMA BatchRecordStep ==
  ASSUME IInv, BatchRecord
  PROVE  IInv'
<1> DEFINE wk == record_attestation(work, batch[next].attestor, batch[next])
<1>1. /\ ~Idle /\ record_result(batch[next]) = "Ok" /\ work' = wk /\ now' = now
      /\ admin' = admin /\ paused' = paused /\ attestors' = attestors
      /\ caps' = caps /\ observed' = observed
  BY Zenon DEF BatchRecord, ConfigUnchanged
<1>2. StoreInv(wk, now) /\ ExtendsStore(wk)
  BY <1>1, BatchGrows, Zenon
<1> HIDE DEF wk
<1>3. StoreTypeOK(wk) /\ \A p \in Pair : wk.seq[p] \in Nat
  BY <1>2, Zenon DEF StoreInv, StoreTypeOK
<1>4. next \in 1..Len(batch) /\ batch \in Seq(Submitted) /\ batch # << >>
  BY <1>1, Zenon DEF IInv, TypeOK, Idle
<1>5. CASE next = Len(batch)
  <2>1. store' = wk /\ batch' = << >> /\ next' = 1
    BY <1>1, <1>5, Zenon DEF BatchRecord, EndBatch
  <2>2. Idle' /\ DOMAIN batch' = {} /\ batch' \in Seq(Submitted)
    BY <2>1 DEF Idle
  <2>3. TypeOK'
    BY <1>1, <1>3, <2>1, <2>2 DEF IInv, TypeOK
  <2>4. WorkExtendsStore'
    BY <1>1, <1>3, <2>1 DEF WorkExtendsStore, ExtendsStore
  <2>5. BatchAllowed' /\ ObservedTells'
    BY <1>1, <2>1, <2>2, Zenon DEF BatchAllowed, IInv, ObservedTells
  <2>6. QED
    BY <1>1, <1>2, <2>1, <2>3, <2>4, <2>5, Zenon DEF IInv
<1>6. CASE next # Len(batch)
  <2>1. store' = store /\ batch' = batch /\ next' = next + 1
    BY <1>1, <1>6, Zenon DEF BatchRecord
  <2>2. ~Idle' /\ next' \in 1..Len(batch')
    BY <1>1, <1>4, <1>6, <2>1 DEF Idle
  <2>3. TypeOK'
    BY <1>1, <1>3, <2>1, <2>2, ZenonT(60) DEF IInv, TypeOK
  <2>4. WorkExtendsStore'
    BY <1>1, <1>2, <2>1
    DEF WorkExtendsStore, ExtendsStore, Issued, get_max_attestation_ttl
  <2>5. BatchAllowed' /\ ObservedTells'
    BY <1>1, <2>1, <2>2, Zenon DEF BatchAllowed, IInv, ObservedTells
  <2>6. QED
    BY <1>1, <1>2, <2>1, <2>3, <2>4, <2>5, Zenon DEF IInv
<1>7. QED
  BY <1>5, <1>6, Zenon

\* What a successful attest was allowed to do, and what it leaves.
LEMMA AttestData ==
  ASSUME IInv, NEW attestor \in Address, NEW e \in ArgEntry, Attest(attestor, e)
  PROVE  /\ ~paused /\ attestor \in attestors
         /\ IsEntry(e) /\ e.ttl_seconds # 0
         /\ e.ttl_seconds <= get_max_attestation_ttl(e.pair[2])
         /\ StoreInv(record_attestation(store, attestor, e), now)
<1>1. IsEntry(e)
  BY ConstantsAssumption, ZenonT(30) DEF ArgEntry, IsEntry
<1>2. ~paused /\ attestor \in attestors /\ record_result(e) = "Ok"
  BY Zenon DEF Attest, attest_result
<1>3. e.ttl_seconds # 0 /\ e.ttl_seconds <= get_max_attestation_ttl(e.pair[2])
  BY <1>1, <1>2, Recorded, Zenon DEF IInv
<1>4. StoreInv(record_attestation(store, attestor, e), now)
  BY <1>1, <1>3, RecordKeepsInv, Zenon DEF IInv, TypeOK
<1>5. QED
  BY <1>1, <1>2, <1>3, <1>4, Zenon

\* What a successful revoke was allowed to do, and what it leaves.
LEMMA RevokeData ==
  ASSUME IInv, NEW caller \in Address, NEW p \in Pair, Revoke(caller, p)
  PROVE  /\ ~paused /\ p \in DOMAIN store.attestation
         /\ store.attestation[p].status = "Active"
         /\ StoreInv(record_revocation(store, p), now)
<1>1. ~paused /\ p \in DOMAIN store.attestation
      /\ store.attestation[p].status # "Revoked"
  BY Zenon DEF Revoke, revoke_result
<1>2. store.attestation[p] \in Attestation
  BY <1>1, Zenon DEF IInv, StoreInv, StoreTypeOK, MapsInto
<1>3. store.attestation[p].status = "Active"
  BY <1>1, <1>2, Zenon DEF Attestation, Status
<1>4. QED
  BY <1>1, <1>3, RevokeKeepsInv, Zenon DEF IInv, TypeOK

\* Every step of the contract keeps the inductive invariant.
LEMMA NextInv == IInv /\ [Next]_vars => IInv'
<1> SUFFICES ASSUME IInv, [Next]_vars PROVE IInv'
  BY Zenon
<1> USE DEF IInv
<1>1. ASSUME NEW a \in Address, Initialize(a) PROVE IInv'
  BY <1>1, ConfigStep, Zenon DEF Initialize, TypeOK, ObservedTells
<1>2. ASSUME NEW caller \in Address, NEW a \in Address, SetAdmin(caller, a)
      PROVE  IInv'
  BY <1>2, ConfigStep, Zenon DEF SetAdmin, AsAdmin, TypeOK, ObservedTells
<1>3. ASSUME NEW caller \in Address, NEW a \in Address, AddAttestor(caller, a)
      PROVE  IInv'
  BY <1>3, ConfigStep, Zenon DEF AddAttestor, AsAdmin, TypeOK, ObservedTells
<1>4. ASSUME NEW caller \in Address, NEW a \in Address, RemoveAttestor(caller, a)
      PROVE  IInv'
  BY <1>4, ConfigStep, Zenon DEF RemoveAttestor, AsAdmin, TypeOK, ObservedTells
<1>5. ASSUME NEW caller \in Address, NEW v \in BOOLEAN, SetPaused(caller, v)
      PROVE  IInv'
  BY <1>5, ConfigStep, Zenon DEF SetPaused, AsAdmin, TypeOK, ObservedTells
<1>6. ASSUME NEW caller \in Address, NEW m \in CapArg, NEW k \in CapKeys,
             SetCap(caller, k, m)
      PROVE  IInv'
  <2>1. m \in 1..U64Max
    BY <1>6, ConstantsAssumption DEF SetCap
  <2>2. MapsInto(caps', CapKeys, 1..U64Max)
    BY <1>6, <2>1, PutType, ZenonT(30) DEF SetCap, TypeOK
  <2>3. ObservedTells'
    BY <1>6, Zenon DEF SetCap, ObservedTells
  <2>4. QED
    BY <1>6, <2>2, <2>3, ConfigStep, Zenon DEF SetCap, AsAdmin, TypeOK
<1>7. ASSUME NEW a \in Address, NEW e \in ArgEntry, Attest(a, e) PROVE IInv'
  BY <1>7, AttestData, CommitStep, Zenon DEF Attest
<1>8. ASSUME NEW a \in Address, NEW entries \in BatchArg, AttestBatch(a, entries)
      PROVE  IInv'
  BY <1>8, BatchStart, Zenon
<1>9. CASE BatchRecord
  BY <1>9, BatchRecordStep, Zenon
<1>10. CASE BatchAbort
  <2>1. /\ store' = store /\ work' = store /\ now' = now /\ batch' = << >>
        /\ next' = 1 /\ admin' = admin /\ paused' = paused /\ caps' = caps
        /\ attestors' = attestors /\ observed' = observed
    BY <1>10, Zenon DEF BatchAbort, EndBatch, ConfigUnchanged
  <2>2. Idle' /\ DOMAIN batch' = {} /\ batch' \in Seq(Submitted)
    BY <2>1 DEF Idle
  <2>3. TypeOK'
    BY <2>1, <2>2 DEF TypeOK
  <2>4. \A p \in Pair : store.seq[p] \in Nat
    BY Zenon DEF StoreInv, StoreTypeOK
  <2>5. WorkExtendsStore'
    BY <2>1, <2>4 DEF WorkExtendsStore, ExtendsStore
  <2>6. BatchAllowed' /\ ObservedTells'
    BY <2>1, <2>2, Zenon DEF BatchAllowed, ObservedTells
  <2>7. QED
    BY <2>1, <2>3, <2>5, <2>6, Zenon
<1>11. ASSUME NEW caller \in Address, NEW p \in Pair, Revoke(caller, p)
       PROVE  IInv'
  BY <1>11, RevokeData, CommitStep, Zenon DEF Revoke
<1>12. CASE Tick
  <2>1. /\ store' = store /\ work' = work /\ batch' = batch /\ next' = next
        /\ now' = now + 1 /\ now < U64Max /\ Idle
        /\ admin' = admin /\ paused' = paused /\ caps' = caps
        /\ attestors' = attestors /\ observed' = observed
    BY <1>12, Zenon DEF Tick, ConfigUnchanged
  <2>2. now \in Nat /\ now' \in Nat /\ now <= now' /\ now' \in 0..U64Max
    BY <2>1, ConstantsAssumption DEF TypeOK
  <2>3. StoreInv(store, now)' /\ StoreInv(work, now)'
    BY <2>1, <2>2, StoreInvLater, Zenon
  <2>4. Idle' /\ DOMAIN batch' = {} /\ work = store
    BY <2>1 DEF Idle, BatchAllowed
  <2>5. TypeOK'
    BY <2>1, <2>2, Zenon DEF TypeOK, Idle
  <2>6. \A p \in Pair : store.seq[p] \in Nat
    BY Zenon DEF StoreInv, StoreTypeOK
  <2>7. WorkExtendsStore'
    BY <2>1, <2>4, <2>6 DEF WorkExtendsStore, ExtendsStore
  <2>8. BatchAllowed' /\ ObservedTells'
    BY <2>1, <2>4, Zenon DEF BatchAllowed, ObservedTells
  <2>9. QED
    BY <2>3, <2>5, <2>7, <2>8, Zenon
<1>13. CASE UNCHANGED vars
  <2>1. /\ store' = store /\ work' = work /\ now' = now /\ batch' = batch
        /\ next' = next /\ admin' = admin /\ paused' = paused /\ caps' = caps
        /\ attestors' = attestors /\ observed' = observed
    BY <1>13, Zenon DEF vars
  <2>2. StoreInv(store, now)' /\ StoreInv(work, now)'
    BY <2>1, Zenon
  <2>3. TypeOK'
    BY <2>1, Zenon DEF TypeOK, Idle
  <2>4. WorkExtendsStore'
    BY <2>1 DEF WorkExtendsStore, ExtendsStore, Issued, get_max_attestation_ttl
  <2>5. BatchAllowed' /\ ObservedTells'
    BY <2>1, Zenon DEF BatchAllowed, ObservedTells, Idle
  <2>6. QED
    BY <2>2, <2>3, <2>4, <2>5, Zenon
<1>14. QED
  <2>1. DefaultKey \in CapKeys /\ \A t \in Type : CapKey(t) \in CapKeys
    BY Zenon DEF CapKeys
  <2>2. QED
    BY <1>1, <1>2, <1>3, <1>4, <1>5, <1>6, <1>7, <1>8, <1>9, <1>10, <1>11,
       <1>12, <1>13, <2>1, ZenonT(60)
    DEF Next, Pause, Unpause, SetDefaultMaxAttestationTtl, SetMaxAttestationTtl

\* The inductive invariant holds in every reachable state, in the middle of
\* an attest_batch too.
THEOREM SpecInv == Spec => []IInv
  BY InitInv, NextInv, PTL DEF Spec

-----------------------------------------------------------------------------
(* The invariants.                                                          *)

\* Every variable keeps its type, in the middle of a batch too.
THEOREM TypeCorrect == Spec => []TypeOK
  BY SpecInv, PTL DEF IInv

\* The newest history entry of a pair is its current attestation, and history
\* numbers have no gap.
THEOREM TailCorrect == Spec => []HistoryTailIsCurrent
<1>1. IInv => HistoryTailIsCurrent
  BY Zenon DEF IInv, StoreInv, HistoryTailIsCurrent
<1>2. QED
  BY <1>1, SpecInv, PTL

\* get_attestation_count is the number of attestations ever issued.
THEOREM CountCorrect == Spec => []CountIsAttestations
<1>1. IInv => CountIsAttestations
  BY Zenon DEF IInv, StoreInv, Counted, CountIsAttestations
<1>2. QED
  BY <1>1, SpecInv, PTL

\* A revocation in the history directly follows what it revokes.
THEOREM RevocationsCorrect == Spec => []RevocationsFollowWhatTheyRevoke
<1>1. IInv => RevocationsFollowWhatTheyRevoke
  BY Zenon DEF IInv, StoreInv, RevocationsFollowWhatTheyRevoke
<1>2. QED
  BY <1>1, SpecInv, PTL

\* History is in order of issue and no expiry wraps into the past.
THEOREM ChronologyCorrect == Spec => []HistoryIsChronological
<1>1. IInv => HistoryIsChronological
  BY Zenon DEF IInv, StoreInv, HistoryIsChronological
<1>2. QED
  BY <1>1, SpecInv, PTL

\* The events tell a consumer the configuration and the current attestations.
THEOREM EventsCorrect == Spec => []EventsTellTheState
<1>1. IInv => EventsTellTheState
  BY Zenon DEF IInv, StoreInv, ObservedTells, EventsTellTheState
<1>2. QED
  BY <1>1, SpecInv, PTL

=============================================================================
