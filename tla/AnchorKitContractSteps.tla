------------------------ MODULE AnchorKitContractSteps ------------------------
(***************************************************************************)
(* What a step of AnchorKitContract may do to the committed data, and that *)
(* the contract implements AttestationRegistry.                            *)
(***************************************************************************)
EXTENDS AnchorKitContractProofs

\* The three kinds of steps, as far as the committed data is concerned.
IssueStep(a) ==
  \A p \in Pair :
    /\ store.seq[p] <= store'.seq[p]
    /\ \A n \in 1..store.seq[p] : store'.history[p][n] = store.history[p][n]
    /\ \A n \in (store.seq[p] + 1)..store'.seq[p] :
         LET e == store'.history[p][n]
         IN  /\ e.status = "Active"
             /\ e.attestor = a
             /\ e.issued_at = now
             /\ e.expires_at - now <= get_max_attestation_ttl(p[2])

RevokeStep(p) ==
  /\ p \in DOMAIN store.attestation
  /\ store.attestation[p].status = "Active"
  /\ Appended(store, store', p, [store.attestation[p] EXCEPT !.status = "Revoked"])

\* attest appends one entry, a batch what its working copy holds.
LEMMA AttestIssues ==
  ASSUME IInv, NEW a \in Address, NEW e \in ArgEntry, Attest(a, e)
  PROVE  IssueStep(a)
<1> DEFINE att == NewAttestation(a, e)
           p == e.pair
           n == store.seq[p] + 1
<1>1. /\ IsEntry(e) /\ e.ttl_seconds # 0 /\ p \in Pair
      /\ e.ttl_seconds <= get_max_attestation_ttl(p[2])
  BY AttestData, Zenon DEF IsEntry
<1>2. now \in 0..U64Max /\ StoreTypeOK(store) /\ HistoryTail(store)
  BY Zenon DEF IInv, TypeOK, StoreInv
<1>3. /\ att \in Attestation /\ att.attestor = a /\ att.issued_at = now
      /\ att.expires_at - now <= e.ttl_seconds /\ att.status = "Active"
  BY <1>1, <1>2, NewAttestationType, Zenon
<1>4. store' = record_attestation(store, a, e)
  BY Zenon DEF Attest, Commit
<1>5. Appended(store, store', p, att)
  BY <1>2, <1>4, RecordFields, Zenon DEF StoreTypeOK, IsStore
<1>6. get_max_attestation_ttl(p[2]) \in Nat /\ e.ttl_seconds \in Nat
  BY <1>1, ConstantsAssumption
  DEF IInv, TypeOK, MapsInto, get_max_attestation_ttl, IsEntry
<1>7. att.expires_at - now <= get_max_attestation_ttl(p[2])
  BY <1>1, <1>2, <1>3, <1>6, ConstantsAssumption DEF Attestation
<1> HIDE DEF att, p, n
<1>8. /\ store'.seq[p] = n /\ store'.history[p][n] = AsEntry(n, att)
      /\ \A m \in 1..store.seq[p] : store'.history[p][m] = store.history[p][m]
      /\ \A q \in Pair : q # p => /\ store'.seq[q] = store.seq[q]
                                  /\ store'.history[q] = store.history[q]
  BY <1>1, <1>2, <1>5, AppendedAt DEF n
<1>9. /\ AsEntry(n, att).status = "Active" /\ AsEntry(n, att).attestor = a
      /\ AsEntry(n, att).issued_at = now
      /\ AsEntry(n, att).expires_at - now <= get_max_attestation_ttl(p[2])
  BY <1>3, <1>7, Zenon DEF AsEntry
<1>10. \A q \in Pair : store.seq[q] \in Nat
  BY <1>2, Zenon DEF StoreTypeOK
<1>11. \A m : m \in (store.seq[p] + 1)..n => m = n
  BY <1>1, <1>10 DEF n
<1>12. \A q \in Pair : (store.seq[q] + 1)..store.seq[q] = {}
  BY <1>10
<1>13. store.seq[p] <= n
  BY <1>1, <1>10 DEF n
<1>14. ASSUME NEW q \in Pair
       PROVE  /\ store.seq[q] <= store'.seq[q]
              /\ \A m \in 1..store.seq[q] : store'.history[q][m] = store.history[q][m]
              /\ \A m \in (store.seq[q] + 1)..store'.seq[q] :
                   /\ store'.history[q][m].status = "Active"
                   /\ store'.history[q][m].attestor = a
                   /\ store'.history[q][m].issued_at = now
                   /\ store'.history[q][m].expires_at - now
                        <= get_max_attestation_ttl(q[2])
  <2>1. CASE q = p
    BY <1>8, <1>9, <1>11, <1>13, <2>1, ZenonT(60)
  <2>2. CASE q # p
    BY <1>8, <1>10, <1>12, <2>2
  <2>3. QED
    BY <2>1, <2>2, Zenon
<1>15. QED
  BY <1>14, Zenon DEF IssueStep

\* The commit of a batch only issues, for the attestor who sent it.
LEMMA BatchIssues ==
  ASSUME IInv, BatchRecord, store' # store
  PROVE  ~paused /\ batch[1].attestor \in attestors /\ IssueStep(batch[1].attestor)
<1> DEFINE wk == record_attestation(work, batch[next].attestor, batch[next])
<1>1. ~Idle /\ record_result(batch[next]) = "Ok" /\ store' = wk
  BY Zenon DEF BatchRecord
<1>2. ExtendsStore(wk)
  BY <1>1, BatchGrows, Zenon
<1> HIDE DEF wk
<1>3. IssueStep(batch[1].attestor)
  BY <1>1, <1>2, Zenon DEF ExtendsStore, Issued, IssueStep
<1>4. 1 \in DOMAIN batch
  BY <1>1 DEF IInv, TypeOK, Idle
<1>5. QED
  BY <1>1, <1>3, <1>4, Zenon DEF IInv, BatchAllowed

\* Every step leaves the committed data alone, issues, or revokes.
LEMMA StoreStep ==
  ASSUME IInv, [Next]_vars
  PROVE  \/ store' = store /\ now' \in Nat /\ now <= now'
         \/ now' = now /\ ~paused /\ \E a \in attestors : IssueStep(a)
         \/ now' = now /\ ~paused /\ \E p \in Pair : RevokeStep(p)
<1>1. now \in Nat
  BY ConstantsAssumption DEF IInv, TypeOK
<1>2. CASE DataUnchanged \/ BatchAbort \/ Tick \/ UNCHANGED vars
  BY <1>1, <1>2 DEF DataUnchanged, BatchAbort, Tick, vars
<1>3. ASSUME NEW a \in Address, NEW e \in ArgEntry, Attest(a, e)
      PROVE  now' = now /\ ~paused /\ a \in attestors /\ IssueStep(a)
  BY <1>3, AttestIssues, AttestData, Zenon DEF Attest
<1>4. ASSUME NEW a \in Address, NEW entries \in BatchArg, AttestBatch(a, entries)
      PROVE  store' = store /\ now' = now
  BY <1>4, Zenon DEF AttestBatch
<1>5. CASE BatchRecord
  BY <1>1, <1>5, BatchIssues DEF BatchRecord
<1>6. ASSUME NEW caller \in Address, NEW p \in Pair, Revoke(caller, p)
      PROVE  now' = now /\ ~paused /\ RevokeStep(p)
  <2>1. store' = record_revocation(store, p) /\ now' = now
    BY <1>6, Zenon DEF Revoke, Commit
  <2>2. IsStore(store)
    BY Zenon DEF IInv, StoreInv, StoreTypeOK, IsStore
  <2>3. QED
    BY <1>6, <2>1, <2>2, RevokeData, RevokeFields, ZenonT(30) DEF RevokeStep
<1>7. \/ DataUnchanged \/ BatchAbort \/ Tick \/ UNCHANGED vars \/ BatchRecord
      \/ \E a \in Address, e \in ArgEntry : Attest(a, e)
      \/ \E a \in Address, entries \in BatchArg : AttestBatch(a, entries)
      \/ \E caller \in Address, p \in Pair : Revoke(caller, p)
  BY Zenon DEF Next, Initialize, SetAdmin, AddAttestor, RemoveAttestor, Pause, Unpause,
         SetPaused, SetDefaultMaxAttestationTtl, SetMaxAttestationTtl, SetCap
<1>8. CASE \E a \in Address, e \in ArgEntry : Attest(a, e)
  BY <1>3, <1>8, Zenon
<1>9. CASE \E a \in Address, entries \in BatchArg : AttestBatch(a, entries)
  BY <1>1, <1>4, <1>9
<1>10. CASE \E caller \in Address, p \in Pair : Revoke(caller, p)
  BY <1>6, <1>10, Zenon
<1>11. QED
  BY <1>2, <1>5, <1>7, <1>8, <1>9, <1>10, Zenon

\* A revocation adds one entry to one pair.
LEMMA RevokeAt ==
  ASSUME IInv, NEW p \in Pair, RevokeStep(p)
  PROVE  /\ store.seq[p] \in Nat /\ store.seq[p] > 0
         /\ store'.seq[p] = store.seq[p] + 1
         /\ store'.history[p][store.seq[p] + 1] =
              AsEntry(store.seq[p] + 1,
                      [store.attestation[p] EXCEPT !.status = "Revoked"])
         /\ \A m \in 1..store.seq[p] : store'.history[p][m] = store.history[p][m]
         /\ \A q \in Pair : q # p => /\ store'.seq[q] = store.seq[q]
                                     /\ store'.history[q] = store.history[q]
         /\ store'.attestation[p] = [store.attestation[p] EXCEPT !.status = "Revoked"]
         /\ \A q \in DOMAIN store.attestation :
              q # p => store'.attestation[q] = store.attestation[q]
         /\ DOMAIN store'.attestation = DOMAIN store.attestation
<1>1. StoreTypeOK(store) /\ HistoryTail(store)
  BY Zenon DEF IInv, StoreInv
<1>2. store.seq[p] \in Nat /\ store.seq[p] > 0 /\ p \in DOMAIN store.attestation
  BY <1>1, Zenon DEF StoreTypeOK, HistoryTail, RevokeStep
<1> DEFINE a == [store.attestation[p] EXCEPT !.status = "Revoked"]
<1>3. Appended(store, store', p, a)
  BY Zenon DEF RevokeStep
<1> HIDE DEF a
<1>4. /\ store'.seq[p] = store.seq[p] + 1
      /\ store'.history[p][store.seq[p] + 1] = AsEntry(store.seq[p] + 1, a)
      /\ \A m \in 1..store.seq[p] : store'.history[p][m] = store.history[p][m]
      /\ \A q \in Pair : q # p => /\ store'.seq[q] = store.seq[q]
                                  /\ store'.history[q] = store.history[q]
      /\ store'.attestation[p] = a
      /\ \A q \in DOMAIN store.attestation :
           q # p => store'.attestation[q] = store.attestation[q]
      /\ DOMAIN store'.attestation = DOMAIN store.attestation \cup {p}
  BY <1>1, <1>3, AppendedAt
<1>5. QED
  BY <1>2, <1>4, Zenon DEF a

\* No step of the contract rewrites or drops a history entry.
THEOREM AppendOnlyCorrect == Spec => HistoryAppendOnly
<1>1. ASSUME IInv, [Next]_vars PROVE AppendOnlyStep
  <2>1. \A p \in Pair : store.seq[p] \in Nat
    BY <1>1, Zenon DEF IInv, StoreInv, StoreTypeOK
  <2>2. CASE store' = store
    BY <2>1, <2>2 DEF AppendOnlyStep
  <2>3. CASE \E a \in attestors : IssueStep(a)
    BY <2>3, Zenon DEF IssueStep, AppendOnlyStep
  <2>4. CASE \E p \in Pair : RevokeStep(p)
    <3>1. PICK p \in Pair : RevokeStep(p)
      BY <2>4, Zenon
    <3>2. /\ store'.seq[p] = store.seq[p] + 1
          /\ \A m \in 1..store.seq[p] : store'.history[p][m] = store.history[p][m]
          /\ \A q \in Pair : q # p => /\ store'.seq[q] = store.seq[q]
                                      /\ store'.history[q] = store.history[q]
      BY <1>1, <3>1, RevokeAt, Zenon
    <3>3. QED
      BY <2>1, <3>2 DEF AppendOnlyStep
  <2>5. QED
    BY <1>1, <2>2, <2>3, <2>4, StoreStep, Zenon
<1>2. QED
  BY <1>1, SpecInv, PTL DEF Spec, HistoryAppendOnly

\* Every entry an invocation adds was allowed in the state it ran in.
THEOREM JustifiedCorrect == Spec => NewEntriesJustified
<1>1. ASSUME IInv, [Next]_vars PROVE JustifiedStep
  <2>1. \A p \in Pair : store.seq[p] \in Nat
    BY <1>1, Zenon DEF IInv, StoreInv, StoreTypeOK
  <2>2. CASE store' = store
    <3>1. \A p \in Pair : (store.seq[p] + 1)..store'.seq[p] = {}
      BY <2>1, <2>2
    <3>2. QED
      BY <3>1, Zenon DEF JustifiedStep
  <2>3. CASE ~paused /\ \E a \in attestors : IssueStep(a)
    BY <2>3, Zenon DEF IssueStep, JustifiedStep
  <2>4. CASE ~paused /\ \E p \in Pair : RevokeStep(p)
    <3>1. PICK p \in Pair : RevokeStep(p)
      BY <2>4, Zenon
    <3> DEFINE a == [store.attestation[p] EXCEPT !.status = "Revoked"]
    <3>2. store.attestation[p] \in Attestation /\ store.attestation[p].status = "Active"
      BY <1>1, <3>1, Zenon DEF IInv, StoreInv, StoreTypeOK, MapsInto, RevokeStep
    <3>3. AsEntry(store.seq[p] + 1, a).status = "Revoked"
      BY <3>2, Zenon DEF AsEntry, Attestation
    <3>4. /\ store'.seq[p] = store.seq[p] + 1
          /\ store'.history[p][store.seq[p] + 1] = AsEntry(store.seq[p] + 1, a)
          /\ \A q \in Pair : q # p => store'.seq[q] = store.seq[q]
      BY <1>1, <3>1, RevokeAt, Zenon
    <3> HIDE DEF a
    <3>5. ASSUME NEW q \in Pair, NEW n \in (store.seq[q] + 1)..store'.seq[q]
          PROVE  /\ store'.history[q][n].status = "Revoked"
                 /\ n = store.seq[q] + 1 /\ n = store'.seq[q]
                 /\ store.attestation[q].status = "Active"
      <4>1. CASE q = p
        <5>1. n = store.seq[p] + 1
          BY <2>1, <3>4, <3>5, <4>1
        <5>2. QED
          BY <3>2, <3>3, <3>4, <4>1, <5>1, Zenon
      <4>2. CASE q # p
        BY <2>1, <3>4, <3>5, <4>2
      <4>3. QED
        BY <4>1, <4>2, Zenon
    <3>6. QED
      BY <2>4, <3>5, ZenonT(60) DEF JustifiedStep
  <2>5. QED
    BY <1>1, <2>2, <2>3, <2>4, StoreStep, Zenon
<1>2. QED
  BY <1>1, SpecInv, PTL DEF Spec, NewEntriesJustified

\* A pair becomes valid only in a step that attests it afresh.
THEOREM FreshCorrect == Spec => ValidOnlyByFreshAttest
<1>1. ASSUME IInv, IInv', [Next]_vars PROVE FreshStep
  <2> SUFFICES ASSUME NEW p \in Pair, ~is_valid(p), is_valid(p)'
               PROVE  /\ store'.seq[p] > store.seq[p]
                      /\ store'.attestation[p].issued_at = now
    BY Zenon DEF FreshStep
  <2>1. /\ p \in DOMAIN store'.attestation
        /\ store'.attestation[p].status = "Active"
        /\ now' < store'.attestation[p].expires_at
    BY Zenon DEF is_valid
  <2>2. /\ store.seq[p] \in Nat /\ store'.seq[p] \in Nat /\ now \in Nat
        /\ HistoryTail(store) /\ HistoryTail(store')
        /\ p \in DOMAIN store.attestation => store.attestation[p] \in Attestation
        /\ store'.attestation[p] \in Attestation
    <3>1. /\ StoreTypeOK(store) /\ HistoryTail(store)
          /\ StoreTypeOK(store') /\ HistoryTail(store')
      BY <1>1, Zenon DEF IInv, StoreInv
    <3>2. now \in Nat
      BY <1>1, ConstantsAssumption DEF IInv, TypeOK
    <3>3. store.seq[p] \in Nat /\ store'.seq[p] \in Nat
      BY <3>1, Zenon DEF StoreTypeOK
    <3>4. /\ p \in DOMAIN store.attestation => store.attestation[p] \in Attestation
          /\ store'.attestation[p] \in Attestation
      BY <2>1, <3>1, Zenon DEF StoreTypeOK, MapsInto
    <3>5. QED
      BY <3>1, <3>2, <3>3, <3>4, Zenon
  <2>3. CASE store' = store /\ now' \in Nat /\ now <= now'
    <3>1. now < store.attestation[p].expires_at
      BY <2>1, <2>2, <2>3, ConstantsAssumption DEF Attestation
    <3>2. QED
      BY <2>1, <2>3, <3>1, Zenon DEF is_valid
  <2>4. CASE now' = now /\ \E a \in attestors : IssueStep(a)
    <3>1. /\ store.seq[p] <= store'.seq[p]
          /\ \A n \in 1..store.seq[p] : store'.history[p][n] = store.history[p][n]
          /\ \A n \in (store.seq[p] + 1)..store'.seq[p] :
               store'.history[p][n].issued_at = now
      BY <2>4, Zenon DEF IssueStep
    <3>2. /\ store'.seq[p] > 0
          /\ store'.history[p][store'.seq[p]] =
               AsEntry(store'.seq[p], store'.attestation[p])
      BY <2>1, <2>2, Zenon DEF HistoryTail
    <3>3. CASE store'.seq[p] > store.seq[p]
      <4>1. store'.seq[p] \in (store.seq[p] + 1)..store'.seq[p]
        BY <2>2, <3>3
      <4>2. AsEntry(store'.seq[p], store'.attestation[p]).issued_at = now
        BY <3>1, <3>2, <4>1, Zenon
      <4>3. QED
        BY <3>3, <4>2, Zenon DEF AsEntry
    <3>4. CASE store'.seq[p] = store.seq[p]
      <4>1. /\ p \in DOMAIN store.attestation
            /\ store.history[p][store.seq[p]] =
                 AsEntry(store.seq[p], store.attestation[p])
        BY <2>2, <3>2, <3>4, Zenon DEF HistoryTail
      <4>2. store.seq[p] \in 1..store.seq[p]
        BY <2>2, <3>2, <3>4
      <4>3. AsEntry(store.seq[p], store'.attestation[p]) =
              AsEntry(store.seq[p], store.attestation[p])
        BY <3>1, <3>2, <3>4, <4>1, <4>2, Zenon
      <4>4. /\ store'.attestation[p].status = store.attestation[p].status
            /\ store'.attestation[p].expires_at = store.attestation[p].expires_at
        BY <4>3, Zenon DEF AsEntry
      <4>5. QED
        BY <2>1, <2>4, <4>1, <4>4, Zenon DEF is_valid
    <3>5. QED
      BY <2>2, <3>1, <3>3, <3>4
  <2>5. CASE now' = now /\ \E q \in Pair : RevokeStep(q)
    <3>1. PICK q \in Pair : RevokeStep(q)
      BY <2>5, Zenon
    <3>2. /\ store'.attestation[q] = [store.attestation[q] EXCEPT !.status = "Revoked"]
          /\ \A r \in DOMAIN store.attestation :
               r # q => store'.attestation[r] = store.attestation[r]
          /\ DOMAIN store'.attestation = DOMAIN store.attestation
      BY <1>1, <3>1, RevokeAt, Zenon
    <3>3. CASE p = q
      <4>1. [store.attestation[p] EXCEPT !.status = "Revoked"].status = "Revoked"
        BY <2>1, <2>2, <3>2, Zenon DEF Attestation
      <4>2. QED
        BY <2>1, <3>2, <3>3, <4>1, Zenon
    <3>4. CASE p # q
      BY <2>1, <2>5, <3>2, <3>4, Zenon DEF is_valid
    <3>5. QED
      BY <3>3, <3>4, Zenon
  <2>6. QED
    BY <1>1, <2>3, <2>4, <2>5, StoreStep, Zenon
<1>2. QED
  BY <1>1, SpecInv, PTL DEF Spec, ValidOnlyByFreshAttest

-----------------------------------------------------------------------------
(* The refinement.                                                          *)

\* The log of a pair is the content of its history entries, in order.
LEMMA LogType ==
  ASSUME NEW st, NEW t, StoreInv(st, t)
  PROVE  /\ LogOf(st) \in [Pair -> Seq(Registry!Record)]
         /\ \A p \in Pair :
              /\ Len(LogOf(st)[p]) = st.seq[p] /\ st.seq[p] \in Nat
              /\ LogOf(st)[p] # << >> <=> st.seq[p] > 0
              /\ \A n \in 1..st.seq[p] :
                   LogOf(st)[p][n] = Content(st.history[p][n])
<1> DEFINE l(p) == [n \in 1..st.seq[p] |-> Content(st.history[p][n])]
<1>1. /\ st.seq \in [Pair -> Nat]
      /\ \A p \in Pair : \A n \in 1..st.seq[p] : st.history[p][n] \in HistoryEntry
  BY DEF StoreInv, StoreTypeOK, HistoryTail, MapsInto
<1>2. \A e \in HistoryEntry : Content(e) \in Registry!Record
  BY ConstantsAssumption DEF HistoryEntry, Content, Status, Registry!Record
<1>3. ASSUME NEW p \in Pair
      PROVE  /\ l(p) \in Seq(Registry!Record) /\ Len(l(p)) = st.seq[p]
             /\ l(p) # << >> <=> st.seq[p] > 0
  <2>1. \A n \in 1..st.seq[p] : Content(st.history[p][n]) \in Registry!Record
    BY <1>1, <1>2, Zenon
  <2>2. st.seq[p] \in Nat
    BY <1>1, Zenon
  <2>3. l(p) \in Seq(Registry!Record) /\ Len(l(p)) = st.seq[p]
    BY <2>1, <2>2
  <2>4. QED
    BY <2>2, <2>3
<1>4. QED
  BY <1>1, <1>3, Zenon DEF LogOf

\* The stored attestations are the last records of the logs.
LEMMA CurrentIsNewest ==
  ASSUME NEW st, NEW t, StoreInv(st, t)
  PROVE  st.attestation = Registry!Newest(LogOf(st))
<1>1. /\ MapsInto(st.attestation, Pair, Attestation)
      /\ HistoryTail(st)
  BY Zenon DEF StoreInv, StoreTypeOK
<1>2. DOMAIN st.attestation = {p \in Pair : LogOf(st)[p] # << >>}
  <2>1. \A p \in Pair : p \in DOMAIN st.attestation <=> LogOf(st)[p] # << >>
    BY <1>1, LogType, Zenon DEF HistoryTail
  <2>2. QED
    BY <1>1, <2>1, Zenon DEF MapsInto
<1>3. ASSUME NEW p \in DOMAIN st.attestation
      PROVE  st.attestation[p] = Registry!Last(LogOf(st)[p])
  <2>1. p \in Pair /\ st.attestation[p] \in Attestation
    BY <1>1, Zenon DEF MapsInto
  <2>2. /\ st.seq[p] > 0
        /\ st.history[p][st.seq[p]] = AsEntry(st.seq[p], st.attestation[p])
    BY <1>1, <2>1, Zenon DEF HistoryTail
  <2>3. /\ Len(LogOf(st)[p]) = st.seq[p] /\ st.seq[p] \in Nat
        /\ \A n \in 1..st.seq[p] : LogOf(st)[p][n] = Content(st.history[p][n])
    BY <2>1, LogType
  <2>4. LogOf(st)[p][st.seq[p]] = Content(AsEntry(st.seq[p], st.attestation[p]))
    BY <2>2, <2>3
  <2>5. Content(AsEntry(st.seq[p], st.attestation[p])) = st.attestation[p]
    BY <2>1, Zenon DEF Content, AsEntry, Attestation
  <2>6. QED
    BY <2>3, <2>4, <2>5, Zenon DEF Registry!Last
<1>4. st.attestation = [p \in DOMAIN st.attestation |-> st.attestation[p]]
  BY <1>1, Zenon DEF MapsInto
<1>5. QED
  BY <1>2, <1>3, <1>4, Zenon DEF Registry!Newest

\* attest and the commit of attest_batch are Issue steps of the registry.
LEMMA IssueRefines ==
  ASSUME IInv, IInv', NEW a, now' = now, IssueStep(a)
  PROVE  Registry!Issue(a)
<1> DEFINE l == LogOf(store)
           m == LogOf(store')
<1>1. StoreInv(store, now) /\ StoreInv(store', now')
  BY Zenon DEF IInv
<1>2. m \in [Pair -> Seq(Registry!Record)] /\ store'.attestation = Registry!Newest(m)
  BY <1>1, LogType, CurrentIsNewest, Zenon
<1>3. ASSUME NEW p \in Pair
      PROVE  /\ Len(l[p]) <= Len(m[p])
             /\ \A n \in 1..Len(l[p]) : m[p][n] = l[p][n]
             /\ \A n \in (Len(l[p]) + 1)..Len(m[p]) :
                  /\ m[p][n].attestor = a /\ m[p][n].issued_at = now
                  /\ m[p][n].expires_at >= now /\ m[p][n].status = "Active"
  <2>1. /\ Len(l[p]) = store.seq[p] /\ store.seq[p] \in Nat
        /\ \A n \in 1..store.seq[p] : l[p][n] = Content(store.history[p][n])
    BY <1>1, LogType
  <2>2. /\ Len(m[p]) = store'.seq[p] /\ store'.seq[p] \in Nat
        /\ \A n \in 1..store'.seq[p] : m[p][n] = Content(store'.history[p][n])
    BY <1>1, LogType
  <2> HIDE DEF l, m
  <2>3. /\ store.seq[p] <= store'.seq[p]
        /\ \A n \in 1..store.seq[p] : store'.history[p][n] = store.history[p][n]
        /\ \A n \in (store.seq[p] + 1)..store'.seq[p] :
             /\ store'.history[p][n].status = "Active"
             /\ store'.history[p][n].attestor = a
             /\ store'.history[p][n].issued_at = now
    BY Zenon DEF IssueStep
  <2>4. \A n \in 1..Len(l[p]) : m[p][n] = l[p][n]
    BY <2>1, <2>2, <2>3
  <2>5. ASSUME NEW n \in (Len(l[p]) + 1)..Len(m[p])
        PROVE  /\ m[p][n].attestor = a /\ m[p][n].issued_at = now
               /\ m[p][n].expires_at >= now /\ m[p][n].status = "Active"
    <3>1. n \in 1..store'.seq[p] /\ n \in (store.seq[p] + 1)..store'.seq[p]
      BY <2>1, <2>2, <2>5
    <3>2. store'.history[p][n] \in HistoryEntry /\ n \in DOMAIN store'.history[p]
      BY <1>1, <3>1 DEF StoreInv, StoreTypeOK, HistoryTail, MapsInto
    <3>3. \/ store'.history[p][n].issued_at < store'.history[p][n].expires_at
          \/ store'.history[p][n].expires_at = U64Max
      BY <1>1, <3>2, Zenon DEF StoreInv, Chronological
    <3>4. store'.history[p][n].expires_at >= now
      <4>1. now \in 0..U64Max
        BY Zenon DEF IInv, TypeOK
      <4>2. store'.history[p][n].expires_at \in 0..U64Max
        BY <3>2, Zenon DEF HistoryEntry
      <4>3. store'.history[p][n].issued_at = now
        BY <2>3, <3>1, Zenon
      <4>4. QED
        BY <3>3, <4>1, <4>2, <4>3, ConstantsAssumption
    <3>5. m[p][n] = Content(store'.history[p][n])
      BY <2>2, <3>1, Zenon
    <3>6. /\ m[p][n].attestor = store'.history[p][n].attestor
          /\ m[p][n].issued_at = store'.history[p][n].issued_at
          /\ m[p][n].expires_at = store'.history[p][n].expires_at
          /\ m[p][n].status = store'.history[p][n].status
      BY <3>5 DEF Content
    <3>7. QED
      BY <2>3, <3>1, <3>4, <3>6, Zenon
  <2>6. QED
    BY <2>1, <2>2, <2>3, <2>4, <2>5, Zenon
<1>4. QED
  BY <1>2, <1>3, Zenon DEF Registry!Issue

\* revoke is a Revoke step of the registry.
LEMMA RevokeRefines ==
  ASSUME IInv, IInv', NEW p \in Pair, now' = now, RevokeStep(p)
  PROVE  Registry!Revoke(p)
<1> DEFINE l == LogOf(store)
           m == LogOf(store')
           k == store.seq[p]
           b == store.attestation[p]
           a == [b EXCEPT !.status = "Revoked"]
<1>1. StoreInv(store, now) /\ StoreInv(store', now')
  BY Zenon DEF IInv
<1>2. store'.attestation = Registry!Newest(m) /\ store.attestation = Registry!Newest(l)
  BY <1>1, CurrentIsNewest, Zenon
<1>3. /\ k \in Nat /\ k > 0 /\ store'.seq[p] = k + 1
      /\ store'.history[p][k + 1] = AsEntry(k + 1, a)
      /\ \A n \in 1..k : store'.history[p][n] = store.history[p][n]
      /\ \A q \in Pair : q # p => /\ store'.seq[q] = store.seq[q]
                                  /\ store'.history[q] = store.history[q]
  BY RevokeAt, Zenon
<1>4. p \in DOMAIN store.attestation /\ b \in Attestation /\ b.status = "Active"
  BY <1>1, Zenon DEF RevokeStep, StoreInv, StoreTypeOK, MapsInto
<1>5. l[p] # << >> /\ Registry!Last(l[p]) = b
  BY <1>1, <1>2, <1>3, <1>4, LogType, Zenon DEF Registry!Newest
<1>6. Content(AsEntry(k + 1, a)) = a
  BY <1>4 DEF Content, AsEntry, Attestation
<1> HIDE DEF a, b, k
<1>7. m[p] = Append(l[p], a)
  <2>1. /\ Len(l[p]) = k /\ l[p] \in Seq(Registry!Record)
        /\ \A n \in 1..k : l[p][n] = Content(store.history[p][n])
    BY <1>1, LogType DEF k
  <2>2. /\ Len(m[p]) = k + 1 /\ m[p] \in Seq(Registry!Record)
        /\ \A n \in 1..(k + 1) : m[p][n] = Content(store'.history[p][n])
    BY <1>1, <1>3, LogType
  <2> HIDE DEF l, m
  <2>3. m[p][k + 1] = a /\ k + 1 \in 1..(k + 1)
    BY <1>3, <1>6, <2>2
  <2>4. \A n \in 1..k : m[p][n] = l[p][n]
    BY <1>3, <2>1, <2>2
  <2>5. QED
    BY <1>3, <2>1, <2>2, <2>3, <2>4
<1>8. \A q \in Pair : q # p => m[q] = l[q]
  BY <1>3, Zenon DEF LogOf
<1>9. m = [l EXCEPT ![p] = Append(l[p], a)]
  <2>1. DOMAIN l = Pair /\ m = [q \in Pair |-> m[q]] /\ l = [q \in Pair |-> l[q]]
    BY Zenon DEF LogOf
  <2> HIDE DEF l, m
  <2>2. QED
    BY <1>7, <1>8, <2>1, Zenon
<1>10. QED
  BY <1>2, <1>4, <1>5, <1>9, Zenon DEF Registry!Revoke, a

\* The contract implements the registry: Spec => Registry!Spec.
THEOREM RefinementCorrect == Spec => ImplementsRegistry
<1>1. Init => Registry!Init
  <2> SUFFICES ASSUME Init PROVE Registry!Init
    BY Zenon
  <2>1. StoreInv(store, now)
    BY InitInv, Zenon DEF IInv
  <2>2. store.attestation = Registry!Newest(LogOf(store))
    BY <2>1, CurrentIsNewest, Zenon
  <2>3. LogOf(store) = [p \in Pair |-> << >>]
    BY DEF Init, EmptyStore, LogOf
  <2>4. QED
    BY <2>2, <2>3, ConstantsAssumption DEF Init, Registry!Init
<1>2. ASSUME IInv, IInv', [Next]_vars
      PROVE  [Registry!Next]_<<LogOf(store), store.attestation, now>>
  <2>1. CASE store' = store /\ now' \in Nat /\ now <= now'
    <3>1. now \in Nat
      BY <1>2, ConstantsAssumption DEF IInv, TypeOK
    <3>2. Registry!Tick
      BY <2>1, <3>1, Zenon DEF Registry!Tick
    <3>3. QED
      BY <3>2, Zenon DEF Registry!Next
  <2>2. CASE now' = now /\ \E a \in attestors : IssueStep(a)
    BY <1>2, <2>2, IssueRefines, Zenon DEF Registry!Next, IInv, TypeOK
  <2>3. CASE now' = now /\ \E p \in Pair : RevokeStep(p)
    BY <1>2, <2>3, RevokeRefines, Zenon DEF Registry!Next
  <2>4. QED
    BY <1>2, <2>1, <2>2, <2>3, StoreStep, Zenon
<1>3. QED
  BY <1>1, <1>2, SpecInv, PTL DEF Spec, ImplementsRegistry, Registry!Spec

-----------------------------------------------------------------------------
(* The reference model of the differential test.                            *)

\* Time and the pause flag never move in the step that writes attestations.
LEMMA FlagStep ==
  ASSUME IInv, [Next]_vars
  PROVE  /\ now' \in now..U64Max
         /\ store' # store \/ now' # now => paused' = paused
<1>1. now \in 0..U64Max
  BY Zenon DEF IInv, TypeOK
<1>2. CASE DataUnchanged \/ UNCHANGED vars
  BY <1>1, <1>2, ConstantsAssumption DEF DataUnchanged, vars
<1>3. CASE Tick
  BY <1>1, <1>3, ConstantsAssumption DEF Tick, ConfigUnchanged
<1>4. CASE BatchRecord \/ BatchAbort
  BY <1>1, <1>4, ConstantsAssumption DEF BatchRecord, BatchAbort, ConfigUnchanged
<1>5. CASE \E a \in Address, e \in ArgEntry : Attest(a, e)
  BY <1>1, <1>5, ConstantsAssumption DEF Attest, ConfigUnchanged
<1>6. CASE \E a \in Address, entries \in BatchArg : AttestBatch(a, entries)
  BY <1>1, <1>6, ConstantsAssumption DEF AttestBatch, ConfigUnchanged
<1>7. CASE \E caller \in Address, p \in Pair : Revoke(caller, p)
  BY <1>1, <1>7, ConstantsAssumption DEF Revoke, ConfigUnchanged
<1>8. \/ DataUnchanged \/ BatchAbort \/ Tick \/ UNCHANGED vars \/ BatchRecord
      \/ \E a \in Address, e \in ArgEntry : Attest(a, e)
      \/ \E a \in Address, entries \in BatchArg : AttestBatch(a, entries)
      \/ \E caller \in Address, p \in Pair : Revoke(caller, p)
  BY Zenon DEF Next, Initialize, SetAdmin, AddAttestor, RemoveAttestor, Pause, Unpause,
         SetPaused, SetDefaultMaxAttestationTtl, SetMaxAttestationTtl, SetCap
<1>9. QED
  BY <1>2, <1>3, <1>4, <1>5, <1>6, <1>7, <1>8, ZenonT(60)

\* Nothing happens before initialize: there is no attestor to attest and no
\* administrator to pause.
Untouched ==
  admin = {} => ~paused /\ attestors = {} /\ DOMAIN store.attestation = {}

LEMMA UntouchedStep ==
  ASSUME IInv, Untouched, [Next]_vars
  PROVE  Untouched'
<1>1. CASE admin # {}
  <2>1. admin' # {}
    BY <1>1, Zenon DEF Next, Initialize, SetAdmin, AddAttestor, RemoveAttestor, Pause,
         Unpause, SetPaused, SetDefaultMaxAttestationTtl, SetMaxAttestationTtl,
         SetCap, Attest, AttestBatch, BatchRecord, BatchAbort, Revoke, Tick,
         ConfigUnchanged, vars
  <2>2. QED
    BY <2>1, Zenon DEF Untouched
<1>2. CASE admin = {}
  <2>1. ~paused /\ attestors = {} /\ DOMAIN store.attestation = {}
    BY <1>2, Zenon DEF Untouched
  <2>2. store' = store
    <3>1. ASSUME NEW p \in Pair PROVE ~RevokeStep(p)
      BY <2>1, Zenon DEF RevokeStep
    <3>2. QED
      BY <2>1, <3>1, StoreStep, Zenon
  <2>3. admin' = {} => paused' = paused /\ attestors' = attestors
    BY <1>2, ZenonT(60) DEF Next, Initialize, SetAdmin, AddAttestor, RemoveAttestor, Pause,
         Unpause, SetPaused, SetDefaultMaxAttestationTtl, SetMaxAttestationTtl,
         SetCap, AsAdmin, Attest, AttestBatch, BatchRecord, BatchAbort, Revoke,
         Tick, ConfigUnchanged, vars
  <2>4. QED
    BY <2>1, <2>2, <2>3, Zenon DEF Untouched
<1>3. QED
  BY <1>1, <1>2, Zenon

\* The attestation of a pair changes only when its history grows.
LEMMA SameSeqSameAttestation ==
  ASSUME IInv, IInv', NEW a, IssueStep(a), NEW p \in Pair,
         store'.seq[p] = store.seq[p], p \in DOMAIN store.attestation
  PROVE  store'.attestation[p] = store.attestation[p]
<1>1. /\ HistoryTail(store) /\ HistoryTail(store')
      /\ StoreTypeOK(store) /\ StoreTypeOK(store')
  BY Zenon DEF IInv, StoreInv
<1>2. store.seq[p] \in Nat /\ store.seq[p] > 0
  BY <1>1, Zenon DEF HistoryTail, StoreTypeOK
<1>3. /\ p \in DOMAIN store'.attestation
      /\ store'.attestation[p] \in Attestation /\ store.attestation[p] \in Attestation
  <2>1. p \in DOMAIN store'.attestation
    BY <1>1, <1>2, Zenon DEF HistoryTail
  <2>2. QED
    BY <1>1, <2>1, Zenon DEF StoreTypeOK, MapsInto
<1>4. store'.history[p][store.seq[p]] = store.history[p][store.seq[p]]
  BY <1>2 DEF IssueStep
<1>5. AsEntry(store.seq[p], store'.attestation[p]) =
        AsEntry(store.seq[p], store.attestation[p])
  BY <1>1, <1>2, <1>4 DEF HistoryTail
<1>6. QED
  BY <1>3, <1>5 DEF AsEntry, Attestation

\* The attestation of a pair whose history grew is one the model may insert.
LEMMA NewSeqNewEntry ==
  ASSUME IInv, IInv', NEW a, now' = now, IssueStep(a), NEW p \in Pair,
         store'.seq[p] > store.seq[p]
  PROVE  /\ p \in DOMAIN store'.attestation
         /\ \E ttl \in 1..U64Max :
              EntryOf(store'.attestation[p]) = Reference!NewEntry(a, ttl)
<1> DEFINE k == store'.seq[p]
           b == store'.attestation[p]
<1>1. /\ HistoryTail(store') /\ StoreTypeOK(store') /\ Chronological(store', now)
      /\ now \in 0..U64Max /\ U64Max \in Nat /\ U64Max > 0
      /\ store.seq[p] \in Nat /\ k \in Nat
  <2>1. HistoryTail(store') /\ StoreTypeOK(store') /\ Chronological(store', now)
    BY Zenon DEF IInv, StoreInv
  <2>2. StoreTypeOK(store) /\ TypeOK
    BY Zenon DEF IInv, StoreInv
  <2>3. store.seq[p] \in Nat /\ k \in Nat
    BY <2>1, <2>2, Zenon DEF StoreTypeOK
  <2>4. now \in 0..U64Max
    BY <2>2, Zenon DEF TypeOK
  <2>5. U64Max \in Nat /\ U64Max > 0
    BY ConstantsAssumption
  <2>6. QED
    BY <2>1, <2>3, <2>4, <2>5, Zenon
<1>2. k > 0 /\ p \in DOMAIN store'.attestation /\ store'.history[p][k] = AsEntry(k, b)
  BY <1>1 DEF HistoryTail
<1>3. b \in Attestation
  BY <1>1, <1>2, Zenon DEF StoreTypeOK, MapsInto
<1>4. k \in (store.seq[p] + 1)..k /\ k \in DOMAIN store'.history[p]
  BY <1>1, <1>2 DEF HistoryTail
<1>5. b.attestor = a /\ b.status = "Active" /\ b.issued_at = now
  <2>1. /\ AsEntry(k, b).attestor = a /\ AsEntry(k, b).status = "Active"
        /\ AsEntry(k, b).issued_at = now
    BY <1>2, <1>4 DEF IssueStep
  <2>2. QED
    BY <2>1, Zenon DEF AsEntry
<1>6. b.issued_at < b.expires_at \/ b.expires_at = U64Max
  <2>1. \/ AsEntry(k, b).issued_at < AsEntry(k, b).expires_at
        \/ AsEntry(k, b).expires_at = U64Max
    BY <1>1, <1>2, <1>4, Zenon DEF Chronological
  <2>2. QED
    BY <2>1, Zenon DEF AsEntry
<1>7. b.expires_at \in 0..U64Max /\ b.expires_at - now <= get_max_attestation_ttl(p[2])
  <2>1. AsEntry(k, b).expires_at - now <= get_max_attestation_ttl(p[2])
    BY <1>2, <1>4, Zenon DEF IssueStep
  <2>2. QED
    BY <1>3, <2>1, Zenon DEF AsEntry, Attestation
<1> HIDE DEF b, k
<1>8. ASSUME NEW ttl \in 1..U64Max,
             b.expires_at = IF now + ttl > U64Max THEN U64Max ELSE now + ttl
      PROVE  EntryOf(b) = Reference!NewEntry(a, ttl)
  <2>1. (b.status = "Revoked") = FALSE
    BY <1>5, Zenon
  <2>2. QED
    BY <1>5, <1>8, <2>1, ZenonT(30) DEF EntryOf, Reference!NewEntry
<1>9. CASE now < b.expires_at
  <2>1. b.expires_at - now \in 1..U64Max
    BY <1>1, <1>7, <1>9
  <2>2. b.expires_at = IF now + (b.expires_at - now) > U64Max THEN U64Max
                       ELSE now + (b.expires_at - now)
    BY <1>1, <1>7
  <2>3. QED
    BY <1>2, <1>8, <2>1, <2>2, Zenon DEF b
<1>10. CASE b.expires_at = U64Max /\ now = U64Max /\ U64Max > 0
  <2>1. 1 \in 1..U64Max /\ b.expires_at = IF now + 1 > U64Max THEN U64Max ELSE now + 1
    BY <1>1, <1>10
  <2>2. QED
    BY <1>2, <1>8, <2>1, Zenon DEF b
<1>11. QED
  BY <1>1, <1>5, <1>6, <1>7, <1>9, <1>10

\* The entries of the model, and what they say of a pair.
LEMMA EntriesAt ==
  ASSUME NEW p \in DOMAIN store.attestation, IInv
  PROVE  /\ p \in Pair /\ store.attestation[p] \in Attestation
         /\ EntryOf(store.attestation[p]).revoked <=>
              store.attestation[p].status = "Revoked"
         /\ EntryOf(store.attestation[p]).expires_at = store.attestation[p].expires_at
         /\ EntryOf(store.attestation[p]).attestor = store.attestation[p].attestor
<1>1. p \in Pair /\ store.attestation[p] \in Attestation
  BY Zenon DEF IInv, StoreInv, StoreTypeOK, MapsInto
<1>2. QED
  BY <1>1, Zenon DEF EntryOf

\* is_valid and the outcome of revoke are what the model predicts.
LEMMA Predicted ==
  ASSUME IInv, Untouched
  PROVE  AnswersAsPredicted
<1> SUFFICES ASSUME NEW p \in Pair
             PROVE  /\ is_valid(p) <=> Reference!is_valid(p)
                    /\ \A caller \in Address :
                         revoke_result(caller, p) = "Ok" <=> Reference!expect_ok(caller, p)
  BY Zenon DEF AnswersAsPredicted
<1>1. CASE p \notin DOMAIN store.attestation
  BY <1>1, Zenon DEF is_valid, Reference!is_valid, revoke_result, Reference!expect_ok
<1>2. CASE p \in DOMAIN store.attestation
  <2> DEFINE b == store.attestation[p]
  <2>1. /\ EntryOf(b).revoked <=> b.status = "Revoked"
        /\ EntryOf(b).expires_at = b.expires_at /\ EntryOf(b).attestor = b.attestor
        /\ b \in Attestation
    BY <1>2, EntriesAt, Zenon
  <2>2. b.status = "Active" <=> ~(b.status = "Revoked")
    BY <2>1, Zenon DEF Attestation, Status
  <2>3. admin # {}
    BY <1>2, Zenon DEF Untouched
  <2> HIDE DEF b
  <2>4. is_valid(p) <=> Reference!is_valid(p)
    BY <1>2, <2>1, <2>2, Zenon DEF is_valid, Reference!is_valid, b
  <2>5. ASSUME NEW caller \in Address
        PROVE  revoke_result(caller, p) = "Ok" <=> Reference!expect_ok(caller, p)
    BY <1>2, <2>1, <2>3, Zenon DEF revoke_result, Reference!expect_ok, b
  <2>6. QED
    BY <2>4, <2>5, Zenon
<1>3. QED
  BY <1>1, <1>2, Zenon

\* attest and the commit of a batch are Attest steps of the model, for the pairs
\* whose history grew.
LEMMA AttestRefines ==
  ASSUME IInv, IInv', NEW a \in attestors, now' = now, paused' = paused, ~paused,
         IssueStep(a)
  PROVE  \E pairs \in SUBSET Pair : Reference!Attest(a, pairs)
<1> DEFINE pairs == {p \in Pair : store'.seq[p] > store.seq[p]}
           old == [p \in DOMAIN store.attestation |-> EntryOf(store.attestation[p])]
           new == [p \in DOMAIN store'.attestation |-> EntryOf(store'.attestation[p])]
<1>1. /\ HistoryTail(store) /\ HistoryTail(store')
      /\ DOMAIN store.attestation \subseteq Pair
      /\ DOMAIN store'.attestation \subseteq Pair
      /\ \A p \in Pair : store.seq[p] \in Nat /\ store'.seq[p] \in Nat
                         /\ store.seq[p] <= store'.seq[p]
  BY Zenon DEF IInv, StoreInv, StoreTypeOK, MapsInto, IssueStep
<1>2. DOMAIN new = DOMAIN old \cup pairs
  <2>1. \A p \in Pair : p \in DOMAIN store'.attestation <=>
                          p \in DOMAIN store.attestation \/ p \in pairs
    BY <1>1 DEF HistoryTail
  <2>2. QED
    BY <1>1, <2>1, Zenon
<1>3. ASSUME NEW p \in DOMAIN new
      PROVE  IF p \in pairs
             THEN \E ttl \in 1..U64Max : new[p] = Reference!NewEntry(a, ttl)
             ELSE new[p] = old[p]
  <2>1. CASE p \in pairs
    <3>1. \E ttl \in 1..U64Max :
            EntryOf(store'.attestation[p]) = Reference!NewEntry(a, ttl)
      BY <2>1, NewSeqNewEntry, Zenon
    <3>2. QED
      BY <1>3, <2>1, <3>1, Zenon
  <2>2. CASE p \notin pairs
    <3>1. p \in Pair /\ p \in DOMAIN store.attestation /\ store'.seq[p] = store.seq[p]
      <4>1. p \in DOMAIN old
        BY <1>2, <1>3, <2>2, Zenon
      <4>2. p \in Pair /\ ~(store'.seq[p] > store.seq[p])
        BY <1>1, <1>3, <2>2, Zenon
      <4>3. QED
        BY <1>1, <4>1, <4>2
    <3>2. store'.attestation[p] = store.attestation[p]
      BY <3>1, SameSeqSameAttestation, Zenon
    <3>3. QED
      BY <1>3, <2>2, <3>1, <3>2, Zenon
  <2>3. QED
    BY <2>1, <2>2, Zenon
<1>4. pairs \in SUBSET Pair
  BY Zenon
<1> HIDE DEF pairs
<1>5. Reference!Attest(a, pairs)
  BY <1>2, <1>3, Zenon DEF Reference!Attest
<1>6. QED
  BY <1>4, <1>5, Zenon

\* revoke is a Revoke step of the model.
LEMMA RevokeRefinesReference ==
  ASSUME IInv, NEW p \in Pair, now' = now, paused' = paused, ~paused, RevokeStep(p)
  PROVE  \E caller \in Address : Reference!Revoke(caller, p)
<1> DEFINE b == store.attestation[p]
           old == [q \in DOMAIN store.attestation |-> EntryOf(store.attestation[q])]
           new == [q \in DOMAIN store'.attestation |-> EntryOf(store'.attestation[q])]
<1>1. /\ p \in DOMAIN store.attestation /\ b.status = "Active" /\ b \in Attestation
      /\ EntryOf(b).attestor = b.attestor /\ b.attestor \in Address
      /\ ~EntryOf(b).revoked
  <2>1. p \in DOMAIN store.attestation /\ b.status = "Active"
    BY Zenon DEF RevokeStep
  <2>2. b \in Attestation
    BY <2>1, EntriesAt, Zenon
  <2>3. QED
    BY <2>1, <2>2, Zenon DEF EntryOf, Attestation
<1>2. /\ store'.attestation[p] = [b EXCEPT !.status = "Revoked"]
      /\ \A q \in DOMAIN store.attestation :
           q # p => store'.attestation[q] = store.attestation[q]
      /\ DOMAIN store'.attestation = DOMAIN store.attestation
  BY RevokeAt, Zenon
<1>3. EntryOf(store'.attestation[p]) = [EntryOf(b) EXCEPT !.revoked = TRUE]
  <2>1. /\ store'.attestation[p].attestor = b.attestor
        /\ store'.attestation[p].expires_at = b.expires_at
        /\ store'.attestation[p].status = "Revoked"
    BY <1>1, <1>2, Zenon DEF Attestation
  <2>2. (store'.attestation[p].status = "Revoked") = TRUE
    BY <2>1, Zenon
  <2> DEFINE r == [attestor |-> b.attestor, expires_at |-> b.expires_at, revoked |-> TRUE]
  <2>3. EntryOf(store'.attestation[p]) = r
    BY <2>1, <2>2, Zenon DEF EntryOf
  <2>4. [EntryOf(b) EXCEPT !.revoked = TRUE] = r
    <3> DEFINE x == b.attestor
               y == b.expires_at
               z == b.status = "Revoked"
               w == TRUE
    <3> HIDE DEF x, y, z, w
    <3>1. [[attestor |-> x, expires_at |-> y, revoked |-> z] EXCEPT !.revoked = w]
            = [attestor |-> x, expires_at |-> y, revoked |-> w]
      OBVIOUS
    <3>2. QED
      BY <3>1, Zenon DEF x, y, z, w, EntryOf
  <2>5. QED
    BY <2>3, <2>4, Zenon
<1> HIDE DEF b
<1>4. new = [old EXCEPT ![p].revoked = TRUE]
  <2>1. /\ DOMAIN new = DOMAIN old /\ p \in DOMAIN old
        /\ new[p] = [old[p] EXCEPT !.revoked = TRUE]
        /\ \A q \in DOMAIN old : q # p => new[q] = old[q]
    BY <1>1, <1>2, <1>3, Zenon DEF b
  <2>2. /\ new = [q \in DOMAIN new |-> new[q]]
        /\ old = [q \in DOMAIN old |-> old[q]]
    BY Zenon
  <2> HIDE DEF new, old
  <2>3. QED
    BY <2>1, <2>2, Zenon
<1>5. Reference!Revoke(b.attestor, p)
  BY <1>1, <1>4, Zenon DEF Reference!Revoke, Reference!expect_ok, b
<1>6. QED
  BY <1>1, <1>5, Zenon

\* The contract implements the reference model and answers as it predicts.
THEOREM ReferenceCorrect == Spec => ImplementsReference
<1>1. Init => Reference!ReferenceInit /\ Untouched
  BY DEF Init, EmptyStore, EmptyMap, Reference!ReferenceInit, Untouched
<1>2. ASSUME IInv, IInv', [Next]_vars
      PROVE  [Reference!ReferenceNext]_<<paused,
               [p \in DOMAIN store.attestation |-> EntryOf(store.attestation[p])], now>>
  <2>1. CASE store' = store /\ now' = now
    <3>1. paused \in BOOLEAN /\ paused' \in BOOLEAN
      BY <1>2, Zenon DEF IInv, TypeOK
    <3>2. Reference!Pause \/ Reference!Unpause
      BY <2>1, <3>1, Zenon DEF Reference!Pause, Reference!Unpause
    <3>3. QED
      BY <3>2, Zenon DEF Reference!ReferenceNext
  <2>2. CASE store' = store /\ now' # now
    <3>1. Reference!AdvanceTime
      BY <1>2, <2>2, FlagStep, Zenon DEF Reference!AdvanceTime
    <3>2. QED
      BY <3>1, Zenon DEF Reference!ReferenceNext
  <2>3. CASE store' # store /\ now' = now /\ ~paused /\ \E a \in attestors : IssueStep(a)
    <3>1. PICK a \in attestors : IssueStep(a)
      BY <2>3, Zenon
    <3>2. paused' = paused /\ a \in Address
      BY <1>2, <2>3, FlagStep, Zenon DEF IInv, TypeOK
    <3>3. \E pairs \in SUBSET Pair : Reference!Attest(a, pairs)
      BY <1>2, <2>3, <3>1, <3>2, AttestRefines, ZenonT(60)
    <3>4. QED
      BY <3>2, <3>3, Zenon DEF Reference!ReferenceNext
  <2>4. CASE store' # store /\ now' = now /\ ~paused /\ \E p \in Pair : RevokeStep(p)
    <3>1. PICK p \in Pair : RevokeStep(p)
      BY <2>4, Zenon
    <3>2. paused' = paused
      BY <1>2, <2>4, FlagStep, Zenon
    <3>3. \E caller \in Address : Reference!Revoke(caller, p)
      BY <1>2, <2>4, <3>1, <3>2, RevokeRefinesReference, Zenon
    <3>4. QED
      BY <3>3, Zenon DEF Reference!ReferenceNext
  <2>5. QED
    BY <1>2, <2>1, <2>2, <2>3, <2>4, StoreStep, ZenonT(60)
<1>3. IInv /\ Untouched /\ [Next]_vars => Untouched'
  BY UntouchedStep, Zenon
<1>4. IInv /\ Untouched => AnswersAsPredicted
  BY Predicted, Zenon
<1>5. QED
  BY <1>1, <1>2, <1>3, <1>4, SpecInv, PTL
  DEF Spec, ImplementsReference, Reference!ReferenceSpec

-----------------------------------------------------------------------------
(* Pagination.                                                              *)

\* When no key is missing, the loop of list_attestation_history returns the
\* entry of every key it asks for.
LEMMA FoundAll ==
  ASSUME NEW entries, NEW keys \in Seq(Int),
         \A i \in 1..Len(keys) : keys[i] \in DOMAIN entries
  PROVE  Found(entries, keys) = [i \in 1..Len(keys) |-> entries[keys[i]]]
<1> DEFINE len == Len(keys)
<1>0. len \in Nat
  OBVIOUS
<1> DEFINE page(n) == [j \in 1..n |-> entries[keys[j]]]
           step(r, i) == IF i = 0 THEN << >>
                         ELSE IF keys[i] \in DOMAIN entries
                         THEN Append(r[i - 1], entries[keys[i]])
                         ELSE r[i - 1]
           loop(r) == [i \in 0..len |-> step(r, i)]
           pages == [i \in 0..len |-> page(i)]
           results == CHOOSE r : r = loop(r)
<1>1. ASSUME NEW i \in 1..len
      PROVE  Append(page(i - 1), entries[keys[i]]) = page(i)
  OBVIOUS
<1>2. pages = loop(pages)
  <2>1. ASSUME NEW i \in 0..len
        PROVE  step(pages, i) = page(i)
    <3>1. CASE i = 0
      <4>1. page(0) = << >>
        OBVIOUS
      <4>2. QED
        BY <3>1, <4>1, Zenon
    <3>2. CASE i # 0
      <4>1. i \in 1..len /\ pages[i - 1] = page(i - 1)
        BY <3>2
      <4>2. QED
        BY <1>1, <3>2, <4>1, Zenon
    <3>3. QED
      BY <3>1, <3>2, Zenon
  <2>2. QED
    BY <2>1, Zenon
<1>3. results = loop(results)
  <2> HIDE DEF pages, loop
  <2>1. QED
    BY <1>2, Zenon
<1>4. results[len] = page(len)
  <2> DEFINE Bad == {i \in 0..len : results[i] # page(i)}
  <2>0. Bad \subseteq Nat
    <3> HIDE DEF results, page
    <3>1. QED
      OBVIOUS
  <2>1. SUFFICES ASSUME Bad # {} PROVE FALSE
    <3> HIDE DEF results, page
    <3>1. QED
      OBVIOUS
  <2>2. Min(Bad) \in Bad /\ \A y \in Bad : Min(Bad) =< y
    <3> HIDE DEF Bad
    <3>1. QED
      BY <2>0, <2>1, MinMember, ZenonT(30)
  <2> DEFINE m == Min(Bad)
  <2>3. m \in 0..len /\ results[m] # page(m) /\ results[m] = step(results, m)
    <3>1. m \in 0..len
      BY <2>2, Zenon
    <3> HIDE DEF m, results, step, page
    <3>2. results[m] = step(results, m)
      BY <1>3, <3>1, Zenon
    <3>3. results[m] # page(m)
      BY <2>2, Zenon DEF m
    <3>4. QED
      BY <3>1, <3>2, <3>3, Zenon
  <2>4. m # 0
    <3>1. page(0) = << >>
      OBVIOUS
    <3>2. step(results, 0) = << >>
      BY ZenonT(60)
    <3> HIDE DEF m, results, step, page
    <3>3. QED
      BY <2>3, <3>1, <3>2, Zenon
  <2>5. m \in 1..len /\ m - 1 \in 0..len /\ m - 1 \notin Bad
    <3>1. m - 1 \in Bad => m =< m - 1
      BY <2>2, Zenon
    <3> HIDE DEF Bad, m, results, step, page
    <3>2. m \in 0..len
      BY <2>3, Zenon
    <3>3. QED
      BY <2>4, <3>1, <3>2
  <2>6. results[m - 1] = page(m - 1)
    <3> HIDE DEF results, page, m
    <3>1. QED
      BY <2>5, Zenon
  <2>7. step(results, m) = Append(results[m - 1], entries[keys[m]])
    <3> HIDE DEF results, m
    <3>1. QED
      BY <2>5
  <2>8. QED
    <3> HIDE DEF results, m, page
    <3>1. QED
      BY <1>1, <2>3, <2>5, <2>6, <2>7, ZenonT(60)
<1>5. Found(entries, keys) = results[len]
  BY Zenon DEF Found
<1>6. QED
  BY <1>4, <1>5, Zenon

\* The pages before the one that holds entry n hold whole multiples of the limit.
LEMMA SkippedPages ==
  ASSUME NEW n \in Nat \ {0}, NEW limit \in Nat \ {0}
  PROVE  /\ ((n - 1) \div limit) * limit \in 0..(n - 1)
         /\ n - ((n - 1) \div limit) * limit \in 1..limit
  BY SMT

\* The smaller of two numbers.
LEMMA MinOfTwo ==
  ASSUME NEW x \in Nat, NEW y \in Nat
  PROVE  Min({x, y}) = IF x <= y THEN x ELSE y
<1>1. Min({x, y}) \in {x, y} /\ \A z \in {x, y} : Min({x, y}) =< z
  BY MinMember, Zenon
<1>2. QED
  BY <1>1

\* The pages of a pair, walked in either direction and with any limit.
LEMMA PagesComplete ==
  ASSUME IInv, NEW p \in Pair, NEW limit \in Nat \ {0}
  PROVE  PagesOf(p, limit)
<1> DEFINE total == store.seq[p]
           skipped(n) == ((n - 1) \div limit) * limit
           h == store.history[p]
<1>1. total \in Nat /\ DOMAIN h = 1..total
  BY Zenon DEF IInv, StoreInv, StoreTypeOK, HistoryTail
<1>2. ASSUME NEW n \in 1..total
      PROVE  LET s == skipped(n)
                 up == list_attestation_history(p, s + 1, limit, FALSE).page
                 down == list_attestation_history(p, total - s, limit, TRUE).page
             IN  /\ Len(up) = Min({limit, total - s})
                 /\ Len(down) = Len(up)
                 /\ up[n - s] = h[n]
                 /\ down[n - s] = h[total + 1 - n]
  <2> DEFINE s == skipped(n)
             len == Min({limit, total - s})
             upKeys == [i \in 1..len |-> s + 1 + i - 1]
             downKeys == [i \in 1..len |-> total - s - i + 1]
  <2>0. total \in Nat
    BY <1>1, Zenon
  <2>1. s \in 0..(n - 1) /\ n - s \in 1..limit
    <3>1. n \in Nat \ {0}
      BY <2>0
    <3>2. QED
      BY <3>1, SkippedPages, Zenon
  <2> HIDE DEF s
  <2>2. len \in Nat /\ len <= total - s /\ n - s \in 1..len
    BY <2>0, <2>1, MinOfTwo
  <2>3. /\ PageKeys(total, s + 1, limit, FALSE) = upKeys
        /\ PageKeys(total, total - s, limit, TRUE) = downKeys
    <3>1. total - (s + 1) + 1 = total - s
      BY <2>0, <2>1
    <3>2. QED
      BY <3>1, Zenon DEF PageKeys
  <2> HIDE DEF len
  <2>4. /\ upKeys \in Seq(Int) /\ Len(upKeys) = len
        /\ \A i \in 1..len : upKeys[i] \in DOMAIN h
        /\ downKeys \in Seq(Int) /\ Len(downKeys) = len
        /\ \A i \in 1..len : downKeys[i] \in DOMAIN h
    <3>1. \A i \in 1..len : upKeys[i] \in 1..total /\ downKeys[i] \in 1..total
      BY <2>0, <2>1, <2>2
    <3>2. upKeys \in Seq(Int) /\ downKeys \in Seq(Int)
      BY <2>0, <2>1, <2>2
    <3>3. Len(upKeys) = len /\ Len(downKeys) = len
      BY <2>2
    <3> HIDE DEF upKeys, downKeys
    <3>4. QED
      BY <1>1, <3>1, <3>2, <3>3, Zenon
  <2> HIDE DEF h
  <2>5. /\ Found(h, upKeys) = [i \in 1..len |-> h[upKeys[i]]]
        /\ Found(h, downKeys) = [i \in 1..len |-> h[downKeys[i]]]
    <3> HIDE DEF upKeys, downKeys
    <3>1. Found(h, upKeys) = [i \in 1..len |-> h[upKeys[i]]]
      <4>1. upKeys \in Seq(Int) /\ Len(upKeys) = len /\ \A i \in 1..Len(upKeys) : upKeys[i] \in DOMAIN h
        BY <2>4, Zenon
      <4>2. Found(h, upKeys) = [i \in 1..Len(upKeys) |-> h[upKeys[i]]]
        BY <4>1, FoundAll, ZenonT(60)
      <4>3. QED
        BY <4>1, <4>2, Zenon
    <3>2. Found(h, downKeys) = [i \in 1..len |-> h[downKeys[i]]]
      <4>1. downKeys \in Seq(Int) /\ Len(downKeys) = len /\ \A i \in 1..Len(downKeys) : downKeys[i] \in DOMAIN h
        BY <2>4, Zenon
      <4>2. Found(h, downKeys) = [i \in 1..Len(downKeys) |-> h[downKeys[i]]]
        BY <4>1, FoundAll, Zenon
      <4>3. QED
        BY <4>1, <4>2, Zenon
    <3>3. QED
      BY <3>1, <3>2, Zenon
  <2>6. /\ list_attestation_history(p, s + 1, limit, FALSE).page = Found(h, upKeys)
        /\ list_attestation_history(p, total - s, limit, TRUE).page = Found(h, downKeys)
    <3> HIDE DEF upKeys, downKeys
    <3>1. limit # 0 /\ total # 0 /\ ~(s + 1 > total) /\ ~(total - s > total)
      BY <2>0, <2>1
    <3>2. QED
      BY <2>3, <3>1, Zenon DEF list_attestation_history, h
  <2>7. upKeys[n - s] = n /\ downKeys[n - s] = total + 1 - n
    BY <2>0, <2>1, <2>2
  <2> HIDE DEF upKeys, downKeys
  <2>8. /\ Len(Found(h, upKeys)) = len /\ Len(Found(h, downKeys)) = len
        /\ Found(h, upKeys)[n - s] = h[n]
        /\ Found(h, downKeys)[n - s] = h[total + 1 - n]
    BY <2>2, <2>5, <2>7
  <2>9. QED
    BY <2>6, <2>8, Zenon DEF s, len
<1>3. QED
  BY <1>2, Zenon DEF PagesOf

\* A client that pages through a history meets every entry once and in order.
THEOREM PagesCorrect == Spec => []PagesCoverHistory
<1>1. IInv => PagesCoverHistory
  BY PagesComplete, ConstantsAssumption DEF PagesCoverHistory
<1>2. QED
  BY <1>1, SpecInv, PTL

-----------------------------------------------------------------------------
(* Batches *)

\* The entries for a pair are finitely many.
LEMMA ForPairFinite ==
  ASSUME NEW n \in Nat, NEW p
  PROVE  IsFiniteSet(ForPair(n, p))
<1>1. IsFiniteSet(1..n)
  BY FS_Interval
<1>2. ForPair(n, p) \subseteq 1..n
  BY Zenon DEF ForPair
<1>3. QED
  BY <1>1, <1>2, FS_Subset, Zenon

\* A turn of the loop adds its entry to the entries of one pair.
LEMMA ForPairNext ==
  ASSUME NEW n \in Nat, NEW p
  PROVE  /\ Cardinality(ForPair(n, p)) \in Nat
         /\ Cardinality(ForPair(n + 1, p)) =
              Cardinality(ForPair(n, p)) + (IF batch[n + 1].pair = p THEN 1 ELSE 0)
<1>1. IsFiniteSet(ForPair(n, p))
  BY ForPairFinite, Zenon
<1>2. n + 1 \notin ForPair(n, p)
  BY DEF ForPair
<1>3. 1..(n + 1) = (1..n) \cup {n + 1}
  OBVIOUS
<1>4. ForPair(n + 1, p) = IF batch[n + 1].pair = p THEN ForPair(n, p) \cup {n + 1}
                          ELSE ForPair(n, p)
  BY <1>3, Zenon DEF ForPair
<1>5. QED
  BY <1>1, <1>2, <1>4, FS_CardinalityType, FS_AddElement

\* The invariant of attest_batch's second loop: the working copy holds the
\* entries before the next one.
LoopInv == ~Idle => HoldsFirst(work, next - 1)

\* A turn of the loop.
LEMMA OneMore ==
  ASSUME IInv, ~Idle, HoldsFirst(work, next - 1)
  PROVE  HoldsFirst(record_attestation(work, batch[next].attestor, batch[next]),
                    next)
<1> DEFINE e == batch[next]
           a == NewAttestation(e.attestor, e)
           p == e.pair
           n == next - 1
           wk == record_attestation(work, e.attestor, e)
           place(i) == store.seq[batch[i].pair] + Cardinality(ForPair(i, batch[i].pair))
<1>1. TypeOK /\ StoreTypeOK(work) /\ HistoryTail(work) /\ StoreTypeOK(store)
  BY Zenon DEF IInv, StoreInv
<1>2. next \in DOMAIN batch /\ next \in Nat /\ e \in Submitted
  BY <1>1 DEF TypeOK
<1>3. p \in Pair
  BY <1>2, Zenon DEF Submitted
<1>4. n \in Nat /\ n + 1 = next
  BY <1>1 DEF TypeOK
<1>5. Appended(work, wk, p, a) /\ wk.count = work.count + 1
  <2>1. IsStore(work)
    BY <1>1, Zenon DEF StoreTypeOK, IsStore
  <2>2. QED
    BY <2>1, RecordFields, ZenonT(60)
<1> HIDE DEF wk, a, p
<1>6. /\ wk.seq[p] = work.seq[p] + 1
      /\ wk.history[p][work.seq[p] + 1] = AsEntry(work.seq[p] + 1, a)
      /\ \A m \in 1..work.seq[p] : wk.history[p][m] = work.history[p][m]
      /\ \A q \in Pair : q # p => /\ wk.seq[q] = work.seq[q]
                                  /\ wk.history[q] = work.history[q]
  <2> HIDE DEF e, n, place
  <2>1. PICK st, st2, r, b : st = work /\ st2 = wk /\ r = p /\ b = a
    BY Zenon
  <2>2. StoreTypeOK(st) /\ HistoryTail(st) /\ r \in Pair /\ Appended(st, st2, r, b)
    BY <1>1, <1>3, <1>5, <2>1, ZenonT(60)
  <2>3. /\ st2.seq[r] = st.seq[r] + 1
        /\ st2.history[r][st.seq[r] + 1] = AsEntry(st.seq[r] + 1, b)
        /\ \A m \in 1..st.seq[r] : st2.history[r][m] = st.history[r][m]
        /\ \A q \in Pair : q # r => /\ st2.seq[q] = st.seq[q]
                                    /\ st2.history[q] = st.history[q]
    BY <2>2, AppendedAt
  <2>4. QED
    BY <2>1, <2>3, Zenon
<1>7. /\ \A q \in Pair : store.seq[q] \in Nat /\ work.seq[q] \in Nat
      /\ store.count \in Nat
  BY <1>1, Zenon DEF StoreTypeOK
<1>8. /\ work.count = store.count + n
      /\ \A q \in Pair : work.seq[q] = store.seq[q] + Cardinality(ForPair(n, q))
      /\ \A i \in 1..n : work.history[batch[i].pair][place(i)] =
                           AsEntry(place(i), NewAttestation(batch[i].attestor, batch[i]))
  BY Zenon DEF HoldsFirst
<1> HIDE DEF n, place
<1>9. \A q : /\ Cardinality(ForPair(n, q)) \in Nat
             /\ Cardinality(ForPair(next, q)) =
                  Cardinality(ForPair(n, q)) + (IF p = q THEN 1 ELSE 0)
  BY <1>4, ForPairNext, Zenon DEF p
<1>10. wk.count = store.count + next
  <2>1. /\ wk.count = work.count + 1 /\ work.count = store.count + n
        /\ store.count \in Nat /\ n \in Nat /\ n + 1 = next
    BY <1>4, <1>5, <1>7, <1>8, ZenonT(60)
  <2>2. QED
    BY <2>1
<1>11. ASSUME NEW q \in Pair
       PROVE  /\ wk.seq[q] = store.seq[q] + Cardinality(ForPair(next, q))
              /\ q = p => wk.seq[q] = work.seq[q] + 1
  <2>1. /\ wk.seq[q] = work.seq[q] + (IF p = q THEN 1 ELSE 0)
        /\ work.seq[q] \in Nat
    <3>1. CASE q = p
      BY <1>6, <1>7, <3>1, ZenonT(60)
    <3>2. CASE q # p
      <4>1. wk.seq[q] = work.seq[q] /\ work.seq[q] \in Nat
        BY <1>6, <1>7, <3>2, Zenon
      <4>2. QED
        BY <3>2, <4>1
    <3>3. QED
      BY <3>1, <3>2, Zenon
  <2>2. /\ work.seq[q] = store.seq[q] + Cardinality(ForPair(n, q))
        /\ store.seq[q] \in Nat
    BY <1>7, <1>8, Zenon
  <2>3. /\ Cardinality(ForPair(n, q)) \in Nat
        /\ Cardinality(ForPair(next, q)) =
             Cardinality(ForPair(n, q)) + (IF p = q THEN 1 ELSE 0)
    BY <1>9, Zenon
  <2>4. QED
    BY <2>1, <2>2, <2>3
<1>12. ASSUME NEW i \in 1..next
       PROVE  wk.history[batch[i].pair][place(i)] =
                AsEntry(place(i), NewAttestation(batch[i].attestor, batch[i]))
  <2>1. CASE i = next
    <3>1. place(i) = store.seq[p] + Cardinality(ForPair(next, p))
      BY <2>1, Zenon DEF place, p
    <3>2. place(i) = work.seq[p] + 1
      BY <1>3, <1>11, <3>1, Zenon
    <3>3. QED
      BY <1>6, <2>1, <3>2, Zenon DEF a, p
  <2>2. CASE i # next
    <3>1. i \in 1..n /\ i \in DOMAIN batch /\ batch[i].pair \in Pair
      <4>1. batch \in Seq(Submitted)
        BY <1>1, Zenon DEF TypeOK
      <4>2. i \in 1..n
        BY <1>4, <2>2
      <4>3. i \in DOMAIN batch
        BY <1>2, <4>1
      <4>4. batch[i] \in Submitted
        BY <4>1, <4>3
      <4>5. QED
        BY <4>2, <4>3, <4>4, Zenon DEF Submitted
    <3>2. work.history[batch[i].pair][place(i)] =
            AsEntry(place(i), NewAttestation(batch[i].attestor, batch[i]))
      BY <1>8, <3>1, Zenon
    <3>3. CASE batch[i].pair # p
      BY <1>6, <3>1, <3>2, <3>3, Zenon
    <3>4. CASE batch[i].pair = p
      <4>1. ForPair(i, p) \subseteq ForPair(n, p) /\ i \in ForPair(i, p)
        BY <1>4, <3>1, <3>4 DEF ForPair
      <4>2. IsFiniteSet(ForPair(n, p)) /\ IsFiniteSet(ForPair(i, p))
        BY <1>4, <3>1, ForPairFinite
      <4>3. /\ Cardinality(ForPair(i, p)) <= Cardinality(ForPair(n, p))
            /\ Cardinality(ForPair(i, p)) \in Nat
            /\ Cardinality(ForPair(i, p)) # 0
        BY <4>1, <4>2, FS_Subset, FS_CardinalityType, FS_EmptySet
      <4>4. place(i) = store.seq[p] + Cardinality(ForPair(i, p))
        BY <3>4, Zenon DEF place
      <4>5. work.seq[p] = store.seq[p] + Cardinality(ForPair(n, p)) /\ store.seq[p] \in Nat
        BY <1>3, <1>7, <1>8, Zenon
      <4>6. Cardinality(ForPair(n, p)) \in Nat
        BY <1>9, Zenon
      <4>7. place(i) \in 1..work.seq[p]
        BY <4>3, <4>4, <4>5, <4>6
      <4>8. QED
        BY <1>6, <3>2, <3>4, <4>7, ZenonT(60)
    <3>5. QED
      BY <3>3, <3>4, Zenon
  <2>3. QED
    BY <2>1, <2>2, Zenon
<1>13. QED
  BY <1>10, <1>11, <1>12, Zenon DEF HoldsFirst, wk, place

\* The loop's invariant is kept.
LEMMA LoopInvKept == IInv /\ LoopInv /\ [Next]_vars => LoopInv'
<1> SUFFICES ASSUME IInv, LoopInv, [Next]_vars, ~Idle' PROVE HoldsFirst(work, next - 1)'
  BY Zenon DEF LoopInv
<1>1. CASE ~Idle /\ UNCHANGED <<now, store, work, batch, next>>
  BY <1>1, ZenonT(60) DEF LoopInv, HoldsFirst, ForPair, NewAttestation
<1>2. ASSUME NEW a \in Address, NEW entries \in BatchArg, AttestBatch(a, entries)
      PROVE  HoldsFirst(work, next - 1)'
  <2>1. next' = 1 /\ work' = work /\ store' = store /\ work = store
    BY <1>2, Zenon DEF AttestBatch, IInv, BatchAllowed
  <2>2. \A p : ForPair(0, p)' = {}
    BY DEF ForPair
  <2>3. store.count \in Nat /\ \A p \in Pair : store.seq[p] \in Nat
    BY Zenon DEF IInv, StoreInv, StoreTypeOK
  <2>4. Cardinality({}) = 0
    BY FS_EmptySet, Zenon
  <2>5. next' - 1 = 0
    BY <2>1
  <2>6. store'.count = store'.count + 0
    BY <2>1, <2>3
  <2>7. \A p \in Pair : store'.seq[p] = store'.seq[p] + Cardinality(ForPair(0, p)')
    BY <2>1, <2>2, <2>3, <2>4
  <2>8. \A i : i \notin 1..0
    OBVIOUS
  <2>9. HoldsFirst(work, 0)'
    BY <2>1, <2>6, <2>7, <2>8, Zenon DEF HoldsFirst
  <2>10. QED
    BY <2>5, <2>9, Zenon
<1>3. CASE BatchRecord
  <2> DEFINE wk == record_attestation(work, batch[next].attestor, batch[next])
  <2>1. /\ ~Idle /\ work' = wk /\ store' = store /\ batch' = batch /\ now' = now
        /\ next' = next + 1
    BY <1>3, Zenon DEF BatchRecord, EndBatch, Idle
  <2>2. HoldsFirst(wk, next)
    BY <2>1, OneMore, Zenon DEF LoopInv
  <2>3. next \in Nat
    BY DEF IInv, TypeOK
  <2>4. next' - 1 = next
    BY <2>1, <2>3
  <2> HIDE DEF wk
  <2>5. QED
    BY <2>1, <2>2, <2>4, Zenon DEF HoldsFirst, ForPair, NewAttestation
<1>4. ~Idle => BatchRecord \/ BatchAbort \/ UNCHANGED vars
  BY Zenon DEF Next, Initialize, AsAdmin, SetAdmin, AddAttestor, RemoveAttestor, Pause,
         Unpause, SetPaused, SetDefaultMaxAttestationTtl, SetMaxAttestationTtl,
         SetCap, Attest, AttestBatch, Revoke, Tick
<1>5. ~BatchAbort
  BY Zenon DEF BatchAbort, EndBatch, Idle
<1>6. Idle => \E a \in Address, entries \in BatchArg : AttestBatch(a, entries)
  BY Zenon DEF Next, Initialize, SetAdmin, AddAttestor, RemoveAttestor, Pause,
         Unpause, SetPaused, SetDefaultMaxAttestationTtl, SetMaxAttestationTtl,
         SetCap, Attest, Revoke, Tick, DataUnchanged, BatchRecord, BatchAbort,
         Idle, vars
<1>7. QED
  BY <1>1, <1>2, <1>3, <1>4, <1>5, <1>6, ZenonT(60) DEF vars

\* A step that changes the data while a batch runs commits the whole batch.
THEOREM BatchCorrect == Spec => BatchAllOrNothing
<1>1. Init => LoopInv
  BY Zenon DEF Init, LoopInv, Idle
<1>2. ASSUME IInv, LoopInv, [Next]_vars PROVE BatchStep
  <2> SUFFICES ASSUME ~Idle, store' # store PROVE HoldsFirst(store', Len(batch))
    BY Zenon DEF BatchStep
  <2>1. BatchRecord
    BY <1>2, Zenon
    DEF Next, Initialize, AsAdmin, SetAdmin, AddAttestor, RemoveAttestor, Pause,
        Unpause, SetPaused, SetDefaultMaxAttestationTtl, SetMaxAttestationTtl,
        SetCap, Attest, AttestBatch, Revoke, Tick, BatchAbort, vars
  <2>2. /\ store' = record_attestation(work, batch[next].attestor, batch[next])
        /\ next = Len(batch)
    BY <2>1, Zenon DEF BatchRecord
  <2>3. QED
    BY <1>2, <2>2, OneMore, Zenon DEF LoopInv
<1>3. QED
  BY <1>1, <1>2, LoopInvKept, SpecInv, PTL DEF Spec, BatchAllOrNothing

\* While the contract is paused no step changes what it has recorded.
THEOREM PauseFreezes == Spec => [][paused => store' = store]_vars
<1>1. ASSUME IInv, [Next]_vars PROVE paused => store' = store
  BY <1>1, StoreStep, Zenon
<1>2. QED
  BY <1>1, SpecInv, PTL DEF Spec

=============================================================================
