--------------------------- MODULE ComponentProofs ---------------------------
(***************************************************************************)
(* The rent of the contract's storage, the scanner of domains, the SDK's   *)
(* transaction stream and the developer panel, for every value of the      *)
(* constants and every input.                                              *)
(*                                                                         *)
(* Rent: an entry that is written keeps at least its threshold (bought,    *)
(* set_attestor), whatever it had before.  An operator whose period is no  *)
(* longer than the smallest threshold therefore always returns before the  *)
(* entry runs out.                                                         *)
(* The domain scanner: the loop invariant says what the scanned prefix is  *)
(* known to satisfy, and each early return contradicts one clause of       *)
(* Hostname.                                                               *)
(* The stream: what each activity implies about its mode, its flags and    *)
(* the events that it has reported.                                        *)
(* The panel: what a handler captured is still the latest while its        *)
(* request is on its way.                                                  *)
(***************************************************************************)
EXTENDS StorageRent, DomainValidator, TransactionStream, RequestPanel, TLAPS

\* A half is a natural number no greater than the whole.
LEMMA Half ==
  ASSUME NEW n \in Nat
  PROVE  /\ n \div 2 \in Nat
         /\ n \div 2 <= n
         /\ n \in Nat \ {0} => n \div 2 < n
  OBVIOUS

\* Halving is monotone.
LEMMA HalfMonotone ==
  ASSUME NEW m \in Nat, NEW n \in Nat, m <= n
  PROVE  m \div 2 <= n \div 2
  OBVIOUS

\* Dividing a time by SECONDS_PER_LEDGER gives a number of ledgers.
LEMMA Ledgers ==
  ASSUME NEW n \in Nat
  PROVE  n \div SECONDS_PER_LEDGER \in Nat
  BY RentAssumption

\* attestation_extend_to clamps to its two bounds.
LEMMA ExtendTo ==
  ASSUME NEW r \in Nat
  PROVE  attestation_extend_to(r) \in
           MIN_ATTESTATION_TTL_EXTEND_TO..MAX_ENTRY_TTL_LEDGERS
  BY Ledgers, RentAssumption DEF attestation_extend_to

\* What is left of a lifetime is never negative.
LEMMA RemainingType ==
  ASSUME NEW e \in Nat, ledger \in Nat
  PROVE  remaining(e) \in Nat
  <1>1. timestamp \in Nat
    BY RentAssumption DEF timestamp
  <1> QED
    BY <1>1 DEF remaining

\* An entry that exists, or is created by set, exists afterwards.
LEMMA SetType ==
  ASSUME NEW l \in Nat, ledger \in Nat \ {0}
  PROVE  set(l) \in Nat \ {0}
  BY RentAssumption DEF set

\* extend_ttl never shortens, and leaves the entry its threshold or all
\* that was asked for.
LEMMA Extended ==
  ASSUME NEW l \in Nat \ {0}, NEW t \in Nat, NEW e \in Nat, ledger \in Nat
  PROVE  /\ extend_ttl(l, t, e) \in Nat \ {0}
         /\ extend_ttl(l, t, e) >= l
         /\ \/ extend_ttl(l, t, e) > ledger + t
            \/ extend_ttl(l, t, e) >= ledger + e
            \/ extend_ttl(l, t, e) >= ledger + MAX_ENTRY_TTL_LEDGERS - 1
  BY RentAssumption DEF extend_ttl

\* A write of an attestation or history entry leaves it half a minimum
\* window at least.
LEMMA Bought ==
  ASSUME NEW l \in Nat, NEW e \in Nat, ledger \in Nat \ {0}
  PROVE  /\ bought(l, e) \in Nat \ {0}
         /\ bought(l, e) >= ledger + MIN_ATTESTATION_TTL_EXTEND_TO \div 2
  <1> DEFINE x == attestation_extend_to(remaining(e))
             M == MIN_ATTESTATION_TTL_EXTEND_TO
             b == extend_ttl(set(l), x \div 2, x)
  <1>1. x \in Nat /\ M <= x /\ M \in Nat \ {0}
    BY ExtendTo, RemainingType, RentAssumption
  <1>2. /\ x \div 2 \in Nat
        /\ M \div 2 \in Nat
        /\ M \div 2 <= x \div 2
        /\ M \div 2 < M
    BY <1>1, Half, HalfMonotone, Zenon
  <1>3. set(l) \in Nat \ {0}
    BY SetType, Zenon
  <1>4. bought(l, e) = b
    BY Zenon DEF bought, threshold
  <1> HIDE DEF x
  <1>5. /\ b \in Nat \ {0}
        /\ \/ b > ledger + (x \div 2)
           \/ b >= ledger + x
           \/ b >= ledger + MAX_ENTRY_TTL_LEDGERS - 1
    BY <1>1, <1>2, <1>3, Extended, Zenon
  <1> HIDE DEF b, M
  <1>6. M <= MAX_ENTRY_TTL_LEDGERS - 1 /\ MAX_ENTRY_TTL_LEDGERS \in Nat
    BY RentAssumption DEF M
  <1>7. b >= ledger + (M \div 2)
    BY <1>1, <1>2, <1>5, <1>6
  <1> QED
    BY <1>4, <1>5, <1>7, Zenon DEF M

\* A write of the allow-list entry leaves it its threshold at least.
LEMMA AttestorBought ==
  ASSUME NEW l \in Nat, ledger \in Nat \ {0}
  PROVE  /\ set_attestor(l) \in Nat \ {0}
         /\ set_attestor(l) >= ledger + ATTESTOR_TTL_THRESHOLD
  <1> DEFINE T == ATTESTOR_TTL_THRESHOLD
             X == MAX_ENTRY_TTL_LEDGERS
             b == extend_ttl(set(l), T, X)
  <1>1. T \in Nat /\ X \in Nat /\ T <= X - 1
    BY RentAssumption
  <1>2. set(l) \in Nat \ {0}
    BY SetType, Zenon
  <1>3. /\ b \in Nat \ {0}
        /\ b > ledger + T \/ b >= ledger + X \/ b >= ledger + X - 1
    BY <1>1, <1>2, Extended, Zenon
  <1> HIDE DEF b
  <1>4. b >= ledger + T
    BY <1>1, <1>3
  <1> QED
    BY <1>3, <1>4, Zenon DEF set_attestor, b

-----------------------------------------------------------------------------
AttestorHasThreshold ==
  attestor # 0 => attestor >= attestorAt + ATTESTOR_TTL_THRESHOLD

\* What every write re-establishes and no other step disturbs.
RentInv == EntriesOK /\ HalfWindow /\ AttestorHasThreshold

\* The last entry of a non-empty history is a history record.
LEMMA CurrentType ==
  ASSUME history \in Seq(HistoryRecord), history # << >>
  PROVE  /\ Current \in HistoryRecord
         /\ Current.expires_at \in Nat
         /\ Len(history) \in Nat \ {0}
  <1>1. Len(history) \in Nat \ {0}
    OBVIOUS
  <1>2. history[Len(history)] \in HistoryRecord
    BY <1>1
  <1>3. \A r \in HistoryRecord : r.expires_at \in Nat
    BY Zenon DEF HistoryRecord
  <1> QED
    BY <1>1, <1>2, <1>3, Zenon DEF Current

\* A call that writes the attestation, and appends a history entry for it,
\* keeps the invariant.
LEMMA WriteKeepsInv ==
  ASSUME RentInv, NEW e \in Nat, NEW s \in {"Active", "Revoked"},
         set_attestation(e), push_attestation_history(e, s),
         AttestorUnchanged, UNCHANGED ledger
  PROVE  RentInv'
  <1>1. /\ ledger \in Nat \ {0} /\ attestation \in Nat /\ seq \in Nat
        /\ history \in Seq(HistoryRecord)
    BY Zenon DEF RentInv, EntriesOK
  <1>2. /\ attestation' \in Nat \ {0}
        /\ attestation' >= ledger + MIN_ATTESTATION_TTL_EXTEND_TO \div 2
        /\ attestationAt' = ledger
    BY <1>1, Bought, Zenon DEF set_attestation
  <1>3. seq' \in Nat \ {0}
    BY <1>1, SetType, Zenon DEF push_attestation_history
  <1>4. bought(0, e) \in Nat
    BY <1>1, Bought, Zenon
  <1>5. history' \in Seq(HistoryRecord) /\ history' # << >>
    <2> DEFINE r == [at |-> ledger, expires_at |-> e, status |-> s,
                     live |-> bought(0, e)]
    <2>1. r \in HistoryRecord
      BY <1>1, <1>4, Zenon DEF HistoryRecord
    <2>2. history' = Append(history, r)
      BY Zenon DEF push_attestation_history
    <2> HIDE DEF r
    <2> QED
      BY <1>1, <2>1, <2>2
  <1>6. EntriesOK'
    BY <1>1, <1>2, <1>3, <1>5 DEF RentInv, EntriesOK, AttestorUnchanged
  <1>7. HalfWindow'
    BY <1>2, Zenon DEF HalfWindow
  <1> QED
    BY <1>6, <1>7, Zenon DEF RentInv, AttestorHasThreshold, AttestorUnchanged

\* Renewing the attestation keeps the invariant.
LEMMA RenewKeepsInv ==
  ASSUME RentInv, RenewAttestation
  PROVE  RentInv'
  <1>1. /\ ledger \in Nat \ {0} /\ attestation \in Nat
        /\ history \in Seq(HistoryRecord) /\ history # << >>
    BY Zenon DEF RentInv, EntriesOK, RenewAttestation
  <1>2. Current.expires_at \in Nat
    BY <1>1, CurrentType, Zenon
  <1>3. /\ attestation' \in Nat \ {0}
        /\ attestation' >= ledger + MIN_ATTESTATION_TTL_EXTEND_TO \div 2
        /\ attestationAt' = ledger
    BY <1>1, <1>2, Bought, Zenon DEF RenewAttestation, set_attestation
  <1>4. EntriesOK'
    BY <1>1, <1>3 DEF RentInv, EntriesOK, RenewAttestation, AttestorUnchanged
  <1>5. HalfWindow'
    BY <1>3, Zenon DEF HalfWindow
  <1> QED
    BY <1>4, <1>5, Zenon DEF RentInv, AttestorHasThreshold, AttestorUnchanged, RenewAttestation

\* Writing the allow-list entry keeps the invariant.
LEMMA SetAttestorKeepsInv ==
  ASSUME RentInv, attestor' = set_attestor(attestor), attestorAt' = ledger,
         AttestationUnchanged, UNCHANGED ledger
  PROVE  RentInv'
  <1>1. ledger \in Nat \ {0} /\ attestor \in Nat
    BY Zenon DEF RentInv, EntriesOK
  <1>2. attestor' \in Nat \ {0} /\ attestor' >= ledger + ATTESTOR_TTL_THRESHOLD
    BY <1>1, AttestorBought, Zenon
  <1>3. EntriesOK'
    BY <1>1, <1>2 DEF RentInv, EntriesOK, AttestationUnchanged
  <1>4. HalfWindow'
    BY Zenon DEF RentInv, HalfWindow, AttestationUnchanged
  <1> QED
    BY <1>2, <1>3, <1>4, Zenon DEF RentInv, AttestorHasThreshold

\* A restored entry is live for at least the current ledger, so restoring
\* never moves the end of an entry's life back.
LEMMA RestoreKeepsInv ==
  ASSUME RentInv,
         \/ RestoreAttestor \/ RestoreAttestation \/ RestoreSeq
         \/ \E i \in 1..Len(history) : RestoreHistory(i)
  PROVE  RentInv'
  <1>1. EntriesOK /\ HalfWindow /\ AttestorHasThreshold
    BY Zenon DEF RentInv
  <1>2. Restored \in Nat \ {0} /\ Restored >= ledger
    BY <1>1, RentAssumption DEF Restored, EntriesOK
  <1>3. /\ MIN_ATTESTATION_TTL_EXTEND_TO \div 2 \in Nat
        /\ ATTESTOR_TTL_THRESHOLD \in Nat
    BY Half, RentAssumption
  <1>4. CASE RestoreAttestor
    <2>1. EntriesOK'
      BY <1>1, <1>2, <1>4, Zenon DEF EntriesOK, RestoreAttestor, AttestationUnchanged
    <2>2. HalfWindow'
      BY <1>1, <1>4, Zenon DEF HalfWindow, RestoreAttestor, AttestationUnchanged
    <2>3. AttestorHasThreshold'
      BY <1>1, <1>2, <1>3, <1>4 DEF AttestorHasThreshold, RestoreAttestor, Usable, EntriesOK
    <2> QED
      BY <2>1, <2>2, <2>3, Zenon DEF RentInv
  <1>5. CASE RestoreAttestation
    <2>1. EntriesOK'
      BY <1>1, <1>2, <1>5, Zenon DEF EntriesOK, RestoreAttestation, AttestorUnchanged, Usable
    <2>2. HalfWindow'
      BY <1>1, <1>2, <1>3, <1>5 DEF HalfWindow, RestoreAttestation, Usable, EntriesOK
    <2>3. AttestorHasThreshold'
      BY <1>1, <1>5, Zenon DEF AttestorHasThreshold, RestoreAttestation, AttestorUnchanged
    <2> QED
      BY <2>1, <2>2, <2>3, Zenon DEF RentInv
  <1>6. CASE RestoreSeq
    BY <1>1, <1>2, <1>6, Zenon DEF RentInv, EntriesOK, HalfWindow, AttestorHasThreshold,
       RestoreSeq, AttestorUnchanged, Usable
  <1>7. CASE \E i \in 1..Len(history) : RestoreHistory(i)
    <2>1. PICK i \in 1..Len(history) : RestoreHistory(i)
      BY <1>7, Zenon
    <2>2. history[i] \in HistoryRecord /\ history # << >>
      BY <1>1 DEF EntriesOK
    <2>3. [history[i] EXCEPT !.live = Restored] \in HistoryRecord
      BY <1>2, <2>2, Zenon DEF HistoryRecord
    <2>4. history' \in Seq(HistoryRecord) /\ history' # << >>
      BY <1>1, <2>1, <2>2, <2>3 DEF EntriesOK, RestoreHistory
    <2> QED
      BY <1>1, <2>1, <2>2, <2>4, Zenon DEF RentInv, EntriesOK, HalfWindow,
         AttestorHasThreshold, RestoreHistory, AttestorUnchanged
  <1> QED
    BY <1>4, <1>5, <1>6, <1>7, Zenon

\* Every step keeps the invariant.
LEMMA NextKeepsRentInv ==
  ASSUME RentInv, [Next]_vars
  PROVE  RentInv'
  <1>0. /\ ledger \in Nat \ {0} /\ history \in Seq(HistoryRecord)
        /\ timestamp \in Nat
    BY RentAssumption DEF RentInv, EntriesOK, timestamp
  <1>1. ASSUME NEW ttl_seconds \in TtlArg, Attest(ttl_seconds)
        PROVE  RentInv'
    <2>1. timestamp + ttl_seconds \in Nat
      BY <1>0, RentAssumption
    <2> QED
      BY <1>1, <2>1, WriteKeepsInv, Zenon DEF Attest
  <1>2. CASE Revoke
    <2>1. Current.expires_at \in Nat
      BY <1>0, <1>2, CurrentType, Zenon DEF Revoke
    <2> QED
      BY <1>2, <2>1, WriteKeepsInv, Zenon DEF Revoke
  <1>3. CASE AddAttestor \/ RenewAttestor
    BY <1>3, SetAttestorKeepsInv, Zenon DEF AddAttestor, RenewAttestor
  <1>4. CASE RemoveAttestor
    BY <1>4, Zenon DEF RemoveAttestor, RentInv, EntriesOK, HalfWindow,
       AttestorHasThreshold, AttestationUnchanged
  <1>5. CASE CloseLedger
    BY <1>5 DEF CloseLedger, RentInv, EntriesOK, HalfWindow,
       AttestorHasThreshold, AttestationUnchanged, AttestorUnchanged
  <1>6. CASE UNCHANGED vars
    BY <1>6, Zenon DEF vars, RentInv, EntriesOK, HalfWindow, AttestorHasThreshold
  <1> QED
    BY <1>1, <1>2, <1>3, <1>4, <1>5, <1>6, RenewKeepsInv, RestoreKeepsInv, Zenon DEF Next

\* RentInv holds in every reachable state.
THEOREM RentInvariant == Spec => []RentInv
  <1>1. Init => RentInv
    BY RentAssumption DEF Init, RentInv, EntriesOK, HalfWindow, AttestorHasThreshold
  <1>2. RentInv /\ [Next]_vars => RentInv'
    BY NextKeepsRentInv, Zenon
  <1> QED
    BY <1>1, <1>2, PTL DEF Spec

-----------------------------------------------------------------------------
\* An operator who renews does so in time: a valid attestation and a registered
\* attestor were last written at most RenewEvery ledgers ago.
Punctual ==
  renews =>
    /\ Valid => ledger - attestationAt <= RenewEvery
    /\ attestor # 0 => ledger - attestorAt <= RenewEvery

\* Ledger times grow with ledger numbers.
LEMMA TimeGrows ==
  ASSUME ledger \in Nat, ledger' = ledger + 1
  PROVE  timestamp \in Nat /\ timestamp' \in Nat /\ timestamp <= timestamp'
  <1>1. timestamp' = timestamp + SECONDS_PER_LEDGER
    BY RentAssumption DEF timestamp
  <1>2. timestamp \in Nat
    BY RentAssumption DEF timestamp
  <1> QED
    BY <1>1, <1>2, RentAssumption

\* Every step keeps the operator punctual.
LEMMA NextKeepsPunctual ==
  ASSUME RentInv, Punctual, [Next]_vars
  PROVE  Punctual'
  <1> SUFFICES ASSUME renews, renews'
               PROVE  Punctual'
    BY Zenon DEF Punctual, Next, vars
  <1>0. /\ ledger \in Nat \ {0} /\ attestationAt \in 0..ledger
        /\ attestorAt \in 0..ledger /\ history \in Seq(HistoryRecord)
        /\ RenewEvery \in Nat \ {0}
    BY RentAssumption, Zenon DEF RentInv, EntriesOK
  <1>1. ASSUME attestationAt' = ledger, ledger' = ledger, AttestorUnchanged
        PROVE  Punctual'
    BY <1>0, <1>1 DEF Punctual, AttestorUnchanged
  <1>2. ASSUME attestorAt' = ledger \/ attestor' = 0, ledger' = ledger, AttestationUnchanged
        PROVE  Punctual'
    <2>1. Valid' <=> Valid
      BY <1>2, Zenon DEF Valid, Current, timestamp, AttestationUnchanged
    <2> QED
      BY <1>0, <1>2, <2>1 DEF Punctual, AttestationUnchanged
  <1>3. CASE RestoreAttestor \/ RestoreAttestation \/ RestoreSeq
    <2>1. /\ history' = history /\ ledger' = ledger
          /\ attestationAt' = attestationAt /\ attestorAt' = attestorAt
          /\ attestor' # 0 => attestor # 0
      BY <1>3, Zenon DEF RestoreAttestor, RestoreAttestation, RestoreSeq, Usable,
         AttestationUnchanged, AttestorUnchanged
    <2>2. Valid' <=> Valid
      BY <2>1, Zenon DEF Valid, Current, timestamp
    <2> QED
      BY <2>1, <2>2, Zenon DEF Punctual
  <1>4. ASSUME NEW i \in 1..Len(history), RestoreHistory(i)
        PROVE  Punctual'
    <2>1. /\ ledger' = ledger /\ AttestorUnchanged
          /\ attestationAt' = attestationAt
          /\ history' = [history EXCEPT ![i].live = Restored]
      BY <1>4, Zenon DEF RestoreHistory
    <2>2. /\ Len(history') = Len(history)
          /\ history # << >>
          /\ Len(history) \in 1..Len(history)
      BY <1>0, <2>1
    <2>3. history[i] \in HistoryRecord
      BY <1>0
    <2>4. \A r \in HistoryRecord :
            /\ [r EXCEPT !.live = Restored].status = r.status
            /\ [r EXCEPT !.live = Restored].expires_at = r.expires_at
      BY Zenon DEF HistoryRecord
    <2>5. /\ history'[Len(history)].status = history[Len(history)].status
          /\ history'[Len(history)].expires_at = history[Len(history)].expires_at
      <3>1. CASE Len(history) = i
        BY <1>0, <2>1, <2>2, <2>3, <2>4, <3>1
      <3>2. CASE Len(history) # i
        BY <1>0, <2>1, <2>2, <3>2
      <3> QED
        BY <3>1, <3>2, Zenon
    <2>6. Valid' => Valid
      BY <2>1, <2>2, <2>5, Zenon DEF Valid, Current, timestamp
    <2> QED
      BY <2>1, <2>6, Zenon DEF Punctual, AttestorUnchanged
  <1>5. CASE CloseLedger
    <2>1. /\ ledger' = ledger + 1 /\ history' = history
          /\ attestationAt' = attestationAt /\ AttestorUnchanged
          /\ ~RenewalDue
      BY <1>5, Zenon DEF CloseLedger, AttestationUnchanged
    <2>2. ASSUME Valid' PROVE Valid
      <3>1. history # << >> /\ Current.status = "Active" /\ Current' = Current
        BY <2>1, <2>2, Zenon DEF Valid, Current
      <3>2. timestamp' < Current.expires_at
        BY <2>2, <3>1, Zenon DEF Valid
      <3>3. Current.expires_at \in Nat
        BY <1>0, <3>1, CurrentType, Zenon
      <3>4. timestamp < Current.expires_at
        BY <1>0, <2>1, <3>2, <3>3, TimeGrows
      <3> QED
        BY <3>1, <3>4, Zenon DEF Valid
    <2>3. Valid => ledger - attestationAt < RenewEvery
      BY <1>0, <2>1 DEF RenewalDue
    <2>4. attestor # 0 => ledger - attestorAt < RenewEvery
      BY <1>0, <2>1 DEF RenewalDue
    <2> QED
      BY <1>0, <2>1, <2>2, <2>3, <2>4 DEF Punctual, AttestorUnchanged
  <1>6. CASE UNCHANGED vars
    <2>1. Valid' <=> Valid
      BY <1>6, Zenon DEF vars, Valid, Current, timestamp
    <2> QED
      BY <1>6, <2>1, Zenon DEF vars, Punctual
  <1>7. CASE \/ \E ttl_seconds \in TtlArg : Attest(ttl_seconds)
             \/ Revoke \/ RenewAttestation
    BY <1>1, <1>7, Zenon DEF Attest, Revoke, RenewAttestation, set_attestation
  <1>8. CASE AddAttestor \/ RemoveAttestor \/ RenewAttestor
    BY <1>2, <1>8, Zenon DEF AddAttestor, RemoveAttestor, RenewAttestor
  <1> QED
    BY <1>3, <1>4, <1>5, <1>6, <1>7, <1>8, Zenon DEF Next

\* An operator who renews is always punctual.
LEMMA AlwaysPunctual == Spec => []Punctual
  <1>1. Init => Punctual
    BY Zenon DEF Init, Punctual, Valid
  <1>2. RentInv /\ Punctual /\ [Next]_vars => Punctual'
    BY NextKeepsPunctual, Zenon
  <1> QED
    BY <1>1, <1>2, RentInvariant, PTL DEF Spec

\* The storage layer's variables keep their types, and an attestation, its
\* counter and its history exist together (record_attestation, revoke).
THEOREM RentTypeCorrect == Spec => []TypeOK
  <1>1. Init => renews \in BOOLEAN
    BY Zenon DEF Init
  <1>2. renews \in BOOLEAN /\ [Next]_vars => (renews \in BOOLEAN)'
    BY Zenon DEF Next, vars
  <1>3. RentInv /\ renews \in BOOLEAN => TypeOK
    BY Zenon DEF RentInv, TypeOK
  <1> QED
    BY <1>1, <1>2, <1>3, RentInvariant, PTL DEF Spec

\* Every write of an attestation leaves it at least half the minimum window
\* of rent (attestation_ttl_window, set_attestation).
THEOREM HalfWindowCorrect == Spec => []HalfWindow
  <1>1. RentInv => HalfWindow
    BY Zenon DEF RentInv
  <1> QED
    BY <1>1, RentInvariant, PTL

\* With a renewal period of at most half the minimum window, no valid
\* attestation is ever archived (renew_attestation), for every ttl_seconds,
\* every network minimum and every ceiling.
THEOREM RenewedAttestationCorrect ==
  ASSUME RenewEvery <= MIN_ATTESTATION_TTL_EXTEND_TO \div 2
  PROVE  Spec => []RenewedAttestationIsLive
  <1>1. RentInv /\ Punctual => RenewedAttestationIsLive
    <2> SUFFICES ASSUME RentInv, Punctual, renews, Valid
                 PROVE  Usable(attestation)
      BY Zenon DEF RenewedAttestationIsLive
    <2>1. /\ ledger \in Nat /\ attestationAt \in Nat /\ attestation \in Nat
          /\ RenewEvery \in Nat
      BY RentAssumption DEF RentInv, EntriesOK
    <2>2. MIN_ATTESTATION_TTL_EXTEND_TO \div 2 \in Nat
      BY Half, RentAssumption, Zenon
    <2>3. attestation >= attestationAt + MIN_ATTESTATION_TTL_EXTEND_TO \div 2
      BY Zenon DEF RentInv, HalfWindow, Valid
    <2>4. ledger - attestationAt <= RenewEvery
      BY Zenon DEF Punctual
    <2> QED
      BY <2>1, <2>2, <2>3, <2>4 DEF Usable
  <1> QED
    BY <1>1, RentInvariant, AlwaysPunctual, PTL

\* With a renewal period of at most ATTESTOR_TTL_THRESHOLD, no registered
\* attestor is ever archived out of the allow-list (renew_attestor).
THEOREM RenewedAttestorCorrect ==
  ASSUME RenewEvery <= ATTESTOR_TTL_THRESHOLD
  PROVE  Spec => []RenewedAttestorIsLive
  <1>1. RentInv /\ Punctual => RenewedAttestorIsLive
    BY RentAssumption DEF RentInv, EntriesOK, AttestorHasThreshold, Punctual,
       RenewedAttestorIsLive, Usable
  <1> QED
    BY <1>1, RentInvariant, AlwaysPunctual, PTL

-----------------------------------------------------------------------------
\* A quotient is below every bound whose multiple exceeds the dividend.
LEMMA DivBelow ==
  ASSUME NEW S \in Nat \ {0}, NEW a \in Int, NEW b \in Int, a < b * S
  PROVE  a \div S \in Int /\ a \div S < b
  <1> DEFINE q == a \div S
  <1>1. q \in Int /\ q * S <= a
    OBVIOUS
  <1> HIDE DEF q
  <1>2. q * S < b * S
    BY <1>1
  <1>3. q < b
    <2> SUFFICES ASSUME q >= b PROVE FALSE
      BY <1>1
    <2>1. (q - b) * S \in Nat
      BY <1>1
    <2>2. (q - b) * S = q * S - b * S
      BY <1>1
    <2> QED
      BY <1>1, <1>2, <2>1, <2>2
  <1> QED
    BY <1>1, <1>3, Zenon DEF q

\* The ledgers of the remaining lifetime, counted from now, reach the last
\* ledger at which the attestation is valid: rounding down loses nothing.
LEMMA LifetimeCovered ==
  ASSUME NEW e \in Nat, ledger \in Nat
  PROVE  /\ LastValidLedger(e) \in Int
         /\ LastValidLedger(e) <= ledger + remaining(e) \div SECONDS_PER_LEDGER
  <1> DEFINE S == SECONDS_PER_LEDGER
             q == remaining(e) \div S
  <1>1. S \in Nat \ {0}
    BY RentAssumption, Zenon
  <1>2. remaining(e) \in Nat
    BY RemainingType, Zenon
  <1>3. e <= ledger * S + remaining(e)
    BY <1>1 DEF remaining, timestamp
  <1>4. q \in Nat
    BY <1>2, Ledgers, Zenon
  <1>5. remaining(e) < (q + 1) * S
    BY <1>1, <1>2
  <1> HIDE DEF S, q
  <1>6. ledger * S + (q + 1) * S = (ledger + q + 1) * S
    BY <1>1, <1>4
  <1>7. ledger * S \in Nat /\ (q + 1) * S \in Nat
    BY <1>1, <1>4
  <1>8. e - 1 < (ledger + q + 1) * S
    BY <1>2, <1>3, <1>5, <1>6, <1>7
  <1>9. (e - 1) \div S \in Int /\ (e - 1) \div S < ledger + q + 1
    BY <1>1, <1>4, <1>8, DivBelow
  <1> QED
    BY <1>4, <1>9 DEF LastValidLedger, S, q

\* What a first write buys, when the network's minimum is within the
\* threshold: the window asked for, up to the ceiling.
LEMMA FirstWrite ==
  ASSUME NEW e \in Nat, ledger \in Nat \ {0},
         MinPersistentTtl - 1 <= MIN_ATTESTATION_TTL_EXTEND_TO \div 2
  PROVE  \/ bought(0, e) >= LastValidLedger(e)
         \/ bought(0, e) >= ledger + MAX_ENTRY_TTL_LEDGERS - 1
  <1> DEFINE x == attestation_extend_to(remaining(e))
             M == MIN_ATTESTATION_TTL_EXTEND_TO
             X == MAX_ENTRY_TTL_LEDGERS
             w == remaining(e) \div SECONDS_PER_LEDGER
             l == ledger + MinPersistentTtl - 1
  <1>1. x \in M..X /\ M \in Nat \ {0} /\ X \in Nat /\ M < X /\ w \in Nat
    BY ExtendTo, RemainingType, Ledgers, RentAssumption, Zenon
  <1>2. w <= x \/ x = X
    BY <1>1 DEF attestation_extend_to
  <1>3. bought(0, e) = extend_ttl(l, x \div 2, x)
    BY Zenon DEF bought, threshold, set
  <1>4. LastValidLedger(e) \in Int /\ LastValidLedger(e) <= ledger + w
    BY LifetimeCovered, Zenon
  <1>5. l \in Nat /\ l - ledger = MinPersistentTtl - 1
    BY RentAssumption
  <1>6. M \div 2 \in Nat /\ M \div 2 < M /\ x \div 2 \in Nat /\ M \div 2 <= x \div 2
    BY <1>1, Half, HalfMonotone
  <1> HIDE DEF x, M, w, l
  <1>7. l - ledger <= M \div 2
    BY <1>5, Zenon DEF M
  <1>8. CASE ledger + x > ledger + X - 1
    <2>1. extend_ttl(l, x \div 2, x) = ledger + X - 1
      BY <1>1, <1>5, <1>6, <1>7, <1>8 DEF extend_ttl
    <2> QED
      BY <1>1, <1>3, <2>1
  <1>9. CASE ~(ledger + x > ledger + X - 1)
    <2>1. extend_ttl(l, x \div 2, x) = ledger + x
      BY <1>1, <1>5, <1>6, <1>7, <1>9 DEF extend_ttl
    <2>2. w <= x
      BY <1>1, <1>2, <1>9
    <2> QED
      BY <1>1, <1>3, <1>4, <2>1, <2>2
  <1> QED
    BY <1>8, <1>9, Zenon

\* One history entry reaches the end of its lifetime or the ceiling.
Covers(r) ==
  \/ r.live >= LastValidLedger(r.expires_at)
  \/ r.live >= r.at + MAX_ENTRY_TTL_LEDGERS - 1

\* Appending a history entry keeps all entries covered.
LEMMA PushKeepsCover ==
  ASSUME RentInv, HistoryCoversLifetime, NEW e \in Nat, NEW s \in {"Active", "Revoked"},
         MinPersistentTtl - 1 <= MIN_ATTESTATION_TTL_EXTEND_TO \div 2,
         push_attestation_history(e, s)
  PROVE  HistoryCoversLifetime'
  <1> DEFINE r == [at |-> ledger, expires_at |-> e, status |-> s, live |-> bought(0, e)]
  <1>1. ledger \in Nat \ {0} /\ history \in Seq(HistoryRecord)
    BY Zenon DEF RentInv, EntriesOK
  <1>2. Covers(r)
    BY <1>1, FirstWrite, Zenon DEF Covers
  <1>3. history' = Append(history, r)
    BY Zenon DEF push_attestation_history
  <1>4. \A i \in 1..Len(history) : Covers(history[i])
    BY Zenon DEF HistoryCoversLifetime, Covers
  <1> HIDE DEF r
  <1>5. \A i \in 1..Len(history') : history'[i] = r \/ (i \in 1..Len(history) /\ history'[i] = history[i])
    BY <1>1, <1>3
  <1>6. \A i \in 1..Len(history') : Covers(history'[i])
    BY <1>2, <1>4, <1>5, Zenon
  <1> QED
    BY <1>6, Zenon DEF HistoryCoversLifetime, Covers, LastValidLedger

\* Restoring a history entry keeps all entries covered.
LEMMA RestoreKeepsCover ==
  ASSUME RentInv, HistoryCoversLifetime, NEW i \in 1..Len(history), RestoreHistory(i)
  PROVE  HistoryCoversLifetime'
  <1>1. /\ ledger \in Nat \ {0} /\ history \in Seq(HistoryRecord)
        /\ history' = [history EXCEPT ![i].live = Restored]
    BY Zenon DEF RentInv, EntriesOK, RestoreHistory
  <1>2. history[i] \in HistoryRecord
    BY <1>1
  <1>3. history[i].live < Restored /\ Restored \in Nat
    <2>1. history[i].live \in Nat
      BY <1>2, Zenon DEF HistoryRecord
    <2>2. history[i].live < ledger
      BY <1>1, <2>1 DEF RestoreHistory, Usable
    <2>3. Restored \in Nat /\ ledger <= Restored
      <3>1. ledger \in Nat /\ MinPersistentTtl \in 1..MAX_ENTRY_TTL_LEDGERS
            /\ MAX_ENTRY_TTL_LEDGERS \in Nat
        BY <1>1, RentAssumption, Zenon
      <3> QED
        BY <3>1 DEF Restored
    <2> QED
      BY <1>1, <2>1, <2>2, <2>3
  <1>4. \A r \in HistoryRecord :
          /\ [r EXCEPT !.live = Restored].at = r.at
          /\ [r EXCEPT !.live = Restored].expires_at = r.expires_at
          /\ [r EXCEPT !.live = Restored].live = Restored
          /\ r.at \in Nat /\ r.expires_at \in Nat /\ r.live \in Nat
    BY Zenon DEF HistoryRecord
  <1>5. /\ history'[i].at = history[i].at
        /\ history'[i].expires_at = history[i].expires_at
        /\ history'[i].live = Restored
        /\ history[i].at \in Nat /\ history[i].live \in Nat
        /\ history[i].expires_at \in Nat
    BY <1>1, <1>2, <1>4
  <1>6. LastValidLedger(history[i].expires_at) \in Int
    BY <1>1, <1>5, LifetimeCovered, Zenon
  <1>7. Covers(history[i])
    BY Zenon DEF HistoryCoversLifetime, Covers
  <1>8. Covers(history'[i])
    BY <1>3, <1>5, <1>6, <1>7, RentAssumption DEF Covers
  <1>9. /\ Len(history') = Len(history)
        /\ \A j \in 1..Len(history) : j # i => history'[j] = history[j]
    BY <1>1
  <1>10. \A j \in 1..Len(history') : Covers(history'[j])
    BY <1>8, <1>9, Zenon DEF HistoryCoversLifetime, Covers
  <1> QED
    BY <1>10, Zenon DEF HistoryCoversLifetime, Covers, LastValidLedger

\* When the network's minimum lifetime does not exceed the threshold of the
\* minimum window, every history entry is live to the end of the lifetime it
\* records or was extended to the ceiling (push_attestation_history).
THEOREM HistoryCorrect ==
  ASSUME MinPersistentTtl - 1 <= MIN_ATTESTATION_TTL_EXTEND_TO \div 2
  PROVE  Spec => []HistoryCoversLifetime
  <1>1. Init => HistoryCoversLifetime
    BY DEF Init, HistoryCoversLifetime
  <1>2. RentInv /\ HistoryCoversLifetime /\ [Next]_vars => HistoryCoversLifetime'
    <2> SUFFICES ASSUME RentInv, HistoryCoversLifetime, [Next]_vars
                 PROVE  HistoryCoversLifetime'
      BY Zenon
    <2>1. history \in Seq(HistoryRecord) /\ timestamp \in Nat
      BY RentAssumption DEF RentInv, EntriesOK, timestamp
    <2>2. ASSUME NEW ttl_seconds \in TtlArg, Attest(ttl_seconds)
          PROVE  HistoryCoversLifetime'
      <3>1. timestamp + ttl_seconds \in Nat
        BY <2>1, RentAssumption
      <3> QED
        BY <2>2, <3>1, PushKeepsCover, Zenon DEF Attest
    <2>3. CASE Revoke
      <3>1. Current.expires_at \in Nat
        BY <2>1, <2>3, CurrentType, Zenon DEF Revoke
      <3> QED
        BY <2>3, <3>1, PushKeepsCover, Zenon DEF Revoke
    <2>4. ASSUME UNCHANGED history
          PROVE  HistoryCoversLifetime'
      BY <2>4, Zenon DEF HistoryCoversLifetime, LastValidLedger
    <2>5. \/ \E ttl_seconds \in TtlArg : Attest(ttl_seconds)
          \/ Revoke
          \/ \E i \in 1..Len(history) : RestoreHistory(i)
          \/ UNCHANGED history
      BY Zenon DEF Next, vars, RenewAttestation, AddAttestor, RemoveAttestor,
         RenewAttestor, RestoreAttestor, RestoreAttestation, RestoreSeq,
         CloseLedger, AttestationUnchanged
    <2> QED
      BY <2>2, <2>3, <2>4, <2>5, RestoreKeepsCover, Zenon
  <1> QED
    BY <1>1, <1>2, RentInvariant, PTL DEF Spec

-----------------------------------------------------------------------------
\* A write never shortens an entry, and leaves it half of the lifetime that
\* it is for, or half of the ceiling.
LEMMA HalfBought ==
  ASSUME NEW l \in Nat, NEW e \in Nat, ledger \in Nat \ {0}
  PROVE  /\ bought(l, e) >= l
         /\ \/ bought(l, e) >= ledger + (LastValidLedger(e) - ledger) \div 2
            \/ bought(l, e) >= ledger + MAX_ENTRY_TTL_LEDGERS \div 2
  <1> DEFINE x == attestation_extend_to(remaining(e))
             X == MAX_ENTRY_TTL_LEDGERS
             w == remaining(e) \div SECONDS_PER_LEDGER
             v == LastValidLedger(e)
             b == extend_ttl(set(l), x \div 2, x)
  <1>0. remaining(e) \in Nat
    BY RemainingType, Zenon
  <1>1. x \in Nat \ {0} /\ x <= X /\ X \in Nat /\ w \in Nat
    <2>1. x \in MIN_ATTESTATION_TTL_EXTEND_TO..X /\ w \in Nat
      BY <1>0, ExtendTo, Ledgers, Zenon
    <2> HIDE DEF x, w
    <2> QED
      BY <2>1, RentAssumption
  <1>2. w <= x \/ x = X
    BY <1>1 DEF attestation_extend_to
  <1>3. v \in Int /\ v <= ledger + w
    BY LifetimeCovered, Zenon
  <1>4. bought(l, e) = b
    BY Zenon DEF bought, threshold
  <1>5. set(l) \in Nat \ {0} /\ set(l) >= l
    BY SetType DEF set
  <1>6. x \div 2 \in Nat /\ x \div 2 < x
    BY <1>1, Half, Zenon
  <1> HIDE DEF x, w, v
  <1>7. /\ b \in Nat \ {0} /\ b >= set(l)
        /\ \/ b > ledger + (x \div 2)
           \/ b >= ledger + x
           \/ b >= ledger + X - 1
    BY <1>1, <1>5, <1>6, Extended, Zenon
  <1> HIDE DEF b, X
  <1>8. b >= ledger + (x \div 2)
    BY <1>1, <1>6, <1>7
  <1>9. w <= x => (v - ledger) \div 2 <= x \div 2
    BY <1>1, <1>3
  <1>10. (v - ledger) \div 2 \in Int
    BY <1>3
  <1>11. \/ b >= ledger + ((v - ledger) \div 2)
         \/ b >= ledger + (X \div 2)
    BY <1>1, <1>2, <1>6, <1>7, <1>8, <1>9, <1>10
  <1>12. b >= l
    BY <1>5, <1>7
  <1> QED
    BY <1>4, <1>11, <1>12, Zenon DEF v, X

\* An entry's life is never cut short: by a write, a restore or another step.
LEMMA LifeOnlyGrows ==
  ASSUME RentInv, [Next]_vars
  PROVE  attestation \in Nat /\ attestation' \in Nat /\ attestation' >= attestation
  <1>1. /\ ledger \in Nat \ {0} /\ attestation \in Nat /\ attestation' \in Nat
        /\ history \in Seq(HistoryRecord) /\ timestamp \in Nat
    BY NextKeepsRentInv, RentAssumption DEF RentInv, EntriesOK, timestamp
  <1>2. ASSUME NEW e \in Nat, set_attestation(e)
        PROVE  attestation' >= attestation
    BY <1>1, <1>2, HalfBought, Zenon DEF set_attestation
  <1>3. ASSUME NEW ttl_seconds \in TtlArg, Attest(ttl_seconds)
        PROVE  attestation' >= attestation
    <2>1. timestamp + ttl_seconds \in Nat
      BY <1>1, RentAssumption
    <2> QED
      BY <1>2, <1>3, <2>1, Zenon DEF Attest
  <1>4. CASE Revoke \/ RenewAttestation
    <2>1. Current.expires_at \in Nat
      BY <1>1, <1>4, CurrentType, Zenon DEF Revoke, RenewAttestation
    <2>2. set_attestation(Current.expires_at)
      BY <1>4, Zenon DEF Revoke, RenewAttestation
    <2> QED
      BY <1>1, <1>2, <2>1, <2>2, Zenon
  <1>5. CASE RestoreAttestation
    <2>1. Restored \in Nat /\ ledger <= Restored
      BY <1>1, RentAssumption DEF Restored
    <2> QED
      BY <1>1, <1>5, <2>1 DEF RestoreAttestation, Usable
  <1>6. CASE UNCHANGED attestation
    BY <1>1, <1>6
  <1> QED
    BY <1>1, <1>3, <1>4, <1>5, <1>6, Zenon DEF Next, vars, AddAttestor, RemoveAttestor,
       RenewAttestor, RestoreAttestor, RestoreSeq, RestoreHistory, CloseLedger,
       AttestationUnchanged

\* What a step does to the history: it appends the record of what it writes,
\* or it leaves the records their times.
LEMMA HistoryMoves ==
  ASSUME RentInv, [Next]_vars
  PROVE  \/ \E e \in Nat, s \in {"Active", "Revoked"} :
              /\ attestation' = bought(attestation, e)
              /\ history' = Append(history, [at |-> ledger, expires_at |-> e,
                                             status |-> s, live |-> bought(0, e)])
         \/ /\ Len(history') = Len(history)
            /\ \A i \in 1..Len(history) :
                 /\ history'[i].at = history[i].at
                 /\ history'[i].expires_at = history[i].expires_at
  <1>1. history \in Seq(HistoryRecord) /\ timestamp \in Nat
    BY RentAssumption DEF RentInv, EntriesOK, timestamp
  <1>2. ASSUME NEW ttl_seconds \in TtlArg, Attest(ttl_seconds)
        PROVE  \E e \in Nat, s \in {"Active", "Revoked"} :
                 set_attestation(e) /\ push_attestation_history(e, s)
    <2>1. timestamp + ttl_seconds \in Nat
      BY <1>1, RentAssumption
    <2> QED
      BY <1>2, <2>1, Zenon DEF Attest
  <1>3. CASE Revoke
    <2>1. Current.expires_at \in Nat
      BY <1>1, <1>3, CurrentType, Zenon DEF Revoke
    <2>2. set_attestation(Current.expires_at)
          /\ push_attestation_history(Current.expires_at, "Revoked")
      BY <1>3, Zenon DEF Revoke
    <2> QED
      BY <2>1, <2>2, Zenon DEF set_attestation, push_attestation_history
  <1>4. ASSUME NEW i \in 1..Len(history), RestoreHistory(i)
        PROVE  /\ Len(history') = Len(history)
               /\ \A j \in 1..Len(history) :
                    /\ history'[j].at = history[j].at
                    /\ history'[j].expires_at = history[j].expires_at
    <2>1. history' = [history EXCEPT ![i].live = Restored]
      BY <1>4, Zenon DEF RestoreHistory
    <2>2. /\ Len(history') = Len(history)
          /\ \A j \in 1..Len(history) : j # i => history'[j] = history[j]
          /\ history'[i] = [history[i] EXCEPT !.live = Restored]
      BY <1>1, <2>1
    <2>3. \A r \in HistoryRecord :
            /\ [r EXCEPT !.live = Restored].at = r.at
            /\ [r EXCEPT !.live = Restored].expires_at = r.expires_at
      BY Zenon DEF HistoryRecord
    <2>4. history[i] \in HistoryRecord
      BY <1>1
    <2> QED
      BY <2>2, <2>3, <2>4, Zenon
  <1>5. \/ \E ttl_seconds \in TtlArg : Attest(ttl_seconds)
        \/ Revoke
        \/ \E i \in 1..Len(history) : RestoreHistory(i)
        \/ UNCHANGED history
    BY Zenon DEF Next, vars, RenewAttestation, AddAttestor, RemoveAttestor,
       RenewAttestor, RestoreAttestor, RestoreAttestation, RestoreSeq,
       CloseLedger, AttestationUnchanged
  <1> QED
    BY <1>2, <1>3, <1>4, <1>5, Zenon DEF set_attestation, push_attestation_history

\* An attestation that was renewed or attested again is live for half of
\* the lifetime that its latest record gives it, or half of the ceiling.
HalfLifetime ==
  history # << >> =>
    \/ attestation >= Current.at + (LastValidLedger(Current.expires_at) - Current.at) \div 2
    \/ attestation >= Current.at + MAX_ENTRY_TTL_LEDGERS \div 2

\* The record of a write is the latest one afterwards.
LEMMA AppendedIsCurrent ==
  ASSUME history \in Seq(HistoryRecord), NEW r \in HistoryRecord,
         history' = Append(history, r)
  PROVE  Len(history') = Len(history) + 1 /\ Current' = r /\ history' # << >>
  BY DEF Current

\* A step that leaves the records their times leaves them to the latest one.
LEMMA CurrentKept ==
  ASSUME history \in Seq(HistoryRecord), history \in Seq(HistoryRecord)',
         history' # << >>, Len(history') = Len(history),
         \A i \in 1..Len(history) :
           /\ history'[i].at = history[i].at
           /\ history'[i].expires_at = history[i].expires_at
  PROVE  /\ history # << >>
         /\ Current'.at = Current.at
         /\ Current'.expires_at = Current.expires_at
  <1>1. Len(history) \in 1..Len(history)
    BY DEF HistoryRecord
  <1> QED
    BY <1>1 DEF Current

\* The doc's "comfortably outlives" for every mix of attest, revoke, renew and
\* restore: never less than half of what was attested (attestation_ttl_window,
\* whose threshold is half of its window), however often it is rewritten.
THEOREM HalfLifetimeCorrect == Spec => []HalfLifetime
  <1>1. Init => HalfLifetime
    BY Zenon DEF Init, HalfLifetime
  <1>2. RentInv /\ HalfLifetime /\ [Next]_vars => HalfLifetime'
    <2> SUFFICES ASSUME RentInv, HalfLifetime, [Next]_vars, history' # << >>
                 PROVE  \/ attestation' >= Current'.at +
                             (LastValidLedger(Current'.expires_at) - Current'.at) \div 2
                        \/ attestation' >= Current'.at + MAX_ENTRY_TTL_LEDGERS \div 2
      BY Zenon DEF HalfLifetime, LastValidLedger
    <2>1. /\ ledger \in Nat \ {0} /\ attestation \in Nat /\ attestation' \in Nat
          /\ attestation' >= attestation
          /\ history \in Seq(HistoryRecord) /\ history' \in Seq(HistoryRecord)
      BY LifeOnlyGrows, NextKeepsRentInv, Zenon DEF RentInv, EntriesOK, HistoryRecord
    <2>2. ASSUME NEW e \in Nat, NEW s \in {"Active", "Revoked"},
                 attestation' = bought(attestation, e),
                 history' = Append(history, [at |-> ledger, expires_at |-> e,
                                             status |-> s, live |-> bought(0, e)])
          PROVE  \/ attestation' >= Current'.at +
                      (LastValidLedger(Current'.expires_at) - Current'.at) \div 2
                 \/ attestation' >= Current'.at + MAX_ENTRY_TTL_LEDGERS \div 2
      <3>1. bought(0, e) \in Nat
        BY <2>1, Bought, Zenon
      <3>2. PICK r : r = [at |-> ledger, expires_at |-> e, status |-> s,
                          live |-> bought(0, e)]
        BY Zenon
      <3>3. r \in HistoryRecord /\ r.at = ledger /\ r.expires_at = e
        BY <2>1, <3>1, <3>2, Zenon DEF HistoryRecord
      <3>4. Current'.at = ledger /\ Current'.expires_at = e
        BY <2>1, <2>2, <3>2, <3>3, AppendedIsCurrent, Zenon
      <3>5. \/ attestation' >= ledger + (LastValidLedger(e) - ledger) \div 2
            \/ attestation' >= ledger + MAX_ENTRY_TTL_LEDGERS \div 2
        BY <2>1, <2>2, HalfBought, Zenon
      <3> QED
        BY <3>4, <3>5, Zenon
    <2>3. ASSUME Len(history') = Len(history),
                 \A i \in 1..Len(history) :
                   /\ history'[i].at = history[i].at
                   /\ history'[i].expires_at = history[i].expires_at
          PROVE  \/ attestation' >= Current'.at +
                      (LastValidLedger(Current'.expires_at) - Current'.at) \div 2
                 \/ attestation' >= Current'.at + MAX_ENTRY_TTL_LEDGERS \div 2
      <3>1. /\ history # << >> /\ Current'.at = Current.at
            /\ Current'.expires_at = Current.expires_at
        BY <2>1, <2>3, CurrentKept, Zenon DEF HistoryRecord
      <3>2. PICK at, v : /\ at = Current.at
                         /\ v = LastValidLedger(Current.expires_at)
        BY Zenon
      <3>3. at \in Nat /\ v \in Int
        <4>1. Current \in HistoryRecord /\ Current.expires_at \in Nat
          BY <2>1, <3>1, CurrentType, Zenon
        <4>2. Current.at \in Nat
          BY <4>1, Zenon DEF HistoryRecord
        <4> QED
          BY <2>1, <3>2, <4>1, <4>2, LifetimeCovered, Zenon
      <3>4. \/ attestation >= at + (v - at) \div 2
            \/ attestation >= at + MAX_ENTRY_TTL_LEDGERS \div 2
        BY <3>1, <3>2, Zenon DEF HalfLifetime
      <3>5. \/ attestation' >= at + (v - at) \div 2
            \/ attestation' >= at + MAX_ENTRY_TTL_LEDGERS \div 2
        BY <2>1, <3>3, <3>4, RentAssumption
      <3> QED
        BY <3>1, <3>2, <3>5, Zenon
    <2> QED
      BY <2>2, <2>3, HistoryMoves, Zenon
  <1> QED
    BY <1>1, <1>2, RentInvariant, PTL DEF Spec

\* A history without entries is the empty one.
LEMMA EmptyHistory ==
  ASSUME NEW S, NEW h \in Seq(S)
  PROVE  Len(h) \in Nat /\ (Len(h) = 0 <=> h = << >>)
  OBVIOUS

\* A first attestation has the window that it was given.
FirstCovered ==
  Len(history) = 1 =>
    \/ attestation >= LastValidLedger(Current.expires_at)
    \/ attestation >= Current.at + MAX_ENTRY_TTL_LEDGERS - 1

\* The doc's claim holds of every attestation that was written once: if the
\* network's minimum is within the threshold of the minimum window, it is
\* live to the end of any lifetime a single extension can buy, whatever is
\* renewed or restored afterwards.  Only attesting again can lose it.
THEOREM FirstWindowCorrect ==
  ASSUME MinPersistentTtl - 1 <= MIN_ATTESTATION_TTL_EXTEND_TO \div 2
  PROVE  Spec => [](Len(history) <= 1 => WindowOutlivesExpiry)
  <1>1. Init => FirstCovered
    BY DEF Init, FirstCovered
  <1>2. RentInv /\ FirstCovered /\ [Next]_vars => FirstCovered'
    <2> SUFFICES ASSUME RentInv, FirstCovered, [Next]_vars, Len(history') = 1
                 PROVE  \/ attestation' >= LastValidLedger(Current'.expires_at)
                        \/ attestation' >= Current'.at + MAX_ENTRY_TTL_LEDGERS - 1
      BY Zenon DEF FirstCovered, LastValidLedger
    <2>1. /\ ledger \in Nat \ {0} /\ attestation \in Nat /\ attestation' \in Nat
          /\ attestation' >= attestation
          /\ history \in Seq(HistoryRecord) /\ history' \in Seq(HistoryRecord)
          /\ history = << >> => attestation = 0
      BY LifeOnlyGrows, NextKeepsRentInv, Zenon DEF RentInv, EntriesOK, HistoryRecord
    <2>2. ASSUME NEW e \in Nat, NEW s \in {"Active", "Revoked"},
                 attestation' = bought(attestation, e),
                 history' = Append(history, [at |-> ledger, expires_at |-> e,
                                             status |-> s, live |-> bought(0, e)])
          PROVE  \/ attestation' >= LastValidLedger(Current'.expires_at)
                 \/ attestation' >= Current'.at + MAX_ENTRY_TTL_LEDGERS - 1
      <3>1. bought(0, e) \in Nat
        BY <2>1, Bought, Zenon
      <3>2. PICK r : r = [at |-> ledger, expires_at |-> e, status |-> s,
                          live |-> bought(0, e)]
        BY Zenon
      <3>3. r \in HistoryRecord /\ r.at = ledger /\ r.expires_at = e
        BY <2>1, <3>1, <3>2, Zenon DEF HistoryRecord
      <3>4. /\ Current'.at = ledger /\ Current'.expires_at = e
            /\ Len(history') = Len(history) + 1
        BY <2>1, <2>2, <3>2, <3>3, AppendedIsCurrent, Zenon
      <3>5. attestation = 0
        <4>1. Len(history) \in Nat /\ (Len(history) = 0 => history = << >>)
          BY <2>1, EmptyHistory, Zenon
        <4>2. Len(history) = 0
          BY <3>4, <4>1, RentAssumption
        <4> QED
          BY <2>1, <4>1, <4>2, Zenon
      <3>6. \/ attestation' >= LastValidLedger(e)
            \/ attestation' >= ledger + MAX_ENTRY_TTL_LEDGERS - 1
        BY <2>1, <2>2, <3>5, FirstWrite, Zenon
      <3> QED
        BY <3>4, <3>6, Zenon
    <2>3. ASSUME Len(history') = Len(history),
                 \A i \in 1..Len(history) :
                   /\ history'[i].at = history[i].at
                   /\ history'[i].expires_at = history[i].expires_at
          PROVE  \/ attestation' >= LastValidLedger(Current'.expires_at)
                 \/ attestation' >= Current'.at + MAX_ENTRY_TTL_LEDGERS - 1
      <3>0. history' # << >>
        <4>1. Len(history') = 0 <=> history' = << >>
          BY <2>1, EmptyHistory, Zenon
        <4> QED
          BY <4>1, RentAssumption
      <3>1. /\ history # << >> /\ Current'.at = Current.at
            /\ Current'.expires_at = Current.expires_at
        BY <2>1, <2>3, <3>0, CurrentKept, Zenon DEF HistoryRecord
      <3>2. PICK at, v : /\ at = Current.at
                         /\ v = LastValidLedger(Current.expires_at)
        BY Zenon
      <3>3. at \in Nat /\ v \in Int
        <4>1. Current \in HistoryRecord /\ Current.expires_at \in Nat
          BY <2>1, <3>1, CurrentType, Zenon
        <4>2. Current.at \in Nat
          BY <4>1, Zenon DEF HistoryRecord
        <4> QED
          BY <2>1, <3>2, <4>1, <4>2, LifetimeCovered, Zenon
      <3>4. attestation >= v \/ attestation >= at + MAX_ENTRY_TTL_LEDGERS - 1
        BY <2>3, <3>2, Zenon DEF FirstCovered
      <3>5. attestation' >= v \/ attestation' >= at + MAX_ENTRY_TTL_LEDGERS - 1
        BY <2>1, <3>3, <3>4, RentAssumption
      <3> QED
        BY <3>1, <3>2, <3>5, Zenon
    <2> QED
      BY <2>2, <2>3, HistoryMoves, Zenon
  <1>3. RentInv /\ FirstCovered => (Len(history) <= 1 => WindowOutlivesExpiry)
    <2>0. SUFFICES ASSUME RentInv, FirstCovered, Len(history) <= 1, Valid,
                          LastValidLedger(Current.expires_at)
                            < Current.at + MAX_ENTRY_TTL_LEDGERS
                   PROVE  attestation >= LastValidLedger(Current.expires_at)
      BY Zenon DEF WindowOutlivesExpiry
    <2>1. /\ history \in Seq(HistoryRecord) /\ history # << >> /\ ledger \in Nat
          /\ attestation \in Nat
      BY <2>0, Zenon DEF RentInv, EntriesOK, Valid
    <2>2. Current \in HistoryRecord /\ Current.expires_at \in Nat /\ Len(history) \in Nat \ {0}
      BY <2>1, CurrentType, Zenon
    <2>3. Len(history) = 1
      <3>1. PICK n : n = Len(history)
        BY Zenon
      <3>2. n \in Nat \ {0} /\ n <= 1
        BY <2>0, <2>2, <3>1, Zenon
      <3>3. n = 1
        BY <3>2, RentAssumption
      <3> QED
        BY <3>1, <3>3, Zenon
    <2>4. Current.at \in Nat
      BY <2>2, Zenon DEF HistoryRecord
    <2>5. LastValidLedger(Current.expires_at) \in Int
      BY <2>1, <2>2, LifetimeCovered, Zenon
    <2>6. \/ attestation >= LastValidLedger(Current.expires_at)
          \/ attestation >= Current.at + MAX_ENTRY_TTL_LEDGERS - 1
      BY <2>0, <2>3, Zenon DEF FirstCovered
    <2> QED
      BY <2>0, <2>1, <2>4, <2>5, <2>6, RentAssumption
  <1> QED
    BY <1>1, <1>2, <1>3, RentInvariant, PTL DEF Spec

-----------------------------------------------------------------------------
(* The domain scanner.                                                     *)

\* The loop invariant of is_valid_domain_syntax: what the scanner knows of the
\* bytes it has read.  The current label is the last label_len of them.
ScanInv ==
  /\ Len(domain) \in MIN_DOMAIN_LEN..MAX_DOMAIN_LEN
  /\ \A k \in 1..read : domain[k] \notin OtherByte
  /\ has_dot <=> \E k \in 1..read : domain[k] = "."
  /\ label_len <= read /\ label_len <= MAX_LABEL_LEN
  /\ label_len < read => domain[read - label_len] = "."
  /\ \A k \in (read - label_len + 1)..read : domain[k] # "."
  /\ read > 0 => domain[1] \in Alnum
  /\ \A k \in 1..(read - 1) : (domain[k] = "." => domain[k + 1] \in Alnum)
                              /\ (domain[k + 1] = "." => domain[k] \in Alnum)
  /\ \A k \in 0..(read - MAX_LABEL_LEN - 1) :
        \E m \in (k + 1)..(k + MAX_LABEL_LEN + 1) : domain[m] = "."

DomainInv ==
  /\ DomainTypeOK
  /\ verdict = "none" => ScanInv
  /\ VerdictIsRight

\* The bytes of a text.
LEMMA DomainBytes ==
  ASSUME DomainTypeOK
  PROVE  /\ domain \in Seq(Byte) /\ Len(domain) \in Nat
         /\ \A k \in 1..Len(domain) : domain[k] \in Byte
  BY DomainAssumption DEF DomainTypeOK

\* Before the first byte; texts of a wrong length are refused at once.
LEMMA DomainInitInv ==
  ASSUME DomainInit
  PROVE  DomainInv
  <1>1. DomainTypeOK
    <2>1. domain \in Domains /\ Len(domain) \in Nat
      BY DomainAssumption DEF DomainInit
    <2>2. has_dot \in BOOLEAN /\ verdict \in {"none", "true", "false"}
      BY Zenon DEF DomainInit
    <2> QED
      BY <2>1, <2>2 DEF DomainInit, DomainTypeOK
  <1>2. verdict = "none" => ScanInv
    BY <1>1, DomainBytes, DomainAssumption DEF DomainInit, ScanInv
  <1>3. VerdictIsRight
    BY Zenon DEF DomainInit, VerdictIsRight, Hostname
  <1> QED
    BY <1>1, <1>2, <1>3, Zenon DEF DomainInv

\* A dot is read.
LEMMA ScanDotKeeps ==
  ASSUME DomainInv, scanDot
  PROVE  DomainInv'
  <1>0. /\ ScanInv /\ DomainTypeOK /\ domain' = domain
        /\ verdict = "none" /\ read < Len(domain)
        /\ domain[read + 1] = "."
        /\ read \in Nat /\ label_len \in Nat /\ Len(domain) \in Nat
    BY DomainBytes DEF DomainInv, DomainTypeOK, scanDot, reject
  <1>m. MAX_LABEL_LEN \in Nat
    BY DomainAssumption, Zenon
  <1>b. "." \notin Alnum /\ "-" \notin Alnum /\ "." \notin OtherByte
    BY DomainAssumption, Zenon
  <1>1. CASE label_len = 0 \/ prevIs("-")
    <2>1. reject
      BY <1>1, Zenon DEF scanDot
    <2>2. ~Hostname(domain)
      <3>1. CASE read = 0
        BY <1>0, <1>b, <3>1 DEF Hostname
      <3>2. CASE read > 0
        <4>1. domain[read] \notin Alnum
          BY <1>0, <1>1, <1>b, <3>2 DEF ScanInv, prevIs
        <4>2. read \in 1..(Len(domain) - 1)
          BY <1>0, <3>2
        <4> QED
          BY <1>0, <4>1, <4>2, Zenon DEF Hostname
      <3> QED
        BY <1>0, <3>1, <3>2
    <2> QED
      BY <1>0, <2>1, <2>2, Zenon DEF reject, DomainInv, DomainTypeOK, VerdictIsRight
  <1>2. CASE ~(label_len = 0 \/ prevIs("-"))
    <2>0. /\ has_dot' = TRUE /\ label_len' = 0 /\ read' = read + 1
          /\ verdict' = verdict
      BY <1>2, Zenon DEF scanDot
    <2>1. DomainTypeOK' /\ VerdictIsRight'
      BY <1>0, <2>0 DEF DomainTypeOK, VerdictIsRight
    <2>2. domain[read] \in Alnum /\ read > 0
      <3>1. read > 0 /\ label_len > 0
        BY <1>0, <1>2 DEF ScanInv
      <3>2. domain[read] # "." /\ domain[read] \notin OtherByte /\ domain[read] # "-"
        BY <1>0, <1>2, <3>1 DEF ScanInv, prevIs
      <3> QED
        BY <1>0, <3>1, <3>2, DomainBytes DEF Byte
    <2>3. ScanInv'
      <3>1. /\ (Len(domain) \in MIN_DOMAIN_LEN..MAX_DOMAIN_LEN)'
            /\ (\A k \in 1..read : domain[k] \notin OtherByte)'
            /\ (label_len <= read /\ label_len <= MAX_LABEL_LEN)'
            /\ (label_len < read => domain[read - label_len] = ".")'
            /\ (\A k \in (read - label_len + 1)..read : domain[k] # ".")'
        BY <1>0, <1>b, <2>0, DomainAssumption DEF ScanInv
      <3>2. (has_dot <=> \E k \in 1..read : domain[k] = ".")'
        BY <1>0, <2>0
      <3>3. (read > 0 => domain[1] \in Alnum)'
        BY <1>0, <2>0, <2>2, Zenon DEF ScanInv
      <3>4. (\A k \in 1..(read - 1) : (domain[k] = "." => domain[k + 1] \in Alnum)
                              /\ (domain[k + 1] = "." => domain[k] \in Alnum))'
        BY <1>0, <1>b, <2>0, <2>2 DEF ScanInv
      <3>5. (\A k \in 0..(read - MAX_LABEL_LEN - 1) :
               \E m \in (k + 1)..(k + MAX_LABEL_LEN + 1) : domain[m] = ".")'
        <4> SUFFICES ASSUME NEW k \in 0..(read' - MAX_LABEL_LEN - 1)
                     PROVE  \E m \in (k + 1)..(k + MAX_LABEL_LEN + 1) : domain'[m] = "."
          BY Zenon
        <4>1. CASE k <= read - MAX_LABEL_LEN - 1
          <5>1. k \in 0..(read - MAX_LABEL_LEN - 1)
            BY <1>0, <1>m, <4>1
          <5> QED
            BY <1>0, <5>1, Zenon DEF ScanInv
        <4>2. CASE k = read - MAX_LABEL_LEN
          BY <1>0, <4>2, DomainAssumption
        <4> QED
          BY <1>0, <1>m, <2>0, <4>1, <4>2
      <3> QED
        BY <3>1, <3>2, <3>3, <3>4, <3>5, Zenon DEF ScanInv
    <2> QED
      BY <2>1, <2>3, Zenon DEF DomainInv
  <1> QED
    BY <1>1, <1>2, Zenon

\* Another byte is read.
LEMMA ScanLabelKeeps ==
  ASSUME DomainInv, scanLabel
  PROVE  DomainInv'
  <1>0. /\ ScanInv /\ DomainTypeOK /\ domain' = domain
        /\ verdict = "none" /\ read < Len(domain)
        /\ domain[read + 1] # "."
        /\ read \in Nat /\ label_len \in Nat /\ Len(domain) \in Nat
        /\ domain[read + 1] \in Byte
    BY DomainBytes DEF DomainInv, DomainTypeOK, scanLabel, reject
  <1>m. MAX_LABEL_LEN \in Nat
    BY DomainAssumption, Zenon
  <1>b. "." \notin Alnum /\ "-" \notin Alnum
    BY DomainAssumption, Zenon
  <1> DEFINE refused ==
        \/ domain[read + 1] \in OtherByte
        \/ domain[read + 1] = "-" /\ label_len = 0
        \/ label_len + 1 > MAX_LABEL_LEN
  <1>1. CASE refused
    <2>1. reject
      BY <1>1, Zenon DEF scanLabel
    <2>2. ~Hostname(domain)
      <3>1. CASE domain[read + 1] \in OtherByte
        BY <1>0, <3>1 DEF Hostname
      <3>2. CASE domain[read + 1] = "-" /\ label_len = 0
        <4>1. CASE read = 0
          BY <1>0, <1>b, <3>2, <4>1 DEF Hostname
        <4>2. CASE read > 0
          <5>1. domain[read] = "." /\ read \in 1..(Len(domain) - 1)
            BY <1>0, <3>2, <4>2 DEF ScanInv
          <5> QED
            BY <1>0, <1>b, <3>2, <5>1, Zenon DEF Hostname
        <4> QED
          BY <1>0, <4>1, <4>2
      <3>3. CASE label_len + 1 > MAX_LABEL_LEN
        <4>1. label_len = MAX_LABEL_LEN
          BY <1>0, <3>3, DomainAssumption DEF ScanInv
        <4>2. read - MAX_LABEL_LEN \in 0..(Len(domain) - MAX_LABEL_LEN - 1)
          BY <1>0, <4>1, DomainAssumption DEF ScanInv
        <4>3. \A m \in (read - MAX_LABEL_LEN + 1)..(read - MAX_LABEL_LEN + MAX_LABEL_LEN + 1) :
                 domain[m] # "."
          BY <1>0, <4>1, DomainAssumption DEF ScanInv
        <4> QED
          BY <4>2, <4>3, Zenon DEF Hostname
      <3> QED
        BY <1>1, <3>1, <3>2, <3>3, Zenon
    <2> QED
      BY <1>0, <2>1, <2>2, Zenon DEF reject, DomainInv, DomainTypeOK, VerdictIsRight
  <1>2. CASE ~refused
    <2>0. /\ has_dot' = has_dot /\ label_len' = label_len + 1 /\ read' = read + 1
          /\ verdict' = verdict
      BY <1>2, Zenon DEF scanLabel
    <2>1. DomainTypeOK' /\ VerdictIsRight'
      BY <1>0, <2>0 DEF DomainTypeOK, VerdictIsRight, ScanInv
    <2>2. label_len = 0 => domain[read + 1] \in Alnum
      BY <1>0, <1>2, Zenon DEF Byte
    <2>3. ScanInv'
      <3>1. /\ (Len(domain) \in MIN_DOMAIN_LEN..MAX_DOMAIN_LEN)'
            /\ (\A k \in 1..read : domain[k] \notin OtherByte)'
            /\ (label_len <= read /\ label_len <= MAX_LABEL_LEN)'
            /\ (label_len < read => domain[read - label_len] = ".")'
            /\ (\A k \in (read - label_len + 1)..read : domain[k] # ".")'
        BY <1>0, <1>2, <2>0, DomainAssumption DEF ScanInv
      <3>2. (has_dot <=> \E k \in 1..read : domain[k] = ".")'
        <4>1. (\E k \in 1..(read + 1) : domain[k] = ".") <=> (\E k \in 1..read : domain[k] = ".")
          BY <1>0
        <4> QED
          BY <1>0, <2>0, <4>1, Zenon DEF ScanInv
      <3>3. (read > 0 => domain[1] \in Alnum)'
        BY <1>0, <2>0, <2>2 DEF ScanInv
      <3>4. (\A k \in 1..(read - 1) : (domain[k] = "." => domain[k + 1] \in Alnum)
                              /\ (domain[k + 1] = "." => domain[k] \in Alnum))'
        <4> SUFFICES ASSUME NEW k \in 1..read
                     PROVE  /\ domain[k] = "." => domain[k + 1] \in Alnum
                            /\ domain[k + 1] = "." => domain[k] \in Alnum
          BY <1>0, <2>0
        <4>1. CASE k < read
          BY <1>0, <4>1 DEF ScanInv
        <4>2. CASE k = read
          BY <1>0, <2>2, <4>2 DEF ScanInv
        <4> QED
          BY <1>0, <4>1, <4>2
      <3>5. (\A k \in 0..(read - MAX_LABEL_LEN - 1) :
               \E m \in (k + 1)..(k + MAX_LABEL_LEN + 1) : domain[m] = ".")'
        <4> SUFFICES ASSUME NEW k \in 0..(read' - MAX_LABEL_LEN - 1)
                     PROVE  \E m \in (k + 1)..(k + MAX_LABEL_LEN + 1) : domain'[m] = "."
          BY Zenon
        <4>1. CASE k <= read - MAX_LABEL_LEN - 1
          <5>1. k \in 0..(read - MAX_LABEL_LEN - 1)
            BY <1>0, <1>m, <4>1
          <5> QED
            BY <1>0, <5>1, Zenon DEF ScanInv
        <4>2. CASE k = read - MAX_LABEL_LEN
          <5>1. label_len < MAX_LABEL_LEN
            BY <1>0, <1>2, DomainAssumption
          <5>2. domain[read - label_len] = "." /\ read - label_len \in (k + 1)..(k + MAX_LABEL_LEN + 1)
            BY <1>0, <4>2, <5>1, DomainAssumption DEF ScanInv
          <5> QED
            BY <1>0, <5>2, Zenon
        <4> QED
          BY <1>0, <1>m, <2>0, <4>1, <4>2
      <3> QED
        BY <3>1, <3>2, <3>3, <3>4, <3>5, Zenon DEF ScanInv
    <2> QED
      BY <2>1, <2>3, Zenon DEF DomainInv
  <1> QED
    BY <1>1, <1>2, Zenon

\* The end of the text.
LEMMA FinishKeeps ==
  ASSUME DomainInv, finish
  PROVE  DomainInv'
  <1>0. /\ ScanInv /\ DomainTypeOK /\ domain' = domain
        /\ read = Len(domain)
        /\ read \in Nat /\ label_len \in Nat
        /\ read >= 1
        /\ domain[read] \in Byte
    BY DomainBytes, DomainAssumption DEF DomainInv, DomainTypeOK, finish, ScanInv
  <1>b. "." \notin Alnum /\ "-" \notin Alnum
    BY DomainAssumption, Zenon
  <1>1. DomainTypeOK' /\ verdict' # "none"
    BY Zenon DEF DomainInv, DomainTypeOK, finish
  <1>2. CASE label_len = 0 \/ prevIs("-") \/ ~has_dot
    <2>1. verdict' = "false"
      BY <1>2, Zenon DEF finish
    <2>2. ~Hostname(domain)
      <3>1. CASE ~has_dot
        <4>1. ~\E k \in 1..Len(domain) : domain[k] = "."
          BY <1>0, <3>1, Zenon DEF ScanInv
        <4> QED
          BY <1>0, <4>1 DEF Hostname
      <3>2. CASE label_len = 0
        BY <1>0, <1>b, <3>2 DEF Hostname, ScanInv
      <3>3. CASE prevIs("-")
        BY <1>0, <1>b, <3>3, Zenon DEF Hostname, prevIs
      <3> QED
        BY <1>2, <3>1, <3>2, <3>3, Zenon
    <2> QED
      BY <1>0, <1>1, <2>1, <2>2, Zenon DEF DomainInv, VerdictIsRight
  <1>3. CASE ~(label_len = 0 \/ prevIs("-") \/ ~has_dot)
    <2>1. verdict' = "true"
      BY <1>3, Zenon DEF finish
    <2>2. domain[Len(domain)] \in Alnum
      <3>1. domain[read] # "-" /\ domain[read] # "." /\ domain[read] \notin OtherByte
        BY <1>0, <1>3 DEF ScanInv, prevIs
      <3> QED
        BY <1>0, <3>1, Zenon DEF Byte
    <2>3. \E k \in 1..Len(domain) : domain[k] = "."
      BY <1>0, <1>3, Zenon DEF ScanInv
    <2>4. Hostname(domain)
      BY <1>0, <2>2, <2>3, DomainBytes DEF Hostname, ScanInv
    <2> QED
      BY <1>0, <1>1, <2>1, <2>4, Zenon DEF DomainInv, VerdictIsRight
  <1> QED
    BY <1>2, <1>3, Zenon

\* The loop invariant of the scanner holds in every reachable state.
THEOREM DomainInvCorrect == DomainSpec => []DomainInv
  <1>1. DomainInit => DomainInv
    BY DomainInitInv, Zenon
  <1>2. DomainInv /\ [DomainNext]_domainVars => DomainInv'
    <2> SUFFICES ASSUME DomainInv, [DomainNext]_domainVars
                 PROVE  DomainInv'
      BY Zenon
    <2>1. CASE UNCHANGED domainVars
      BY <2>1, Zenon DEF domainVars, DomainInv, DomainTypeOK, ScanInv, VerdictIsRight
    <2> QED
      BY <2>1, ScanDotKeeps, ScanLabelKeeps, FinishKeeps, Zenon DEF DomainNext
  <1> QED
    BY <1>1, <1>2, PTL DEF DomainSpec

\* Types of the scanner (is_valid_domain_syntax).
THEOREM DomainTypeCorrect == DomainSpec => []DomainTypeOK
  <1>1. DomainInv => DomainTypeOK
    BY Zenon DEF DomainInv
  <1> QED
    BY <1>1, DomainInvCorrect, PTL

\* For every alphabet, every limit and every text, the scanner of
\* is_valid_domain_syntax accepts exactly the hostnames (VerdictIsRight).
THEOREM VerdictCorrect == DomainSpec => []VerdictIsRight
  <1>1. DomainInv => VerdictIsRight
    BY Zenon DEF DomainInv
  <1> QED
    BY <1>1, DomainInvCorrect, PTL

-----------------------------------------------------------------------------
(* The transaction stream.                                                 *)

Activity == {"none", "sse", "fetch", "json", "poll timer", "reconnect timer",
             "crashed", "aborted"}

StreamFlags ==
  /\ sseSupported \in BOOLEAN /\ longPollSupported \in BOOLEAN
  /\ running \in BOOLEAN /\ stopped \in BOOLEAN /\ late \in BOOLEAN

StreamTypes ==
  /\ preferredMode \in PreferredModes
  /\ currentMode \in {"sse", "long-poll", "polling"}
  /\ reconnectAttempts \in 0..maxReconnectAttempts
  /\ lastEventId \in Version \cup {NoVersion}
  /\ lastKnownTransaction \in Version \cup {NoVersion}
  /\ activity \in Activity
  /\ received \in [kind : BodyKind, tx : Version \cup {NoVersion}]
  /\ version \in Version /\ cursor \in Version \cup {NoVersion}
  /\ drops \in 0..(maxReconnectAttempts + 1)

\* The ways a stream ends, by its close events.
ByCaller == <<"closed_by_caller">>
ByStatus == <<"terminal_status">>
ByGivingUp == <<"max_reconnect_attempts">>
ByBoth == <<"closed_by_caller", "terminal_status">>

\* How a stream ends: a request that outlives it was left behind by stop().
Ends ==
  /\ ~stopped => closes = <<>>
  /\ stopped => closes \in {ByCaller, ByStatus, ByGivingUp, ByBoth}
  /\ closes = ByBoth => late
  /\ stopped /\ activity \in {"fetch", "json"} => closes = ByCaller

\* Failures are counted by both counters, which only server-sent events part.
Counts ==
  preferredMode # "sse" =>
    /\ currentMode # "sse" /\ activity # "sse"
    /\ ~stopped => reconnectAttempts <= drops
    /\ closes = ByGivingUp => drops > maxReconnectAttempts

\* What is to come is not older than what was delivered.
Ordered ==
  /\ lastKnownTransaction <= version /\ lastEventId <= version
  /\ cursor <= version
  /\ currentMode = "sse" => lastKnownTransaction <= lastEventId
  /\ activity \in {"fetch", "json", "poll timer"} => currentMode # "sse"
  /\ activity = "sse" => currentMode = "sse" /\ (lastEventId = NoVersion \/ cursor = lastEventId)
  /\ activity = "json" /\ received.kind = "update" =>
       received.tx \in Version /\ lastKnownTransaction <= received.tx /\ received.tx <= version

StreamInv == StreamFlags /\ StreamTypes /\ LoopAccounted /\ Ends /\ Counts /\ Ordered

\* StreamFlags and StreamTypes are StreamTypeOK, with the Booleans one by one.
LEMMA StreamTypesTypeOK == StreamFlags /\ StreamTypes => StreamTypeOK
  BY Zenon DEF StreamFlags, StreamTypes, StreamTypeOK, Activity

\* The numbers of the invariant.
LEMMA StreamNumbers ==
  ASSUME StreamInv
  PROVE  /\ reconnectAttempts \in Nat /\ reconnectAttempts <= maxReconnectAttempts
         /\ drops \in Nat /\ drops <= maxReconnectAttempts + 1
         /\ lastEventId \in Int /\ cursor \in Int /\ lastKnownTransaction \in Int
         /\ version \in Nat /\ version <= FinalVersion
         /\ lastEventId >= -1 /\ cursor >= -1 /\ lastKnownTransaction >= -1
<1>1. /\ reconnectAttempts \in 0..maxReconnectAttempts
      /\ drops \in 0..(maxReconnectAttempts + 1)
      /\ lastEventId \in Version \cup {NoVersion} /\ cursor \in Version \cup {NoVersion}
      /\ lastKnownTransaction \in Version \cup {NoVersion} /\ version \in Version
  BY Zenon DEF StreamInv, StreamTypes
<1> QED  BY <1>1, StreamAssumption DEF Version, NoVersion

\* The endings differ, and none is empty.
LEMMA EndingsDiffer ==
  /\ ByGivingUp \notin {<<>>, ByCaller, ByStatus, ByBoth}
  /\ ByBoth \notin {<<>>, ByCaller, ByStatus, ByGivingUp}
  /\ <<>> \notin {ByCaller, ByStatus, ByGivingUp, ByBoth}
  /\ Len(ByCaller) = 1 /\ Len(ByStatus) = 1 /\ Len(ByGivingUp) = 1 /\ Len(ByBoth) = 2
<1>1. ByGivingUp[1] # ByCaller[1] /\ ByGivingUp[1] # ByStatus[1] /\ ByGivingUp[1] # ByBoth[1]
  BY Zenon DEF ByCaller, ByStatus, ByGivingUp, ByBoth
<1>2. Len(ByCaller) = 1 /\ Len(ByStatus) = 1 /\ Len(ByGivingUp) = 1 /\ Len(ByBoth) = 2
      /\ Len(<<>>) = 0
  BY Zenon DEF ByCaller, ByStatus, ByGivingUp, ByBoth
<1> QED  BY <1>1, <1>2

\* The invariant holds of a stream that was just constructed.
LEMMA StreamInitInv == StreamInit => StreamInv
<1> SUFFICES ASSUME StreamInit PROVE StreamInv
  BY Zenon
<1>0. StreamFlags
  BY Zenon DEF StreamInit, StreamFlags
<1>1. StreamTypes
  <2>2. currentMode \in {"sse", "long-poll", "polling"}
    BY StreamAssumption, Zenon DEF StreamInit
  <2>3. received \in [kind : BodyKind, tx : Version \cup {NoVersion}]
    BY Zenon DEF StreamInit, NoBody, BodyKind
  <2>4. reconnectAttempts \in 0..maxReconnectAttempts /\ version \in Version
        /\ drops \in 0..(maxReconnectAttempts + 1)
    BY StreamAssumption DEF StreamInit, Version
  <2> QED
    BY <2>2, <2>3, <2>4, Zenon DEF StreamInit, StreamTypes, Activity
<1>2. LoopAccounted
  BY Zenon DEF StreamInit, LoopAccounted
<1>3. Ends
  BY EndingsDiffer, Zenon DEF StreamInit, Ends
<1>4. Counts
  <2>1. closes # ByGivingUp /\ activity # "sse" /\ (preferredMode # "sse" => currentMode # "sse")
    BY EndingsDiffer, Zenon DEF StreamInit
  <2>2. reconnectAttempts <= drops
    BY DEF StreamInit
  <2> QED  BY <2>1, <2>2, Zenon DEF Counts
<1>5. Ordered
  BY DEF StreamInit, Ordered, NoVersion
<1> QED  BY <1>0, <1>1, <1>2, <1>3, <1>4, <1>5, Zenon DEF StreamInv

\* The sequences of close events that one step can make.
LEMMA NothingAdded == <<>> \o <<>> \o <<>> = <<>>
  OBVIOUS

\* One event is added to none.
LEMMA OneAdded ==
  ASSUME NEW e PROVE <<>> \o <<e>> \o <<>> = <<e>> /\ <<>> \o <<>> \o <<e>> = <<e>>
  OBVIOUS

\* A second event follows the first.
LEMMA TwoAdded ==
  ASSUME NEW d, NEW e PROVE <<>> \o <<d>> \o <<e>> = <<d, e>> /\ <<d>> \o <<>> \o <<e>> = <<d, e>>
<1>1. <<>> \o <<d>> = <<d>> /\ <<d>> \o <<>> = <<d>>
  OBVIOUS
<1>2. <<d>> \o <<e>> = <<d, e>>
  <2> DEFINE S == {d, e}
  <2>1. <<d>> \in Seq(S) /\ <<e>> \in Seq(S) /\ <<d, e>> \in Seq(S)
    OBVIOUS
  <2>2. Len(<<d>> \o <<e>>) = 2 /\ Len(<<d, e>>) = 2 /\ <<d>> \o <<e>> \in Seq(S)
    BY <2>1
  <2>3. (<<d>> \o <<e>>)[1] = d /\ (<<d>> \o <<e>>)[2] = e
    BY <2>1
  <2>4. \A i \in 1..2 : (<<d>> \o <<e>>)[i] = <<d, e>>[i]
    BY <2>2, <2>3
  <2> HIDE DEF S
  <2>5. PICK s, t : s = <<d>> \o <<e>> /\ t = <<d, e>>
    BY Zenon
  <2>6. s \in Seq(S) /\ t \in Seq(S) /\ Len(s) = 2 /\ Len(t) = 2
    BY <2>1, <2>2, <2>5, Zenon
  <2>7. s \in [1..2 -> S] /\ t \in [1..2 -> S]
    BY <2>6
  <2>8. \A i \in 1..2 : s[i] = t[i]
    BY <2>4, <2>5, Zenon
  <2>9. s = t
    BY <2>7, <2>8
  <2> QED  BY <2>5, <2>9, Zenon
<1> QED  BY <1>1, <1>2, Zenon

\* No event is added.
LEMMA OneKept ==
  ASSUME NEW e PROVE <<e>> \o <<>> \o <<>> = <<e>>
  OBVIOUS

\* fail, whoever calls it: the ways it can go.
LEMMA FailCases ==
  ASSUME StreamInv, NEW quits \in BOOLEAN, fail(quits), Halted,
         activity \in {"sse", "fetch", "json"}, activity = "fetch" => ~stopped
  PROVE  /\ late' \in BOOLEAN
         /\ drops' \in 0..(maxReconnectAttempts + 1)
         /\ drops' >= drops /\ (drops <= maxReconnectAttempts => drops' = drops + 1)
         /\ \/ /\ stopped' = TRUE /\ running' = FALSE /\ activity' = "none"
               /\ closes' = ByCaller
               /\ reconnectAttempts' = reconnectAttempts
            \/ /\ stopped' = TRUE /\ running' = FALSE /\ activity' = "none"
               /\ ~stopped /\ closes' = ByGivingUp
               /\ reconnectAttempts >= maxReconnectAttempts
               /\ reconnectAttempts' = reconnectAttempts
            \/ /\ stopped' = FALSE /\ running' = running /\ activity' = "reconnect timer"
               /\ ~stopped /\ closes' = <<>>
               /\ reconnectAttempts < maxReconnectAttempts
               /\ reconnectAttempts' = reconnectAttempts + 1
<1>1. late' \in BOOLEAN
  BY Zenon DEF fail, emitError
<1>2. /\ drops' \in 0..(maxReconnectAttempts + 1)
      /\ drops' >= drops /\ (drops <= maxReconnectAttempts => drops' = drops + 1)
  <2>1. drops' = IF drops > maxReconnectAttempts THEN drops ELSE drops + 1
    BY Zenon DEF fail, emitError
  <2>2. drops \in 0..(maxReconnectAttempts + 1)
    BY Zenon DEF StreamInv, StreamTypes
  <2> QED  BY <2>1, <2>2, StreamAssumption
<1>3. CASE stopped
  <2>1. closes = ByCaller
    BY <1>3, Zenon DEF StreamInv, Ends, LoopAccounted
  <2>2. closes' = ByCaller
    BY <1>3, <2>1, OneKept, Zenon DEF fail, closedByHandler, ByCaller, ByGivingUp
  <2>3. stopped' = TRUE /\ running' = FALSE
    BY <1>3, Zenon DEF fail, Halted
  <2>4. activity' = "none" /\ reconnectAttempts' = reconnectAttempts
    BY <2>3, Zenon DEF fail
  <2> QED  BY <1>1, <1>2, <2>2, <2>3, <2>4, Zenon
<1>4. CASE ~stopped /\ quits
  <2>2. closes' = ByCaller
    BY <1>4, OneAdded, Zenon DEF fail, closedByHandler, ByCaller, ByGivingUp, StreamInv, Ends
  <2>3. stopped' = TRUE /\ running' = FALSE
    BY <1>4, Zenon DEF fail, Halted
  <2>4. activity' = "none" /\ reconnectAttempts' = reconnectAttempts
    BY <2>3, Zenon DEF fail
  <2> QED  BY <1>1, <1>2, <2>2, <2>3, <2>4, Zenon
<1>5. CASE ~stopped /\ ~quits /\ reconnectAttempts >= maxReconnectAttempts
  <2>2. closes' = ByGivingUp
    BY <1>5, OneAdded, Zenon DEF fail, closedByHandler, ByCaller, ByGivingUp, StreamInv, Ends
  <2>3. stopped' = TRUE /\ running' = FALSE
    BY <1>5, Zenon DEF fail, Halted
  <2>4. activity' = "none" /\ reconnectAttempts' = reconnectAttempts
    BY <2>3, Zenon DEF fail
  <2> QED  BY <1>1, <1>2, <1>5, <2>2, <2>3, <2>4, Zenon
<1>6. CASE ~stopped /\ ~quits /\ ~(reconnectAttempts >= maxReconnectAttempts)
  <2>2. closes' = <<>>
    BY <1>6, NothingAdded, Zenon DEF fail, closedByHandler, ByCaller, ByGivingUp, StreamInv, Ends
  <2>3. stopped' = FALSE
    BY <1>6, Zenon DEF fail
  <2>4. running' = running
    BY <2>3, Zenon DEF Halted, StreamInv, StreamFlags
  <2>5. activity' = "reconnect timer" /\ reconnectAttempts' = reconnectAttempts + 1
    BY <2>3, Zenon DEF fail
  <2>6. reconnectAttempts < maxReconnectAttempts
    BY <1>6, StreamAssumption DEF StreamInv, StreamTypes
  <2> QED  BY <1>1, <1>2, <1>6, <2>2, <2>3, <2>4, <2>5, <2>6, Zenon
<1> QED  BY <1>3, <1>4, <1>5, <1>6, Zenon

\* processTransaction with its callbacks: the ways it can go.
LEMMA ProcessCases ==
  ASSUME StreamInv, NEW quits \in BOOLEAN, NEW tx \in Version,
         processTransaction(tx, quits), Halted, activity \in {"sse", "json"}
  PROVE  /\ late' \in BOOLEAN /\ drops' = 0 /\ lastKnownTransaction' = tx
         /\ \/ /\ stopped' = TRUE /\ running' = FALSE
               /\ \/ closes' \in {ByCaller, ByStatus}
                  \/ closes' = ByBoth /\ late' = TRUE
            \/ /\ stopped' = FALSE /\ running' = running
               /\ ~stopped /\ closes' = <<>>
<1>1. late' \in BOOLEAN
  BY Zenon DEF processTransaction
<1>2. drops' = 0 /\ lastKnownTransaction' = tx
  BY Zenon DEF processTransaction
<1> DEFINE final == isTerminalStatus(tx)
<1>3. CASE stopped
  <2>1. closes = ByCaller
    BY <1>3, Zenon DEF StreamInv, Ends, LoopAccounted
  <2>2. stopped' = TRUE /\ running' = FALSE /\ late' = TRUE
    BY <1>3, Zenon DEF processTransaction, Halted
  <2>3. closes' = ByCaller \/ closes' = ByBoth
    BY <1>3, <2>1, OneKept, TwoAdded, Zenon DEF processTransaction, closedByHandler, ByCaller, ByStatus, ByBoth
  <2> QED  BY <1>1, <1>2, <2>2, <2>3, Zenon
<1>4. CASE ~stopped /\ quits
  <2>1. closes = <<>>
    BY <1>4, Zenon DEF StreamInv, Ends
  <2>2. stopped' = TRUE /\ running' = FALSE
    BY <1>4, Zenon DEF processTransaction, Halted
  <2>3. CASE final
    <3>1. late' = TRUE
      BY <1>4, <2>3, Zenon DEF processTransaction
    <3>2. closes' = ByBoth
      BY <1>4, <2>1, <2>3, TwoAdded, Zenon DEF processTransaction, closedByHandler, ByCaller, ByStatus, ByBoth
    <3> QED  BY <1>1, <1>2, <2>2, <3>1, <3>2, Zenon
  <2>4. CASE ~final
    <3>1. closes' = ByCaller
      BY <1>4, <2>1, <2>4, OneAdded, Zenon DEF processTransaction, closedByHandler, ByCaller, ByStatus, ByBoth
    <3> QED  BY <1>1, <1>2, <2>2, <3>1, Zenon
  <2> QED  BY <2>3, <2>4, Zenon
<1>5. CASE ~stopped /\ ~quits /\ final
  <2>1. closes = <<>>
    BY <1>5, Zenon DEF StreamInv, Ends
  <2>2. stopped' = TRUE /\ running' = FALSE
    BY <1>5, Zenon DEF processTransaction, Halted
  <2>3. closes' = ByStatus
    BY <1>5, <2>1, OneAdded, Zenon DEF processTransaction, closedByHandler, ByCaller, ByStatus, ByBoth
  <2> QED  BY <1>1, <1>2, <2>2, <2>3, Zenon
<1>6. CASE ~stopped /\ ~quits /\ ~final
  <2>1. closes = <<>>
    BY <1>6, Zenon DEF StreamInv, Ends
  <2>2. stopped' = FALSE
    BY <1>6, Zenon DEF processTransaction
  <2>3. running' = running
    BY <2>2, Zenon DEF Halted, StreamInv, StreamFlags
  <2>4. closes' = <<>>
    BY <1>6, <2>1, NothingAdded, Zenon DEF processTransaction, closedByHandler, ByCaller, ByStatus, ByBoth
  <2> QED  BY <1>1, <1>2, <1>6, <2>2, <2>3, <2>4, Zenon
<1> QED  BY <1>3, <1>4, <1>5, <1>6, Zenon

\* runLoop: it never goes back to a better transport, and an EventSource
\* resumes where the last one stopped.
LEMMA RunLoopCases ==
  ASSUME StreamInv, runLoop
  PROVE  /\ currentMode' \in {"sse", "long-poll", "polling"}
         /\ sseSupported' \in BOOLEAN /\ longPollSupported' \in BOOLEAN
         /\ cursor' \in Version \cup {NoVersion} /\ cursor' <= version
         /\ currentMode' = "sse" => currentMode = "sse"
         /\ currentMode = "polling" => currentMode' = "polling"
         /\ \/ activity' = "fetch" /\ currentMode' # "sse"
            \/ /\ activity' = "sse" /\ currentMode' = "sse"
               /\ lastEventId = NoVersion \/ cursor' = lastEventId
<1> USE DEF StreamInv, StreamTypes, StreamFlags
<1>1. CASE openSse /\ UNCHANGED modes /\ currentMode = "sse"
  <2>1. cursor' \in Version \cup {NoVersion} /\ cursor' <= version
    <3>1. cursor' = IF lastEventId = NoVersion THEN version - 1 ELSE lastEventId
      BY <1>1, Zenon DEF openSse
    <3>2. lastEventId <= version /\ lastEventId \in Version \cup {NoVersion}
      BY Zenon DEF Ordered
    <3> HIDE DEF StreamInv, StreamTypes, StreamFlags
    <3> QED  BY <3>1, <3>2, StreamNumbers, StreamAssumption DEF Version, NoVersion
  <2>2. UNCHANGED <<currentMode, sseSupported, longPollSupported>>
    BY <1>1, Zenon DEF modes
  <2>3. activity' = "sse" /\ (lastEventId = NoVersion \/ cursor' = lastEventId)
    BY <1>1, Zenon DEF openSse
  <2> QED  BY <1>1, <2>1, <2>2, <2>3, Zenon
<1>2. CASE /\ sseSupported' = FALSE /\ currentMode = "sse"
           /\ currentMode' = IF longPollSupported THEN "long-poll" ELSE "polling"
           /\ activity' = "fetch"
           /\ UNCHANGED <<longPollSupported, cursor>>
  BY <1>2, Zenon DEF Ordered
<1>3. CASE /\ currentMode' = IF longPollSupported /\ currentMode # "polling"
                             THEN "long-poll" ELSE "polling"
           /\ activity' = "fetch"
           /\ UNCHANGED <<sseSupported, longPollSupported, cursor>>
  BY <1>3, Zenon DEF Ordered
<1> QED  BY <1>1, <1>2, <1>3, Zenon DEF runLoop

\* What a step does to the transport and to the order of the updates.
ModeStep ==
  <<currentMode, currentMode'>> \notin
    {<<"long-poll", "sse">>, <<"polling", "sse">>, <<"polling", "long-poll">>}

OrderStep ==
  /\ lastKnownTransaction' # NoVersion => lastKnownTransaction' >= lastKnownTransaction
  /\ lastEventId' \in {lastEventId, lastEventId + 1} \/ lastEventId = NoVersion

StreamStep == StreamInv' /\ ModeStep /\ OrderStep

\* start and the reconnect timer run the loop.
LEMMA LoopSteps ==
  ASSUME StreamInv, start \/ ReconnectTimer
  PROVE  StreamStep
<1> USE DEF StreamInv
<1>1. /\ runLoop /\ ~stopped
      /\ running' = TRUE \/ running' = running
      /\ reconnectAttempts' = 0 \/ reconnectAttempts' = reconnectAttempts
      /\ UNCHANGED <<preferredMode, stopped, lastEventId, lastKnownTransaction,
                     received, version, closes, late, drops>>
  BY Zenon DEF start, ReconnectTimer, LoopAccounted
<1>0. StreamFlags'
  <2>1. sseSupported' \in BOOLEAN /\ longPollSupported' \in BOOLEAN
    BY <1>1, RunLoopCases, Zenon
  <2>2. running' \in BOOLEAN /\ stopped' \in BOOLEAN /\ late' \in BOOLEAN
    BY <1>1, Zenon DEF StreamFlags
  <2> QED  BY <2>1, <2>2, Zenon DEF StreamFlags
<1>2. StreamTypes'
  <2>1. activity' \in Activity
    BY <1>1, RunLoopCases, Zenon DEF Activity
  <2>3. reconnectAttempts' \in 0..maxReconnectAttempts
    BY <1>1, StreamNumbers, StreamAssumption
  <2>2. currentMode' \in {"sse", "long-poll", "polling"} /\ cursor' \in Version \cup {NoVersion}
    BY <1>1, RunLoopCases, Zenon
  <2> QED  BY <1>1, <2>1, <2>2, <2>3, Zenon DEF StreamTypes
<1>3. LoopAccounted'
  <2>1. running'
    BY Zenon DEF start, ReconnectTimer, LoopAccounted
  <2>2. activity' \in {"fetch", "sse"}
    BY <1>1, RunLoopCases, Zenon
  <2> QED  BY <1>1, <2>1, <2>2, Zenon DEF LoopAccounted
<1>4. Ends'
  BY <1>1, Zenon DEF Ends
<1>5. Counts'
  BY <1>1, RunLoopCases DEF Counts, Ends, StreamTypes
<1>6. Ordered'
  BY <1>1, RunLoopCases, Zenon DEF Ordered
<1>7. ModeStep
  BY <1>1, RunLoopCases, Zenon DEF ModeStep, StreamTypes
<1>8. OrderStep
  BY <1>1, StreamAssumption DEF OrderStep, StreamTypes, Version, NoVersion
<1> QED  BY <1>0, <1>2, <1>3, <1>4, <1>5, <1>6, <1>7, <1>8, Zenon DEF StreamStep

\* A failure: of the EventSource, of a request, or of reading an answer.
LEMMA FailSteps ==
  ASSUME StreamInv, NEW quits \in BOOLEAN,
         SseDrops(quits) \/ FetchFails(quits) \/ JsonUnparseable(quits)
  PROVE  StreamStep
<1> USE DEF StreamInv
<1>1. /\ fail(quits) /\ Halted
      /\ activity \in {"sse", "fetch", "json"} /\ (activity = "fetch" => ~stopped)
      /\ UNCHANGED <<preferredMode, modes, lastEventId, lastKnownTransaction,
                     received, anchor>>
  BY Zenon DEF SseDrops, FetchFails, JsonUnparseable
<1>2. UNCHANGED <<preferredMode, currentMode, sseSupported, longPollSupported,
                  lastEventId, lastKnownTransaction, received, version, cursor>>
  BY <1>1, Zenon DEF modes, anchor
<1>0. StreamFlags'
  <2>1. sseSupported' \in BOOLEAN /\ longPollSupported' \in BOOLEAN
    BY <1>2, Zenon DEF StreamFlags
  <2>2. stopped' \in BOOLEAN /\ late' \in BOOLEAN /\ (running' = FALSE \/ running' = running)
    BY <1>1, FailCases, Zenon
  <2> QED  BY <2>1, <2>2, Zenon DEF StreamFlags
<1>3. StreamTypes'
  <2>1. activity' \in Activity /\ drops' \in 0..(maxReconnectAttempts + 1)
    BY <1>1, FailCases, Zenon DEF Activity
  <2>2. \/ reconnectAttempts' = reconnectAttempts
        \/ /\ reconnectAttempts' = reconnectAttempts + 1
           /\ reconnectAttempts < maxReconnectAttempts
    BY <1>1, FailCases, Zenon
  <2>3. reconnectAttempts' \in 0..maxReconnectAttempts
    BY <2>2, StreamNumbers, StreamAssumption
  <2> QED  BY <1>2, <2>1, <2>3, Zenon DEF StreamTypes
<1>4. LoopAccounted'
  BY <1>1, FailCases, Zenon DEF LoopAccounted
<1>5. Ends'
  BY <1>1, FailCases, EndingsDiffer, Zenon DEF Ends
<1>6. Counts'
  <2>1. closes' = ByGivingUp =>
          ~stopped /\ reconnectAttempts >= maxReconnectAttempts
    BY <1>1, FailCases, EndingsDiffer, Zenon
  <2>2. ~stopped' => ~stopped /\ reconnectAttempts' = reconnectAttempts + 1
    BY <1>1, FailCases, Zenon
  <2>3. activity' # "sse" /\ drops' >= drops /\ (drops <= maxReconnectAttempts => drops' = drops + 1)
    BY <1>1, FailCases, Zenon
  <2>4. ~stopped' => reconnectAttempts < maxReconnectAttempts
    BY <1>1, FailCases, Zenon
  <2>5. SUFFICES ASSUME preferredMode # "sse"
                 PROVE  /\ ~stopped' => reconnectAttempts' <= drops'
                        /\ closes' = ByGivingUp => drops' > maxReconnectAttempts
    BY <1>2, <2>3, Zenon DEF Counts
  <2>6. ~stopped => reconnectAttempts <= drops
    BY <2>5, Zenon DEF Counts
  <2>7. drops' >= drops /\ (drops <= maxReconnectAttempts => drops' = drops + 1) /\ drops' \in Int
    <3>1. drops' \in 0..(maxReconnectAttempts + 1)
      BY <1>1, FailCases, Zenon
    <3> QED  BY <2>3, <3>1
  <2> HIDE DEF StreamInv
  <2> QED  BY <2>1, <2>2, <2>4, <2>6, <2>7, StreamNumbers, StreamAssumption
<1>7. Ordered'
  BY <1>1, <1>2, FailCases, Zenon DEF Ordered
<1>8. ModeStep
  BY <1>2, Zenon DEF ModeStep, StreamTypes
<1>9. OrderStep
  BY <1>2, StreamAssumption DEF OrderStep, StreamTypes, Version, NoVersion
<1> QED  BY <1>0, <1>3, <1>4, <1>5, <1>6, <1>7, <1>8, <1>9, Zenon DEF StreamStep

\* An update, from the EventSource or from an answer.
LEMMA UpdateSteps ==
  ASSUME StreamInv, NEW quits \in BOOLEAN, SseUpdate(quits) \/ JsonUpdate(quits)
  PROVE  StreamStep
<1> USE DEF StreamInv
<1>1. CASE SseUpdate(quits)
  <2>1. cursor + 1 \in Version
    BY <1>1, StreamAssumption DEF SseUpdate, StreamTypes, Version, NoVersion
  <2>2. /\ processTransaction(cursor + 1, quits) /\ Halted /\ activity = "sse"
        /\ cursor < version /\ cursor' = cursor + 1 /\ lastEventId' = cursor + 1
        /\ activity' = IF stopped' THEN "none" ELSE "sse"
        /\ UNCHANGED <<preferredMode, reconnectAttempts, received, version>>
    BY <1>1, Zenon DEF SseUpdate
  <2>3. UNCHANGED <<currentMode, sseSupported, longPollSupported>>
    BY <1>1, Zenon DEF SseUpdate, modes
  <2>0. StreamFlags'
    <3>1. sseSupported' \in BOOLEAN /\ longPollSupported' \in BOOLEAN
      BY <2>3, Zenon DEF StreamFlags
    <3>2. stopped' \in BOOLEAN /\ late' \in BOOLEAN /\ (running' = FALSE \/ running' = running)
      BY <2>1, <2>2, ProcessCases, Zenon
    <3> QED  BY <3>1, <3>2, Zenon DEF StreamFlags
  <2>4. StreamTypes'
    <3>1. lastKnownTransaction' \in Version \cup {NoVersion}
      BY <2>1, <2>2, ProcessCases, Zenon
    <3>2. activity' \in Activity
      BY <2>2, Zenon DEF Activity
    <3>3. drops' \in 0..(maxReconnectAttempts + 1)
      <4>1. drops' = 0
        BY <2>1, <2>2, ProcessCases, Zenon
      <4> QED  BY <4>1, StreamAssumption
    <3>4. reconnectAttempts' \in 0..maxReconnectAttempts
      <4>1. reconnectAttempts' = reconnectAttempts \/ reconnectAttempts' = 0
        BY <2>2, Zenon
      <4> QED  BY <4>1, StreamNumbers, StreamAssumption
    <3>5. cursor' \in Version \cup {NoVersion} /\ lastEventId' \in Version \cup {NoVersion}
      BY <2>1, <2>2, <2>3, Zenon DEF StreamTypes
    <3> QED  BY <2>2, <2>3, <3>1, <3>2, <3>3, <3>4, <3>5, Zenon DEF StreamTypes
  <2>5. LoopAccounted'
    BY <2>1, <2>2, ProcessCases, Zenon DEF LoopAccounted
  <2>6. Ends'
    BY <2>1, <2>2, ProcessCases, EndingsDiffer, ZenonT(30) DEF Ends
  <2>7. Counts'
    BY <2>2, Zenon DEF Counts
  <2>8. Ordered'
    <3>1. lastKnownTransaction' = cursor + 1
      BY <2>1, <2>2, ProcessCases, Zenon
    <3>2. activity' # "json" /\ currentMode = "sse"
      BY <2>2, Zenon DEF Ordered
    <3> QED  BY <2>1, <2>2, <2>3, <3>1, <3>2, StreamAssumption
               DEF Ordered, StreamTypes, Version, NoVersion
  <2>9. ModeStep
    BY <2>3, Zenon DEF ModeStep, StreamTypes
  <2>10. OrderStep
    <3>1. lastKnownTransaction' = cursor + 1
      BY <2>1, <2>2, ProcessCases, Zenon
    <3>2. lastEventId = NoVersion \/ cursor = lastEventId
      BY <2>2, Zenon DEF Ordered
    <3>3. lastKnownTransaction <= lastEventId
      BY <2>2, Zenon DEF Ordered
    <3> QED  BY <2>1, <2>2, <3>1, <3>2, <3>3, StreamAssumption
               DEF OrderStep, StreamTypes, Version, NoVersion
  <2> QED  BY <2>0, <2>4, <2>5, <2>6, <2>7, <2>8, <2>9, <2>10, Zenon DEF StreamStep
<1>2. CASE JsonUpdate(quits)
  <2>1. received.tx \in Version /\ lastKnownTransaction <= received.tx
        /\ received.tx <= version
    BY <1>2, Zenon DEF JsonUpdate, Ordered
  <2>2. /\ processTransaction(received.tx, quits) /\ Halted /\ activity = "json"
        /\ reconnectAttempts' = IF stopped' THEN reconnectAttempts ELSE 0
        /\ activity' = IF stopped' THEN "none"
                       ELSE IF currentMode = "long-poll" THEN "fetch" ELSE "poll timer"
        /\ UNCHANGED <<preferredMode, lastEventId, received>>
    BY <1>2, Zenon DEF JsonUpdate, continue
  <2>3. UNCHANGED <<currentMode, sseSupported, longPollSupported, version, cursor>>
    BY <1>2, Zenon DEF JsonUpdate, modes, anchor
  <2>0. StreamFlags'
    <3>1. sseSupported' \in BOOLEAN /\ longPollSupported' \in BOOLEAN
      BY <2>3, Zenon DEF StreamFlags
    <3>2. stopped' \in BOOLEAN /\ late' \in BOOLEAN /\ (running' = FALSE \/ running' = running)
      BY <2>1, <2>2, ProcessCases, Zenon
    <3> QED  BY <3>1, <3>2, Zenon DEF StreamFlags
  <2>4. StreamTypes'
    <3>1. lastKnownTransaction' \in Version \cup {NoVersion}
      BY <2>1, <2>2, ProcessCases, Zenon
    <3>2. activity' \in Activity
      BY <2>2, Zenon DEF Activity
    <3>3. drops' \in 0..(maxReconnectAttempts + 1)
      <4>1. drops' = 0
        BY <2>1, <2>2, ProcessCases, Zenon
      <4> QED  BY <4>1, StreamAssumption
    <3>4. reconnectAttempts' \in 0..maxReconnectAttempts
      <4>1. reconnectAttempts' = reconnectAttempts \/ reconnectAttempts' = 0
        BY <2>2, Zenon
      <4> QED  BY <4>1, StreamNumbers, StreamAssumption
    <3>5. cursor' \in Version \cup {NoVersion} /\ lastEventId' \in Version \cup {NoVersion}
      BY <2>1, <2>2, <2>3, Zenon DEF StreamTypes
    <3> QED  BY <2>2, <2>3, <3>1, <3>2, <3>3, <3>4, <3>5, Zenon DEF StreamTypes
  <2>5. LoopAccounted'
    BY <2>1, <2>2, ProcessCases, Zenon DEF LoopAccounted
  <2>6. Ends'
    BY <2>1, <2>2, ProcessCases, EndingsDiffer, Zenon DEF Ends
  <2>7. Counts'
    <3>1. closes' # ByGivingUp
      BY <2>1, <2>2, ProcessCases, EndingsDiffer, Zenon
    <3>2. ~stopped' => reconnectAttempts' = 0 /\ drops' = 0
      BY <2>1, <2>2, ProcessCases, Zenon
    <3>3. ~stopped' => reconnectAttempts' <= drops'
      BY <3>2
    <3> QED  BY <2>2, <2>3, <3>1, <3>3, Zenon DEF Counts
  <2>8. Ordered'
    <3>1. lastKnownTransaction' = received.tx
      BY <2>1, <2>2, ProcessCases, Zenon
    <3>2. currentMode # "sse"
      BY <2>2, Zenon DEF Ordered
    <3> QED  BY <2>1, <2>2, <2>3, <3>1, <3>2, Zenon DEF Ordered
  <2>9. ModeStep
    BY <2>3, Zenon DEF ModeStep, StreamTypes
  <2>10. OrderStep
    <3>1. lastKnownTransaction' = received.tx
      BY <2>1, <2>2, ProcessCases, Zenon
    <3> QED  BY <2>1, <2>2, <3>1, StreamAssumption, Zenon DEF OrderStep, StreamTypes, Version, NoVersion
  <2> QED  BY <2>0, <2>4, <2>5, <2>6, <2>7, <2>8, <2>9, <2>10, Zenon DEF StreamStep
<1> QED  BY <1>1, <1>2, Zenon

\* stop() is called from outside.
LEMMA StopStep ==
  ASSUME StreamInv, stop
  PROVE  StreamStep
<1> USE DEF StreamInv
<1>1. /\ ~stopped /\ stopped' = TRUE /\ running' = FALSE
      /\ activity' = IF activity \in {"fetch", "json"} THEN activity ELSE "none"
      /\ UNCHANGED <<preferredMode, currentMode, sseSupported, longPollSupported,
                     reconnectAttempts, lastEventId, lastKnownTransaction,
                     received, version, cursor, late, drops>>
  BY Zenon DEF stop, cancelActive, modes, anchor
<1>2. closes' = ByCaller
  <2>1. closes = <<>>
    BY <1>1, Zenon DEF Ends
  <2> QED  BY <2>1 DEF stop, ByCaller
<1>3. StreamFlags'
  BY <1>1, Zenon DEF StreamFlags
<1>4. StreamTypes'
  <2>1. activity' \in Activity
    BY <1>1, Zenon DEF StreamTypes, Activity
  <2> QED  BY <1>1, <2>1, Zenon DEF StreamTypes
<1>5. LoopAccounted'
  BY <1>1, Zenon DEF LoopAccounted
<1>6. Ends'
  BY <1>1, <1>2, EndingsDiffer, Zenon DEF Ends
<1>7. Counts'
  <2>1. closes' # ByGivingUp
    BY <1>2, EndingsDiffer, Zenon
  <2>2. activity' = "sse" => activity = "sse"
    BY <1>1, Zenon
  <2> QED  BY <1>1, <2>1, <2>2, Zenon DEF Counts
<1>8. Ordered'
  BY <1>1, Zenon DEF Ordered
<1>9. ModeStep
  BY <1>1, Zenon DEF ModeStep, StreamTypes
<1>10. OrderStep
  BY <1>1, StreamNumbers DEF OrderStep
<1> QED  BY <1>3, <1>4, <1>5, <1>6, <1>7, <1>8, <1>9, <1>10, Zenon DEF StreamStep

\* A message that carries no transaction.
LEMMA BadMessageSteps ==
  ASSUME StreamInv, NEW quits \in BOOLEAN, SseGarbled(quits) \/ SseNull
  PROVE  StreamStep
<1> USE DEF StreamInv
<1>1. /\ activity = "sse" /\ cursor < version
      /\ cursor' = cursor + 1 /\ lastEventId' = cursor + 1
      /\ lastKnownTransaction' \in {lastKnownTransaction, NoVersion}
      /\ UNCHANGED <<preferredMode, currentMode, sseSupported, longPollSupported,
                     reconnectAttempts, received, version>>
  BY Zenon DEF SseGarbled, SseNull, modes
<1>2. ~stopped /\ closes = <<>> /\ currentMode = "sse"
  BY <1>1, Zenon DEF LoopAccounted, Ends, Ordered
<1>3. late' \in BOOLEAN /\ drops' \in 0..(maxReconnectAttempts + 1)
  <2>1. late' \in BOOLEAN
    BY Zenon DEF SseGarbled, SseNull, emitError, StreamFlags
  <2>2. drops' = drops \/ drops' = IF drops > maxReconnectAttempts THEN drops ELSE drops + 1
    BY Zenon DEF SseGarbled, SseNull, emitError
  <2>3. drops' \in 0..(maxReconnectAttempts + 1)
    BY <2>2, StreamNumbers, StreamAssumption
  <2> QED  BY <2>1, <2>3, Zenon
<1>4. \/ stopped' = TRUE /\ running' = FALSE /\ activity' = "none" /\ closes' = ByCaller
      \/ stopped' = FALSE /\ running' = running /\ activity' = "sse" /\ closes' = <<>>
  <2>1. CASE SseNull
    <3>1. stopped' = FALSE
      BY <1>2, <2>1, Zenon DEF SseNull, StreamFlags
    <3> QED  BY <1>1, <1>2, <2>1, <3>1, Zenon DEF SseNull
  <2>2. CASE SseGarbled(quits) /\ quits
    <3>1. stopped' = TRUE /\ running' = FALSE
      BY <2>2, Zenon DEF SseGarbled, Halted
    <3>2. closes' = ByCaller
      <4>1. closes' = <<>> \o <<"closed_by_caller">>
        BY <1>2, <2>2, Zenon DEF SseGarbled, closedByHandler
      <4> QED  BY <4>1 DEF ByCaller
    <3>3. activity' = "none"
      BY <2>2, <3>1, Zenon DEF SseGarbled
    <3> QED  BY <3>1, <3>2, <3>3, Zenon
  <2>3. CASE SseGarbled(quits) /\ ~quits
    <3>1. stopped' = FALSE
      BY <1>2, <2>3, Zenon DEF SseGarbled, StreamFlags
    <3>2. running' = running
      BY <2>3, <3>1, Zenon DEF SseGarbled, Halted, StreamFlags
    <3>3. closes' = <<>>
      <4>1. closes' = <<>> \o <<>>
        BY <1>2, <2>3, Zenon DEF SseGarbled, closedByHandler
      <4> QED  BY <4>1
    <3>4. activity' = "sse"
      BY <2>3, <3>1, Zenon DEF SseGarbled
    <3> QED  BY <3>1, <3>2, <3>3, <3>4, Zenon
  <2> QED  BY <2>1, <2>2, <2>3, Zenon
<1>5. StreamFlags'
  <2>1. stopped' \in BOOLEAN /\ (running' = FALSE \/ running' = running)
    BY <1>4, Zenon
  <2> QED  BY <1>1, <1>3, <2>1, Zenon DEF StreamFlags
<1>6. cursor + 1 \in Version
  BY <1>1, StreamNumbers, StreamAssumption DEF Version
<1>7. StreamTypes'
  <2>1. activity' \in Activity
    BY <1>4, Zenon DEF Activity
  <2>2. lastKnownTransaction' \in Version \cup {NoVersion}
    BY <1>1, Zenon DEF StreamTypes
  <2>3. cursor' \in Version \cup {NoVersion} /\ lastEventId' \in Version \cup {NoVersion}
    BY <1>1, <1>6, Zenon
  <2> QED  BY <1>1, <1>3, <2>1, <2>2, <2>3, Zenon DEF StreamTypes
<1>8. LoopAccounted'
  <2>1. running
    BY <1>1, <1>2, Zenon DEF LoopAccounted
  <2> QED  BY <1>4, <2>1, Zenon DEF LoopAccounted
<1>9. Ends'
  BY <1>4, EndingsDiffer, Zenon DEF Ends
<1>10. Counts'
  BY <1>1, Zenon DEF Counts
<1>11. Ordered'
  <2>1. lastKnownTransaction <= lastEventId /\ (lastEventId = NoVersion \/ cursor = lastEventId)
    BY <1>1, <1>2, Zenon DEF Ordered
  <2>2. activity' \in {"none", "sse"}
    BY <1>4, Zenon
  <2>3. /\ lastKnownTransaction' <= cursor + 1 /\ cursor + 1 <= version
        /\ lastKnownTransaction' <= version
    <3> HIDE DEF StreamInv
    <3> QED  BY <1>1, <2>1, StreamNumbers DEF NoVersion
  <2> QED  BY <1>1, <1>2, <2>2, <2>3, Zenon DEF Ordered
<1>12. ModeStep
  BY <1>1, Zenon DEF ModeStep, StreamTypes
<1>13. OrderStep
  <2>1. lastEventId = NoVersion \/ cursor = lastEventId
    BY <1>1, <1>2, Zenon DEF Ordered
  <2> QED  BY <1>1, <2>1, StreamNumbers DEF OrderStep
<1> QED  BY <1>5, <1>7, <1>8, <1>9, <1>10, <1>11, <1>12, <1>13, Zenon DEF StreamStep

\* The answers to a request, up to the next request or timer.
LEMMA AnswerSteps ==
  ASSUME StreamInv,
         \/ FetchIgnored \/ FetchAborted \/ LongPollUnsupported \/ JsonNull \/ JsonEmpty
         \/ \E kind \in BodyKind : FetchAnswers(kind)
         \/ PollTimer
  PROVE  StreamStep
<1> USE DEF StreamInv
<1>1. UNCHANGED <<preferredMode, sseSupported, running, stopped, lastEventId,
                  lastKnownTransaction, version, cursor, closes, late>>
  BY Zenon DEF FetchIgnored, FetchAborted, LongPollUnsupported, JsonNull, JsonEmpty, FetchAnswers,
         PollTimer, modes, anchor
<1>2. /\ \/ longPollSupported' = FALSE /\ currentMode' = "polling"
         \/ longPollSupported' = longPollSupported /\ currentMode' = currentMode
      /\ activity \in {"fetch", "json", "poll timer"}
  BY Zenon DEF FetchIgnored, FetchAborted, LongPollUnsupported, JsonNull, JsonEmpty, FetchAnswers,
         PollTimer, modes
<1>3. /\ activity' \in {"none", "crashed", "aborted", "fetch", "json", "poll timer"}
      /\ activity' \in {"crashed", "aborted"} => ~stopped
      /\ activity' = "crashed" => received'.kind = "null"
  BY <1>1, Zenon DEF FetchIgnored, FetchAborted, LongPollUnsupported, JsonNull, JsonEmpty, FetchAnswers,
         PollTimer, continue
<1>4. \/ reconnectAttempts' = reconnectAttempts /\ drops' = drops
      \/ drops' = 0 /\ reconnectAttempts' = IF stopped' THEN reconnectAttempts ELSE 0
  BY Zenon DEF FetchIgnored, FetchAborted, LongPollUnsupported, JsonNull, JsonEmpty, FetchAnswers,
         PollTimer, continue
<1>5. /\ activity' = "none" => stopped
      /\ stopped /\ activity' # "none" => activity' = activity
  BY <1>1, Zenon DEF FetchIgnored, FetchAborted, LongPollUnsupported, JsonNull, JsonEmpty, FetchAnswers,
         PollTimer, continue, LoopAccounted
<1>6. \/ received' = received /\ (activity' = "json" => activity = "json")
      \/ \E kind \in BodyKind :
           received' = [kind |-> kind, tx |-> IF kind = "update" THEN version ELSE NoVersion]
  BY Zenon DEF FetchIgnored, FetchAborted, LongPollUnsupported, JsonNull, JsonEmpty, FetchAnswers,
         PollTimer, continue
<1>7. StreamFlags'
  BY <1>1, <1>2, Zenon DEF StreamFlags
<1>8. StreamTypes'
  <2>1. activity' \in Activity
    BY <1>3, Zenon DEF Activity
  <2>2. currentMode' \in {"sse", "long-poll", "polling"}
    BY <1>2, Zenon DEF StreamTypes
  <2>3. received' \in [kind : BodyKind, tx : Version \cup {NoVersion}]
    BY <1>6 DEF StreamTypes
  <2>4. reconnectAttempts' \in 0..maxReconnectAttempts /\ drops' \in 0..(maxReconnectAttempts + 1)
    <3> HIDE DEF StreamInv
    <3> QED  BY <1>4, StreamNumbers, StreamAssumption
  <2> QED  BY <1>1, <2>1, <2>2, <2>3, <2>4, Zenon DEF StreamTypes
<1>9. LoopAccounted'
  <2>1. activity # "none" /\ activity # "crashed"
    BY <1>2, Zenon
  <2>2. running' <=> (~stopped' /\ activity' # "none")
    BY <1>1, <1>5, <2>1, Zenon DEF LoopAccounted
  <2>3. stopped' => activity' \in {"none", "fetch", "json"}
    BY <1>1, <1>5, Zenon DEF LoopAccounted
  <2> QED  BY <1>3, <2>2, <2>3, Zenon DEF LoopAccounted
<1>10. Ends'
  BY <1>1, <1>5, Zenon DEF Ends
<1>11. Counts'
  <2>1. closes' # ByGivingUp
    BY <1>1, <1>2, EndingsDiffer, Zenon DEF Ends, LoopAccounted
  <2>2. activity' # "sse" /\ (currentMode # "sse" => currentMode' # "sse")
    BY <1>2, <1>3, Zenon
  <2>3. ASSUME ~stopped, reconnectAttempts <= drops PROVE reconnectAttempts' <= drops'
    <3>1. ~stopped'
      BY <1>1, <2>3, Zenon
    <3> HIDE DEF StreamInv
    <3> QED  BY <1>4, <2>3, <3>1
  <2>4. ~stopped' => ~stopped
    BY <1>1, Zenon
  <2> QED  BY <1>1, <2>1, <2>2, <2>3, <2>4, Zenon DEF Counts
<1>12. Ordered'
  <2>1. currentMode # "sse" /\ currentMode' # "sse"
    BY <1>2, Zenon DEF Ordered
  <2>2. activity' = "json" /\ received'.kind = "update" =>
          received'.tx \in Version /\ lastKnownTransaction <= received'.tx
          /\ received'.tx <= version
    <3>1. CASE received' = received /\ (activity' = "json" => activity = "json")
      BY <3>1, Zenon DEF Ordered
    <3>2. ASSUME NEW kind \in BodyKind,
                 received' = [kind |-> kind, tx |-> IF kind = "update" THEN version ELSE NoVersion],
                 received'.kind = "update"
          PROVE  received'.tx \in Version /\ lastKnownTransaction <= received'.tx
                 /\ received'.tx <= version
      <4>1. received'.tx = version
        BY <3>2, Zenon
      <4>2. lastKnownTransaction <= version /\ version \in Version
        BY Zenon DEF Ordered, StreamTypes
      <4> HIDE DEF StreamInv
      <4> QED  BY <4>1, <4>2, StreamNumbers
    <3> QED  BY <1>6, <3>1, <3>2, Zenon
  <2> QED  BY <1>1, <1>3, <2>1, <2>2, Zenon DEF Ordered
<1>13. ModeStep
  BY <1>2, Zenon DEF ModeStep, StreamTypes, Ordered
<1>14. OrderStep
  BY <1>1, StreamNumbers DEF OrderStep
<1> QED  BY <1>7, <1>8, <1>9, <1>10, <1>11, <1>12, <1>13, <1>14, Zenon DEF StreamStep

\* The anchor moves the transaction on.
LEMMA AnchorStep ==
  ASSUME StreamInv, AnchorMoves
  PROVE  StreamStep
<1> USE DEF StreamInv
<1>1. /\ version < FinalVersion /\ version' = version + 1
      /\ UNCHANGED <<preferredMode, currentMode, sseSupported, longPollSupported,
                     running, stopped, reconnectAttempts, lastEventId,
                     lastKnownTransaction, activity, received, cursor, closes, late, drops>>
  BY Zenon DEF AnchorMoves, modes
<1>2. StreamFlags'
  BY <1>1, Zenon DEF StreamFlags
<1>3. StreamTypes'
  <2>1. version' \in Version
    <3> HIDE DEF StreamInv
    <3> QED  BY <1>1, StreamNumbers, StreamAssumption DEF Version
  <2> QED  BY <1>1, <2>1, Zenon DEF StreamTypes
<1>4. LoopAccounted' /\ Ends' /\ Counts'
  BY <1>1, Zenon DEF LoopAccounted, Ends, Counts
<1>5. Ordered'
  <2>1. lastKnownTransaction <= version' /\ lastEventId <= version' /\ cursor <= version'
    <3>1. lastKnownTransaction <= version /\ lastEventId <= version /\ cursor <= version
      BY Zenon DEF Ordered
    <3> HIDE DEF StreamInv
    <3> QED  BY <1>1, <3>1, StreamNumbers
  <2>2. ASSUME received.tx \in Version, received.tx <= version PROVE received.tx <= version'
    <3> HIDE DEF StreamInv
    <3> QED  BY <1>1, <2>2, StreamNumbers, StreamAssumption DEF Version
  <2> QED  BY <1>1, <2>1, <2>2, Zenon DEF Ordered
<1>6. ModeStep
  BY <1>1, Zenon DEF ModeStep, StreamTypes
<1>7. OrderStep
  BY <1>1, StreamNumbers DEF OrderStep
<1> QED  BY <1>2, <1>3, <1>4, <1>5, <1>6, <1>7, Zenon DEF StreamStep

\* Every step keeps the invariant, the order of transports and of updates.
LEMMA StreamSteps ==
  ASSUME StreamInv, StreamNext
  PROVE  StreamStep
BY LoopSteps, FailSteps, UpdateSteps, StopStep, BadMessageSteps, AnswerSteps, AnchorStep, Zenon
   DEF StreamNext

\* The inductive invariant of the stream, which is kept by the requests that end
\* the loop without a word too: a null body and an AbortError.
THEOREM StreamInvCorrect == StreamSpec => []StreamInv
<1>1. StreamInv /\ UNCHANGED streamVars => StreamInv'
  <2> SUFFICES ASSUME StreamInv, UNCHANGED streamVars PROVE StreamInv'
    BY Zenon
  <2> USE DEF streamVars, StreamInv
  <2>1. StreamFlags' /\ StreamTypes'
    BY ZenonT(60) DEF StreamFlags, StreamTypes
  <2>2. LoopAccounted' /\ Ends' /\ Counts'
    BY Zenon DEF LoopAccounted, Ends, Counts
  <2>3. Ordered'
    BY Zenon DEF Ordered
  <2> QED  BY <2>1, <2>2, <2>3, Zenon
<1>2. StreamInv /\ [StreamNext]_streamVars => StreamInv'
  BY <1>1, StreamSteps, Zenon DEF StreamStep
<1> QED  BY <1>2, StreamInitInv, PTL DEF StreamSpec

\* Type correctness of the stream.
THEOREM StreamTypeCorrect == StreamSpec => []StreamTypeOK
<1>1. StreamInv => StreamTypeOK
  BY StreamTypesTypeOK, Zenon DEF StreamInv
<1> QED  BY <1>1, StreamInvCorrect, PTL

\* A stopped stream holds no connection and no timer.  A running one waits for
\* something, unless its loop was lost to a null body or to an AbortError that
\* stop() did not cause, after which it still counts as running (LoopAccounted).
THEOREM LoopAccountedCorrect == StreamSpec => []LoopAccounted
<1>1. StreamInv => LoopAccounted
  BY Zenon DEF StreamInv
<1> QED  BY <1>1, StreamInvCorrect, PTL

\* One close event, or stop() overtaken by the terminal status.
THEOREM CloseEventsCorrect == StreamSpec => []CloseEvents
<1>1. StreamInv => CloseEvents
  <2> SUFFICES ASSUME StreamInv PROVE CloseEvents
    BY Zenon
  <2>1. CASE ~stopped
    <3>1. closes = <<>> /\ Len(closes) = 0
      BY <2>1, Zenon DEF StreamInv, Ends
    <3> QED  BY <2>1, <3>1 DEF CloseEvents
  <2>2. CASE stopped
    <3>1. closes \in {ByCaller, ByStatus, ByGivingUp, ByBoth} /\ (closes = ByBoth => late)
      BY <2>2, Zenon DEF StreamInv, Ends
    <3>2. closes # <<>> /\ Len(closes) <= 2 /\ (Len(closes) = 2 => closes = ByBoth)
      <4>1. CASE closes = ByCaller  BY <4>1, EndingsDiffer
      <4>2. CASE closes = ByStatus  BY <4>2, EndingsDiffer
      <4>3. CASE closes = ByGivingUp  BY <4>3, EndingsDiffer
      <4>4. CASE closes = ByBoth  BY <4>4, EndingsDiffer
      <4> QED  BY <3>1, <4>1, <4>2, <4>3, <4>4, Zenon
    <3> QED  BY <2>2, <3>1, <3>2, Zenon DEF CloseEvents, ByBoth
  <2> QED  BY <2>1, <2>2, Zenon
<1> QED  BY <1>1, StreamInvCorrect, PTL

\* Without server-sent events the stream gives up only after
\* maxReconnectAttempts + 1 failures in a row.
THEOREM GivesUpCorrect == StreamSpec => []GivesUpAfterFailuresInARow
<1>1. StreamInv => GivesUpAfterFailuresInARow
  BY Zenon DEF StreamInv, Counts, GivesUpAfterFailuresInARow, ByGivingUp
<1> QED  BY <1>1, StreamInvCorrect, PTL

\* A stream ends as its close events tell.
THEOREM EndsCorrect == StreamSpec => []EndsAsReported
<1>1. CloseEvents /\ GivesUpAfterFailuresInARow => EndsAsReported
  BY Zenon DEF EndsAsReported
<1> QED  BY <1>1, CloseEventsCorrect, GivesUpCorrect, PTL

\* The transport only moves from server-sent events to long-poll to polling.
THEOREM ModeCorrect == StreamSpec => ModeOnlyDowngrades
<1>1. StreamInv /\ [StreamNext]_streamVars => [ModeStep]_streamVars
  BY StreamSteps, Zenon DEF StreamStep
<1> QED  BY <1>1, StreamInvCorrect, PTL DEF StreamSpec, ModeOnlyDowngrades, ModeStep

\* Updates arrive in the anchor's order, across reconnects and transports.
THEOREM OrderCorrect == StreamSpec => UpdatesInOrder
<1>1. StreamInv /\ [StreamNext]_streamVars => [OrderStep]_streamVars
  BY StreamSteps, Zenon DEF StreamStep
<1> QED  BY <1>1, StreamInvCorrect, PTL DEF StreamSpec, UpdatesInOrder, OrderStep

\* What a step may still do once stop() has returned: nothing is started, and
\* the handlers hear at most what one answer holds that was being read.
AfterStop ==
  stopped =>
    /\ stopped' /\ ~running'
    /\ activity' \in {activity, "none"}
    /\ \/ UNCHANGED <<closes, late, lastKnownTransaction, lastEventId>>
       \/ activity = "json" /\ activity' = "none"

StopIsFinal == [][AfterStop]_streamVars

\* A stream that was not stopped by the caller ends in silence.
LateOnlyAfterStop == late => stopped /\ closes \in {ByCaller, ByBoth}

\* The steps of a stopped stream: the fetch that is ignored, the answer that
\* is read, and the anchor's own.
LEMMA StoppedSteps ==
  ASSUME StreamInv, StreamNext, stopped
  PROVE  AfterStop
<1>1. activity \in {"none", "fetch", "json"} /\ running = FALSE /\ stopped = TRUE
  BY Zenon DEF StreamInv, LoopAccounted, StreamFlags
<1>2. ASSUME NEW quits \in BOOLEAN, JsonUnparseable(quits)
      PROVE  AfterStop
  <2>1. fail(quits) /\ Halted /\ activity = "json"
    BY <1>2, Zenon DEF JsonUnparseable
  <2>2. stopped' = TRUE /\ running' = FALSE /\ activity' = "none"
    BY <1>1, <2>1, FailCases, Zenon
  <2> QED  BY <2>1, <2>2, Zenon DEF AfterStop
<1>3. ASSUME NEW quits \in BOOLEAN, JsonUpdate(quits)
      PROVE  AfterStop
  <2>1. processTransaction(received.tx, quits) /\ Halted /\ continue /\ activity = "json"
    BY <1>3, Zenon DEF JsonUpdate
  <2>2. stopped' = TRUE /\ running' = FALSE
    BY <1>1, <2>1, Zenon DEF processTransaction, Halted
  <2>3. activity' = "none"
    BY <2>1, <2>2, Zenon DEF continue
  <2> QED  BY <2>1, <2>2, <2>3, Zenon DEF AfterStop
<1>4. CASE FetchIgnored \/ JsonNull \/ JsonEmpty
  <2>1. UNCHANGED <<stopped, running, closes, late, lastKnownTransaction, lastEventId>>
    BY <1>4, Zenon DEF FetchIgnored, JsonNull, JsonEmpty
  <2>2. activity' = "none"
    BY <1>1, <1>4, <2>1, Zenon DEF FetchIgnored, JsonNull, JsonEmpty, continue
  <2> QED  BY <1>1, <2>1, <2>2, Zenon DEF AfterStop
<1>5. CASE AnchorMoves
  BY <1>1, <1>5, Zenon DEF AnchorMoves, AfterStop
<1>6. ~start /\ ~stop /\ ~SseNull /\ ~FetchAborted /\ ~LongPollUnsupported /\ ~PollTimer /\ ~ReconnectTimer
  BY <1>1, Zenon DEF start, stop, SseNull, FetchAborted, LongPollUnsupported, PollTimer,
                     ReconnectTimer
<1>7. /\ \A quits \in BOOLEAN : /\ ~SseUpdate(quits) /\ ~SseGarbled(quits)
                                /\ ~SseDrops(quits) /\ ~FetchFails(quits)
      /\ \A kind \in BodyKind : ~FetchAnswers(kind)
  BY <1>1, Zenon DEF SseUpdate, SseGarbled, SseDrops, FetchFails, FetchAnswers
<1> QED  BY <1>2, <1>3, <1>4, <1>5, <1>6, <1>7, Zenon DEF StreamNext

\* "After `stop()`, no further callbacks fire" is true of everything but an
\* answer whose json() was awaited when stop() was called (sep6Stream.ts):
\* a stopped stream stays stopped, opens nothing, arms no timer, and settles
\* at the latest with that answer.
THEOREM StopCorrect == StreamSpec => StopIsFinal
<1>1. StreamInv /\ [StreamNext]_streamVars => [AfterStop]_streamVars
  <2> SUFFICES ASSUME StreamInv, StreamNext PROVE AfterStop
    BY Zenon
  <2>1. CASE stopped
    BY <2>1, StoppedSteps, Zenon
  <2>2. CASE ~stopped
    BY <2>2, Zenon DEF AfterStop
  <2> QED  BY <2>1, <2>2, Zenon
<1> QED  BY <1>1, StreamInvCorrect, PTL DEF StreamSpec, StopIsFinal

\* Callbacks come late only where stop() was called.
LEMMA LateStaysExcused ==
  ASSUME StreamInv, LateOnlyAfterStop, StreamNext
  PROVE  LateOnlyAfterStop'
<1>0. ~stopped => late = FALSE
  BY Zenon DEF LateOnlyAfterStop, StreamInv, StreamFlags
<1>1. ASSUME NEW quits \in BOOLEAN, fail(quits), Halted,
             activity \in {"sse", "fetch", "json"}, activity = "fetch" => ~stopped
      PROVE  LateOnlyAfterStop'
  <2>1. CASE stopped
    <3>1. stopped' = TRUE /\ closes' = ByCaller
      BY <1>1, <2>1, FailCases, Zenon
    <3> QED  BY <3>1, Zenon DEF LateOnlyAfterStop, ByCaller, ByBoth
  <2>2. CASE ~stopped
    <3>1. late' = FALSE
      BY <1>0, <1>1, <2>2, Zenon DEF fail, emitError
    <3> QED  BY <3>1, Zenon DEF LateOnlyAfterStop
  <2> QED  BY <2>1, <2>2, Zenon
<1>2. ASSUME NEW quits \in BOOLEAN, NEW tx \in Version,
             processTransaction(tx, quits), activity \in {"sse", "json"}
      PROVE  LateOnlyAfterStop'
  <2>1. CASE stopped
    <3>1. closes = ByCaller
      BY <2>1, <1>2, Zenon DEF StreamInv, Ends, LoopAccounted
    <3>2. closes' = ByCaller \/ closes' = ByBoth
      BY <2>1, <1>2, <3>1, OneKept, TwoAdded, Zenon
         DEF processTransaction, closedByHandler, ByCaller, ByStatus, ByBoth
    <3>3. stopped' = TRUE
      BY <2>1, <1>2, Zenon DEF processTransaction
    <3> QED  BY <3>2, <3>3, Zenon DEF LateOnlyAfterStop, ByCaller, ByBoth
  <2>2. CASE ~stopped /\ quits /\ isTerminalStatus(tx)
    <3>1. closes = <<>>
      BY <2>2, Zenon DEF StreamInv, Ends
    <3>2. closes' = ByBoth
      BY <2>2, <1>2, <3>1, TwoAdded, Zenon
         DEF processTransaction, closedByHandler, ByCaller, ByStatus, ByBoth
    <3>3. stopped' = TRUE
      BY <2>2, <1>2, Zenon DEF processTransaction
    <3> QED  BY <3>2, <3>3, Zenon DEF LateOnlyAfterStop, ByCaller, ByBoth
  <2>3. CASE ~stopped /\ ~(quits /\ isTerminalStatus(tx))
    <3>1. late' = FALSE
      BY <1>0, <1>2, <2>3, Zenon DEF processTransaction
    <3> QED  BY <3>1, Zenon DEF LateOnlyAfterStop
  <2> QED  BY <2>1, <2>2, <2>3, Zenon
<1>3. ASSUME NEW quits \in BOOLEAN, SseGarbled(quits)
      PROVE  LateOnlyAfterStop'
  <2>1. ~stopped
    BY <1>3, Zenon DEF SseGarbled, StreamInv, LoopAccounted
  <2>2. late' = FALSE
    BY <1>0, <1>3, <2>1, Zenon DEF SseGarbled, emitError
  <2> QED  BY <2>2, Zenon DEF LateOnlyAfterStop
<1>4. CASE stop
  <2>1. late' = FALSE
    BY <1>0, <1>4, Zenon DEF stop
  <2> QED  BY <2>1, Zenon DEF LateOnlyAfterStop
<1>5. CASE UNCHANGED <<stopped, closes, late>>
  BY <1>5, Zenon DEF LateOnlyAfterStop, ByCaller, ByBoth
<1>6. \/ start \/ SseNull \/ FetchIgnored \/ FetchAborted \/ LongPollUnsupported
      \/ JsonNull \/ JsonEmpty \/ PollTimer \/ ReconnectTimer \/ AnchorMoves
      \/ \E kind \in BodyKind : FetchAnswers(kind)
      => UNCHANGED <<stopped, closes, late>>
  BY Zenon DEF start, SseNull, FetchIgnored, FetchAborted, LongPollUnsupported,
     JsonNull, JsonEmpty, PollTimer, ReconnectTimer, AnchorMoves, FetchAnswers
<1>7. ASSUME NEW quits \in BOOLEAN,
             SseDrops(quits) \/ FetchFails(quits) \/ JsonUnparseable(quits)
      PROVE  LateOnlyAfterStop'
  <2>1. /\ fail(quits) /\ Halted /\ activity \in {"sse", "fetch", "json"}
        /\ activity = "fetch" => ~stopped
    BY <1>7, Zenon DEF SseDrops, FetchFails, JsonUnparseable
  <2> QED  BY <1>1, <2>1, Zenon
<1>8. ASSUME NEW quits \in BOOLEAN, SseUpdate(quits)
      PROVE  LateOnlyAfterStop'
  <2>1. cursor + 1 \in Version
    <3>1. cursor \in Version \cup {NoVersion} /\ cursor < version /\ version \in Version
      BY <1>8, Zenon DEF SseUpdate, StreamInv, StreamTypes
    <3> QED  BY <3>1, StreamAssumption DEF Version, NoVersion
  <2> QED  BY <1>2, <1>8, <2>1, Zenon DEF SseUpdate
<1>9. ASSUME NEW quits \in BOOLEAN, JsonUpdate(quits)
      PROVE  LateOnlyAfterStop'
  <2>1. received.tx \in Version
    BY <1>9, Zenon DEF JsonUpdate, StreamInv, Ordered
  <2> QED  BY <1>2, <1>9, <2>1, Zenon DEF JsonUpdate
<1> QED  BY <1>3, <1>4, <1>5, <1>6, <1>7, <1>8, <1>9, Zenon DEF StreamNext

\* A stream that ended with the terminal status, or by giving up, makes no
\* further callback: only after stop() can one come late (processTransaction,
\* emitError).
THEOREM SilentUnlessStopped == StreamSpec => []LateOnlyAfterStop
<1>1. StreamInit => LateOnlyAfterStop
  BY Zenon DEF StreamInit, LateOnlyAfterStop
<1>2. ASSUME LateOnlyAfterStop, UNCHANGED streamVars
      PROVE  LateOnlyAfterStop'
  <2>1. stopped' = stopped /\ closes' = closes /\ late' = late
    BY <1>2, Zenon DEF streamVars
  <2> QED  BY <1>2, <2>1, Zenon DEF LateOnlyAfterStop, ByCaller, ByBoth
<1>3. StreamInv /\ LateOnlyAfterStop /\ [StreamNext]_streamVars => LateOnlyAfterStop'
  BY <1>2, LateStaysExcused, Zenon
<1> QED  BY <1>1, <1>3, StreamInvCorrect, PTL DEF StreamSpec

-----------------------------------------------------------------------------
(* The developer panel.                                                    *)

\* The type invariant bounds the shown logs by a set of functions.
LEMMA BoundedSequence ==
  ASSUME NEW S, NEW s \in Seq(S), NEW N \in Nat, Len(s) <= N
  PROVE  \E n \in 0..N : s \in [1..n -> S]
<1>1. Len(s) \in 0..N /\ s \in [1..Len(s) -> S]
  OBVIOUS
<1>2. QED
  BY <1>1, Zenon

\* One more element in front of a sequence.
LEMMA PushSpec ==
  ASSUME NEW T, NEW x \in T, NEW rest \in Seq(T)
  PROVE  /\ <<x>> \o rest \in Seq(T)
         /\ Len(<<x>> \o rest) = Len(rest) + 1
  OBVIOUS

\* One request is on its way while the panel is loading, the last one sent; what
\* its handler captured is still the latest, as nothing was answered since.
PanelInv ==
  /\ lastId \in Nat
  /\ logs \in Seq(Nat)
  /\ builderLogs \in Seq([id : Nat, ok : BOOLEAN])
  /\ \A n \in DOMAIN builderLogs : builderLogs[n].id <= lastId
  /\ LatestSuccesses(logs)
  /\ ~loading => requests = {}
  /\ \A r \in requests :
       /\ requests = {r} /\ r.id = lastId /\ r.captured \in Seq(Nat)
       /\ LatestSuccesses(r.captured)
       /\ \A n \in DOMAIN builderLogs : builderLogs[n].id < lastId

\* The id of a log is a number.
LEMMA LogIds ==
  ASSUME builderLogs \in Seq([id : Nat, ok : BOOLEAN]), NEW n \in DOMAIN builderLogs
  PROVE  builderLogs[n].id \in Nat
<1> DEFINE Log == [id : Nat, ok : BOOLEAN]
<1>1. builderLogs \in Seq(Log)
  BY Zenon
<1> HIDE DEF Log
<1>2. builderLogs[n] \in Log
  BY <1>1
<1>3. QED
  BY <1>2, Zenon DEF Log

\* What the log of one more request adds to the successes.
LEMMA LoggedAnswer ==
  ASSUME builderLogs \in Seq([id : Nat, ok : BOOLEAN]), NEW id \in Nat, NEW ok \in BOOLEAN,
         builderLogs' = Append(builderLogs, [id |-> id, ok |-> ok])
  PROVE  /\ builderLogs' \in Seq([id : Nat, ok : BOOLEAN])
         /\ \A n \in DOMAIN builderLogs' :
              builderLogs'[n].id = id \/ \E m \in DOMAIN builderLogs : builderLogs'[n] = builderLogs[m]
         /\ succeeded' = IF ok THEN succeeded \cup {id} ELSE succeeded
<1> DEFINE new == [id |-> id, ok |-> ok]
           k == Len(builderLogs) + 1
<1>1. new \in [id : Nat, ok : BOOLEAN] /\ new.id = id /\ (new.ok <=> ok)
  BY Zenon
<1> HIDE DEF new
<1>2. /\ builderLogs' \in Seq([id : Nat, ok : BOOLEAN])
      /\ DOMAIN builderLogs' = DOMAIN builderLogs \cup {k}
      /\ builderLogs'[k] = new
      /\ \A n \in DOMAIN builderLogs : builderLogs'[n] = builderLogs[n]
  BY <1>1 DEF new
<1>3. ASSUME NEW x
      PROVE  x \in succeeded' <=> (x \in succeeded \/ (ok /\ x = id))
  <2>1. x \in succeeded' <=> \E n \in DOMAIN builderLogs' : builderLogs'[n].ok /\ x = builderLogs'[n].id
    BY Zenon DEF succeeded
  <2>2. x \in succeeded <=> \E n \in DOMAIN builderLogs : builderLogs[n].ok /\ x = builderLogs[n].id
    BY Zenon DEF succeeded
  <2>3. (builderLogs'[k].ok /\ x = builderLogs'[k].id) <=> (ok /\ x = id)
    BY <1>1, <1>2, Zenon
  <2>4. ASSUME NEW n \in DOMAIN builderLogs
        PROVE  (builderLogs'[n].ok /\ x = builderLogs'[n].id) <=> (builderLogs[n].ok /\ x = builderLogs[n].id)
    BY <1>2, Zenon
  <2>5. \A n : n \in DOMAIN builderLogs' <=> (n \in DOMAIN builderLogs \/ n = k)
    BY <1>2, Zenon
  <2> HIDE DEF k
  <2>6. QED
    BY <2>1, <2>2, <2>3, <2>4, <2>5, Zenon
<1>4. succeeded' = IF ok THEN succeeded \cup {id} ELSE succeeded
  <2>1. CASE ok
    BY <2>1, <1>3, Zenon
  <2>2. CASE ~ok
    <3>1. \A x : x \in succeeded' <=> x \in succeeded
      BY <2>2, <1>3, Zenon
    <3>2. QED
      BY <2>2, <3>1, Zenon
  <2>3. QED
    BY <2>1, <2>2, Zenon
<1>5. QED
  BY <1>1, <1>2, <1>4, Zenon

\* A successful answer is put in front of the logs its handler captured.
LEMMA NewestInFront ==
  ASSUME NEW captured \in Seq(Nat), NEW id \in Nat, LatestSuccesses(captured),
         succeeded' = succeeded \cup {id}, \A x \in succeeded : x \in Nat /\ x < id
  PROVE  LatestSuccesses(<<id>> \o captured)'
<1> DEFINE all == <<id>> \o captured
<1>1. /\ all \in Seq(Nat) /\ Len(all) = Len(captured) + 1 /\ all[1] = id
      /\ \A i \in 2..Len(all) : all[i] = captured[i - 1] /\ i - 1 \in DOMAIN captured
      /\ \A i \in DOMAIN captured : all[i + 1] = captured[i] /\ i + 1 \in DOMAIN all
      /\ DOMAIN all = 1..Len(all) /\ 1 \in DOMAIN all /\ Len(all) \in Nat
  <2>1. captured \in Seq(Nat) /\ Len(captured) \in Nat /\ DOMAIN captured = 1..Len(captured)
    OBVIOUS
  <2>2. all \in Seq(Nat) /\ Len(all) = Len(captured) + 1 /\ DOMAIN all = 1..Len(all)
    BY <2>1
  <2>3. \A i \in 1..Len(all) : all[i] = IF i = 1 THEN id ELSE captured[i - 1]
    BY <2>1
  <2> HIDE DEF all
  <2>4. \A i \in 2..Len(all) : all[i] = captured[i - 1] /\ i - 1 \in 1..Len(captured)
    BY <2>1, <2>2, <2>3
  <2>5. \A i \in 1..Len(captured) : all[i + 1] = captured[i] /\ i + 1 \in 1..Len(all)
    BY <2>1, <2>2, <2>3
  <2>6. 1 \in 1..Len(all) /\ Len(all) \in Nat
    <3>1. Len(all) = Len(captured) + 1 /\ Len(captured) \in Nat
      BY <2>1, <2>2, Zenon
    <3>2. QED
      BY <3>1
  <2>7. QED
    BY <2>1, <2>2, <2>3, <2>4, <2>5, <2>6, Zenon
<1> HIDE DEF all
<1>2. ASSUME NEW i \in DOMAIN all
      PROVE  all[i] \in succeeded'
  <2>1. CASE i = 1
    BY <2>1, <1>1, Zenon
  <2>2. CASE i # 1
    <3>1. i \in 2..Len(all)
      BY <2>2, <1>1
    <3>2. QED
      BY <3>1, <1>1, Zenon DEF LatestSuccesses
  <2>3. QED
    BY <2>1, <2>2, Zenon
<1>3. ASSUME NEW i \in DOMAIN all, NEW j \in DOMAIN all, i < j
      PROVE  all[i] > all[j]
  <2>1. CASE i = 1
    <3>1. j \in 2..Len(all)
      BY <2>1, <1>1, <1>3
    <3>2. all[j] \in succeeded
      BY <3>1, <1>1, Zenon DEF LatestSuccesses
    <3>3. QED
      BY <2>1, <3>2, <1>1, Zenon
  <2>2. CASE i > 1
    <3>1. /\ i - 1 \in DOMAIN captured /\ all[i] = captured[i - 1]
          /\ j - 1 \in DOMAIN captured /\ all[j] = captured[j - 1]
          /\ i - 1 < j - 1
      <4>1. i \in 2..Len(all) /\ j \in 2..Len(all) /\ i - 1 < j - 1
        <5>1. i \in 1..Len(all) /\ j \in 1..Len(all) /\ Len(all) \in Nat
          BY <1>1, Zenon
        <5>2. QED
          BY <5>1, <2>2, <1>3
      <4>2. QED
        BY <4>1, <1>1, Zenon
    <3>2. QED
      BY <3>1, Zenon DEF LatestSuccesses
  <2>3. QED
    BY <2>1, <2>2, <1>1
<1>4. ASSUME NEW i \in DOMAIN all, NEW x \in succeeded', x > all[i]
      PROVE  \E j \in DOMAIN all : all[j] = x
  <2>1. CASE x = id
    BY <2>1, <1>1, Zenon
  <2>2. CASE x # id
    <3>1. x \in succeeded /\ x \in Nat /\ x < id
      BY <2>2, Zenon
    <3>2. i # 1
      BY <3>1, <1>1, <1>4
    <3>3. i - 1 \in DOMAIN captured /\ x > captured[i - 1]
      <4>1. i \in 1..Len(all) /\ Len(all) \in Nat
        BY <1>1, Zenon
      <4>2. i \in 2..Len(all)
        BY <3>2, <4>1
      <4>3. QED
        BY <4>2, <1>1, <1>4, Zenon
    <3>4. PICK j \in DOMAIN captured : captured[j] = x
      BY <3>1, <3>3, Zenon DEF LatestSuccesses
    <3>5. QED
      BY <3>4, <1>1, Zenon
  <2>3. QED
    BY <2>1, <2>2, Zenon
<1>5. QED
  BY <1>2, <1>3, <1>4, Zenon DEF all, LatestSuccesses

\* The initial state has nothing on its way and nothing shown.
LEMMA PanelInvInit ==
  ASSUME PanelInit
  PROVE  PanelInv
<1>1. builderLogs \in Seq([id : Nat, ok : BOOLEAN]) /\ DOMAIN builderLogs = {}
  BY DEF PanelInit
<1>2. QED
  BY <1>1 DEF PanelInit, PanelInv, LatestSuccesses

\* A click sends the only request there is.
LEMMA ClickKeeps ==
  ASSUME PanelInv, NEW kind, NEW blank \in BOOLEAN, click(kind, blank)
  PROVE  PanelInv'
<1>1. requests = {} /\ builderLogs' = builderLogs /\ logs' = logs /\ succeeded' = succeeded
  BY Zenon DEF click, PanelInv, succeeded
<1>2. LatestSuccesses(logs)'
  BY <1>1, Zenon DEF PanelInv, LatestSuccesses
<1>3. CASE blank
  <2>1. requests' = requests /\ lastId' = lastId
    BY <1>3, Zenon DEF click
  <2>2. QED
    BY <2>1, <1>1, <1>2, Zenon DEF PanelInv
<1>4. CASE ~blank
  <2>0. PICK r : r = [kind |-> kind, id |-> lastId + 1, captured |-> logs]
    BY Zenon
  <2>1. requests' = {r} /\ lastId' = lastId + 1 /\ loading'
    <3>1. requests' = requests \cup {r} /\ lastId' = lastId + 1 /\ (loading' = ~blank)
      BY <1>4, <2>0, Zenon DEF click
    <3>2. QED
      BY <3>1, <1>1, <1>4, Zenon
  <2>2. r.id = lastId' /\ r.captured = logs
    BY <2>0, <2>1, Zenon
  <2>3. LatestSuccesses(r.captured)'
    BY <2>2, <1>1, <1>2, Zenon DEF LatestSuccesses
  <2>4. /\ lastId' \in Nat /\ logs' \in Seq(Nat)
        /\ \A n \in DOMAIN builderLogs : builderLogs[n].id < lastId' /\ builderLogs[n].id <= lastId'
    <3>1. \A n \in DOMAIN builderLogs : builderLogs[n].id \in Nat /\ builderLogs[n].id <= lastId
      BY LogIds, Zenon DEF PanelInv
    <3>2. lastId \in Nat /\ logs \in Seq(Nat)
      BY Zenon DEF PanelInv
    <3>3. QED
      BY <2>1, <1>1, <3>1, <3>2
  <2>5. ASSUME NEW q \in requests'
        PROVE  /\ requests' = {q} /\ q.id = lastId' /\ q.captured \in Seq(Nat)
               /\ LatestSuccesses(q.captured)'
               /\ \A n \in DOMAIN builderLogs' : builderLogs'[n].id < lastId'
    <3>1. q = r
      BY <2>1, Zenon
    <3>2. QED
      BY <3>1, <1>1, <2>1, <2>2, <2>3, <2>4, Zenon
  <2>6. builderLogs' \in Seq([id : Nat, ok : BOOLEAN])
    BY <1>1, Zenon DEF PanelInv
  <2>7. QED
    BY <1>1, <1>2, <2>1, <2>4, <2>5, <2>6, Zenon DEF PanelInv
<1>5. QED
  BY <1>3, <1>4, Zenon

\* The answer to the request on its way.
LEMMA AnsweredKeeps ==
  ASSUME PanelInv, NEW kind, NEW ok \in BOOLEAN, answered(kind, ok)
  PROVE  PanelInv'
<1>1. PICK r \in requests :
        /\ requests' = requests \ {r}
        /\ builderLogs' = Append(builderLogs, [id |-> r.id, ok |-> ok])
        /\ logs' = IF ok THEN <<r.id>> \o r.captured ELSE logs
        /\ lastId' = lastId
  BY Zenon DEF answered
<1>2. /\ requests = {r} /\ r.id = lastId /\ r.captured \in Seq(Nat)
      /\ LatestSuccesses(r.captured)
      /\ \A n \in DOMAIN builderLogs : builderLogs[n].id < lastId
      /\ lastId \in Nat /\ logs \in Seq(Nat) /\ LatestSuccesses(logs)
      /\ builderLogs \in Seq([id : Nat, ok : BOOLEAN])
  BY <1>1, Zenon DEF PanelInv
<1>0. ASSUME NEW n \in DOMAIN builderLogs
      PROVE  builderLogs[n].id \in Nat /\ builderLogs[n].id < lastId
  BY <1>2, LogIds, Zenon
<1>3. /\ builderLogs' \in Seq([id : Nat, ok : BOOLEAN])
      /\ \A n \in DOMAIN builderLogs' :
           builderLogs'[n].id = r.id \/ \E m \in DOMAIN builderLogs : builderLogs'[n] = builderLogs[m]
      /\ succeeded' = IF ok THEN succeeded \cup {r.id} ELSE succeeded
  BY <1>1, <1>2, LoggedAnswer, ZenonT(30)
<1>4. \A n \in DOMAIN builderLogs' : builderLogs'[n].id <= lastId'
  <2> SUFFICES ASSUME NEW n \in DOMAIN builderLogs' PROVE builderLogs'[n].id <= lastId
    BY <1>1, ZenonT(60)
  <2>1. CASE builderLogs'[n].id = r.id
    BY <2>1, <1>2
  <2>2. ASSUME NEW m \in DOMAIN builderLogs, builderLogs'[n] = builderLogs[m]
        PROVE  builderLogs'[n].id <= lastId
    <3>1. builderLogs[m].id \in Nat /\ builderLogs[m].id < lastId
      BY <1>0, Zenon
    <3>2. QED
      BY <3>1, <2>2, <1>2
  <2>3. QED
    BY <2>1, <2>2, <1>3, Zenon
<1>5. requests' = {}
  BY <1>1, <1>2, Zenon
<1>6. logs' \in Seq(Nat) /\ LatestSuccesses(logs)'
  <2>1. CASE ok
    <3>1. \A x \in succeeded : x \in Nat /\ x < r.id
      <4>1. \A n \in DOMAIN builderLogs : builderLogs[n].id \in Nat /\ builderLogs[n].id < r.id
        BY <1>0, <1>2, Zenon
      <4>2. QED
        BY <4>1, Zenon DEF succeeded
    <3>2. LatestSuccesses(<<r.id>> \o r.captured)'
      BY <2>1, <3>1, <1>2, <1>3, NewestInFront, Zenon
    <3>3. logs' = <<r.id>> \o r.captured
      BY <2>1, <1>1, Zenon
    <3>4. logs' \in Seq(Nat)
      BY <3>3, <1>2
    <3>5. QED
      BY <3>2, <3>3, <3>4, Zenon DEF LatestSuccesses
  <2>2. CASE ~ok
    <3>1. logs' = logs /\ succeeded' = succeeded
      BY <2>2, <1>1, <1>3, Zenon
    <3>2. QED
      BY <3>1, <1>2, Zenon DEF LatestSuccesses
  <2>3. QED
    BY <2>1, <2>2, Zenon
<1>7. QED
  BY <1>1, <1>2, <1>3, <1>4, <1>5, <1>6, Zenon DEF PanelInv

\* The invariant of the developer panel, step by step.
LEMMA PanelInvKept ==
  ASSUME PanelInv, [PanelNext]_panelVars
  PROVE  PanelInv'
<1>1. CASE \E kind \in Kind, blank \in BOOLEAN : click(kind, blank)
  BY <1>1, ClickKeeps, Zenon
<1>2. CASE \E kind \in Kind, ok \in BOOLEAN : answered(kind, ok)
  BY <1>2, AnsweredKeeps, Zenon
<1>3. CASE onClearLogs
  <2>1. /\ logs' = << >> /\ loading' = loading /\ requests' = requests
        /\ builderLogs' = builderLogs /\ lastId' = lastId /\ succeeded' = succeeded
    BY <1>3, Zenon DEF onClearLogs, succeeded
  <2>2. LatestSuccesses(logs)' /\ logs' \in Seq(Nat)
    BY <2>1 DEF LatestSuccesses
  <2>3. ASSUME NEW r \in requests
        PROVE  LatestSuccesses(r.captured)'
    BY <2>1, Zenon DEF PanelInv, LatestSuccesses
  <2>4. QED
    BY <2>1, <2>2, <2>3, Zenon DEF PanelInv
<1>4. CASE UNCHANGED panelVars
  <2>1. /\ logs' = logs /\ loading' = loading /\ requests' = requests
        /\ builderLogs' = builderLogs /\ lastId' = lastId /\ succeeded' = succeeded
    BY <1>4, Zenon DEF panelVars, succeeded
  <2>2. LatestSuccesses(logs)'
    BY <2>1, Zenon DEF PanelInv, LatestSuccesses
  <2>3. ASSUME NEW r \in requests
        PROVE  LatestSuccesses(r.captured)'
    BY <2>1, Zenon DEF PanelInv, LatestSuccesses
  <2>4. QED
    BY <2>1, <2>2, <2>3, Zenon DEF PanelInv
<1>5. QED
  BY <1>1, <1>2, <1>3, <1>4, Zenon DEF PanelNext, Kind, handleSep10Challenge, handleSep6Deposit,
     handleSep6Withdraw, sep10Challenge, sep6Deposit, sep6Withdraw

\* The invariant of the panel, in every behaviour.
THEOREM PanelInvCorrect == PanelSpec => []PanelInv
<1>1. PanelInit => PanelInv
  BY PanelInvInit, Zenon
<1>2. PanelInv /\ [PanelNext]_panelVars => PanelInv'
  BY PanelInvKept, Zenon
<1>3. QED
  BY <1>1, <1>2, PTL DEF PanelSpec

\* The panel shows the latest successes, newest first and without a gap, for any
\* number of requests (AnchorRequestPanel.tsx:56-74, 211-213).
THEOREM PanelCorrect == PanelSpec => []ShowsLatestSuccesses
<1>1. PanelInv => ShowsLatestSuccesses
  BY Zenon DEF PanelInv, ShowsLatestSuccesses
<1>2. QED
  BY <1>1, PanelInvCorrect, PTL

\* No more is shown than was sent; a handler has captured less than was sent when
\* its own request is counted.
PanelBounds ==
  /\ lastId \in 0..MaxRequests
  /\ logs \in Seq(1..MaxRequests) /\ Len(logs) <= lastId
  /\ \A r \in requests :
       /\ r.id \in 1..MaxRequests /\ r.kind \in Kind
       /\ r.captured \in Seq(1..MaxRequests) /\ Len(r.captured) < lastId

PanelFlags == loading \in BOOLEAN /\ panelError \in BOOLEAN

\* Each step keeps the bounds.
LEMMA PanelBoundsKept ==
  ASSUME PanelInv, PanelBounds, [PanelNext]_panelVars
  PROVE  PanelBounds'
<1>0. /\ MaxRequests \in Nat /\ lastId \in 0..MaxRequests
      /\ logs \in Seq(1..MaxRequests) /\ Len(logs) <= lastId /\ Len(logs) \in Nat
  BY PanelAssumption DEF PanelBounds
<1>1. ASSUME NEW kind \in Kind, NEW blank \in BOOLEAN, click(kind, blank)
      PROVE  PanelBounds'
  <2>1. CASE blank
    <3>1. UNCHANGED <<logs, requests, lastId>>
      BY <1>1, <2>1, Zenon DEF click
    <3>2. QED
      BY <3>1, Zenon DEF PanelBounds
  <2>2. CASE ~blank
    <3>0. PICK r : r = [kind |-> kind, id |-> lastId + 1, captured |-> logs]
      BY Zenon
    <3>1. /\ lastId < MaxRequests /\ lastId' = lastId + 1 /\ logs' = logs
          /\ requests' = requests \cup {r} /\ requests = {}
      BY <1>1, <2>2, <3>0, Zenon DEF click, PanelInv
    <3>2. /\ r.id \in 1..MaxRequests /\ r.kind \in Kind
          /\ r.captured \in Seq(1..MaxRequests) /\ Len(r.captured) < lastId'
      <4>1. r.id = lastId + 1 /\ r.kind = kind /\ r.captured = logs
        BY <3>0, Zenon
      <4>2. QED
        BY <1>0, <3>1, <4>1
    <3>3. lastId' \in 0..MaxRequests /\ Len(logs') <= lastId'
      BY <1>0, <3>1
    <3>4. QED
      BY <1>0, <3>1, <3>2, <3>3, Zenon DEF PanelBounds
  <2>3. QED
    BY <2>1, <2>2, Zenon
<1>2. ASSUME NEW kind \in Kind, NEW ok \in BOOLEAN, answered(kind, ok)
      PROVE  PanelBounds'
  <2>1. PICK r \in requests :
          /\ requests' = requests \ {r}
          /\ logs' = IF ok THEN <<r.id>> \o r.captured ELSE logs
          /\ lastId' = lastId
    BY <1>2, Zenon DEF answered
  <2>2. /\ r.id \in 1..MaxRequests
        /\ r.captured \in Seq(1..MaxRequests) /\ Len(r.captured) < lastId
        /\ requests = {r}
    BY Zenon DEF PanelBounds, PanelInv
  <2>3. /\ <<r.id>> \o r.captured \in Seq(1..MaxRequests)
        /\ Len(<<r.id>> \o r.captured) = Len(r.captured) + 1 /\ Len(r.captured) \in Nat
    BY <2>2, PushSpec
  <2>4. logs' \in Seq(1..MaxRequests) /\ Len(logs') <= lastId
    <3>1. CASE ok
      BY <1>0, <2>1, <2>2, <2>3, <3>1
    <3>2. CASE ~ok
      BY <1>0, <2>1, <3>2, Zenon
    <3>3. QED
      BY <3>1, <3>2, Zenon
  <2>5. requests' = {}
    BY <2>1, <2>2, Zenon
  <2>6. QED
    BY <1>0, <2>1, <2>4, <2>5, Zenon DEF PanelBounds
<1>3. CASE onClearLogs
  <2>1. logs' = << >> /\ UNCHANGED <<requests, lastId>>
    BY <1>3, Zenon DEF onClearLogs
  <2>2. logs' \in Seq(1..MaxRequests) /\ Len(logs') <= lastId
    BY <1>0, <2>1
  <2>3. QED
    BY <2>1, <2>2, Zenon DEF PanelBounds
<1>4. CASE UNCHANGED panelVars
  BY <1>4, Zenon DEF panelVars, PanelBounds
<1>5. QED
  BY <1>1, <1>2, <1>3, <1>4, Zenon DEF PanelNext, Kind, handleSep10Challenge,
     handleSep6Deposit, handleSep6Withdraw, sep10Challenge, sep6Deposit, sep6Withdraw

\* The flags stay Boolean.
LEMMA PanelFlagsKept ==
  ASSUME PanelFlags, [PanelNext]_panelVars
  PROVE  PanelFlags'
<1>1. ASSUME NEW kind, NEW blank \in BOOLEAN, click(kind, blank)
      PROVE  PanelFlags'
  BY <1>1, Zenon DEF click, PanelFlags
<1>2. ASSUME NEW kind, NEW ok \in BOOLEAN, answered(kind, ok)
      PROVE  PanelFlags'
  BY <1>2, Zenon DEF answered, PanelFlags
<1>3. CASE onClearLogs \/ UNCHANGED panelVars
  BY <1>3, Zenon DEF onClearLogs, panelVars, PanelFlags
<1>4. QED
  BY <1>1, <1>2, <1>3, Zenon DEF PanelNext, handleSep10Challenge, handleSep6Deposit,
     handleSep6Withdraw, sep10Challenge, sep6Deposit, sep6Withdraw

\* The types of the panel: it never shows more logs than requests were sent, although
\* each handler puts its own in front of a list it captured before
\* (AnchorRequestPanel.tsx:56-74).
THEOREM PanelTypeCorrect == PanelSpec => []PanelTypeOK
<1>1. ASSUME PanelInit
      PROVE  PanelBounds /\ PanelFlags
  <2>1. logs = << >> /\ requests = {} /\ lastId = 0
    BY <1>1, Zenon DEF PanelInit
  <2>2. logs \in Seq(1..MaxRequests) /\ Len(logs) = 0
    BY <2>1
  <2>3. PanelFlags
    BY <1>1, Zenon DEF PanelInit, PanelFlags
  <2>4. QED
    BY <2>1, <2>2, <2>3, PanelAssumption DEF PanelBounds
<1>2. PanelInv /\ PanelBounds /\ [PanelNext]_panelVars => PanelBounds'
  BY PanelBoundsKept, Zenon
<1>3. PanelFlags /\ [PanelNext]_panelVars => PanelFlags'
  BY PanelFlagsKept, Zenon
<1>4. ASSUME PanelBounds, PanelFlags
      PROVE  PanelTypeOK
  <2>1. Len(logs) <= MaxRequests /\ logs \in Seq(1..MaxRequests) /\ MaxRequests \in Nat
    BY <1>4, PanelAssumption DEF PanelBounds
  <2>2. \E n \in 0..MaxRequests : logs \in [1..n -> 1..MaxRequests]
    BY <2>1, BoundedSequence, Zenon
  <2>3. QED
    BY <1>4, <2>2, Zenon DEF PanelBounds, PanelFlags, PanelTypeOK
<1>5. QED
  BY <1>1, <1>2, <1>3, <1>4, PanelInvCorrect, PTL DEF PanelSpec

=============================================================================
