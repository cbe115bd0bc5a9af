--------------------------- MODULE CountingProofs ----------------------------
(***************************************************************************)
(* Two components whose bounds are numbers of members, for every value of  *)
(* the constants.                                                          *)
(*                                                                         *)
(* The signer set: that it can reach its threshold is inductive as it      *)
(* stands, and the rest is counting the signers that a list names.         *)
(*                                                                         *)
(* The streaming service: its map, its watchers and its poll loop agree,   *)
(* and the map never holds more watchers than it may; what a watcher is    *)
(* told is in order until an event stream is opened again.                 *)
(***************************************************************************)
EXTENDS MultiSigGovernance, Sep6StreamingService, FiniteSetTheorems, TLAPS

-----------------------------------------------------------------------------
(* The signer set.                                                         *)

\* There are n positions from 1 to n.
LEMMA Positions ==
  ASSUME NEW n \in Nat
  PROVE  IsFiniteSet(1..n) /\ Cardinality(1..n) = n
  <1>1. 1 \in Int /\ n \in Int
    OBVIOUS
  <1>2. IsFiniteSet(1..n) /\ Cardinality(1..n) = IF 1 > n THEN 0 ELSE n - 1 + 1
    BY <1>1, FS_Interval, Zenon
  <1> QED
    BY <1>2

\* A list without duplicates has as many members as positions.
LEMMA DistinctMembers ==
  ASSUME NEW s \in Seq(Address),
         NoRepeats(s)
  PROVE  IsFiniteSet(Members(s)) /\ Cardinality(Members(s)) = Len(s)
  <1>1. Len(s) \in Nat /\ DOMAIN s = 1..Len(s)
    OBVIOUS
  <1>2. IsFiniteSet(1..Len(s)) /\ Cardinality(1..Len(s)) = Len(s)
    BY <1>1, Positions, Zenon
  <1>3. \A i, j \in 1..Len(s) : s[i] = s[j] => i = j
    BY <1>1 DEF NoRepeats
  <1>4. s \in [1..Len(s) -> Members(s)] /\ \A m \in Members(s) : \E i \in 1..Len(s) : s[i] = m
    BY <1>1 DEF Members
  <1>5. s \in Bijection(1..Len(s), Members(s))
    BY <1>3, <1>4, Zenon DEF Bijection, Injection, Surjection, IsInjective
  <1>6. ExistsBijection(1..Len(s), Members(s))
    BY <1>5, Zenon DEF ExistsBijection
  <1> QED
    BY <1>2, <1>6, FS_Bijection, Zenon

\* What the checks of initialize_multisig and rotate_signers establish.
LEMMA AcceptedCanAct ==
  ASSUME NEW signers \in Lists, NEW t \in ThresholdArg,
         accepts(signers, t)
  PROVE  /\ t \in Nat /\ t >= 1
         /\ t <= Cardinality(Members(signers))
  <1>1. signers \in Seq(Address) /\ t \in Nat
    BY GovernanceAssumption, Zenon
  <1> QED
    BY <1>1, DistinctMembers DEF accepts

\* The positions that rotate_signers counts are finitely many.
LEMMA CountedPositions ==
  ASSUME NEW config, NEW b \in Lists
  PROVE  /\ Len(b) \in Nat /\ DOMAIN b = 1..Len(b)
         /\ IsFiniteSet({i \in DOMAIN b : b[i] \in Members(config.signers)})
  <1>1. b \in Seq(Address)
    BY GovernanceAssumption, Zenon
  <1>2. Len(b) \in Nat /\ DOMAIN b = 1..Len(b)
    BY <1>1
  <1>3. IsFiniteSet(1..Len(b))
    BY <1>2, Positions, Zenon
  <1>4. {i \in DOMAIN b : b[i] \in Members(config.signers)} \in SUBSET (1..Len(b))
    BY <1>2, Zenon
  <1> QED
    BY <1>2, <1>3, <1>4, FS_Subset, Zenon

\* What the count of rotate_signers says about who signed: somebody did, and as
\* many as the threshold if nobody is named twice.
LEMMA CountedApprovers ==
  ASSUME NEW config, NEW b \in Lists, config.threshold \in Nat, config.threshold >= 1,
         valid_signers(config, b) >= config.threshold
  PROVE  /\ Approvers(config, b) # {}
         /\ NoRepeats(b) => Cardinality(Approvers(config, b)) >= config.threshold
  <1> DEFINE P == {i \in DOMAIN b : b[i] \in Members(config.signers)}
  <1>1. DOMAIN b = 1..Len(b) /\ Len(b) \in Nat /\ IsFiniteSet(P)
    BY CountedPositions, Zenon
  <1>2. Cardinality(P) >= config.threshold
    BY Zenon DEF valid_signers
  <1>3. P # {}
    <2>1. Cardinality({}) = 0
      BY FS_EmptySet, Zenon
    <2> QED
      BY <1>2, <2>1
  <1>4. Approvers(config, b) # {}
    BY <1>3, Zenon DEF Approvers, Members
  <1>5. ASSUME NoRepeats(b)
        PROVE  Cardinality(Approvers(config, b)) >= config.threshold
    <2> DEFINE f == [i \in P |-> b[i]]
    <2>1. \A i, j \in P : b[i] = b[j] => i = j
      <3>1. P \subseteq Nat
        BY <1>1
      <3> QED
        BY <1>5, <3>1 DEF NoRepeats
    <2>2. f \in [P -> Approvers(config, b)] /\ \A m \in Approvers(config, b) : \E i \in P : f[i] = m
      BY Zenon DEF Approvers, Members
    <2>3. \A i, j \in P : f[i] = f[j] => i = j
      BY <2>1, Zenon
    <2>4. f \in Bijection(P, Approvers(config, b))
      BY <2>2, <2>3, Zenon DEF Bijection, Injection, Surjection, IsInjective
    <2>5. ExistsBijection(P, Approvers(config, b))
      BY <2>4, Zenon DEF ExistsBijection
    <2>6. Cardinality(Approvers(config, b)) = Cardinality(P)
      BY <1>1, <2>5, FS_Bijection, Zenon
    <2> QED
      BY <1>2, <2>6, Zenon
  <1> QED
    BY <1>4, <1>5, Zenon

\* verify_multisig is the count of rotate_signers and the checks that the count
\* leaves out, for every signer set and every list (VerifyAddsToCount).
THEOREM VerifyCorrect == \A config : VerifyAddsToCount(config)
  <1> SUFFICES ASSUME NEW config, NEW b \in Lists, NEW g \in [1..Len(b) -> BOOLEAN]
               PROVE  verify_multisig(config, b, g) <=>
                        /\ valid_signers(config, b) >= config.threshold
                        /\ NoRepeats(b)
                        /\ Members(b) \subseteq Members(config.signers)
                        /\ \A i \in 1..config.threshold : g[i]
    BY Zenon DEF VerifyAddsToCount
  <1>1. Len(b) \in Nat /\ DOMAIN b = 1..Len(b)
    BY CountedPositions, Zenon
  <1>2. Len(g) = Len(b)
    BY <1>1
  <1>3. ASSUME Members(b) \subseteq Members(config.signers)
        PROVE  valid_signers(config, b) = Len(b)
    <2>1. {i \in DOMAIN b : b[i] \in Members(config.signers)} = 1..Len(b)
      BY <1>1, <1>3, Zenon DEF Members
    <2>2. Cardinality(1..Len(b)) = Len(b)
      BY <1>1, Positions, Zenon
    <2> QED
      BY <2>1, <2>2, Zenon DEF valid_signers
  <1> QED
    BY <1>2, <1>3, Zenon DEF verify_multisig

GovernanceInv == GovernanceTypeOK /\ SignersCanAct

\* A signer set is installed.
LEMMA InitializeMultisigKeeps ==
  ASSUME GovernanceInv, NEW s \in Lists, NEW t \in ThresholdArg,
         initialize_multisig(s, t)
  PROVE  GovernanceInv'
  <1>1. t \in Nat /\ t >= 1 /\ t <= Cardinality(Members(s))
    BY AcceptedCanAct, Zenon DEF initialize_multisig
  <1>2. multiSigConfig' = [signers |-> s, threshold |-> t, nonce |-> 0] /\ UNCHANGED <<rotations, lastSignedBy>>
    BY Zenon DEF initialize_multisig
  <1>3. GovernanceTypeOK'
    <2>1. initialized' \in BOOLEAN /\ rotations' \in 0..MaxRotations
          /\ lastSignedBy' \in Lists \cup {<< >>}
      BY <1>2, Zenon DEF GovernanceInv, GovernanceTypeOK, initialize_multisig
    <2> QED
      BY <1>1, <1>2, <2>1, GovernanceAssumption DEF GovernanceTypeOK
  <1>4. SignersCanAct'
    BY <1>1, <1>2, Zenon DEF SignersCanAct
  <1> QED
    BY <1>3, <1>4, Zenon DEF GovernanceInv

\* A signer set is replaced, and the nonce saturates.
LEMMA RotateSignersKeeps ==
  ASSUME GovernanceInv, NEW s \in Lists, NEW t \in ThresholdArg, NEW b \in Lists,
         rotate_signers(s, t, b)
  PROVE  GovernanceInv'
  <1>1. t \in Nat /\ t >= 1 /\ t <= Cardinality(Members(s))
    BY AcceptedCanAct, Zenon DEF rotate_signers
  <1>2. /\ multiSigConfig' = [signers |-> s, threshold |-> t,
                              nonce |-> saturating_add(multiSigConfig.nonce)]
        /\ rotations' = rotations + 1 /\ rotations < MaxRotations
    BY Zenon DEF rotate_signers
  <1>3. /\ multiSigConfig.nonce \in 0..MaxNonce /\ rotations \in 0..MaxRotations
        /\ saturating_add(multiSigConfig.nonce) \in 0..MaxNonce
    BY GovernanceAssumption DEF GovernanceInv, GovernanceTypeOK, saturating_add
  <1>4. GovernanceTypeOK'
    <2>1. initialized' \in BOOLEAN /\ lastSignedBy' \in Lists \cup {<< >>}
      BY Zenon DEF GovernanceInv, GovernanceTypeOK, rotate_signers
    <2> QED
      BY <1>1, <1>2, <1>3, <2>1, GovernanceAssumption DEF GovernanceTypeOK
  <1>5. SignersCanAct'
    BY <1>1, <1>2, Zenon DEF SignersCanAct
  <1> QED
    BY <1>4, <1>5, Zenon DEF GovernanceInv

\* The inductive invariant of the signer set.
THEOREM GovernanceInvCorrect == GovernanceSpec => []GovernanceInv
  <1>1. GovernanceInit => GovernanceInv
    <2> SUFFICES ASSUME GovernanceInit
                 PROVE  GovernanceInv
      BY Zenon
    <2>1. GovernanceTypeOK
      <3>1. initialized \in BOOLEAN
        BY Zenon DEF GovernanceInit
      <3>2. NoConfig \in [signers : Lists \cup {<< >>}, threshold : Nat, nonce : 0..MaxNonce]
        BY GovernanceAssumption DEF NoConfig
      <3> QED
        BY <3>1, <3>2, GovernanceAssumption DEF GovernanceInit, GovernanceTypeOK
    <2>2. SignersCanAct
      BY Zenon DEF GovernanceInit, SignersCanAct, has_multisig_config
    <2> QED
      BY <2>1, <2>2, Zenon DEF GovernanceInv
  <1>2. GovernanceInv /\ [GovernanceNext]_governanceVars => GovernanceInv'
    <2> SUFFICES ASSUME GovernanceInv, [GovernanceNext]_governanceVars
                 PROVE  GovernanceInv'
      BY Zenon
    <2>1. CASE initializeContract \/ UNCHANGED governanceVars
      <3>1. initialized' \in BOOLEAN 
            /\ UNCHANGED <<multiSigConfig, rotations, lastSignedBy>>
        BY <2>1, Zenon DEF GovernanceInv, GovernanceTypeOK, initializeContract, governanceVars
      <3> QED
        BY <3>1, Zenon DEF GovernanceInv, GovernanceTypeOK, SignersCanAct,
           has_multisig_config
    <2> QED
      BY <2>1, InitializeMultisigKeeps, RotateSignersKeeps, Zenon DEF GovernanceNext
  <1> QED
    BY <1>1, <1>2, PTL DEF GovernanceSpec

\* Types of the signer set, its threshold and its nonce (multisig.rs).
THEOREM GovernanceTypeCorrect == GovernanceSpec => []GovernanceTypeOK
  <1>1. GovernanceInv => GovernanceTypeOK
    BY Zenon DEF GovernanceInv
  <1> QED
    BY <1>1, GovernanceInvCorrect, PTL

\* Nothing but a rotation changes the signers of a complete contract, the nonce
\* never goes back, and every rotation was asked for by signers of the set that it
\* replaces (SignersInControl).
THEOREM SignersInControlCorrect == GovernanceSpec => SignersInControl
  <1> DEFINE Kept ==
        (initialized /\ has_multisig_config) =>
           /\ initialized'
           /\ multiSigConfig' # multiSigConfig => rotations' = rotations + 1
           /\ multiSigConfig'.nonce >= multiSigConfig.nonce
  <1> DEFINE Approved ==
        rotations' # rotations =>
           /\ Approvers(multiSigConfig, lastSignedBy') # {}
           /\ NoRepeats(lastSignedBy') =>
                 Cardinality(Approvers(multiSigConfig, lastSignedBy')) >= multiSigConfig.threshold
  <1>1. ASSUME GovernanceInv, GovernanceNext
        PROVE  Kept
    <2> SUFFICES ASSUME initialized, has_multisig_config
                 PROVE  /\ initialized'
                        /\ multiSigConfig' # multiSigConfig => rotations' = rotations + 1
                        /\ multiSigConfig'.nonce >= multiSigConfig.nonce
      BY Zenon
    <2>1. multiSigConfig.nonce \in Nat /\ multiSigConfig.nonce <= MaxNonce
      BY <1>1, GovernanceAssumption DEF GovernanceInv, GovernanceTypeOK
    <2>2. \E s \in Lists, t \in ThresholdArg, b \in Lists : rotate_signers(s, t, b)
      BY <1>1, Zenon DEF GovernanceNext, initializeContract, initialize_multisig
    <2>3. initialized' /\ rotations' = rotations + 1
      BY <2>2, Zenon DEF rotate_signers
    <2>4. multiSigConfig'.nonce >= multiSigConfig.nonce
      BY <2>1, <2>2, GovernanceAssumption DEF rotate_signers, saturating_add
    <2> QED
      BY <2>3, <2>4, Zenon
  <1>2. ASSUME GovernanceInv, GovernanceNext
        PROVE  Approved
    <2>1. CASE UNCHANGED rotations
      BY <2>1, Zenon
    <2>2. ASSUME NEW s \in Lists, NEW t \in ThresholdArg, NEW b \in Lists,
                 rotate_signers(s, t, b)
          PROVE  Approved
      <3>1. /\ has_multisig_config /\ lastSignedBy' = b
            /\ valid_signers(multiSigConfig, b) >= multiSigConfig.threshold
        BY <2>2, Zenon DEF rotate_signers
      <3>2. multiSigConfig.threshold \in Nat /\ multiSigConfig.threshold >= 1
        BY <1>2, <3>1 DEF GovernanceInv, GovernanceTypeOK, SignersCanAct
      <3> QED
        BY <3>1, <3>2, CountedApprovers, Zenon
    <2> QED
      BY <1>2, <2>1, <2>2, Zenon DEF GovernanceNext, initializeContract, initialize_multisig
  <1>3. GovernanceInv /\ [GovernanceNext]_governanceVars => [Kept /\ Approved]_governanceVars
    BY <1>1, <1>2, Zenon
  <1> QED
    BY <1>3, GovernanceInvCorrect, PTL DEF GovernanceSpec, SignersInControl

-----------------------------------------------------------------------------
(* The streaming service.                                                  *)

\* What the proofs need to know of a watcher: whose it is, whether it is
\* active, and where it stands.
Phase == {"unborn", "detecting", "polled", "open", "reconnecting", "ended"}

WatcherRecord ==
  [id : TransactionId, active : BOOLEAN, phase : Phase,
   lastStatus : Int, cursor : Int, sent : Int]

\* The types, as far as the proofs need them.
ServiceTyped ==
  /\ watch_count \in 0..MaxWatches
  /\ watcherState \in [Watcher -> WatcherRecord]
  /\ watchers \in [TransactionId -> {Nobody} \cup Watcher]
  /\ status \in [TransactionId -> Int]
  /\ cycles \subseteq Cycle
  /\ \A p \in polls : p.watcher \in Watcher /\ p.answer \in Int

\* An entry of the map.
MapSound ==
  \A t \in TransactionId : watchers[t] # Nobody =>
    /\ watchers[t] <= watch_count
    /\ watcherState[watchers[t]].active /\ watcherState[watchers[t]].id = t

\* The loop is not marked as running and then forgotten.
LoopAlive == pollLoopRunning => pollTimer \/ cycles # {}

\* Until destroy there is one loop, and an unmarked loop is not there.
LoopSingle ==
  ~destroyed =>
    /\ \A c, d \in cycles : c = d
    /\ pollTimer => cycles = {} /\ pollLoopRunning
    /\ cycles # {} => pollLoopRunning

\* What every step keeps.
ServiceInv ==
  /\ ServiceTyped /\ MapSound /\ Cardinality(Watched) <= maxWatched
  /\ EveryWatcherServed /\ LoopAlive /\ LoopSingle

USE DEF WatcherRecord

\* Ids of watchers are never Nobody, and there are finitely many.
LEMMA WatchedFinite ==
  ASSUME ServiceTyped
  PROVE  Watched \subseteq Watcher /\ IsFiniteSet(Watched) /\ Nobody \notin Watcher
<1>1. Watched \subseteq Watcher BY Zenon DEF ServiceTyped, Watched
<1>2. IsFiniteSet(1..MaxWatches) BY StreamingAssumption, FS_Interval
<1>3. IsFiniteSet(Watched) BY <1>1, <1>2, FS_Subset, Zenon DEF Watcher
<1>4. Nobody \notin Watcher BY StreamingAssumption DEF Watcher, Nobody
<1>. QED BY <1>1, <1>3, <1>4, Zenon

\* A step that only takes watchers out of the map keeps it sound.
LEMMA MapShrinks ==
  ASSUME ServiceInv, ServiceTyped', watch_count' = watch_count,
         \A t \in TransactionId : watchers'[t] # Nobody =>
           /\ watchers'[t] = watchers[t]
           /\ watcherState'[watchers[t]].active
           /\ watcherState'[watchers[t]].id = watcherState[watchers[t]].id
  PROVE  MapSound' /\ Cardinality(Watched)' <= maxWatched
<1>1. MapSound' BY Zenon DEF ServiceInv, MapSound
<1>2. Watched' \subseteq Watched BY Zenon DEF Watched
<1>3. IsFiniteSet(Watched) BY WatchedFinite, Zenon DEF ServiceInv
<1>4. Cardinality(Watched') <= Cardinality(Watched) BY <1>2, <1>3, FS_Subset, Zenon
<1>5. Cardinality(Watched) \in Nat /\ Cardinality(Watched') \in Nat
  BY <1>2, <1>3, FS_Subset, FS_CardinalityType, Zenon
<1>6. Cardinality(Watched) <= maxWatched BY Zenon DEF ServiceInv
<1>7. Cardinality(Watched') <= maxWatched BY <1>4, <1>5, <1>6, StreamingAssumption
<1>. QED BY <1>1, <1>7, Zenon

\* A watcher in the map is there under its id.
LEMMA WatchedAt ==
  ASSUME ServiceInv, NEW w \in Watched
  PROVE  w \in Watcher /\ watcherState[w].active /\ watchers[watcherState[w].id] = w
         /\ watcherState[w].id \in TransactionId
<1>1. PICK t \in TransactionId : w = watchers[t] /\ watchers[t] # Nobody BY Zenon DEF Watched
<1>. QED BY <1>1, WatchedFinite, Zenon DEF ServiceInv, MapSound, ServiceTyped

\* Every watcher in the map is active.
LEMMA WatchedActive == ASSUME ServiceInv PROVE activeWatchers = Watched
BY WatchedAt, Zenon DEF activeWatchers

\* A step that leaves the loop alone, takes watchers only out of the map, and
\* leaves the others in their phase.
LEMMA OnlyRemoves ==
  ASSUME ServiceInv, ServiceTyped', watch_count' = watch_count,
         \A t \in TransactionId : watchers'[t] # Nobody =>
           /\ watchers'[t] = watchers[t]
           /\ watcherState'[watchers[t]].active
           /\ watcherState'[watchers[t]].id = watcherState[watchers[t]].id
           /\ watcherState'[watchers[t]].phase = watcherState[watchers[t]].phase,
         threw \subseteq threw',
         UNCHANGED <<pollTimer, pollLoopRunning, cycles, aborted, destroyed>>
  PROVE  ServiceInv'
<1>1. MapSound' /\ Cardinality(Watched)' <= maxWatched BY MapShrinks, Zenon
<1>2. LoopAlive' /\ LoopSingle' BY Zenon DEF ServiceInv, LoopAlive, LoopSingle
<1>3. EveryWatcherServed'
  <2>. SUFFICES ASSUME NEW w \in Watched'
                PROVE  /\ watcherState'[w].phase = "polled" /\ ~aborted => pollTimer \/ cycles # {}
                       /\ watcherState'[w].phase = "ended" /\ ~aborted => w \in threw'
    BY Zenon DEF EveryWatcherServed
  <2>1. PICK t \in TransactionId : w = watchers'[t] /\ watchers'[t] # Nobody BY Zenon DEF Watched
  <2>2. w \in Watched /\ watcherState'[w].phase = watcherState[w].phase BY <2>1, Zenon DEF Watched
  <2>. QED BY <2>2, Zenon DEF ServiceInv, EveryWatcherServed
<1>. QED BY <1>1, <1>2, <1>3, Zenon DEF ServiceInv

\* Before the first call.
LEMMA ServiceInitInv == ASSUME StreamingInit PROVE ServiceInv
<1>. USE DEF StreamingInit
<1>0. Unborn \in WatcherRecord
  BY StreamingAssumption DEF Unborn, Phase, NoStatus, NoCursor
<1>1. ServiceTyped BY <1>0, StreamingAssumption DEF ServiceTyped, Nobody
<1>2. MapSound BY Zenon DEF MapSound
<1>3. Watched = {} BY Zenon DEF Watched
<1>4. Cardinality(Watched) <= maxWatched BY <1>3, FS_EmptySet, StreamingAssumption
<1>5. EveryWatcherServed BY <1>3, Zenon DEF EveryWatcherServed
<1>6. LoopAlive /\ LoopSingle BY Zenon DEF LoopAlive, LoopSingle
<1>. QED BY <1>1, <1>2, <1>4, <1>5, <1>6, Zenon DEF ServiceInv

\* _removeWatcher, after notes on a watcher that change neither its id, its
\* phase nor whether it is active.
LEMMA RemoveKeeps ==
  ASSUME ServiceInv, NEW t \in TransactionId, NEW st,
         st \in [Watcher -> WatcherRecord],
         \A w \in Watcher : /\ st[w].id = watcherState[w].id
                            /\ st[w].active = watcherState[w].active
                            /\ st[w].phase = watcherState[w].phase,
         _removeWatcher(st, t), threw \subseteq threw',
         \A p \in polls' : p.watcher \in Watcher /\ p.answer \in Int,
         UNCHANGED <<watch_count, status, pollTimer, pollLoopRunning, cycles, aborted, destroyed>>
  PROVE  ServiceInv'
<1>1. ServiceTyped'
  <2>1. watcherState' \in [Watcher -> WatcherRecord]
    <3>1. CASE watchers[t] = Nobody BY <3>1, Zenon DEF _removeWatcher, removed
    <3>2. CASE watchers[t] # Nobody
      <4>. DEFINE v == watchers[t]
                  r == [st[v] EXCEPT !.active = FALSE]
      <4>1. v \in Watcher BY <3>2, Zenon DEF ServiceInv, ServiceTyped
      <4>2. watcherState' = [st EXCEPT ![v] = r] BY <3>2, Zenon DEF _removeWatcher, removed
      <4>3. st[v] \in WatcherRecord BY <4>1, Zenon
      <4>4. r \in WatcherRecord BY <4>3, Zenon DEF WatcherRecord
      <4>. HIDE DEF v, r
      <4>. QED BY <4>1, <4>2, <4>4, Zenon
    <3>. QED BY <3>1, <3>2, Zenon
  <2>2. watchers' \in [TransactionId -> {Nobody} \cup Watcher]
    BY Zenon DEF ServiceInv, ServiceTyped, _removeWatcher
  <2>. QED BY <2>1, <2>2, Zenon DEF ServiceInv, ServiceTyped
<1>2. ASSUME NEW u \in TransactionId, watchers'[u] # Nobody
      PROVE  /\ watchers'[u] = watchers[u]
             /\ watcherState'[watchers[u]].active
             /\ watcherState'[watchers[u]].id = watcherState[watchers[u]].id
             /\ watcherState'[watchers[u]].phase = watcherState[watchers[u]].phase
  <2>1. u # t /\ watchers'[u] = watchers[u] /\ watchers[u] \in Watcher
    BY <1>2, Zenon DEF ServiceInv, ServiceTyped, _removeWatcher
  <2>2. watchers[u] # watchers[t] /\ watcherState[watchers[u]].active
    BY <1>2, <2>1 DEF ServiceInv, MapSound
  <2>3. watcherState'[watchers[u]] = st[watchers[u]]
    BY <2>1, <2>2, Zenon DEF _removeWatcher, removed, ServiceInv, ServiceTyped
  <2>. QED BY <2>1, <2>2, <2>3, ZenonT(60)
<1>. QED BY <1>1, <1>2, OnlyRemoves, Zenon

\* A status that is noted, and told.
LEMMA DispatchKeeps ==
  ASSUME ServiceInv, NEW w \in Watcher, NEW st, NEW s \in Int, NEW throws \in BOOLEAN,
         st \in [Watcher -> WatcherRecord],
         \A v \in Watcher : /\ st[v].id = watcherState[v].id
                            /\ st[v].active = watcherState[v].active
                            /\ st[v].phase = watcherState[v].phase,
         _dispatchUpdate(st, w, s, throws),
         \A p \in polls' : p.watcher \in Watcher /\ p.answer \in Int,
         UNCHANGED <<watch_count, status, pollTimer, pollLoopRunning, cycles, aborted, destroyed>>
  PROVE  ServiceInv'
<1>. DEFINE noted == [st EXCEPT ![w].cursor = timestamp(s), ![w].lastStatus = s]
<1>1. timestamp(s) \in Int BY DEF timestamp
<1>2. noted \in [Watcher -> WatcherRecord]
  BY <1>1, ZenonT(30)
<1>3. \A v \in Watcher : /\ noted[v].id = watcherState[v].id
                         /\ noted[v].active = watcherState[v].active
                         /\ noted[v].phase = watcherState[v].phase
  OBVIOUS
<1>4. threw \subseteq threw' BY Zenon DEF _dispatchUpdate
<1>5. st[w].id \in TransactionId BY Zenon
<1>6. _removeWatcher(noted, st[w].id) \/ (watcherState' = noted /\ UNCHANGED watchers)
  BY Zenon DEF _dispatchUpdate
<1>. HIDE DEF noted
<1>7. CASE _removeWatcher(noted, st[w].id) BY <1>2, <1>3, <1>4, <1>5, <1>7, RemoveKeeps
<1>8. CASE watcherState' = noted /\ UNCHANGED watchers
  <2>1. ServiceTyped' BY <1>2, <1>8, Zenon DEF ServiceInv, ServiceTyped
  <2>2. \A t \in TransactionId : watchers[t] # Nobody =>
           watchers[t] \in Watcher /\ watcherState[watchers[t]].active
    BY Zenon DEF ServiceInv, ServiceTyped, MapSound
  <2>. QED BY <1>3, <1>4, <1>8, <2>1, <2>2, OnlyRemoves, Zenon
<1>. QED BY <1>6, <1>7, <1>8, Zenon

\* A new watcher enters the map, perhaps in the place of another.
LEMMA WatchKeeps == ASSUME ServiceInv, NEW t \in TransactionId, watch(t) PROVE ServiceInv'
<1>. DEFINE n == watch_count + 1
<1>0. n \in Watcher /\ watch_count' = n /\ n # Nobody /\ watch_count \in Int
  BY StreamingAssumption DEF watch, ServiceInv, ServiceTyped, Watcher, Nobody
<1>. DEFINE fresh == [Unborn EXCEPT !.id = t, !.active = TRUE, !.phase = "detecting"]
<1>1. /\ fresh \in WatcherRecord
      /\ fresh.id = t /\ fresh.active = TRUE /\ fresh.phase = "detecting"
  <2>1. Unborn \in WatcherRecord
    BY StreamingAssumption DEF Unborn, Phase, NoStatus, NoCursor
  <2>. QED BY <2>1, Zenon DEF Phase
<1>2. /\ watcherState' = [watcherState EXCEPT ![n] = fresh]
      /\ watchers' = [watchers EXCEPT ![t] = n]
  BY <1>0, Zenon DEF watch
<1>. HIDE DEF fresh, n
<1>3. ServiceTyped'
  <2>1. watch_count' \in 0..MaxWatches BY <1>0, StreamingAssumption DEF Watcher
  <2>2. watcherState' \in [Watcher -> WatcherRecord]
    BY <1>0, <1>1, <1>2, Zenon DEF ServiceInv, ServiceTyped
  <2>3. watchers' \in [TransactionId -> {Nobody} \cup Watcher]
    BY <1>0, <1>2, Zenon DEF ServiceInv, ServiceTyped
  <2>4. UNCHANGED <<status, cycles, polls>> BY Zenon DEF watch
  <2>. QED BY <2>1, <2>2, <2>3, <2>4, Zenon DEF ServiceInv, ServiceTyped
<1>4. MapSound'
  <2>. SUFFICES ASSUME NEW u \in TransactionId, watchers'[u] # Nobody
                PROVE  /\ watchers'[u] <= watch_count'
                       /\ watcherState'[watchers'[u]].active
                       /\ watcherState'[watchers'[u]].id = u
    BY Zenon DEF MapSound
  <2>1. CASE u = t
    <3>1. watchers'[u] = n /\ watcherState'[n] = fresh
      BY <1>0, <1>2, <2>1, Zenon DEF ServiceInv, ServiceTyped
    <3>2. n <= watch_count' BY <1>0 DEF Watcher
    <3>. QED BY <1>1, <2>1, <3>1, <3>2, Zenon
  <2>2. CASE u # t
    <3>1. watchers'[u] = watchers[u] /\ watchers[u] \in Watcher
      BY <1>2, <2>2, Zenon DEF ServiceInv, ServiceTyped
    <3>2. watchers[u] <= watch_count BY <3>1, Zenon DEF ServiceInv, MapSound
    <3>3. watchers[u] # n /\ watchers[u] <= n
      BY <1>0, <3>1, <3>2 DEF n, Watcher
    <3>4. watcherState'[watchers[u]] = watcherState[watchers[u]]
      BY <1>2, <3>1, <3>3, Zenon DEF ServiceInv, ServiceTyped
    <3>. QED BY <1>0, <3>1, <3>3, <3>4 DEF ServiceInv, MapSound
  <2>. QED BY <2>1, <2>2, Zenon
<1>5. Watched' \subseteq Watched \cup {n}
  BY <1>2, Zenon DEF Watched, ServiceInv, ServiceTyped
<1>6. Cardinality(Watched') <= maxWatched
  <2>1. IsFiniteSet(Watched) BY WatchedFinite, Zenon DEF ServiceInv
  <2>2. IsFiniteSet(Watched \cup {n}) /\ Cardinality(Watched \cup {n}) <= Cardinality(Watched) + 1
    <3>0. Cardinality(Watched) \in Nat BY <2>1, FS_CardinalityType, Zenon
    <3>1. CASE n \in Watched
      <4>1. Watched \cup {n} = Watched BY <3>1, Zenon
      <4>2. Cardinality(Watched) <= Cardinality(Watched) + 1 BY <3>0
      <4>. QED BY <2>1, <4>1, <4>2, Zenon
    <3>2. CASE n \notin Watched
      <4>1. IsFiniteSet(Watched \cup {n}) /\ Cardinality(Watched \cup {n}) = Cardinality(Watched) + 1
        BY <2>1, <3>2, FS_AddElement, Zenon
      <4>2. Cardinality(Watched) + 1 <= Cardinality(Watched) + 1 BY <3>0
      <4>. QED BY <4>1, <4>2, Zenon
    <3>. QED BY <3>1, <3>2, Zenon
  <2>3. Cardinality(Watched') <= Cardinality(Watched \cup {n}) BY <1>5, <2>2, FS_Subset, Zenon
  <2>4. Cardinality(Watched') \in Nat /\ Cardinality(Watched \cup {n}) \in Nat
        /\ Cardinality(Watched) \in Nat
    BY <1>5, <2>1, <2>2, FS_Subset, FS_CardinalityType, Zenon
  <2>5. Cardinality(Watched) < maxWatched BY Zenon DEF watch
  <2>. QED BY <2>2, <2>3, <2>4, <2>5, StreamingAssumption
<1>7. EveryWatcherServed'
  <2>. SUFFICES ASSUME NEW w \in Watched'
                PROVE  /\ watcherState'[w].phase = "polled" /\ ~aborted => pollTimer \/ cycles # {}
                       /\ watcherState'[w].phase = "ended" /\ ~aborted => w \in threw
    BY Zenon DEF EveryWatcherServed, watch
  <2>1. CASE w = n
    <3>1. watcherState'[w].phase = "detecting"
      BY <1>0, <1>1, <1>2, <2>1, Zenon DEF ServiceInv, ServiceTyped
    <3>. QED BY <3>1, Zenon
  <2>2. CASE w # n
    <3>1. w \in Watched BY <1>5, <2>2, Zenon
    <3>2. watcherState'[w] = watcherState[w]
      BY <1>2, <2>2, <3>1, WatchedFinite, Zenon DEF ServiceInv, ServiceTyped
    <3>. QED BY <3>1, <3>2, Zenon DEF ServiceInv, EveryWatcherServed
  <2>. QED BY <2>1, <2>2, Zenon
<1>8. LoopAlive' /\ LoopSingle' BY Zenon DEF watch, ServiceInv, LoopAlive, LoopSingle
<1>. QED BY <1>3, <1>4, <1>6, <1>7, <1>8, Zenon DEF ServiceInv

\* The unsubscribe of any handle, old or new.
LEMMA UnsubscribeKeeps == ASSUME ServiceInv, NEW w \in Watcher, unsubscribe(w) PROVE ServiceInv'
<1>1. watcherState[w].id \in TransactionId BY Zenon DEF ServiceInv, ServiceTyped
<1>2. watcherState \in [Watcher -> WatcherRecord]
  BY Zenon DEF ServiceInv, ServiceTyped
<1>3. \A p \in polls' : p.watcher \in Watcher /\ p.answer \in Int
  BY Zenon DEF unsubscribe, ServiceInv, ServiceTyped
<1>4. UNCHANGED <<watch_count, status, pollTimer, pollLoopRunning, cycles, aborted, destroyed, threw>>
  BY Zenon DEF unsubscribe
<1>. QED BY <1>1, <1>2, <1>3, <1>4, RemoveKeeps, Zenon DEF unsubscribe

\* After destroy, or abort, the map is empty and the loop unmarked.
LEMMA EmptyMapKeeps ==
  ASSUME ServiceInv, ServiceTyped', watchers' = [t \in TransactionId |-> Nobody],
         pollTimer' = FALSE, pollLoopRunning' = FALSE, destroyed' = TRUE
  PROVE  ServiceInv'
<1>1. Watched' = {} BY Zenon DEF Watched
<1>2. Cardinality(Watched') <= maxWatched BY <1>1, FS_EmptySet, StreamingAssumption
<1>3. MapSound' BY Zenon DEF MapSound
<1>4. EveryWatcherServed' BY <1>1, Zenon DEF EveryWatcherServed
<1>5. LoopAlive' /\ LoopSingle' BY Zenon DEF LoopAlive, LoopSingle
<1>. QED BY <1>2, <1>3, <1>4, <1>5, Zenon DEF ServiceInv

\* The two ways the service ends.
LEMMA DestroyKeeps == ASSUME ServiceInv, destroy \/ abort PROVE ServiceInv'
<1>1. allRemoved \in [Watcher -> WatcherRecord]
  BY ZenonT(60) DEF ServiceInv, ServiceTyped, allRemoved
<1>2. watcherState' \in [Watcher -> WatcherRecord]
  BY <1>1 DEF destroy, abort, Phase
<1>3. /\ watchers' = [t \in TransactionId |-> Nobody]
      /\ pollTimer' = FALSE /\ pollLoopRunning' = FALSE /\ destroyed' = TRUE
      /\ UNCHANGED <<watch_count, status, cycles, polls>>
  BY Zenon DEF destroy, abort
<1>4. ServiceTyped' BY <1>2, <1>3, Zenon DEF ServiceInv, ServiceTyped
<1>. QED BY <1>3, <1>4, EmptyMapKeeps, Zenon

\* One watcher moves to another phase, in which it is served.
LEMMA PhaseMoves ==
  ASSUME ServiceInv, NEW w \in Watcher, ServiceTyped',
         \A v \in Watcher : /\ watcherState'[v].id = watcherState[v].id
                            /\ watcherState'[v].active = watcherState[v].active
                            /\ v # w => watcherState'[v].phase = watcherState[v].phase,
         UNCHANGED <<watchers, watch_count, aborted>>, threw \subseteq threw',
         pollTimer \/ cycles # {} => pollTimer' \/ cycles' # {},
         LoopAlive', LoopSingle',
         watcherState[w].active =>
           /\ watcherState'[w].phase = "polled" /\ ~aborted => pollTimer' \/ cycles' # {}
           /\ watcherState'[w].phase = "ended" /\ ~aborted => w \in threw'
  PROVE  ServiceInv'
<1>1. \A t \in TransactionId : watchers[t] # Nobody =>
           watchers[t] \in Watcher /\ watcherState[watchers[t]].active
    BY Zenon DEF ServiceInv, ServiceTyped, MapSound
<1>2. MapSound' /\ Cardinality(Watched)' <= maxWatched BY <1>1, MapShrinks, Zenon
<1>3. EveryWatcherServed'
  <2>. SUFFICES ASSUME NEW v \in Watched'
                PROVE  /\ watcherState'[v].phase = "polled" /\ ~aborted => pollTimer' \/ cycles' # {}
                       /\ watcherState'[v].phase = "ended" /\ ~aborted => v \in threw'
    BY Zenon DEF EveryWatcherServed
  <2>1. v \in Watched BY Zenon DEF Watched
  <2>2. v \in Watcher /\ watcherState[v].active BY <2>1, WatchedAt, Zenon
  <2>3. CASE v = w BY <2>2, <2>3, Zenon
  <2>4. CASE v # w
    <3>1. watcherState'[v].phase = watcherState[v].phase BY <2>2, <2>4, Zenon
    <3>2. /\ watcherState[v].phase = "polled" /\ ~aborted => pollTimer \/ cycles # {}
          /\ watcherState[v].phase = "ended" /\ ~aborted => v \in threw
      BY <2>1, Zenon DEF ServiceInv, EveryWatcherServed
    <3>. QED BY <3>1, <3>2, Zenon
  <2>. QED BY <2>3, <2>4, Zenon
<1>. QED BY <1>2, <1>3, Zenon DEF ServiceInv

\* The connection of an active watcher is open; that of another ends.
LEMMA OpenEffect ==
  ASSUME ServiceInv, NEW w \in Watcher, _openSseConnection(w)
  PROVE  /\ watcherState' \in [Watcher -> WatcherRecord]
         /\ \A v \in Watcher : /\ watcherState'[v].id = watcherState[v].id
                               /\ watcherState'[v].active = watcherState[v].active
                               /\ v # w => watcherState'[v].phase = watcherState[v].phase
         /\ watcherState[w].active => watcherState'[w].phase = "open"
<1>0. watcherState \in [Watcher -> WatcherRecord]
      /\ status \in [TransactionId -> Int]
  BY Zenon DEF ServiceInv, ServiceTyped
<1>1. CASE ~watcherState[w].active
  <2>1. watcherState' = [watcherState EXCEPT ![w].phase = "ended"] BY <1>1, Zenon DEF _openSseConnection
  <2>. QED BY <1>0, <1>1, <2>1 DEF Phase
<1>2. CASE watcherState[w].active
  <2>1. PICK k \in Int : watcherState' = [watcherState EXCEPT ![w].phase = "open", ![w].sent = k]
    <3>1. (IF watcherState[w].cursor = NoCursor THEN status[watcherState[w].id] - 1
                                                ELSE watcherState[w].cursor) \in Int
      BY <1>0
    <3>. QED BY <1>2, <3>1, Zenon DEF _openSseConnection
  <2>. QED BY <1>0, <2>1, ZenonT(30) DEF Phase
<1>. QED BY <1>1, <1>2, Zenon

\* A connection is opened, for the first time or again.
LEMMA OpenKeeps ==
  ASSUME ServiceInv, NEW w \in Watcher, _openSseConnection(w),
         UNCHANGED <<watchers, watch_count, aborted, destroyed, threw, status, pollTimer,
                     pollLoopRunning, cycles, polls>>
  PROVE  ServiceInv'
<1>1. ServiceTyped' BY OpenEffect, Zenon DEF ServiceInv, ServiceTyped
<1>2. LoopAlive' /\ LoopSingle' BY Zenon DEF ServiceInv, LoopAlive, LoopSingle
<1>. QED BY <1>1, <1>2, OpenEffect, PhaseMoves, Zenon

\* The loop is started, or runs already.
LEMMA EnsureEffect ==
  ASSUME ServiceInv, _ensurePollLoop, UNCHANGED <<cycles, destroyed>>
  PROVE  LoopAlive' /\ LoopSingle' /\ (pollTimer \/ cycles # {} => pollTimer' \/ cycles' # {})
         /\ (pollTimer' \/ cycles' # {})
<1>1. pollTimer' <=> pollTimer \/ ~pollLoopRunning BY Zenon DEF _ensurePollLoop
<1>2. pollLoopRunning' BY Zenon DEF _ensurePollLoop
<1>3. LoopAlive /\ LoopSingle BY Zenon DEF ServiceInv
<1>4. cycles' = cycles /\ destroyed' = destroyed BY Zenon
<1>5. pollTimer' \/ cycles' # {} BY <1>1, <1>3, <1>4, Zenon DEF LoopAlive
<1>6. LoopAlive' BY <1>5, Zenon DEF LoopAlive
<1>7. LoopSingle'
  <2>1. ASSUME ~destroyed PROVE (\A c, d \in cycles : c = d) /\ (pollTimer' => cycles = {})
    BY <1>1, <1>3, <2>1, Zenon DEF LoopSingle
  <2>2. ASSUME ~destroyed' PROVE (\A c, d \in cycles' : c = d) /\ (pollTimer' => cycles' = {})
    BY <1>4, <2>1, <2>2
  <2>. QED BY <1>2, <2>2, Zenon DEF LoopSingle
<1>. QED BY <1>5, <1>6, <1>7, Zenon

\* _startWatcher after its await.
LEMMA StartKeeps == ASSUME ServiceInv, NEW w \in Watcher, _startWatcher(w) PROVE ServiceInv'
<1>0. UNCHANGED <<supportsSSE, watch_count, watchers, cycles, polls, aborted,
                 destroyed, threw, status>>
  BY Zenon DEF _startWatcher
<1>1. CASE _openSseConnection(w) /\ UNCHANGED <<pollTimer, pollLoopRunning>>
  BY <1>0, <1>1, OpenKeeps, Zenon
<1>2. CASE watcherState' = [watcherState EXCEPT ![w].phase = "polled"] /\ _ensurePollLoop
  <2>1. ServiceTyped' BY <1>0, <1>2 DEF ServiceInv, ServiceTyped, Phase
  <2>2. \A v \in Watcher : /\ watcherState'[v].id = watcherState[v].id
                           /\ watcherState'[v].active = watcherState[v].active
                           /\ v # w => watcherState'[v].phase = watcherState[v].phase
    BY <1>2, Zenon DEF ServiceInv, ServiceTyped
  <2>3. watcherState'[w].phase = "polled" BY <1>2, Zenon DEF ServiceInv, ServiceTyped
  <2>. QED BY <1>0, <1>2, <2>1, <2>2, <2>3, EnsureEffect, PhaseMoves, Zenon
<1>. QED BY <1>1, <1>2, Zenon DEF _startWatcher

\* The back-off of a broken connection is over.
LEMMA SseTimerKeeps == ASSUME ServiceInv, NEW w \in Watcher, SseTimer(w) PROVE ServiceInv'
BY OpenKeeps, Zenon DEF SseTimer

\* A connection breaks: a watcher in the map reconnects, or its onError threw.
LEMMA SseErrorKeeps ==
  ASSUME ServiceInv, NEW w \in Watcher, NEW throws \in BOOLEAN, SseError(w, throws)
  PROVE  ServiceInv'
<1>0. UNCHANGED <<watch_count, watchers, pollTimer, pollLoopRunning, cycles, polls, aborted,
                  destroyed, status>>
  BY Zenon DEF SseError
<1>1. PICK ph \in {"reconnecting", "ended"} :
        /\ watcherState' = [watcherState EXCEPT ![w].phase = ph]
        /\ ~aborted /\ watcherState[w].active /\ ph = "ended" => w \in threw'
  BY Zenon DEF SseError
<1>2. ServiceTyped' BY <1>0, <1>1 DEF ServiceInv, ServiceTyped, Phase
<1>3. \A v \in Watcher : /\ watcherState'[v].id = watcherState[v].id
                         /\ watcherState'[v].active = watcherState[v].active
                         /\ v # w => watcherState'[v].phase = watcherState[v].phase
  BY <1>1, Zenon DEF ServiceInv, ServiceTyped
<1>4. watcherState'[w].phase = ph BY <1>1, Zenon DEF ServiceInv, ServiceTyped
<1>5. LoopAlive' /\ LoopSingle' BY <1>0, Zenon DEF ServiceInv, LoopAlive, LoopSingle
<1>6. threw \subseteq threw' BY Zenon DEF SseError
<1>. QED BY <1>0, <1>1, <1>2, <1>3, <1>4, <1>5, <1>6, PhaseMoves, Zenon

\* A frame arrives.
LEMMA MessageKeeps ==
  ASSUME ServiceInv, NEW w \in Watcher, NEW parsed \in BOOLEAN, NEW throws \in BOOLEAN,
         _handleSseMessage(w, parsed, throws)
  PROVE  ServiceInv'
<1>. DEFINE st == [watcherState EXCEPT ![w].sent = @ + 1]
<1>0. UNCHANGED <<watch_count, pollTimer, pollLoopRunning, cycles, polls, aborted, destroyed, status>>
  BY Zenon DEF _handleSseMessage
<1>1. st \in [Watcher -> WatcherRecord]
  BY DEF ServiceInv, ServiceTyped
<1>2. \A v \in Watcher : /\ st[v].id = watcherState[v].id
                         /\ st[v].active = watcherState[v].active
                         /\ st[v].phase = watcherState[v].phase
  BY Zenon DEF ServiceInv, ServiceTyped
<1>3. \A p \in polls' : p.watcher \in Watcher /\ p.answer \in Int
  BY <1>0, Zenon DEF ServiceInv, ServiceTyped
<1>4. \/ _dispatchUpdate(st, w, st[w].sent, throws)
      \/ watcherState' = st /\ UNCHANGED <<threw, watchers>>
  BY Zenon DEF _handleSseMessage
<1>5. st[w].sent \in Int BY <1>1, Zenon
<1>. HIDE DEF st
<1>6. CASE _dispatchUpdate(st, w, st[w].sent, throws)
  BY <1>0, <1>1, <1>2, <1>3, <1>5, <1>6, DispatchKeeps, Zenon
<1>7. CASE watcherState' = st /\ UNCHANGED <<threw, watchers>>
  <2>1. ServiceTyped' BY <1>0, <1>1, <1>7, Zenon DEF ServiceInv, ServiceTyped
  <2>2. \A t \in TransactionId : watchers[t] # Nobody =>
           watchers[t] \in Watcher /\ watcherState[watchers[t]].active
    BY Zenon DEF ServiceInv, ServiceTyped, MapSound
  <2>. QED BY <1>0, <1>2, <1>7, <2>1, <2>2, OnlyRemoves, Zenon
<1>. QED BY <1>4, <1>6, <1>7, Zenon

\* The end of a cycle, or its beginning, changes the loop only.
LEMMA LoopMoves ==
  ASSUME ServiceInv, cycles' \subseteq Cycle,
         \A p \in polls' : p.watcher \in Watcher /\ p.answer \in Int,
         UNCHANGED <<watch_count, watcherState, watchers, aborted, destroyed, threw, status>>,
         Watched # {} /\ ~aborted => pollTimer' \/ cycles' # {},
         LoopAlive', LoopSingle'
  PROVE  ServiceInv'
<1>1. ServiceTyped' BY Zenon DEF ServiceInv, ServiceTyped
<1>2. MapSound' BY Zenon DEF ServiceInv, MapSound
<1>3. Watched' = Watched BY Zenon DEF Watched
<1>4. Cardinality(Watched') <= maxWatched BY <1>3, Zenon DEF ServiceInv
<1>5. EveryWatcherServed'
  <2>. SUFFICES ASSUME NEW w \in Watched
                PROVE  /\ watcherState[w].phase = "polled" /\ ~aborted => pollTimer' \/ cycles' # {}
                       /\ watcherState[w].phase = "ended" /\ ~aborted => w \in threw
    BY <1>3, Zenon DEF EveryWatcherServed
  <2>. QED BY Zenon DEF ServiceInv, EveryWatcherServed
<1>. QED BY <1>1, <1>2, <1>4, <1>5, Zenon DEF ServiceInv

\* A cycle begins, or the loop ends for want of watchers.
LEMMA RunPollCycleKeeps == ASSUME ServiceInv, _runPollCycle PROVE ServiceInv'
<1>0. /\ UNCHANGED <<watch_count, watcherState, watchers, aborted, destroyed, threw, status>>
      /\ pollTimer /\ ~pollTimer'
      /\ LoopAlive /\ LoopSingle
  BY Zenon DEF _runPollCycle, ServiceInv
<1>1. CASE aborted \/ activeWatchers = {}
  <2>1. ~pollLoopRunning' /\ UNCHANGED <<cycles, polls>> BY <1>1, Zenon DEF _runPollCycle
  <2>2. Watched # {} /\ ~aborted => FALSE BY <1>1, WatchedActive, Zenon
  <2>3. LoopAlive' BY <2>1, Zenon DEF LoopAlive
  <2>4. LoopSingle' BY <1>0, <2>1, Zenon DEF LoopSingle
  <2>5. cycles' \subseteq Cycle /\ \A p \in polls' : p.watcher \in Watcher /\ p.answer \in Int
    BY <2>1, Zenon DEF ServiceInv, ServiceTyped
  <2>. QED BY <1>0, <2>2, <2>3, <2>4, <2>5, LoopMoves, Zenon
<1>2. CASE ~(aborted \/ activeWatchers = {})
  <2>1. PICK c \in Cycle :
          /\ cycles' = cycles \cup {c}
          /\ polls' = polls \cup
               {[cycle |-> c, watcher |-> w, answer |-> Unanswered] : w \in activeWatchers}
          /\ UNCHANGED pollLoopRunning
    BY <1>2, Zenon DEF _runPollCycle
  <2>2. cycles' # {} BY <2>1, Zenon
  <2>3. LoopAlive' BY <2>2, Zenon DEF LoopAlive
  <2>4. LoopSingle'
    <3>. SUFFICES ASSUME ~destroyed
                  PROVE  (\A d, e \in cycles' : d = e) /\ pollLoopRunning
      BY <1>0, <2>1, Zenon DEF LoopSingle
    <3>1. cycles = {} /\ pollLoopRunning BY <1>0, Zenon DEF LoopSingle
    <3>2. \A d, e \in cycles' : d = e BY <2>1, <3>1, Zenon
    <3>. QED BY <3>1, <3>2, Zenon
  <2>5. cycles' \subseteq Cycle BY <2>1, Zenon DEF ServiceInv, ServiceTyped
  <2>6. \A p \in polls' : p.watcher \in Watcher /\ p.answer \in Int
    <3>1. activeWatchers \subseteq Watcher BY WatchedActive, WatchedFinite, Zenon DEF ServiceInv
    <3>. QED BY <2>1, <3>1 DEF ServiceInv, ServiceTyped, Unanswered
  <2>. QED BY <1>0, <2>2, <2>3, <2>4, <2>5, <2>6, LoopMoves, Zenon
<1>. QED BY <1>1, <1>2, Zenon

\* A cycle ends: the next one is scheduled as long as there are watchers.
LEMMA CycleEndsKeeps == ASSUME ServiceInv, NEW c \in Cycle, CycleEnds(c) PROVE ServiceInv'
<1>0. /\ UNCHANGED <<watch_count, watcherState, watchers, aborted, destroyed, threw, status, polls>>
      /\ c \in cycles /\ cycles' = cycles \ {c}
      /\ LoopAlive /\ LoopSingle
  BY Zenon DEF CycleEnds, ServiceInv
<1>1. cycles' \subseteq Cycle /\ \A p \in polls' : p.watcher \in Watcher /\ p.answer \in Int
  BY <1>0, Zenon DEF ServiceInv, ServiceTyped
<1>2. ~destroyed => cycles' = {} /\ ~pollTimer /\ pollLoopRunning BY <1>0, Zenon DEF LoopSingle
<1>3. CASE activeWatchers # {} /\ ~aborted
  <2>1. pollTimer' /\ UNCHANGED pollLoopRunning BY <1>3, Zenon DEF CycleEnds
  <2>2. LoopAlive' BY <2>1, Zenon DEF LoopAlive
  <2>3. LoopSingle' BY <1>0, <1>2, <2>1, Zenon DEF LoopSingle
  <2>. QED BY <1>0, <1>1, <2>1, <2>2, <2>3, LoopMoves, Zenon
<1>4. CASE ~(activeWatchers # {} /\ ~aborted)
  <2>1. ~pollLoopRunning' /\ UNCHANGED pollTimer BY <1>4, Zenon DEF CycleEnds
  <2>2. LoopAlive' BY <2>1, Zenon DEF LoopAlive
  <2>3. LoopSingle' BY <1>0, <1>2, <2>1, Zenon DEF LoopSingle
  <2>4. Watched # {} /\ ~aborted => FALSE BY <1>4, WatchedActive, Zenon
  <2>. QED BY <1>0, <1>1, <2>2, <2>3, <2>4, LoopMoves, Zenon
<1>. QED BY <1>3, <1>4, Zenon

\* A step of the anchor, or of a request, that only changes polls or status.
LEMMA QuietKeeps ==
  ASSUME ServiceInv, status' \in [TransactionId -> Int],
         \A p \in polls' : p.watcher \in Watcher /\ p.answer \in Int,
         UNCHANGED <<watch_count, watcherState, watchers, aborted, destroyed, threw,
                     pollTimer, pollLoopRunning, cycles>>
  PROVE  ServiceInv'
<1>1. ServiceTyped' BY Zenon DEF ServiceInv, ServiceTyped
<1>2. \A t \in TransactionId : watchers[t] # Nobody =>
           watchers[t] \in Watcher /\ watcherState[watchers[t]].active
  BY Zenon DEF ServiceInv, ServiceTyped, MapSound
<1>. QED BY <1>1, <1>2, OnlyRemoves, Zenon

\* The answers of a poll, and what is done with them.
LEMMA PollKeeps ==
  ASSUME ServiceInv, NEW p \in polls,
         PollAnswered(p) \/ PollFails(p) \/ \E throws \in BOOLEAN : _pollOne(p, throws)
  PROVE  ServiceInv'
<1>0. p.watcher \in Watcher /\ p.answer \in Int /\ status \in [TransactionId -> Int]
  BY Zenon DEF ServiceInv, ServiceTyped
<1>1. CASE PollAnswered(p)
  <2>. DEFINE q == [p EXCEPT !.answer = status[watcherState[p.watcher].id]]
  <2>1. status[watcherState[p.watcher].id] \in Int BY <1>0, Zenon DEF ServiceInv, ServiceTyped
  <2>2. q.watcher \in Watcher /\ q.answer \in Int BY <1>0, <2>1
  <2>3. polls' \subseteq polls \cup {q} BY <1>1, Zenon DEF PollAnswered
  <2>. HIDE DEF q
  <2>4. \A r \in polls' : r.watcher \in Watcher /\ r.answer \in Int
    BY <2>2, <2>3, Zenon DEF ServiceInv, ServiceTyped
  <2>. QED BY <1>0, <1>1, <2>4, QuietKeeps, Zenon DEF PollAnswered
<1>2. CASE PollFails(p)
  <2>1. \A r \in polls' : r.watcher \in Watcher /\ r.answer \in Int
    BY <1>2, Zenon DEF PollFails, ServiceInv, ServiceTyped
  <2>. QED BY <1>0, <1>2, <2>1, QuietKeeps, Zenon DEF PollFails
<1>3. ASSUME NEW throws \in BOOLEAN, _pollOne(p, throws) PROVE ServiceInv'
  <2>0. UNCHANGED <<watch_count, pollTimer, pollLoopRunning, cycles, aborted, destroyed, status>>
    BY <1>3, Zenon DEF _pollOne
  <2>1. \A r \in polls' : r.watcher \in Watcher /\ r.answer \in Int
    BY <1>3, Zenon DEF _pollOne, ServiceInv, ServiceTyped
  <2>2. watcherState \in [Watcher -> WatcherRecord]
    BY Zenon DEF ServiceInv, ServiceTyped
  <2>3. CASE _dispatchUpdate(watcherState, p.watcher, p.answer, throws)
    BY <1>0, <2>0, <2>1, <2>2, <2>3, DispatchKeeps, Zenon
  <2>4. CASE UNCHANGED <<watcherState, watchers, threw>> BY <1>0, <2>0, <2>1, <2>4, QuietKeeps, Zenon
  <2>. QED BY <1>3, <2>3, <2>4, Zenon DEF _pollOne
<1>. QED BY <1>1, <1>2, <1>3, Zenon

\* The anchor moves a transaction on.
LEMMA StatusMovesKeeps == ASSUME ServiceInv, NEW t \in TransactionId, StatusMoves(t) PROVE ServiceInv'
<1>1. status' \in [TransactionId -> Int] BY DEF StatusMoves, ServiceInv, ServiceTyped
<1>2. \A p \in polls' : p.watcher \in Watcher /\ p.answer \in Int
  BY Zenon DEF StatusMoves, ServiceInv, ServiceTyped
<1>. QED BY <1>1, <1>2, QuietKeeps, Zenon DEF StatusMoves

\* The invariant of the streaming service, in every behaviour.
THEOREM ServiceInvCorrect == StreamingSpec => []ServiceInv
<1>1. ServiceInv /\ [StreamingNext]_streamingVars => ServiceInv'
  <2>. SUFFICES ASSUME ServiceInv, [StreamingNext]_streamingVars PROVE ServiceInv' BY Zenon
  <2>1. CASE UNCHANGED streamingVars
    <3>1. \A p \in polls' : p.watcher \in Watcher /\ p.answer \in Int
      BY <2>1, Zenon DEF streamingVars, ServiceInv, ServiceTyped
    <3>2. status' \in [TransactionId -> Int] BY <2>1, Zenon DEF streamingVars, ServiceInv, ServiceTyped
    <3>. QED BY <2>1, <3>1, <3>2, QuietKeeps, Zenon DEF streamingVars
  <2>2. CASE StreamingNext
    BY <2>2, WatchKeeps, StatusMovesKeeps, UnsubscribeKeeps, StartKeeps, SseTimerKeeps,
       SseErrorKeeps, MessageKeeps, DestroyKeeps, RunPollCycleKeeps, PollKeeps, CycleEndsKeeps, Zenon
    DEF StreamingNext
  <2>. QED BY <2>1, <2>2, Zenon
<1>. QED BY <1>1, ServiceInitInv, PTL DEF StreamingSpec

\* The map holds at most maxWatched watchers, each active and under its id; each
\* is served by a connection, by the loop, or has a handler that threw; and there
\* is one loop until destroy (sep6Streaming.ts:99-140, 307-342).
THEOREM WatchersServedCorrect == StreamingSpec => []WatchersServed
<1>1. ServiceInv => WatchersServed
  <2>. SUFFICES ASSUME ServiceInv PROVE WatchersServed BY Zenon
  <2>1. MapHoldsActiveWatchers BY Zenon DEF ServiceInv, MapSound, MapHoldsActiveWatchers
  <2>2. OneLoop
    <3>. SUFFICES ASSUME ~destroyed
                  PROVE  ~(Cardinality(cycles) + (IF pollTimer THEN 1 ELSE 0) > 1)
      BY Zenon DEF OneLoop
    <3>0. (\A c, d \in cycles : c = d) /\ (pollTimer => cycles = {})
      BY Zenon DEF ServiceInv, LoopSingle
    <3>1. CASE cycles = {}
      <4>1. Cardinality(cycles) = 0 BY <3>1, FS_EmptySet, Zenon
      <4>. QED BY <4>1
    <3>2. CASE cycles # {}
      <4>1. PICK c \in cycles : cycles = {c} BY <3>0, <3>2, Zenon
      <4>2. Cardinality(cycles) = 1 BY <4>1, FS_Singleton, Zenon
      <4>3. ~pollTimer BY <3>0, <3>2, Zenon
      <4>. QED BY <4>2, <4>3
    <3>. QED BY <3>1, <3>2, Zenon
  <2>. QED BY <2>1, <2>2, Zenon DEF WatchersServed, ServiceInv
<1>. QED BY <1>1, ServiceInvCorrect, PTL

-----------------------------------------------------------------------------
(* What a watcher has been told and what a poll has been answered never run  *)
(* ahead of the anchor.                                                      *)

\* A watcher whose statuses are statuses.
StatusRecord ==
  [id : TransactionId, active : BOOLEAN, phase : Phase,
   lastStatus : NoStatus..FinalStatus, cursor : NoCursor..FinalStatus, sent : -1..FinalStatus]

StatusInRange ==
  /\ watcherState \in [Watcher -> StatusRecord]
  /\ status \in [TransactionId -> 0..FinalStatus]
  /\ threw \subseteq Watcher

\* A request is a cycle's, and of a watcher that has been created.
PollsInRange ==
  \A p \in polls :
    /\ p \in [cycle : cycles, watcher : Watcher, answer : Int]
    /\ p.watcher <= watch_count
    /\ p.answer \in Unanswered..status[watcherState[p.watcher].id]

FlagsInRange == {supportsSSE, pollTimer, pollLoopRunning, aborted, destroyed} \subseteq BOOLEAN

ServiceRanges == ServiceInv /\ StatusInRange /\ PollsInRange /\ FlagsInRange

USE DEF StatusRecord, NoStatus, NoCursor, Unanswered

\* Before the first call.
LEMMA RangesInit == ASSUME StreamingInit PROVE ServiceRanges
<1>1. Unborn \in StatusRecord BY StreamingAssumption DEF Unborn, Phase
<1>2. StatusInRange BY <1>1, StreamingAssumption DEF StreamingInit, StatusInRange
<1>3. PollsInRange BY Zenon DEF StreamingInit, PollsInRange
<1>4. FlagsInRange BY Zenon DEF StreamingInit, detectCapabilities, FlagsInRange
<1>. QED BY <1>2, <1>3, <1>4, ServiceInitInv, Zenon DEF ServiceRanges

\* The flags, which no step sets to anything but a truth value.
LEMMA FlagsStay ==
  ASSUME FlagsInRange, [StreamingNext]_streamingVars
  PROVE  FlagsInRange'
<1>1. supportsSSE' \in BOOLEAN /\ aborted' \in BOOLEAN /\ destroyed' \in BOOLEAN
  BY Zenon DEF FlagsInRange, StreamingNext, streamingVars, watch, StatusMoves, unsubscribe,
         _startWatcher, SseTimer, SseError, _handleSseMessage, destroy, abort, _runPollCycle,
         PollAnswered, PollFails, _pollOne, CycleEnds
<1>2. pollTimer' \in BOOLEAN /\ pollLoopRunning' \in BOOLEAN
  <2>1. CASE \E w \in Watcher : _startWatcher(w)
    <3>1. CASE UNCHANGED <<pollTimer, pollLoopRunning>> BY <3>1, Zenon DEF FlagsInRange
    <3>2. CASE _ensurePollLoop
      <4>1. pollTimer' = (pollTimer \/ ~pollLoopRunning) /\ pollLoopRunning' = TRUE
        BY <3>2, Zenon DEF _ensurePollLoop
      <4>2. (pollTimer \/ ~pollLoopRunning) \in BOOLEAN BY Zenon
      <4>. QED BY <4>1, <4>2, Zenon
    <3>. QED BY <2>1, <3>1, <3>2, Zenon DEF _startWatcher
  <2>2. CASE ~\E w \in Watcher : _startWatcher(w)
    BY <2>2, Zenon DEF FlagsInRange, StreamingNext, streamingVars, watch, StatusMoves, unsubscribe,
         SseTimer, SseError, _handleSseMessage, destroy, abort, _runPollCycle,
         PollAnswered, PollFails, _pollOne, CycleEnds
  <2>. QED BY <2>1, <2>2, Zenon
<1>. QED BY <1>1, <1>2, Zenon DEF FlagsInRange

\* A step that makes no watcher and no request, and no status smaller.
LEMMA PollsStay ==
  ASSUME ServiceRanges, polls' \subseteq polls, UNCHANGED watch_count,
         \A p \in polls' : p.cycle \in cycles',
         \A w \in Watcher : watcherState'[w].id = watcherState[w].id,
         \A t \in TransactionId : status'[t] \in Int /\ status'[t] >= status[t]
  PROVE  PollsInRange'
<1>. SUFFICES ASSUME NEW p \in polls'
              PROVE  /\ p \in [cycle : cycles', watcher : Watcher, answer : Int]
                     /\ p.watcher <= watch_count'
                     /\ p.answer \in Unanswered..status'[watcherState'[p.watcher].id]
  BY Zenon DEF PollsInRange
<1>1. /\ p \in [cycle : cycles, watcher : Watcher, answer : Int]
      /\ p.watcher <= watch_count
      /\ p.answer \in Unanswered..status[watcherState[p.watcher].id]
  BY Zenon DEF ServiceRanges, PollsInRange
<1>2. p \in [cycle : cycles', watcher : Watcher, answer : Int] BY <1>1, Zenon
<1>3. /\ watcherState[p.watcher].id \in TransactionId
      /\ status[watcherState[p.watcher].id] \in Int
  BY <1>1 DEF ServiceRanges, StatusInRange
<1>4. watcherState'[p.watcher].id = watcherState[p.watcher].id BY <1>1, Zenon
<1>. QED BY <1>1, <1>2, <1>3, <1>4

\* A status that is noted is one of the anchor's.
LEMMA DispatchRanges ==
  ASSUME ServiceRanges, NEW w \in Watcher, NEW st, NEW s \in 0..FinalStatus, NEW throws,
         st \in [Watcher -> StatusRecord],
         \A v \in Watcher : st[v].id = watcherState[v].id,
         _dispatchUpdate(st, w, s, throws)
  PROVE  /\ watcherState' \in [Watcher -> StatusRecord] /\ threw' \subseteq Watcher
         /\ \A v \in Watcher : watcherState'[v].id = watcherState[v].id
<1>. DEFINE noted == [st EXCEPT ![w].cursor = timestamp(s), ![w].lastStatus = s]
<1>1. timestamp(s) \in 0..FinalStatus BY StreamingAssumption DEF timestamp
<1>2. /\ noted \in [Watcher -> StatusRecord]
      /\ \A v \in Watcher : noted[v].id = watcherState[v].id
  <2>. DEFINE r == [st[w] EXCEPT !.cursor = timestamp(s), !.lastStatus = s]
  <2>1. s \in -1..FinalStatus /\ timestamp(s) \in -1..FinalStatus BY <1>1, StreamingAssumption
  <2>2. st[w] \in StatusRecord BY Zenon
  <2>3. r \in StatusRecord /\ r.id = st[w].id BY <2>1, <2>2, Zenon
  <2>4. noted = [st EXCEPT ![w] = r] BY Zenon
  <2>. HIDE DEF r, StatusRecord
  <2>. QED BY <2>3, <2>4, Zenon
<1>3. _removeWatcher(noted, st[w].id) \/ (watcherState' = noted /\ UNCHANGED watchers)
  BY Zenon DEF _dispatchUpdate
<1>4. threw' \subseteq Watcher BY Zenon DEF _dispatchUpdate, ServiceRanges, StatusInRange
<1>. HIDE DEF noted
<1>5. CASE watcherState' = noted BY <1>2, <1>4, <1>5, Zenon
<1>6. CASE _removeWatcher(noted, st[w].id)
  <2>1. watchers[st[w].id] # Nobody => watchers[st[w].id] \in Watcher
    BY Zenon DEF ServiceRanges, ServiceInv, ServiceTyped
  <2>2. watcherState' = noted \/ \E v \in Watcher : watcherState' = [noted EXCEPT ![v].active = FALSE]
    BY <1>6, <2>1, Zenon DEF _removeWatcher, removed
  <2>3. ASSUME NEW v \in Watcher, watcherState' = [noted EXCEPT ![v].active = FALSE]
        PROVE  /\ watcherState' \in [Watcher -> StatusRecord]
               /\ \A u \in Watcher : watcherState'[u].id = noted[u].id
    <3>. DEFINE r == [noted[v] EXCEPT !.active = FALSE]
    <3>1. noted[v] \in StatusRecord BY <1>2, Zenon
    <3>2. r \in StatusRecord /\ r.id = noted[v].id BY <3>1, Zenon
    <3>3. watcherState' = [noted EXCEPT ![v] = r] BY <2>3, Zenon
    <3>. HIDE DEF r, StatusRecord
    <3>. QED BY <1>2, <3>2, <3>3, Zenon
  <2>. HIDE DEF StatusRecord
  <2>. QED BY <1>2, <1>4, <2>2, <2>3, Zenon
<1>. QED BY <1>3, <1>5, <1>6, Zenon

\* A new watcher, whose number no request has.
LEMMA WatchRanges ==
  ASSUME ServiceRanges, NEW t \in TransactionId, watch(t)
  PROVE  StatusInRange' /\ PollsInRange'
<1>. DEFINE n == watch_count + 1
             fresh == [Unborn EXCEPT !.id = t, !.active = TRUE, !.phase = "detecting"]
<1>1. n \in Watcher /\ watch_count' = n /\ watch_count \in Int
  BY StreamingAssumption DEF watch, ServiceRanges, ServiceInv, ServiceTyped, Watcher
<1>2. fresh \in StatusRecord
  <2>1. Unborn \in StatusRecord BY StreamingAssumption DEF Unborn, Phase
  <2>. QED BY <2>1, Zenon DEF Phase
<1>3. watcherState' = [watcherState EXCEPT ![n] = fresh] /\ UNCHANGED <<threw, status, cycles, polls>>
  BY <1>1, Zenon DEF watch
<1>. HIDE DEF fresh
<1>4. StatusInRange' BY <1>1, <1>2, <1>3, Zenon DEF ServiceRanges, StatusInRange
<1>5. PollsInRange'
  <2>. SUFFICES ASSUME NEW p \in polls
                PROVE  /\ p \in [cycle : cycles, watcher : Watcher, answer : Int]
                       /\ p.watcher <= watch_count'
                       /\ p.answer \in Unanswered..status[watcherState'[p.watcher].id]
    BY <1>3, Zenon DEF PollsInRange
  <2>1. /\ p \in [cycle : cycles, watcher : Watcher, answer : Int]
        /\ p.watcher <= watch_count
        /\ p.answer \in Unanswered..status[watcherState[p.watcher].id]
    BY Zenon DEF ServiceRanges, PollsInRange
  <2>2. p.watcher \in Int BY <2>1 DEF Watcher
  <2>3. p.watcher # n /\ p.watcher <= watch_count' BY <1>1, <2>1, <2>2
  <2>4. watcherState'[p.watcher] = watcherState[p.watcher]
    BY <1>3, <2>1, <2>3, Zenon DEF ServiceRanges, StatusInRange
  <2>. QED BY <2>1, <2>3, <2>4, Zenon
<1>. QED BY <1>4, <1>5, Zenon

\* The calls that take watchers out of the map.
LEMMA CallRanges ==
  ASSUME ServiceRanges,
         destroy \/ abort \/ \E w \in Watcher : unsubscribe(w)
  PROVE  StatusInRange' /\ PollsInRange'
<1>0. UNCHANGED <<watch_count, polls, cycles, status, threw>> BY Zenon DEF destroy, abort, unsubscribe
<1>1. watcherState' \in [Watcher -> StatusRecord]
      /\ \A v \in Watcher : watcherState'[v].id = watcherState[v].id
  <2>0. watcherState \in [Watcher -> StatusRecord] BY Zenon DEF ServiceRanges, StatusInRange
  <2>1. allRemoved \in [Watcher -> StatusRecord]
        /\ \A v \in Watcher : allRemoved[v].id = watcherState[v].id
    BY <2>0, Zenon DEF allRemoved
  <2>2. CASE destroy BY <2>1, <2>2, Zenon DEF destroy
  <2>3. CASE abort BY <2>1, <2>3 DEF abort, Phase
  <2>4. ASSUME NEW w \in Watcher, unsubscribe(w)
        PROVE  watcherState' \in [Watcher -> StatusRecord]
               /\ \A v \in Watcher : watcherState'[v].id = watcherState[v].id
    <3>1. watcherState[w].id \in TransactionId BY <2>0, Zenon
    <3>2. watchers[watcherState[w].id] # Nobody => watchers[watcherState[w].id] \in Watcher
      BY <3>1, Zenon DEF ServiceRanges, ServiceInv, ServiceTyped
    <3>3. watcherState' = watcherState
          \/ \E v \in Watcher : watcherState' = [watcherState EXCEPT ![v].active = FALSE]
      BY <2>4, <3>2, Zenon DEF unsubscribe, _removeWatcher, removed
    <3>4. \A v \in Watcher : [watcherState[v] EXCEPT !.active = FALSE] \in StatusRecord
                            /\ [watcherState[v] EXCEPT !.active = FALSE].id = watcherState[v].id
      BY <2>0, Zenon
    <3>. HIDE DEF StatusRecord
    <3>. QED BY <2>0, <3>3, <3>4, ZenonT(30)
  <2>. QED BY <2>2, <2>3, <2>4, Zenon
<1>2. StatusInRange' BY <1>0, <1>1, Zenon DEF ServiceRanges, StatusInRange
<1>3. \A t \in TransactionId : status'[t] \in Int /\ status'[t] >= status[t]
  BY <1>0 DEF ServiceRanges, StatusInRange
<1>4. \A p \in polls' : p.cycle \in cycles' BY <1>0, Zenon DEF ServiceRanges, PollsInRange
<1>. QED BY <1>0, <1>1, <1>2, <1>3, <1>4, PollsStay, Zenon

\* A connection that opens, breaks or brings a frame.
LEMMA ConnectionRanges ==
  ASSUME ServiceRanges, NEW w \in Watcher,
         \/ _startWatcher(w) \/ SseTimer(w)
         \/ \E throws \in BOOLEAN : SseError(w, throws)
         \/ \E parsed, throws \in BOOLEAN : _handleSseMessage(w, parsed, throws)
  PROVE  StatusInRange' /\ PollsInRange'
<1>0. UNCHANGED <<watch_count, polls, cycles, status>>
  BY Zenon DEF _startWatcher, SseTimer, SseError, _handleSseMessage
<1>. DEFINE Good == /\ watcherState' \in [Watcher -> StatusRecord] /\ threw' \subseteq Watcher
                    /\ \A v \in Watcher : watcherState'[v].id = watcherState[v].id
<1>1. /\ watcherState \in [Watcher -> StatusRecord] /\ threw \subseteq Watcher
      /\ status \in [TransactionId -> 0..FinalStatus]
      /\ watcherState[w].id \in TransactionId
  BY Zenon DEF ServiceRanges, StatusInRange
<1>2. Good
  <2>1. CASE _openSseConnection(w) /\ UNCHANGED threw
    <3>1. CASE ~watcherState[w].active
      <4>1. watcherState' = [watcherState EXCEPT ![w].phase = "ended"]
        BY <2>1, <3>1, Zenon DEF _openSseConnection
      <4>. QED BY <1>1, <2>1, <4>1 DEF Phase
    <3>2. CASE watcherState[w].active
      <4>. DEFINE k == IF watcherState[w].cursor = NoCursor THEN status[watcherState[w].id] - 1
                                                         ELSE watcherState[w].cursor
      <4>1. status[watcherState[w].id] \in 0..FinalStatus /\ watcherState[w].cursor \in -1..FinalStatus
        BY <1>1, Zenon
      <4>2. k \in -1..FinalStatus BY <4>1, StreamingAssumption
      <4>3. watcherState' = [watcherState EXCEPT ![w].phase = "open", ![w].sent = k]
        BY <2>1, <3>2, Zenon DEF _openSseConnection
      <4>. HIDE DEF k
      <4>. QED BY <1>1, <2>1, <4>2, <4>3, ZenonT(30) DEF Phase
    <3>. QED BY <3>1, <3>2, Zenon
  <2>2. CASE _startWatcher(w)
    <3>1. UNCHANGED threw BY <2>2, Zenon DEF _startWatcher
    <3>2. CASE watcherState' = [watcherState EXCEPT ![w].phase = "polled"]
      BY <1>1, <3>1, <3>2 DEF Phase
    <3>. QED BY <2>1, <2>2, <3>1, <3>2, Zenon DEF _startWatcher
  <2>3. CASE SseTimer(w) BY <2>1, <2>3, Zenon DEF SseTimer
  <2>4. ASSUME NEW throws \in BOOLEAN, SseError(w, throws) PROVE Good
    <3>1. threw' \subseteq Watcher BY <1>1, <2>4, Zenon DEF SseError
    <3>2. watcherState' = [watcherState EXCEPT ![w].phase = "reconnecting"]
          \/ watcherState' = [watcherState EXCEPT ![w].phase = "ended"]
      BY <2>4, Zenon DEF SseError
    <3>. QED BY <1>1, <3>1, <3>2 DEF Phase
  <2>5. ASSUME NEW parsed \in BOOLEAN, NEW throws \in BOOLEAN, _handleSseMessage(w, parsed, throws)
        PROVE  Good
    <3>. DEFINE st == [watcherState EXCEPT ![w].sent = @ + 1]
    <3>1. watcherState[w].sent \in -1..FinalStatus /\ status[watcherState[w].id] \in 0..FinalStatus
          /\ watcherState[w].sent < status[watcherState[w].id]
      BY <1>1, <2>5, Zenon DEF _handleSseMessage
    <3>2. watcherState[w].sent + 1 \in 0..FinalStatus BY <3>1, StreamingAssumption
    <3>3. /\ st \in [Watcher -> StatusRecord] /\ st[w].sent = watcherState[w].sent + 1
          /\ \A v \in Watcher : st[v].id = watcherState[v].id
      BY <1>1, <3>2
    <3>4. \/ _dispatchUpdate(st, w, st[w].sent, throws)
          \/ watcherState' = st /\ UNCHANGED <<threw, watchers>>
      BY <2>5, Zenon DEF _handleSseMessage
    <3>. HIDE DEF st
    <3>5. CASE _dispatchUpdate(st, w, st[w].sent, throws)
      BY <3>2, <3>3, <3>5, DispatchRanges, Zenon
    <3>. QED BY <1>1, <3>3, <3>4, <3>5, Zenon
  <2>. QED BY <2>2, <2>3, <2>4, <2>5, Zenon
<1>3. StatusInRange' BY <1>0, <1>2, Zenon DEF ServiceRanges, StatusInRange
<1>4. \A t \in TransactionId : status'[t] \in Int /\ status'[t] >= status[t]
  BY <1>0, <1>1
<1>5. \A p \in polls' : p.cycle \in cycles' BY <1>0, Zenon DEF ServiceRanges, PollsInRange
<1>. QED BY <1>0, <1>2, <1>3, <1>4, <1>5, PollsStay, Zenon

\* The loop, its requests, and the anchor.
LEMMA LoopRanges ==
  ASSUME ServiceRanges, _runPollCycle \/ \E c \in Cycle : CycleEnds(c)
  PROVE  StatusInRange' /\ PollsInRange'
<1>0. UNCHANGED <<watch_count, watcherState, status, threw>> BY Zenon DEF _runPollCycle, CycleEnds
<1>1. StatusInRange' BY <1>0, Zenon DEF ServiceRanges, StatusInRange
<1>2. \A t \in TransactionId : status'[t] \in Int /\ status'[t] >= status[t]
  BY <1>0 DEF ServiceRanges, StatusInRange
<1>3. \A v \in Watcher : watcherState'[v].id = watcherState[v].id BY <1>0, Zenon
<1>4. ASSUME NEW c \in Cycle, CycleEnds(c) PROVE PollsInRange'
  <2>1. polls' = polls /\ \A p \in polls' : p.cycle \in cycles'
    BY <1>4, Zenon DEF CycleEnds, ServiceRanges, PollsInRange
  <2>. QED BY <1>0, <1>2, <1>3, <2>1, PollsStay, Zenon
<1>5. CASE _runPollCycle /\ UNCHANGED <<cycles, polls>>
  <2>1. \A p \in polls' : p.cycle \in cycles' BY <1>5, Zenon DEF ServiceRanges, PollsInRange
  <2>. QED BY <1>0, <1>1, <1>2, <1>3, <1>5, <2>1, PollsStay, Zenon
<1>6. ASSUME NEW c \in Cycle, cycles' = cycles \cup {c},
             polls' = polls \cup
               {[cycle |-> c, watcher |-> w, answer |-> Unanswered] : w \in activeWatchers}
      PROVE  PollsInRange'
  <2>. SUFFICES ASSUME NEW p \in polls'
                PROVE  /\ p \in [cycle : cycles', watcher : Watcher, answer : Int]
                       /\ p.watcher <= watch_count
                       /\ p.answer \in Unanswered..status[watcherState[p.watcher].id]
    BY <1>0, Zenon DEF PollsInRange
  <2>1. CASE p \in polls BY <1>6, <2>1, Zenon DEF ServiceRanges, PollsInRange
  <2>2. ASSUME NEW w \in activeWatchers,
               p = [cycle |-> c, watcher |-> w, answer |-> Unanswered]
        PROVE  /\ p \in [cycle : cycles', watcher : Watcher, answer : Int]
               /\ p.watcher <= watch_count
               /\ p.answer \in Unanswered..status[watcherState[p.watcher].id]
    <3>1. w \in Watched BY WatchedActive, Zenon DEF ServiceRanges
    <3>2. PICK t \in TransactionId : w = watchers[t] /\ watchers[t] # Nobody BY <3>1, Zenon DEF Watched
    <3>3. w \in Watcher /\ w <= watch_count /\ watcherState[w].id = t
      BY <3>1, <3>2, WatchedAt, Zenon DEF ServiceRanges, ServiceInv, MapSound
    <3>4. status[watcherState[w].id] \in 0..FinalStatus
      BY <3>3, Zenon DEF ServiceRanges, StatusInRange
    <3>5. Unanswered \in Unanswered..status[watcherState[w].id] BY <3>4, StreamingAssumption
    <3>. QED BY <1>6, <2>2, <3>3, <3>5
  <2>. QED BY <1>6, <2>1, <2>2, Zenon
<1>7. CASE _runPollCycle BY <1>1, <1>5, <1>6, <1>7, Zenon DEF _runPollCycle
<1>. QED BY <1>1, <1>4, <1>7, Zenon

\* A request is answered with the status of the moment; when the answer is read
\* the anchor may be further.
LEMMA PollRanges ==
  ASSUME ServiceRanges, NEW p \in polls,
         PollAnswered(p) \/ PollFails(p) \/ \E throws \in BOOLEAN : _pollOne(p, throws)
  PROVE  StatusInRange' /\ PollsInRange'
<1>0. UNCHANGED <<watch_count, cycles, status>> BY Zenon DEF PollAnswered, PollFails, _pollOne
<1>1. /\ p \in [cycle : cycles, watcher : Watcher, answer : Int]
      /\ p.watcher <= watch_count
      /\ p.answer \in Unanswered..status[watcherState[p.watcher].id]
  BY Zenon DEF ServiceRanges, PollsInRange
<1>2. /\ watcherState \in [Watcher -> StatusRecord] /\ threw \subseteq Watcher
      /\ status \in [TransactionId -> 0..FinalStatus]
      /\ status[watcherState[p.watcher].id] \in 0..FinalStatus
  BY <1>1, Zenon DEF ServiceRanges, StatusInRange
<1>3. \A t \in TransactionId : status'[t] \in Int /\ status'[t] >= status[t]
  BY <1>0, <1>2
<1>4. CASE PollAnswered(p)
  <2>. DEFINE q == [p EXCEPT !.answer = status[watcherState[p.watcher].id]]
  <2>1. UNCHANGED <<watcherState, threw>> /\ polls' = (polls \ {p}) \cup {q}
    BY <1>4, Zenon DEF PollAnswered
  <2>2. q \in [cycle : cycles, watcher : Watcher, answer : Int] /\ q.watcher = p.watcher
        /\ q.answer = status[watcherState[p.watcher].id]
    BY <1>1, <1>2
  <2>3. q.answer \in Unanswered..status[watcherState[p.watcher].id]
    BY <1>2, <2>2, StreamingAssumption
  <2>. HIDE DEF q
  <2>4. PollsInRange' BY <1>0, <1>1, <2>1, <2>2, <2>3, Zenon DEF ServiceRanges, PollsInRange
  <2>5. StatusInRange' BY <1>0, <2>1, Zenon DEF ServiceRanges, StatusInRange
  <2>. QED BY <2>4, <2>5, Zenon
<1>5. CASE PollFails(p)
  <2>1. UNCHANGED <<watcherState, threw>> /\ polls' \subseteq polls BY <1>5, Zenon DEF PollFails
  <2>2. StatusInRange' BY <1>0, <2>1, Zenon DEF ServiceRanges, StatusInRange
  <2>3. \A r \in polls' : r.cycle \in cycles' BY <1>0, <2>1, Zenon DEF ServiceRanges, PollsInRange
  <2>. QED BY <1>0, <1>3, <2>1, <2>2, <2>3, PollsStay, Zenon
<1>6. ASSUME NEW throws \in BOOLEAN, _pollOne(p, throws) PROVE StatusInRange' /\ PollsInRange'
  <2>1. p.answer \in 0..FinalStatus /\ polls' \subseteq polls
    BY <1>1, <1>2, <1>6, StreamingAssumption DEF _pollOne
  <2>2. /\ watcherState' \in [Watcher -> StatusRecord] /\ threw' \subseteq Watcher
        /\ \A v \in Watcher : watcherState'[v].id = watcherState[v].id
    <3>1. CASE _dispatchUpdate(watcherState, p.watcher, p.answer, throws)
      BY <1>1, <1>2, <2>1, <3>1, DispatchRanges, Zenon
    <3>2. CASE UNCHANGED <<watcherState, watchers, threw>> BY <1>2, <3>2, Zenon
    <3>. QED BY <1>6, <3>1, <3>2, Zenon DEF _pollOne
  <2>3. StatusInRange' BY <1>0, <1>2, <2>2, Zenon DEF StatusInRange
  <2>4. \A r \in polls' : r.cycle \in cycles' BY <1>0, <2>1, Zenon DEF ServiceRanges, PollsInRange
  <2>. QED BY <1>0, <1>3, <2>1, <2>2, <2>3, <2>4, PollsStay, Zenon
<1>. QED BY <1>4, <1>5, <1>6, Zenon

\* A transaction moves on.
LEMMA StatusRanges ==
  ASSUME ServiceRanges, NEW t \in TransactionId, StatusMoves(t)
  PROVE  StatusInRange' /\ PollsInRange'
<1>0. UNCHANGED <<watch_count, watcherState, polls, cycles, threw>> BY Zenon DEF StatusMoves
<1>1. /\ status' = [status EXCEPT ![t] = @ + 1] /\ status[t] < FinalStatus
      /\ status \in [TransactionId -> 0..FinalStatus]
  BY Zenon DEF StatusMoves, ServiceRanges, StatusInRange
<1>2. status' \in [TransactionId -> 0..FinalStatus]
      /\ \A u \in TransactionId : status'[u] \in Int /\ status'[u] >= status[u]
  BY <1>1, StreamingAssumption
<1>3. StatusInRange' BY <1>0, <1>2, Zenon DEF ServiceRanges, StatusInRange
<1>4. \A p \in polls' : p.cycle \in cycles' BY <1>0, Zenon DEF ServiceRanges, PollsInRange
<1>. QED BY <1>0, <1>2, <1>3, <1>4, PollsStay, Zenon

\* What a request and a watcher know stays in range.
THEOREM ServiceRangesCorrect == StreamingSpec => []ServiceRanges
<1>1. ServiceRanges /\ ServiceInv' /\ [StreamingNext]_streamingVars => ServiceRanges'
  <2>. SUFFICES ASSUME ServiceRanges, ServiceInv', [StreamingNext]_streamingVars
                PROVE  StatusInRange' /\ PollsInRange'
    BY FlagsStay, Zenon DEF ServiceRanges
  <2>1. CASE UNCHANGED streamingVars
    BY <2>1, Zenon DEF streamingVars, ServiceRanges, StatusInRange, PollsInRange
  <2>2. CASE StreamingNext
    BY <2>2, WatchRanges, CallRanges, ConnectionRanges, LoopRanges, PollRanges, StatusRanges, Zenon
    DEF StreamingNext
  <2>. QED BY <2>1, <2>2, Zenon
<1>. QED BY <1>1, RangesInit, ServiceInvCorrect, PTL DEF StreamingSpec

\* Every request belongs to a cycle that waits for it and to a watcher that was
\* created, and neither an answer that waits to be read nor anything a watcher
\* was told is ahead of the anchor, whatever is replaced, aborted or answered
\* late (sep6Streaming.ts:286-342).
THEOREM StreamingTypeCorrect == StreamingSpec => []StreamingTypeOK
<1>1. ServiceRanges => StreamingTypeOK
  <2>. SUFFICES ASSUME ServiceRanges PROVE StreamingTypeOK BY Zenon
  <2>1. \A p \in polls : /\ p.cycle \in cycles /\ p.watcher \in Watcher
                         /\ p.answer \in Unanswered..status[watcherState[p.watcher].id]
    BY Zenon DEF ServiceRanges, PollsInRange
  <2>. QED BY <2>1, Zenon DEF ServiceRanges, ServiceInv, ServiceTyped, StatusInRange, FlagsInRange,
                       StreamingTypeOK, Phase
<1>. QED BY <1>1, ServiceRangesCorrect, PTL

-----------------------------------------------------------------------------
(* The order in which a watcher is told.                                     *)

\* The service either polls or listens, and a watcher that has just begun to
\* listen was told nothing.
PollsOrListens ==
  /\ supportsSSE =>
       /\ ~pollTimer /\ cycles = {} /\ polls = {}
       /\ \A w \in Watcher : watcherState[w].phase = "detecting" =>
            watcherState[w].lastStatus = NoStatus /\ watcherState[w].cursor = NoCursor
  /\ \A w \in Watcher : watcherState[w].phase \in {"open", "reconnecting"} => supportsSSE

\* A watcher was told nothing before it was created, and nothing that the
\* anchor, or the connection that is open, has still to send.
ToldInOrder ==
  \A w \in Watcher :
    /\ w > watch_count => watcherState[w].phase = "unborn" /\ watcherState[w].lastStatus = NoStatus
    /\ watcherState[w].lastStatus <= status[watcherState[w].id]
    /\ watcherState[w].phase = "open" => watcherState[w].lastStatus <= watcherState[w].sent

\* Until destroy a watcher has one request, whose answer is not older than
\* what the watcher was told.
OneRequestEach ==
  ~destroyed =>
    /\ \A p, q \in polls : p.watcher = q.watcher => p = q
    /\ \A p \in polls : p.answer # Unanswered =>
         watcherState[p.watcher].lastStatus <= p.answer

OrderInv == PollsOrListens /\ ToldInOrder /\ OneRequestEach

\* An event stream is opened again after it broke.
Reopens(w) ==
  watcherState[w].phase = "reconnecting" /\ watcherState'[w].phase = "open"

\* No watcher is told of an earlier status than before.
NotBackwards ==
  ~destroyed \/ supportsSSE =>
    \A w \in Watcher : watcherState'[w].lastStatus >= watcherState[w].lastStatus

\* Before the first call.
LEMMA OrderInit == ASSUME StreamingInit PROVE OrderInv
<1>1. /\ watcherState = [w \in Watcher |-> Unborn] /\ polls = {} /\ cycles = {}
      /\ pollTimer = FALSE /\ status = [t \in TransactionId |-> 0]
  BY Zenon DEF StreamingInit
<1>2. Unborn.phase = "unborn" /\ Unborn.lastStatus = -1 /\ Unborn.id \in TransactionId
  BY StreamingAssumption, Zenon DEF Unborn
<1>. QED BY <1>1, <1>2 DEF OrderInv, PollsOrListens, ToldInOrder, OneRequestEach

\* What the order depends on, of a watcher.
LEMMA WatcherNumbers ==
  ASSUME ServiceRanges, NEW w \in Watcher
  PROVE  /\ watcherState[w].id \in TransactionId
         /\ watcherState[w].lastStatus \in Int /\ watcherState[w].lastStatus >= -1
         /\ watcherState[w].cursor \in Int /\ watcherState[w].sent \in Int
         /\ status[watcherState[w].id] \in Int /\ status[watcherState[w].id] >= 0
         /\ w \in Int /\ watch_count \in Int
<1>1. watcherState[w] \in StatusRecord BY Zenon DEF ServiceRanges, StatusInRange
<1>2. status[watcherState[w].id] \in 0..FinalStatus BY <1>1, Zenon DEF ServiceRanges, StatusInRange
<1>3. w \in Int /\ watch_count \in Int
  BY StreamingAssumption DEF Watcher, ServiceRanges, ServiceInv, ServiceTyped
<1>. QED BY <1>1, <1>2, <1>3, StreamingAssumption

\* A step that tells nobody anything, and opens no connection.
LEMMA TellsNobody ==
  ASSUME ServiceRanges, OrderInv, UNCHANGED <<supportsSSE, watch_count>>,
         \A w \in Watcher :
           /\ watcherState'[w].id = watcherState[w].id
           /\ watcherState'[w].lastStatus = watcherState[w].lastStatus
           /\ watcherState'[w].cursor = watcherState[w].cursor
           /\ watcherState'[w].sent = watcherState[w].sent
           /\ \/ watcherState'[w].phase = watcherState[w].phase
              \/ /\ watcherState[w].phase # "unborn"
                 /\ \/ watcherState'[w].phase \in {"ended", "polled"}
                    \/ watcherState[w].phase = "open" /\ watcherState'[w].phase = "reconnecting",
         \A t \in TransactionId : status'[t] \in Int /\ status'[t] >= status[t],
         polls' \subseteq polls, supportsSSE => ~pollTimer' /\ cycles' = {},
         destroyed => destroyed'
  PROVE  OrderInv' /\ NotBackwards
<1>1. PollsOrListens' BY Zenon DEF OrderInv, PollsOrListens
<1>2. ToldInOrder'
  <2>. SUFFICES ASSUME NEW w \in Watcher
                PROVE  /\ w > watch_count => /\ watcherState'[w].phase = "unborn"
                                             /\ watcherState'[w].lastStatus = NoStatus
                       /\ watcherState'[w].lastStatus <= status'[watcherState'[w].id]
                       /\ watcherState'[w].phase = "open" =>
                            watcherState'[w].lastStatus <= watcherState'[w].sent
    BY Zenon DEF ToldInOrder
  <2>1. watcherState[w].lastStatus <= status[watcherState[w].id]
        /\ (watcherState[w].phase = "open" => watcherState[w].lastStatus <= watcherState[w].sent)
        /\ (w > watch_count => watcherState[w].phase = "unborn" /\ watcherState[w].lastStatus = NoStatus)
    BY Zenon DEF OrderInv, ToldInOrder
  <2>. QED BY <2>1, WatcherNumbers
<1>3. OneRequestEach'
  <2>. SUFFICES ASSUME ~destroyed'
                PROVE  /\ \A p, q \in polls' : p.watcher = q.watcher => p = q
                       /\ \A p \in polls' : p.answer # Unanswered =>
                            watcherState'[p.watcher].lastStatus <= p.answer
    BY Zenon DEF OneRequestEach
  <2>1. \A p \in polls : p.watcher \in Watcher
    BY Zenon DEF ServiceRanges, ServiceInv, ServiceTyped
  <2>2. /\ \A p, q \in polls : p.watcher = q.watcher => p = q
        /\ \A p \in polls : p.answer # Unanswered => watcherState[p.watcher].lastStatus <= p.answer
    BY Zenon DEF OrderInv, OneRequestEach
  <2>. QED BY <2>1, <2>2, Zenon
<1>4. NotBackwards
  <2>1. \A w \in Watcher : watcherState'[w].lastStatus >= watcherState[w].lastStatus
    BY WatcherNumbers
  <2>. QED BY <2>1, Zenon DEF NotBackwards
<1>. QED BY <1>1, <1>2, <1>3, <1>4, Zenon DEF OrderInv

\* The calls, which only take watchers out of the map and close connections.
LEMMA CallsTellNobody ==
  ASSUME ServiceRanges, OrderInv, destroy \/ abort \/ \E w \in Watcher : unsubscribe(w)
  PROVE  OrderInv' /\ NotBackwards
<1>0. /\ UNCHANGED <<supportsSSE, watch_count, polls, cycles, status>>
      /\ pollTimer' = FALSE \/ pollTimer' = pollTimer
      /\ destroyed' = TRUE \/ destroyed' = destroyed
  BY Zenon DEF destroy, abort, unsubscribe
<1>. DEFINE Told(r, s) == /\ r.id = s.id /\ r.lastStatus = s.lastStatus
                          /\ r.cursor = s.cursor /\ r.sent = s.sent
                          /\ r.phase = s.phase \/ (s.phase = "open" /\ r.phase = "ended")
<1>1. \A v \in Watcher : Told(watcherState'[v], watcherState[v])
  <2>0. watcherState \in [Watcher -> StatusRecord] BY Zenon DEF ServiceRanges, StatusInRange
  <2>1. \A v \in Watcher : [watcherState[v] EXCEPT !.active = FALSE] \in StatusRecord
                           /\ Told([watcherState[v] EXCEPT !.active = FALSE], watcherState[v])
                           /\ Told(watcherState[v], watcherState[v])
    BY <2>0, Zenon
  <2>2. CASE destroy BY <2>1, <2>2, Zenon DEF destroy, allRemoved
  <2>3. CASE abort
    <3>. SUFFICES ASSUME NEW v \in Watcher PROVE Told(watcherState'[v], watcherState[v])
      BY Zenon
    <3>1. allRemoved[v] \in StatusRecord /\ Told(allRemoved[v], watcherState[v])
          /\ allRemoved[v].phase = watcherState[v].phase
      BY <2>0, Zenon DEF allRemoved
    <3>2. watcherState'[v] = IF allRemoved[v].phase = "open"
                             THEN [allRemoved[v] EXCEPT !.phase = "ended"] ELSE allRemoved[v]
      BY <2>3, Zenon DEF abort
    <3>. QED BY <3>1, <3>2, Zenon
  <2>4. ASSUME NEW w \in Watcher, unsubscribe(w)
        PROVE  \A v \in Watcher : Told(watcherState'[v], watcherState[v])
    <3>1. watcherState[w].id \in TransactionId BY <2>0, Zenon
    <3>2. watchers[watcherState[w].id] # Nobody => watchers[watcherState[w].id] \in Watcher
      BY <3>1, Zenon DEF ServiceRanges, ServiceInv, ServiceTyped
    <3>3. watcherState' = watcherState
          \/ \E v \in Watcher : watcherState' = [watcherState EXCEPT ![v].active = FALSE]
      BY <2>4, <3>2, Zenon DEF unsubscribe, _removeWatcher, removed
    <3>. HIDE DEF Told, StatusRecord
    <3>. QED BY <2>0, <2>1, <3>3, ZenonT(30)
  <2>. QED BY <2>2, <2>3, <2>4, Zenon
<1>2. \A t \in TransactionId : status'[t] \in Int /\ status'[t] >= status[t]
  BY <1>0 DEF ServiceRanges, StatusInRange
<1>3. supportsSSE => ~pollTimer' /\ cycles' = {} BY <1>0, Zenon DEF OrderInv, PollsOrListens
<1>4. destroyed => destroyed' BY <1>0, Zenon
<1>. QED BY <1>0, <1>1, <1>2, <1>3, <1>4, TellsNobody, Zenon

\* The anchor moves on, a request fails, a cycle ends, or nothing happens.
LEMMA ElsewhereTellsNobody ==
  ASSUME ServiceRanges, OrderInv,
         \/ \E t \in TransactionId : StatusMoves(t)
         \/ \E p \in polls : PollFails(p)
         \/ \E c \in Cycle : CycleEnds(c)
         \/ UNCHANGED streamingVars
  PROVE  OrderInv' /\ NotBackwards
<1>0. UNCHANGED <<supportsSSE, watch_count, watcherState, destroyed>> /\ polls' \subseteq polls
  BY Zenon DEF StatusMoves, PollFails, CycleEnds, streamingVars
<1>1. supportsSSE => ~pollTimer' /\ cycles' = {}
  <2>. SUFFICES ASSUME supportsSSE PROVE ~pollTimer' /\ cycles' = {} BY Zenon
  <2>1. ~pollTimer /\ cycles = {} BY Zenon DEF OrderInv, PollsOrListens
  <2>2. UNCHANGED <<pollTimer, cycles>>
    BY <2>1, Zenon DEF StatusMoves, PollFails, CycleEnds, streamingVars
  <2>. QED BY <2>1, <2>2, Zenon
<1>2. \A t \in TransactionId : status'[t] \in Int /\ status'[t] >= status[t]
  <2>1. status \in [TransactionId -> 0..FinalStatus] BY Zenon DEF ServiceRanges, StatusInRange
  <2>2. ASSUME NEW t \in TransactionId, StatusMoves(t)
        PROVE  \A u \in TransactionId : status'[u] \in Int /\ status'[u] >= status[u]
    <3>1. status' = [status EXCEPT ![t] = @ + 1] BY <2>2, Zenon DEF StatusMoves
    <3>. QED BY <2>1, <3>1
  <2>3. CASE UNCHANGED status BY <2>1, <2>3
  <2>. QED BY <2>2, <2>3 DEF PollFails, CycleEnds, streamingVars
<1>. QED BY <1>0, <1>1, <1>2, TellsNobody, Zenon

\* A new watcher was told nothing, and no request is its.
LEMMA WatchInOrder ==
  ASSUME ServiceRanges, OrderInv, NEW t \in TransactionId, watch(t)
  PROVE  OrderInv' /\ NotBackwards
<1>. DEFINE n == watch_count + 1
             fresh == [Unborn EXCEPT !.id = t, !.active = TRUE, !.phase = "detecting"]
<1>1. n \in Watcher /\ watch_count' = n /\ watch_count \in Int /\ n > watch_count
  BY StreamingAssumption DEF watch, ServiceRanges, ServiceInv, ServiceTyped, Watcher
<1>2. /\ fresh.id = t /\ fresh.phase = "detecting" /\ fresh.lastStatus = -1 /\ fresh.cursor = -1
  BY Zenon DEF Unborn
<1>3. watcherState' = [watcherState EXCEPT ![n] = fresh]
      /\ UNCHANGED <<status, cycles, polls, pollTimer, supportsSSE, destroyed>>
  BY <1>1, Zenon DEF watch
<1>. HIDE DEF fresh, n
<1>4. /\ watcherState'[n] = fresh
      /\ \A v \in Watcher : v # n => watcherState'[v] = watcherState[v]
  BY <1>1, <1>3, Zenon DEF ServiceRanges, StatusInRange
<1>5. watcherState[n].lastStatus = -1 BY <1>1, Zenon DEF OrderInv, ToldInOrder
<1>6. PollsOrListens' BY <1>2, <1>3, <1>4, Zenon DEF OrderInv, PollsOrListens
<1>7. ToldInOrder'
  <2>. SUFFICES ASSUME NEW w \in Watcher
                PROVE  /\ w > watch_count' => /\ watcherState'[w].phase = "unborn"
                                              /\ watcherState'[w].lastStatus = NoStatus
                       /\ watcherState'[w].lastStatus <= status'[watcherState'[w].id]
                       /\ watcherState'[w].phase = "open" =>
                            watcherState'[w].lastStatus <= watcherState'[w].sent
    BY Zenon DEF ToldInOrder
  <2>1. CASE w = n
    <3>1. status[t] \in 0..FinalStatus BY Zenon DEF ServiceRanges, StatusInRange
    <3>. QED BY <1>1, <1>2, <1>3, <1>4, <2>1, <3>1, WatcherNumbers
  <2>2. CASE w # n
    <3>1. watcherState'[w] = watcherState[w] /\ status' = status BY <1>3, <1>4, <2>2, Zenon
    <3>2. w > watch_count' => w > watch_count BY <1>1, WatcherNumbers DEF n
    <3>. QED BY <3>1, <3>2, Zenon DEF OrderInv, ToldInOrder
  <2>. QED BY <2>1, <2>2, Zenon
<1>8. OneRequestEach'
  <2>1. \A p \in polls : p.watcher \in Watcher /\ p.watcher # n
    <3>. SUFFICES ASSUME NEW p \in polls PROVE p.watcher \in Watcher /\ p.watcher # n BY Zenon
    <3>1. p.watcher \in Watcher /\ p.watcher <= watch_count BY Zenon DEF ServiceRanges, PollsInRange
    <3>. QED BY <1>1, <3>1, WatcherNumbers
  <2>2. \A p \in polls : watcherState'[p.watcher] = watcherState[p.watcher] BY <1>4, <2>1, Zenon
  <2>. QED BY <1>3, <2>2, Zenon DEF OrderInv, OneRequestEach
<1>9. NotBackwards
  <2>1. \A w \in Watcher : watcherState'[w].lastStatus >= watcherState[w].lastStatus
    BY <1>2, <1>4, <1>5, WatcherNumbers
  <2>. QED BY <2>1, Zenon DEF NotBackwards
<1>. QED BY <1>6, <1>7, <1>8, <1>9, Zenon DEF OrderInv

\* What a dispatch leaves of every watcher, and of the one it is for.
LEMMA DispatchNotes ==
  ASSUME ServiceRanges, NEW w \in Watcher, NEW st, NEW s \in 0..FinalStatus, NEW throws,
         st \in [Watcher -> StatusRecord], _dispatchUpdate(st, w, s, throws)
  PROVE  \A v \in Watcher :
           /\ watcherState'[v].id = st[v].id /\ watcherState'[v].phase = st[v].phase
           /\ watcherState'[v].sent = st[v].sent
           /\ v # w => /\ watcherState'[v].cursor = st[v].cursor
                       /\ watcherState'[v].lastStatus = st[v].lastStatus
           /\ v = w => watcherState'[v].lastStatus = s
<1>. DEFINE noted == [st EXCEPT ![w].cursor = timestamp(s), ![w].lastStatus = s]
             Noted(r, v) == /\ r.id = st[v].id /\ r.phase = st[v].phase /\ r.sent = st[v].sent
                            /\ v # w => r.cursor = st[v].cursor /\ r.lastStatus = st[v].lastStatus
                            /\ v = w => r.lastStatus = s
<1>1. timestamp(s) \in -1..FinalStatus /\ s \in -1..FinalStatus
  BY StreamingAssumption DEF timestamp
<1>2. noted \in [Watcher -> StatusRecord] /\ \A v \in Watcher : Noted(noted[v], v)
  <2>. DEFINE r == [st[w] EXCEPT !.cursor = timestamp(s), !.lastStatus = s]
  <2>1. st[w] \in StatusRecord BY Zenon
  <2>2. r \in StatusRecord /\ Noted(r, w) BY <1>1, <2>1, Zenon
  <2>3. \A v \in Watcher : v # w => Noted(st[v], v) BY Zenon
  <2>4. noted = [st EXCEPT ![w] = r] BY Zenon
  <2>. HIDE DEF r, StatusRecord, Noted, noted
  <2>. QED BY <2>2, <2>3, <2>4, Zenon
<1>3. \A v \in Watcher : Noted([noted[v] EXCEPT !.active = FALSE], v)
  <2>. SUFFICES ASSUME NEW v \in Watcher PROVE Noted([noted[v] EXCEPT !.active = FALSE], v)
    BY Zenon
  <2>1. noted[v] \in StatusRecord /\ Noted(noted[v], v) BY <1>2, Zenon
  <2>. HIDE DEF noted
  <2>. QED BY <2>1, Zenon
<1>4. _removeWatcher(noted, st[w].id) \/ watcherState' = noted BY Zenon DEF _dispatchUpdate
<1>5. st[w].id \in TransactionId BY Zenon
<1>6. watchers[st[w].id] # Nobody => watchers[st[w].id] \in Watcher
  BY <1>5, Zenon DEF ServiceRanges, ServiceInv, ServiceTyped
<1>. HIDE DEF noted, Noted
<1>7. watcherState' = noted \/ \E v \in Watcher : watcherState' = [noted EXCEPT ![v].active = FALSE]
  BY <1>4, <1>6, Zenon DEF _removeWatcher, removed
<1>8. \A v \in Watcher : Noted(watcherState'[v], v)
  <2>. HIDE DEF StatusRecord
  <2>. QED BY <1>2, <1>3, <1>7, ZenonT(30)
<1>. QED BY <1>8, Zenon DEF Noted

\* An event stream is opened or brings a frame: nobody else is told.
LEMMA ListenerMoves ==
  ASSUME ServiceRanges, OrderInv, supportsSSE, NEW w \in Watcher, watcherState[w].phase # "unborn",
         UNCHANGED <<supportsSSE, watch_count, status, polls, cycles, pollTimer, destroyed>>,
         \A v \in Watcher :
           /\ watcherState'[v].id = watcherState[v].id
           /\ v # w => /\ watcherState'[v].lastStatus = watcherState[v].lastStatus
                       /\ watcherState'[v].cursor = watcherState[v].cursor
                       /\ watcherState'[v].sent = watcherState[v].sent
                       /\ watcherState'[v].phase = watcherState[v].phase,
         watcherState'[w].phase = "open",
         watcherState'[w].lastStatus \in Int,
         watcherState'[w].lastStatus >= watcherState[w].lastStatus,
         watcherState'[w].lastStatus <= watcherState'[w].sent,
         watcherState'[w].lastStatus <= status[watcherState[w].id]
  PROVE  OrderInv' /\ NotBackwards
<1>1. PollsOrListens'
  <2>1. ~pollTimer' /\ cycles' = {} /\ polls' = {} BY Zenon DEF OrderInv, PollsOrListens
  <2>2. \A v \in Watcher : watcherState'[v].phase = "detecting" =>
          watcherState'[v].lastStatus = NoStatus /\ watcherState'[v].cursor = NoCursor
    <3>. SUFFICES ASSUME NEW v \in Watcher, watcherState'[v].phase = "detecting"
                  PROVE  watcherState'[v].lastStatus = NoStatus /\ watcherState'[v].cursor = NoCursor
      BY Zenon
    <3>1. v # w BY Zenon
    <3>. QED BY <3>1, Zenon DEF OrderInv, PollsOrListens
  <2>. QED BY <2>1, <2>2, Zenon DEF PollsOrListens
<1>2. ToldInOrder'
  <2>. SUFFICES ASSUME NEW v \in Watcher
                PROVE  /\ v > watch_count => /\ watcherState'[v].phase = "unborn"
                                             /\ watcherState'[v].lastStatus = NoStatus
                       /\ watcherState'[v].lastStatus <= status[watcherState'[v].id]
                       /\ watcherState'[v].phase = "open" =>
                            watcherState'[v].lastStatus <= watcherState'[v].sent
    BY Zenon DEF ToldInOrder
  <2>1. CASE v = w
    <3>1. ~(w > watch_count) BY Zenon DEF OrderInv, ToldInOrder
    <3>. QED BY <2>1, <3>1, Zenon
  <2>2. CASE v # w BY <2>2, Zenon DEF OrderInv, ToldInOrder
  <2>. QED BY <2>1, <2>2, Zenon
<1>3. OneRequestEach'
  <2>1. polls' = {} BY Zenon DEF OrderInv, PollsOrListens
  <2>. QED BY <2>1, Zenon DEF OneRequestEach
<1>4. NotBackwards
  <2>1. \A v \in Watcher : watcherState'[v].lastStatus >= watcherState[v].lastStatus
    <3>. SUFFICES ASSUME NEW v \in Watcher
                  PROVE  watcherState'[v].lastStatus >= watcherState[v].lastStatus
      BY Zenon
    <3>1. CASE v = w BY <3>1, Zenon
    <3>2. CASE v # w BY <3>2, WatcherNumbers
    <3>. QED BY <3>1, <3>2, Zenon
  <2>. QED BY <2>1, Zenon DEF NotBackwards
<1>. QED BY <1>1, <1>2, <1>3, <1>4, Zenon DEF OrderInv

\* A watcher that only changes its phase.
LEMMA PhaseTellsNobody ==
  ASSUME ServiceRanges, OrderInv, NEW w \in Watcher, NEW ph,
         watcherState' = [watcherState EXCEPT ![w].phase = ph],
         watcherState[w].phase # "unborn",
         ph \in {"ended", "polled"} \/ (watcherState[w].phase = "open" /\ ph = "reconnecting"),
         supportsSSE => ~pollTimer',
         UNCHANGED <<supportsSSE, watch_count, status, polls, cycles, destroyed>>
  PROVE  OrderInv' /\ NotBackwards
<1>0. watcherState \in [Watcher -> StatusRecord] BY Zenon DEF ServiceRanges, StatusInRange
<1>1. \A v \in Watcher :
        /\ watcherState'[v].id = watcherState[v].id
        /\ watcherState'[v].lastStatus = watcherState[v].lastStatus
        /\ watcherState'[v].cursor = watcherState[v].cursor
        /\ watcherState'[v].sent = watcherState[v].sent
        /\ \/ watcherState'[v].phase = watcherState[v].phase
           \/ v = w /\ watcherState'[v].phase = ph
  BY <1>0, Zenon
<1>2. \A t \in TransactionId : status'[t] \in Int /\ status'[t] >= status[t]
  BY DEF ServiceRanges, StatusInRange
<1>3. supportsSSE => ~pollTimer' /\ cycles' = {} BY Zenon DEF OrderInv, PollsOrListens
<1>. QED BY <1>1, <1>2, <1>3, TellsNobody, Zenon

\* _startWatcher: what an event stream that is opened for the first time has
\* still to send is what the anchor has now.
LEMMA StartInOrder ==
  ASSUME ServiceRanges, OrderInv, NEW w \in Watcher, _startWatcher(w)
  PROVE  OrderInv' /\ NotBackwards
<1>0. /\ watcherState[w].phase = "detecting"
      /\ UNCHANGED <<supportsSSE, watch_count, status, polls, cycles, destroyed>>
  BY Zenon DEF _startWatcher
<1>1. CASE watcherState[w].active /\ ~supportsSSE
  <2>1. watcherState' = [watcherState EXCEPT ![w].phase = "polled"]
    BY <1>1, Zenon DEF _startWatcher
  <2>. QED BY <1>0, <1>1, <2>1, PhaseTellsNobody, Zenon
<1>2. CASE ~watcherState[w].active
  <2>1. watcherState' = [watcherState EXCEPT ![w].phase = "ended"] /\ pollTimer' = pollTimer
    BY <1>2, Zenon DEF _startWatcher, _openSseConnection
  <2>2. supportsSSE => ~pollTimer' BY <2>1, Zenon DEF OrderInv, PollsOrListens
  <2>. QED BY <1>0, <2>1, <2>2, PhaseTellsNobody, Zenon
<1>3. CASE watcherState[w].active /\ supportsSSE
  <2>. DEFINE k == status[watcherState[w].id] - 1
  <2>1. watcherState[w].lastStatus = -1 /\ watcherState[w].cursor = -1
    BY <1>0, <1>3, Zenon DEF OrderInv, PollsOrListens
  <2>2. watcherState' = [watcherState EXCEPT ![w].phase = "open", ![w].sent = k]
        /\ pollTimer' = pollTimer
    BY <1>3, <2>1, Zenon DEF _startWatcher, _openSseConnection
  <2>3. k \in -1..FinalStatus /\ k >= -1 /\ status[watcherState[w].id] >= 0
    BY StreamingAssumption DEF ServiceRanges, StatusInRange
  <2>. HIDE DEF k
  <2>4. watcherState \in [Watcher -> StatusRecord] BY Zenon DEF ServiceRanges, StatusInRange
  <2>5. \A v \in Watcher :
          /\ watcherState'[v].id = watcherState[v].id
          /\ watcherState'[v].lastStatus = watcherState[v].lastStatus
          /\ watcherState'[v].cursor = watcherState[v].cursor
          /\ v # w => /\ watcherState'[v].sent = watcherState[v].sent
                      /\ watcherState'[v].phase = watcherState[v].phase
          /\ v = w => watcherState'[v].sent = k /\ watcherState'[v].phase = "open"
    BY <2>2, <2>4, ZenonT(30)
  <2>6. /\ watcherState'[w].phase = "open" /\ watcherState'[w].lastStatus \in Int
        /\ watcherState'[w].lastStatus >= watcherState[w].lastStatus
        /\ watcherState'[w].lastStatus <= watcherState'[w].sent
        /\ watcherState'[w].lastStatus <= status[watcherState[w].id]
    BY <2>1, <2>3, <2>5, WatcherNumbers
  <2>. QED BY <1>0, <1>3, <2>2, <2>5, <2>6, ListenerMoves, ZenonT(60)
<1>. QED BY <1>1, <1>2, <1>3, Zenon

\* A connection breaks, and is not opened again.
LEMMA BreakInOrder ==
  ASSUME ServiceRanges, OrderInv, NEW w \in Watcher, ~Reopens(w),
         SseTimer(w) \/ \E throws \in BOOLEAN : SseError(w, throws)
  PROVE  OrderInv' /\ NotBackwards
<1>0. UNCHANGED <<supportsSSE, watch_count, status, polls, cycles, destroyed, pollTimer>>
  BY Zenon DEF SseTimer, SseError
<1>1. supportsSSE => ~pollTimer' BY <1>0, Zenon DEF OrderInv, PollsOrListens
<1>2. watcherState \in [Watcher -> StatusRecord] BY Zenon DEF ServiceRanges, StatusInRange
<1>3. CASE SseTimer(w)
  <2>1. ~watcherState[w].active
    <3>. SUFFICES ASSUME watcherState[w].active PROVE FALSE BY Zenon
    <3>1. watcherState'[w].phase = "open"
      BY <1>3, OpenEffect, Zenon DEF SseTimer, ServiceRanges
    <3>. QED BY <1>3, <3>1, Zenon DEF SseTimer, Reopens
  <2>2. watcherState' = [watcherState EXCEPT ![w].phase = "ended"]
        /\ watcherState[w].phase = "reconnecting"
    BY <1>3, <2>1, Zenon DEF SseTimer, _openSseConnection
  <2>. QED BY <1>0, <1>1, <2>2, PhaseTellsNobody, Zenon
<1>4. ASSUME NEW throws \in BOOLEAN, SseError(w, throws) PROVE OrderInv' /\ NotBackwards
  <2>1. /\ watcherState[w].phase = "open"
        /\ \/ watcherState' = [watcherState EXCEPT ![w].phase = "reconnecting"]
           \/ watcherState' = [watcherState EXCEPT ![w].phase = "ended"]
    BY <1>4, Zenon DEF SseError
  <2>. QED BY <1>0, <1>1, <2>1, PhaseTellsNobody, Zenon
<1>. QED BY <1>3, <1>4, Zenon

\* A frame is the next the anchor has to send.
LEMMA FrameInOrder ==
  ASSUME ServiceRanges, OrderInv, NEW w \in Watcher, NEW parsed, NEW throws,
         _handleSseMessage(w, parsed, throws)
  PROVE  OrderInv' /\ NotBackwards
<1>. DEFINE n == watcherState[w].sent + 1
             st == [watcherState EXCEPT ![w].sent = n]
<1>0. /\ watcherState[w].phase = "open" /\ supportsSSE
      /\ UNCHANGED <<supportsSSE, watch_count, status, polls, cycles, pollTimer, destroyed>>
  BY Zenon DEF _handleSseMessage, OrderInv, PollsOrListens
<1>1. /\ watcherState \in [Watcher -> StatusRecord]
      /\ watcherState[w].sent \in -1..FinalStatus /\ status[watcherState[w].id] \in 0..FinalStatus
      /\ watcherState[w].sent < status[watcherState[w].id]
  BY Zenon DEF _handleSseMessage, ServiceRanges, StatusInRange
<1>2. n \in 0..FinalStatus /\ n <= status[watcherState[w].id] /\ n > watcherState[w].sent
      /\ n \in -1..FinalStatus /\ n \in Int
  BY <1>1, StreamingAssumption
<1>3. watcherState[w].lastStatus <= watcherState[w].sent BY <1>0, Zenon DEF OrderInv, ToldInOrder
<1>4. watcherState[w].lastStatus <= n /\ watcherState[w].lastStatus \in Int
  BY <1>1, <1>2, <1>3, WatcherNumbers
<1>5. _dispatchUpdate(st, w, st[w].sent, throws) \/ watcherState' = st
  BY Zenon DEF _handleSseMessage
<1>. HIDE DEF n
<1>6. /\ st \in [Watcher -> StatusRecord] /\ st[w].sent = n
      /\ \A v \in Watcher : /\ st[v].id = watcherState[v].id /\ st[v].phase = watcherState[v].phase
                            /\ st[v].lastStatus = watcherState[v].lastStatus
                            /\ st[v].cursor = watcherState[v].cursor
                            /\ v # w => st[v].sent = watcherState[v].sent
  BY <1>1, <1>2, ZenonT(30)
<1>. HIDE DEF st
<1>7. CASE watcherState' = st
  <2>1. /\ watcherState'[w].phase = "open" /\ watcherState'[w].lastStatus \in Int
        /\ watcherState'[w].lastStatus >= watcherState[w].lastStatus
        /\ watcherState'[w].lastStatus <= watcherState'[w].sent
        /\ watcherState'[w].lastStatus <= status[watcherState[w].id]
    BY <1>0, <1>2, <1>4, <1>6, <1>7, WatcherNumbers
  <2>2. \A v \in Watcher :
           /\ watcherState'[v].id = watcherState[v].id
           /\ v # w => /\ watcherState'[v].lastStatus = watcherState[v].lastStatus
                       /\ watcherState'[v].cursor = watcherState[v].cursor
                       /\ watcherState'[v].sent = watcherState[v].sent
                       /\ watcherState'[v].phase = watcherState[v].phase
    BY <1>6, <1>7, Zenon
  <2>. QED BY <1>0, <2>1, <2>2, ListenerMoves, ZenonT(60)
<1>8. CASE _dispatchUpdate(st, w, n, throws)
  <2>1. \A v \in Watcher :
           /\ watcherState'[v].id = st[v].id /\ watcherState'[v].phase = st[v].phase
           /\ watcherState'[v].sent = st[v].sent
           /\ v # w => /\ watcherState'[v].cursor = st[v].cursor
                       /\ watcherState'[v].lastStatus = st[v].lastStatus
           /\ v = w => watcherState'[v].lastStatus = n
    <3>. HIDE DEF StatusRecord
    <3>. QED BY <1>2, <1>6, <1>8, DispatchNotes
  <2>2. /\ watcherState'[w].phase = "open" /\ watcherState'[w].lastStatus = n
        /\ watcherState'[w].sent = n
    BY <1>0, <1>6, <2>1, Zenon
  <2>3. /\ watcherState'[w].lastStatus \in Int
        /\ watcherState'[w].lastStatus >= watcherState[w].lastStatus
        /\ watcherState'[w].lastStatus <= watcherState'[w].sent
        /\ watcherState'[w].lastStatus <= status[watcherState[w].id]
    BY <1>2, <1>4, <2>2
  <2>4. \A v \in Watcher :
           /\ watcherState'[v].id = watcherState[v].id
           /\ v # w => /\ watcherState'[v].lastStatus = watcherState[v].lastStatus
                       /\ watcherState'[v].cursor = watcherState[v].cursor
                       /\ watcherState'[v].sent = watcherState[v].sent
                       /\ watcherState'[v].phase = watcherState[v].phase
    BY <1>6, <2>1, ZenonT(30)
  <2>. QED BY <1>0, <2>2, <2>3, <2>4, ListenerMoves, ZenonT(60)
<1>. QED BY <1>5, <1>6, <1>7, <1>8, Zenon

\* A step of the loop alone.
LEMMA UntoldNotBackwards == ASSUME ServiceRanges, UNCHANGED watcherState PROVE NotBackwards
<1>1. \A w \in Watcher : watcherState'[w].lastStatus >= watcherState[w].lastStatus
  BY WatcherNumbers
<1>. QED BY <1>1, Zenon DEF NotBackwards

\* A poll cycle begins: until destroy there is no other, and it asks once for
\* every watcher.
LEMMA CycleInOrder ==
  ASSUME ServiceRanges, OrderInv, _runPollCycle
  PROVE  OrderInv' /\ NotBackwards
<1>0. /\ pollTimer /\ ~supportsSSE
      /\ UNCHANGED <<supportsSSE, watch_count, watcherState, status, destroyed>>
  BY Zenon DEF _runPollCycle, OrderInv, PollsOrListens
<1>1. PollsOrListens' /\ ToldInOrder'
  BY <1>0, Zenon DEF OrderInv, PollsOrListens, ToldInOrder
<1>2. OneRequestEach'
  <2>1. CASE polls' = polls BY <1>0, <2>1, Zenon DEF OrderInv, OneRequestEach
  <2>2. ASSUME NEW c, polls' = polls \cup
                 {[cycle |-> c, watcher |-> w, answer |-> Unanswered] : w \in activeWatchers}
        PROVE  OneRequestEach'
    <3>. SUFFICES ASSUME ~destroyed
                  PROVE  /\ \A p, q \in polls' : p.watcher = q.watcher => p = q
                         /\ \A p \in polls' : p.answer = Unanswered
      BY <1>0, Zenon DEF OneRequestEach
    <3>1. cycles = {} BY <1>0, Zenon DEF ServiceRanges, ServiceInv, LoopSingle
    <3>2. polls = {} BY <3>1, Zenon DEF ServiceRanges, PollsInRange
    <3>. QED BY <2>2, <3>2
  <2>. QED BY <2>1, <2>2, Zenon DEF _runPollCycle
<1>3. NotBackwards BY <1>0, UntoldNotBackwards, Zenon
<1>. QED BY <1>1, <1>2, <1>3, Zenon DEF OrderInv

\* An answer is what the anchor has.
LEMMA AnswerInOrder ==
  ASSUME ServiceRanges, OrderInv, NEW p \in polls, PollAnswered(p)
  PROVE  OrderInv' /\ NotBackwards
<1>. DEFINE q == [p EXCEPT !.answer = status[watcherState[p.watcher].id]]
<1>0. /\ polls' = (polls \ {p}) \cup {q}
      /\ UNCHANGED <<supportsSSE, watch_count, watcherState, status, destroyed, pollTimer, cycles>>
  BY Zenon DEF PollAnswered
<1>1. p \in [cycle : cycles, watcher : Watcher, answer : Int]
  BY Zenon DEF ServiceRanges, PollsInRange
<1>2. q.watcher = p.watcher /\ q.answer = status[watcherState[p.watcher].id] BY <1>1, Zenon
<1>. HIDE DEF q
<1>3. PollsOrListens' /\ ToldInOrder'
  BY <1>0, Zenon DEF OrderInv, PollsOrListens, ToldInOrder
<1>4. OneRequestEach'
  <2>1. watcherState[p.watcher].lastStatus <= q.answer BY <1>1, <1>2, Zenon DEF OrderInv, ToldInOrder
  <2>. SUFFICES ASSUME ~destroyed
                PROVE  /\ \A r, s \in polls' : r.watcher = s.watcher => r = s
                       /\ \A r \in polls' : r.answer # Unanswered =>
                            watcherState[r.watcher].lastStatus <= r.answer
    BY <1>0, Zenon DEF OneRequestEach
  <2>2. /\ \A r, s \in polls : r.watcher = s.watcher => r = s
        /\ \A r \in polls : r.answer # Unanswered => watcherState[r.watcher].lastStatus <= r.answer
    BY Zenon DEF OrderInv, OneRequestEach
  <2>3. \A r \in polls \ {p} : r.watcher # p.watcher BY <2>2, Zenon
  <2>. QED BY <1>0, <1>2, <2>1, <2>2, <2>3, Zenon
<1>5. NotBackwards BY <1>0, UntoldNotBackwards, Zenon
<1>. QED BY <1>3, <1>4, <1>5, Zenon DEF OrderInv

\* An answer is read.
LEMMA ReadInOrder ==
  ASSUME ServiceRanges, OrderInv, NEW p \in polls, NEW throws, _pollOne(p, throws)
  PROVE  OrderInv' /\ NotBackwards
<1>0. /\ polls' = polls \ {p} /\ p.answer # Unanswered /\ ~supportsSSE
      /\ UNCHANGED <<supportsSSE, watch_count, status, destroyed, pollTimer, cycles>>
  BY Zenon DEF _pollOne, OrderInv, PollsOrListens
<1>1. /\ p.watcher \in Watcher /\ p.watcher <= watch_count /\ p.answer \in Int
      /\ p.answer \in -1..status[watcherState[p.watcher].id]
  BY Zenon DEF ServiceRanges, PollsInRange
<1>2. /\ watcherState \in [Watcher -> StatusRecord]
      /\ status[watcherState[p.watcher].id] \in 0..FinalStatus
      /\ status \in [TransactionId -> 0..FinalStatus]
  BY <1>1, Zenon DEF ServiceRanges, StatusInRange
<1>3. /\ p.answer \in 0..FinalStatus /\ p.answer <= status[watcherState[p.watcher].id]
  BY <1>0, <1>1, <1>2, StreamingAssumption
<1>4. CASE UNCHANGED watcherState
  <2>1. \A t \in TransactionId : status'[t] \in Int /\ status'[t] >= status[t] BY <1>0, <1>2
  <2>. QED BY <1>0, <1>4, <2>1, TellsNobody, Zenon
<1>5. CASE _dispatchUpdate(watcherState, p.watcher, p.answer, throws)
  <2>1. \A v \in Watcher :
          /\ watcherState'[v].id = watcherState[v].id
          /\ watcherState'[v].phase = watcherState[v].phase
          /\ watcherState'[v].sent = watcherState[v].sent
          /\ v # p.watcher => watcherState'[v].lastStatus = watcherState[v].lastStatus
          /\ v = p.watcher => watcherState'[v].lastStatus = p.answer
    <3>. HIDE DEF StatusRecord
    <3>. QED BY <1>1, <1>2, <1>3, <1>5, DispatchNotes
  <2>2. PollsOrListens'
    <3>1. \A w \in Watcher : ~(watcherState'[w].phase \in {"open", "reconnecting"})
      BY <1>0, <2>1, Zenon DEF OrderInv, PollsOrListens
    <3>. QED BY <1>0, <3>1, Zenon DEF PollsOrListens
  <2>3. ToldInOrder'
    <3>. SUFFICES ASSUME NEW w \in Watcher
                  PROVE  /\ w > watch_count => /\ watcherState'[w].phase = "unborn"
                                               /\ watcherState'[w].lastStatus = NoStatus
                         /\ watcherState'[w].lastStatus <= status[watcherState'[w].id]
                         /\ watcherState'[w].phase = "open" =>
                              watcherState'[w].lastStatus <= watcherState'[w].sent
      BY <1>0, Zenon DEF ToldInOrder
    <3>1. CASE w = p.watcher
      <4>1. ~(w > watch_count) BY <1>1, <3>1, WatcherNumbers
      <4>2. watcherState'[w].phase # "open" BY <1>0, <2>1, Zenon DEF OrderInv, PollsOrListens
      <4>. QED BY <1>3, <2>1, <3>1, <4>1, <4>2, ZenonT(60)
    <3>2. CASE w # p.watcher BY <2>1, <3>2, Zenon DEF OrderInv, ToldInOrder
    <3>. QED BY <3>1, <3>2, Zenon
  <2>4. OneRequestEach'
    <3>. SUFFICES ASSUME ~destroyed
                  PROVE  /\ \A r, s \in polls' : r.watcher = s.watcher => r = s
                         /\ \A r \in polls' : r.answer # Unanswered =>
                              watcherState'[r.watcher].lastStatus <= r.answer
      BY <1>0, Zenon DEF OneRequestEach
    <3>1. /\ \A r, s \in polls : r.watcher = s.watcher => r = s
          /\ \A r \in polls : r.answer # Unanswered => watcherState[r.watcher].lastStatus <= r.answer
      BY Zenon DEF OrderInv, OneRequestEach
    <3>2. \A r \in polls' : r \in polls /\ r.watcher # p.watcher BY <1>0, <3>1, Zenon
    <3>3. \A r \in polls' : r.watcher \in Watcher
      BY <3>2, Zenon DEF ServiceRanges, ServiceInv, ServiceTyped
    <3>4. \A r \in polls' : watcherState'[r.watcher].lastStatus = watcherState[r.watcher].lastStatus
      BY <2>1, <3>2, <3>3, Zenon
    <3>. QED BY <3>1, <3>2, <3>4, Zenon
  <2>5. NotBackwards
    <3>. SUFFICES ASSUME ~destroyed, NEW w \in Watcher
                  PROVE  watcherState'[w].lastStatus >= watcherState[w].lastStatus
      BY <1>0, Zenon DEF NotBackwards
    <3>1. watcherState[p.watcher].lastStatus <= p.answer
      BY <1>0, Zenon DEF OrderInv, OneRequestEach
    <3>2. CASE w = p.watcher BY <1>1, <2>1, <3>1, <3>2, WatcherNumbers, ZenonT(60)
    <3>3. CASE w # p.watcher BY <2>1, <3>3, WatcherNumbers
    <3>. QED BY <3>2, <3>3, Zenon
  <2>. QED BY <2>2, <2>3, <2>4, <2>5, ZenonT(60) DEF OrderInv
<1>. QED BY <1>4, <1>5, Zenon DEF _pollOne

\* Every step.
LEMMA OrderStep ==
  ASSUME ServiceRanges, OrderInv, [StreamingNext]_streamingVars,
         \A w \in Watcher : ~Reopens(w)
  PROVE  OrderInv' /\ NotBackwards
BY CallsTellNobody, ElsewhereTellsNobody, WatchInOrder, StartInOrder, BreakInOrder, FrameInOrder,
   CycleInOrder, AnswerInOrder, ReadInOrder, ZenonT(60)
DEF StreamingNext

\* As long as no event stream that broke is opened again, the statuses a watcher
\* is told of never go back: with polling until destroy, since a service has one
\* poll cycle at a time and a watcher one request in it, with event streams for
\* ever.  The reconnection, which resumes from a cursor that is older than what
\* was told (sep6Streaming.ts:229-242, 380-382), and a second loop after destroy are the
\* only ways to hear an old status again.
THEOREM StatusesInOrder ==
  StreamingSpec /\ [][\A w \in Watcher : ~Reopens(w)]_streamingVars => [][NotBackwards]_streamingVars
<1>1. ServiceRanges /\ OrderInv /\ [StreamingNext]_streamingVars
        /\ [\A w \in Watcher : ~Reopens(w)]_streamingVars
      => OrderInv' /\ [NotBackwards]_streamingVars
  <2>. SUFFICES ASSUME ServiceRanges, OrderInv, [StreamingNext]_streamingVars,
                       [\A w \in Watcher : ~Reopens(w)]_streamingVars
                PROVE  OrderInv' /\ [NotBackwards]_streamingVars
    BY Zenon
  <2>1. CASE UNCHANGED streamingVars BY <2>1, ElsewhereTellsNobody, Zenon
  <2>2. CASE \A w \in Watcher : ~Reopens(w) BY <2>2, OrderStep, Zenon
  <2>. QED BY <2>1, <2>2, Zenon
<1>. QED BY <1>1, OrderInit, ServiceRangesCorrect, PTL DEF StreamingSpec

=============================================================================
