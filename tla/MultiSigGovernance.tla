------------------------- MODULE MultiSigGovernance -------------------------
(***************************************************************************)
(* The signer set of the contract (src/multisig.rs and the multi-signature *)
(* methods of src/contract.rs).  Signer lists are sequences, as in the     *)
(* code, so that they may hold an address twice.  A method that returns an *)
(* error leaves the state as it was.                                       *)
(*                                                                         *)
(* History: rotations counts the rotations of the contract's life, and     *)
(* lastSignedBy is the list of signers that the last one was called with.  *)
(***************************************************************************)
EXTENDS Integers, Sequences, FiniteSets

CONSTANTS Address, Lists, ThresholdArg, MaxNonce, MaxRotations

\* Lists and ThresholdArg are what callers pass; u64::MAX is MaxNonce.
ASSUME GovernanceAssumption ==
    /\ Lists \subseteq Seq(Address)
    /\ ThresholdArg \subseteq Nat
    /\ MaxNonce \in Nat
    /\ MaxRotations \in Nat

VARIABLES initialized, multiSigConfig, rotations, lastSignedBy

governanceVars == <<initialized, multiSigConfig, rotations, lastSignedBy>>

NoConfig == [signers |-> << >>, threshold |-> 0, nonce |-> 0]

has_multisig_config == multiSigConfig # NoConfig

Members(list) == {list[i] : i \in DOMAIN list}

GovernanceTypeOK ==
    /\ initialized \in BOOLEAN
    /\ multiSigConfig \in [signers : Lists \cup {<< >>}, threshold : Nat, nonce : 0..MaxNonce]
    /\ rotations \in 0..MaxRotations
    /\ lastSignedBy \in Lists \cup {<< >>}

GovernanceInit ==
    /\ initialized = FALSE
    /\ multiSigConfig = NoConfig
    /\ rotations = 0
    /\ lastSignedBy = << >>

\* AnchorKitContract.initialize: once.
initializeContract ==
    /\ ~initialized
    /\ initialized' = TRUE
    /\ UNCHANGED <<multiSigConfig, rotations, lastSignedBy>>

NoRepeats(list) == \A i, j \in DOMAIN list : i < j => list[i] # list[j]

\* Wrong on purpose: a threshold of zero is accepted.
acceptsZeroThreshold(signers, threshold) ==
    /\ Len(signers) # 0
    /\ threshold <= Len(signers)
    /\ NoRepeats(signers)

\* EmptySignerList, InvalidThreshold, DuplicateSigner.
accepts(signers, threshold) ==
    /\ Len(signers) # 0
    /\ threshold # 0 /\ threshold <= Len(signers)
    /\ NoRepeats(signers)

\* Wrong on purpose: a contract that is complete is not protected.
initialize_multisig_anytime(signers, threshold) ==
    /\ accepts(signers, threshold)
    /\ multiSigConfig' = [signers |-> signers, threshold |-> threshold, nonce |-> 0]
    /\ UNCHANGED <<initialized, rotations, lastSignedBy>>

\* Again and again, until both initialize and this have been called.
initialize_multisig(signers, threshold) ==
    /\ ~(initialized /\ has_multisig_config)
    /\ accepts(signers, threshold)
    /\ multiSigConfig' = [signers |-> signers, threshold |-> threshold, nonce |-> 0]
    /\ UNCHANGED <<initialized, rotations, lastSignedBy>>

\* The positions of sig_info.signers that hold a current signer.
valid_signers(config, signedBy) ==
    Cardinality({i \in DOMAIN signedBy : signedBy[i] \in Members(config.signers)})

saturating_add(n) == IF n = MaxNonce THEN MaxNonce ELSE n + 1

rotate_signers(signers, threshold, signedBy) ==
    /\ has_multisig_config
    /\ rotations < MaxRotations
    /\ valid_signers(multiSigConfig, signedBy) >= multiSigConfig.threshold
    /\ accepts(signers, threshold)
    /\ multiSigConfig' = [signers |-> signers, threshold |-> threshold,
                          nonce |-> saturating_add(multiSigConfig.nonce)]
    /\ rotations' = rotations + 1
    /\ lastSignedBy' = signedBy
    /\ UNCHANGED initialized

\* verify_multisig, which no method calls yet, by its checks in their order:
\* signatures[i] tells whether the i-th signature has 65 bytes, and the loop
\* stops at the first bad one or when threshold are counted.
verify_multisig(config, signers, signatures) ==
    /\ Len(signers) = Len(signatures)
    /\ Len(signers) >= config.threshold
    /\ NoRepeats(signers)
    /\ Members(signers) \subseteq Members(config.signers)
    /\ \A i \in 1..config.threshold : signatures[i]

GovernanceNext ==
    \/ initializeContract
    \/ \E s \in Lists, t \in ThresholdArg :
          \/ initialize_multisig(s, t)
          \/ \E b \in Lists : rotate_signers(s, t, b)

GovernanceSpec == GovernanceInit /\ [][GovernanceNext]_governanceVars

-----------------------------------------------------------------------------

\* The stored signer set can always act: distinct signers, at least one, and a
\* threshold they can reach, through every initialization and rotation
\* (multisig.rs:132-149, 183-200).
SignersCanAct ==
    has_multisig_config =>
        /\ multiSigConfig.threshold >= 1
        /\ multiSigConfig.threshold <= Cardinality(Members(multiSigConfig.signers))

\* verify_multisig asks for all that the count in rotate_signers asks for, and
\* for more: that the list names nobody twice and only signers, and that the
\* signatures up to the threshold have 65 bytes (multisig.rs:53-106).  The count
\* looks at none of that (contract.rs:464-477).
VerifyAddsToCount(config) ==
    \A b \in Lists : \A g \in [1..Len(b) -> BOOLEAN] :
        verify_multisig(config, b, g) <=>
            /\ valid_signers(config, b) >= config.threshold
            /\ NoRepeats(b)
            /\ Members(b) \subseteq Members(config.signers)
            /\ \A i \in 1..config.threshold : g[i]

\* The signers named by a list.
Approvers(config, list) == Members(list) \cap Members(config.signers)

\* The signers stay in control of who signs.  Once the contract has been
\* initialized and has signers, nothing but a rotation changes them, and the
\* nonce never goes back (contract.rs:436-438); and every rotation, at any time,
\* was asked for by a signer of the set it replaces, and by threshold different
\* ones if its list names nobody twice.  A signer who is named twice is counted
\* twice (contract.rs:464-473), and until initialize has run initialize_multisig
\* may replace the set and start the nonce over, so neither condition can go.
SignersInControl ==
    [][/\ (initialized /\ has_multisig_config) =>
             /\ initialized'
             /\ multiSigConfig' # multiSigConfig => rotations' = rotations + 1
             /\ multiSigConfig'.nonce >= multiSigConfig.nonce
       /\ rotations' # rotations =>
             /\ Approvers(multiSigConfig, lastSignedBy') # {}
             /\ NoRepeats(lastSignedBy') =>
                   Cardinality(Approvers(multiSigConfig, lastSignedBy'))
                       >= multiSigConfig.threshold]_governanceVars
=============================================================================
