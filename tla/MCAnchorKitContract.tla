------------------------- MODULE MCAnchorKitContract -------------------------
(***************************************************************************)
(* Instances of AnchorKitContract for TLC.                                 *)
(***************************************************************************)
EXTENDS AnchorKitContract

CONSTANTS
  MaxBatch,  \* longest vector passed to attest_batch
  LongType   \* the types whose names exceed MAX_ATTESTATION_TYPE_LEN

MCTypeLen == [t \in Type |-> MAX_ATTESTATION_TYPE_LEN +
                               (IF t \in LongType THEN 1 ELSE 0)]

MCBatchArg == UNION {[1..n -> ArgEntry] : n \in 0..MaxBatch}

=============================================================================
