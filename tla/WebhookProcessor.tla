--------------------------- MODULE WebhookProcessor ---------------------------
(***************************************************************************)
(* IdempotentWebhookProcessor::process (src/webhook-sdk/src/processor.rs)  *)
(* over the idempotency table (idempotency.rs) and the deliverer: look the *)
(* payload's key up, deliver when it is not there, record the outcome.     *)
(* Each caller is one process call.  The table survives a crash of the     *)
(* service; the calls in progress and the circuit breaker do not.          *)
(*                                                                         *)
(* A definition whose comment begins "Wrong on purpose" is a plausible     *)
(* mistake in the definition after it; no action uses it.                  *)
(***************************************************************************)
EXTENDS WebhookDeliverer

CONSTANTS
  Key,    \* idempotency keys
  key_of  \* derive_idempotency_key of the payload of each call

ASSUME ProcessorAssumption == key_of \in [Caller -> Key]

VARIABLES
  stage,    \* where each process call is
  reply,    \* what each process call returned
  table,    \* idempotency_keys: the recorded response of each key present
  entered,  \* the calls of each key that went on to deliver
  excused,  \* keys with overlapping calls, or a record that was not kept
  cleaned   \* keys that cleanup_old_records has removed

processing == <<stage, reply, table, entered, excused, cleaned>>
allVars == <<vars, processing>>

Recorded(k) == k \in DOMAIN table

Busy(k) ==
  \E c \in Caller : key_of[c] = k /\ stage[c] \in {"delivering", "recording"}

Reply(c, r) ==
  /\ stage' = [stage EXCEPT ![c] = "done"]
  /\ reply' = [reply EXCEPT ![c] = r]

NoReply == [duplicate |-> FALSE, response |-> "none"]
Lost == [duplicate |-> FALSE, response |-> "lost"]
StorageError == [duplicate |-> FALSE, response |-> "StorageError"]
First(o) == [duplicate |-> FALSE, response |-> o]
Duplicate(o) == [duplicate |-> TRUE, response |-> o]

-----------------------------------------------------------------------------
(* IdempotencyStore *)

get(k) == IF Recorded(k) THEN {table[k]} ELSE {}

\* Wrong on purpose: INSERT OR REPLACE.
record_replacing(k, response) ==
  [j \in DOMAIN table \cup {k} |-> IF j = k THEN response ELSE table[j]]

\* INSERT OR IGNORE.
record(k, response) ==
  [j \in DOMAIN table \cup {k} |-> IF Recorded(j) THEN table[j] ELSE response]

-----------------------------------------------------------------------------
(* process *)

\* The lookup finds the key: the cached response is the reply.
CheckHit(c) ==
  /\ stage[c] = "new"
  /\ \E response \in get(key_of[c]) : Reply(c, Duplicate(response))
  /\ UNCHANGED <<vars, table, entered, excused, cleaned>>

\* The lookup finds nothing: go on to deliver.
CheckMiss(c) ==
  /\ stage[c] = "new"
  /\ get(key_of[c]) = {}
  /\ stage' = [stage EXCEPT ![c] = "delivering"]
  /\ entered' = [entered EXCEPT ![key_of[c]] = @ \cup {c}]
  /\ excused' = IF Busy(key_of[c]) THEN excused \cup {key_of[c]} ELSE excused
  /\ UNCHANGED <<vars, reply, table, cleaned>>

CheckFails(c) ==
  /\ stage[c] = "new"
  /\ Reply(c, StorageError)
  /\ UNCHANGED <<vars, table, entered, excused, cleaned>>

\* Wrong on purpose: the result is recorded before deliver has returned.
DeliverUnawaited(c) ==
  /\ stage[c] = "delivering"
  /\ Attempt(c) \/ SendOk(c) \/ SendErr(c) \/ Wake(c)
  /\ stage' = [stage EXCEPT ![c] = "recording"]
  /\ UNCHANGED <<reply, table, entered, excused, cleaned>>

\* deliver runs, and leaves its result to be recorded.
Deliver(c) ==
  /\ stage[c] = "delivering"
  /\ Attempt(c) \/ SendOk(c) \/ SendErr(c) \/ Wake(c)
  /\ stage' = IF pc'[c] = "returned" THEN [stage EXCEPT ![c] = "recording"] ELSE stage
  /\ UNCHANGED <<reply, table, entered, excused, cleaned>>

\* Wrong on purpose: only a delivery that succeeded is recorded.
RecordSuccessOnly(c) ==
  /\ stage[c] = "recording"
  /\ table' = IF outcome[c] = "delivered" THEN record(key_of[c], outcome[c]) ELSE table
  /\ Reply(c, First(outcome[c]))
  /\ UNCHANGED <<vars, entered, excused, cleaned>>

\* Success and failure are both recorded; the reply is this call's own
\* outcome, recorded or ignored.
Record(c) ==
  /\ stage[c] = "recording"
  /\ table' = record(key_of[c], outcome[c])
  /\ Reply(c, First(outcome[c]))
  /\ UNCHANGED <<vars, entered, excused, cleaned>>

RecordFails(c) ==
  /\ stage[c] = "recording"
  /\ Reply(c, StorageError)
  /\ excused' = excused \cup {key_of[c]}
  /\ UNCHANGED <<vars, table, entered, cleaned>>

\* The caller drops the process call while it delivers or records.  (When
\* the insert took effect before the drop, the call is Record with a reply
\* that nobody reads.)
AbandonDelivery(c) ==
  /\ stage[c] = "delivering"
  /\ Cancel(c)
  /\ Reply(c, Lost)
  /\ excused' = excused \cup {key_of[c]}
  /\ UNCHANGED <<table, entered, cleaned>>

AbandonRecord(c) ==
  /\ stage[c] = "recording"
  /\ Reply(c, Lost)
  /\ excused' = excused \cup {key_of[c]}
  /\ UNCHANGED <<vars, table, entered, cleaned>>

\* cleanup_old_records deletes a row that is past its retention.
cleanup_old_records(k) ==
  /\ Recorded(k)
  /\ table' = [j \in DOMAIN table \ {k} |-> table[j]]
  /\ cleaned' = cleaned \cup {k}
  /\ excused' = excused \cup {k}
  /\ UNCHANGED <<vars, stage, reply, entered>>

\* The service stops and starts again.
Crash ==
  LET running == {c \in Caller : stage[c] \in {"delivering", "recording"}}
  IN  /\ running # {}
      /\ stage' = [c \in Caller |-> IF c \in running THEN "done" ELSE stage[c]]
      /\ reply' = [c \in Caller |-> IF c \in running THEN Lost ELSE reply[c]]
      /\ pc' = [c \in Caller |-> IF c \in running THEN "returned" ELSE pc[c]]
      /\ excused' = excused \cup {key_of[c] : c \in running}
      /\ state' = "Closed" /\ consecutive_failures' = 0 /\ opened_for' = NotOpened
      /\ permit' = [c \in Caller |-> "none"]
      /\ UNCHANGED <<attempt, sent, outcome, table, entered, cleaned>>

ProcessorTick == DelivererTick /\ UNCHANGED processing

-----------------------------------------------------------------------------
ProcessorInit ==
  /\ Init
  /\ stage = [c \in Caller |-> "new"]
  /\ reply = [c \in Caller |-> NoReply]
  /\ table = [k \in {} |-> "none"]
  /\ entered = [k \in Key |-> {}]
  /\ excused = {} /\ cleaned = {}

ProcessorNext ==
  \/ \E c \in Caller :
       \/ CheckHit(c) \/ CheckMiss(c) \/ CheckFails(c)
       \/ Deliver(c) \/ Record(c) \/ RecordFails(c)
       \/ AbandonDelivery(c) \/ AbandonRecord(c)
  \/ \E k \in Key : cleanup_old_records(k)
  \/ Crash \/ ProcessorTick

ProcessorSpec == ProcessorInit /\ [][ProcessorNext]_allVars

-----------------------------------------------------------------------------
Outcome == {"delivered", "CircuitOpen", "MaxRetriesExceeded"}

\* Type correctness; a call records only a result that deliver returned.
ProcessorTypeOK ==
  /\ stage \in [Caller -> {"new", "delivering", "recording", "done"}]
  /\ reply \in [Caller -> [duplicate : BOOLEAN,
                           response : Outcome \cup {"none", "lost", "StorageError"}]]
  /\ DOMAIN table \subseteq Key /\ table \in [DOMAIN table -> Outcome]
  /\ entered \in [Key -> SUBSET Caller]
  /\ excused \subseteq Key /\ cleaned \subseteq excused
  /\ \A c \in Caller : stage[c] = "recording" => outcome[c] \in Outcome

\* A payload is delivered by a second call only for a reason: two calls
\* overlapped between lookup and record, a result was not recorded (crash,
\* dropped call, storage error), or its row was cleaned up.  In particular
\* a failed delivery is never repeated by a later call.
RepeatHasCause ==
  \A k \in Key : Cardinality(entered[k]) > 1 => k \in excused

\* All duplicates of a payload get one and the same response, the recorded
\* one, as long as the row is kept: a call that overlapped and lost the
\* race to record does not change it.
DuplicatesAgree ==
  \A c \in Caller :
    reply[c].duplicate /\ key_of[c] \notin cleaned =>
      Recorded(key_of[c]) /\ reply[c].response = table[key_of[c]]

-----------------------------------------------------------------------------
(* What a comment says, and the code does not do. *)

\* processor.rs: "Idempotent webhook processor ensures at-most-once
\* execution of side effects", "exactly-once execution".
AtMostOnce ==
  \A k \in Key :
    Cardinality({c \in Caller : key_of[c] = k /\ outcome[c] = "delivered"}) <= 1

=============================================================================
