--------------------------- MODULE WebhookProofs ----------------------------
(***************************************************************************)
(* The circuit breaker is consistent for any number of callers, any        *)
(* threshold and any cooldown: its three invariants are inductive          *)
(* together, as a half-open circuit leaves that state at the latest when   *)
(* its probe reports.  Deliveries use the breaker as its specification     *)
(* allows, and the retry loop sends no more requests than configured, for  *)
(* any number of concurrent deliveries.  The processor repeats a delivery  *)
(* only for a cause, and answers duplicates with the recorded response.    *)
(* A receiver acts only on what the anchor sent, and a log line shows of a *)
(* body what the rules of the redaction permit.                            *)
(***************************************************************************)
EXTENDS WebhookProcessor, WebhookReceiver, Redaction, FiniteSetTheorems, TLAPS

\* The three together are inductive.
BreakerInv == BreakerTypeOK /\ CircuitConsistent /\ HalfOpenHasProbe

\* A granted permit: the circuit stays closed, or becomes half-open with
\* the new permit as its probe.
LEMMA AcquireKeeps ==
  ASSUME BreakerInv, NEW c \in Caller, Acquire(c)
  PROVE  BreakerInv'
  <1>1. BreakerTypeOK'
    BY Zenon DEF BreakerInv, BreakerTypeOK, Acquire, try_acquire, inner
  <1>2. CircuitConsistent'
    BY Zenon DEF BreakerInv, CircuitConsistent, Acquire, try_acquire, inner, cooldown_elapsed
  <1>3. HalfOpenHasProbe'
    <2>1. CASE state = "Closed"
      BY <2>1, Zenon DEF HalfOpenHasProbe, Acquire, try_acquire, inner
    <2>2. CASE state = "Open"
      <3>1. permit'[c] = "probe"
        BY <2>2, Zenon DEF BreakerInv, BreakerTypeOK, Acquire, try_acquire
      <3> QED
        BY <3>1, Zenon DEF HalfOpenHasProbe
    <2> QED
      BY <2>1, <2>2, Zenon DEF Acquire, try_acquire
  <1> QED
    BY <1>1, <1>2, <1>3, Zenon DEF BreakerInv

\* A reported success closes the circuit.
LEMMA SuccessKeeps ==
  ASSUME BreakerInv, NEW c \in Caller, Success(c)
  PROVE  BreakerInv'
  <1>1. BreakerTypeOK'
    BY BreakerAssumption DEF BreakerInv, BreakerTypeOK, Success, record_success, NotOpened
  <1>2. CircuitConsistent' /\ HalfOpenHasProbe'
    BY BreakerAssumption DEF CircuitConsistent, HalfOpenHasProbe, Success, record_success
  <1> QED
    BY <1>1, <1>2, Zenon DEF BreakerInv

\* A failure, reported or by dropping the permit: a probe opens the circuit;
\* another call opens it or leaves its state and the probe alone.
LEMMA FailureKeeps ==
  ASSUME BreakerInv, NEW c \in Caller, Failure(c) \/ Drop(c)
  PROVE  BreakerInv'
  <1>1. /\ InFlight(c)
        /\ record_failure(permit[c] = "probe")
        /\ permit' = [permit EXCEPT ![c] = "none"]
    BY Zenon DEF Failure, Drop
  <1>2. BreakerTypeOK'
    BY <1>1, BreakerAssumption DEF BreakerInv, BreakerTypeOK, record_failure, trip, NotOpened
  <1>3. CircuitConsistent'
    BY <1>1, BreakerAssumption DEF BreakerInv, BreakerTypeOK, CircuitConsistent,
       record_failure, trip, NotOpened
  <1>4. ASSUME state' = "HalfOpen"
        PROVE  \E b \in Caller : permit'[b] = "probe"
    <2>1. permit[c] # "probe" /\ state = "HalfOpen"
      BY <1>1, <1>4, Zenon DEF record_failure, trip
    <2>2. PICK b \in Caller : permit[b] = "probe"
      BY <2>1, Zenon DEF BreakerInv, HalfOpenHasProbe
    <2>3. permit'[b] = "probe"
      BY <1>1, <2>1, <2>2, Zenon DEF BreakerInv, BreakerTypeOK
    <2> QED
      BY <2>3, Zenon
  <1> QED
    BY <1>2, <1>3, <1>4, Zenon DEF BreakerInv, HalfOpenHasProbe

\* Every step keeps the invariant.
LEMMA BreakerNextKeeps ==
  ASSUME BreakerInv, [BreakerNext]_breaker
  PROVE  BreakerInv'
  <1>1. CASE Tick
    BY <1>1, BreakerAssumption DEF Tick, BreakerInv, BreakerTypeOK,
       CircuitConsistent, HalfOpenHasProbe, NotOpened
  <1>2. CASE UNCHANGED breaker
    BY <1>2, Zenon DEF breaker, BreakerInv, BreakerTypeOK, CircuitConsistent, HalfOpenHasProbe
  <1> QED
    BY <1>1, <1>2, AcquireKeeps, SuccessKeeps, FailureKeeps, Zenon DEF BreakerNext

\* The invariant holds in every reachable state of the breaker.
THEOREM BreakerInvariant == BreakerSafety => []BreakerInv
  <1>1. BreakerInit => BreakerInv
    BY BreakerAssumption DEF BreakerInit, new, BreakerInv, BreakerTypeOK,
       CircuitConsistent, HalfOpenHasProbe, NotOpened
  <1> QED
    BY <1>1, BreakerNextKeeps, PTL DEF BreakerSafety

\* Types of the breaker (circuit_breaker.rs).
THEOREM BreakerTypeCorrect == BreakerSafety => []BreakerTypeOK
  <1>1. BreakerInv => BreakerTypeOK
    BY Zenon DEF BreakerInv
  <1> QED
    BY <1>1, BreakerInvariant, PTL

\* A closed circuit is below its threshold, and any other knows when it
\* opened (record_success, record_failure).
THEOREM ConsistentCorrect == BreakerSafety => []CircuitConsistent
  <1>1. BreakerInv => CircuitConsistent
    BY Zenon DEF BreakerInv
  <1> QED
    BY <1>1, BreakerInvariant, PTL

\* A half-open circuit has a probe in flight, so no caller that bails out
\* leaves it stuck (Permit::drop).
THEOREM HalfOpenCorrect == BreakerSafety => []HalfOpenHasProbe
  <1>1. BreakerInv => HalfOpenHasProbe
    BY Zenon DEF BreakerInv
  <1> QED
    BY <1>1, BreakerInvariant, PTL

\* The assumption under which a half-open circuit has a single probe: every
\* ordinary call was over when the probe was let through.
NoLateCalls == state = "HalfOpen" => \A c \in Caller : permit[c] # "call"

\* A probe is in flight only while the circuit is half-open, and then alone.
ProbeAlone ==
  /\ \A c \in Caller : permit[c] = "probe" => state = "HalfOpen"
  /\ \A c, d \in Caller : permit[c] = "probe" /\ permit[d] = "probe" => c = d

\* Without late calls, what ends the half-open state is the probe's report.
LEMMA ProbeStaysAlone ==
  ASSUME BreakerInv, NoLateCalls, ProbeAlone, [BreakerNext]_breaker
  PROVE  ProbeAlone'
  <1>1. ASSUME NEW b \in Caller, Acquire(b)
        PROVE  ProbeAlone'
    <2>1. /\ state \in {"Closed", "Open"}
          /\ \A c \in Caller : permit[c] # "probe"
      BY <1>1, Zenon DEF ProbeAlone, Acquire, try_acquire
    <2>2. \A c \in Caller : permit'[c] = "probe" => c = b /\ state' = "HalfOpen"
      BY <1>1, <2>1, Zenon DEF BreakerInv, BreakerTypeOK, Acquire, try_acquire
    <2> QED
      BY <2>2, Zenon DEF ProbeAlone
  <1>2. ASSUME NEW b \in Caller, Success(b) \/ Failure(b) \/ Drop(b)
        PROVE  ProbeAlone'
    <2>1. InFlight(b) /\ permit' = [permit EXCEPT ![b] = "none"]
      BY <1>2, Zenon DEF Success, Failure, Drop
    <2>2. permit[b] \in {"call", "probe"}
      BY <2>1, Zenon DEF BreakerInv, BreakerTypeOK, InFlight
    <2>3. \A c \in Caller : permit[c] = "probe" => c = b
      BY <2>2, Zenon DEF ProbeAlone, NoLateCalls
    <2>4. \A c \in Caller : permit'[c] # "probe"
      BY <2>1, <2>3, Zenon DEF BreakerInv, BreakerTypeOK
    <2> QED
      BY <2>4, Zenon DEF ProbeAlone
  <1>3. CASE Tick \/ UNCHANGED breaker
    BY <1>3, Zenon DEF Tick, breaker, ProbeAlone
  <1> QED
    BY <1>1, <1>2, <1>3, Zenon DEF BreakerNext

\* "exactly one probe call is let through (the half-open state)": so it is
\* as long as no ordinary call is in flight when the circuit is half-open.
\* A second probe therefore needs a call that was let through before the
\* circuit opened and reports after the cooldown (record_success,
\* record_failure).
THEOREM OneProbeWithoutLateCalls ==
  BreakerSafety /\ []NoLateCalls => []OneProbe
  <1>1. BreakerInit => ProbeAlone
    BY Zenon DEF BreakerInit, ProbeAlone
  <1>2. BreakerInv /\ NoLateCalls /\ ProbeAlone /\ [BreakerNext]_breaker => ProbeAlone'
    BY ProbeStaysAlone, Zenon
  <1>3. ProbeAlone => OneProbe
    <2> SUFFICES ASSUME ProbeAlone PROVE OneProbe
      BY Zenon
    <2> DEFINE P == {c \in Caller : permit[c] = "probe"}
    <2>1. P = {} \/ \E c \in Caller : P = {c}
      BY DEF ProbeAlone
    <2>2. Cardinality({}) = 0 /\ \A c \in Caller : Cardinality({c}) = 1
      BY FS_EmptySet, FS_Singleton, Zenon
    <2>3. Cardinality(P) \in {0, 1}
      BY <2>1, <2>2, Zenon
    <2> HIDE DEF P
    <2>4. Cardinality(P) <= 1
      BY <2>3
    <2> QED
      BY <2>4, Zenon DEF OneProbe, P
  <1> QED
    BY <1>1, <1>2, <1>3, BreakerInvariant, PTL DEF BreakerSafety

-----------------------------------------------------------------------------
\* Every step of a delivery is a step of the breaker or leaves it alone.
LEMMA StepOfBreaker ==
  ASSUME [Next]_vars
  PROVE  [BreakerNext]_breaker
  <1>1. ASSUME NEW d \in Caller,
               Attempt(d) \/ SendOk(d) \/ SendErr(d) \/ Wake(d) \/ Cancel(d)
        PROVE  Acquire(d) \/ Success(d) \/ Failure(d) \/ Drop(d) \/ UNCHANGED breaker
    BY <1>1, Zenon DEF Attempt, SendOk, SendErr, Wake, Cancel
  <1>2. CASE DelivererTick
    BY <1>2, Zenon DEF DelivererTick, BreakerNext
  <1>3. CASE UNCHANGED vars
    BY <1>3, Zenon DEF vars
  <1>4. CASE \E d \in Caller : \/ Attempt(d) \/ SendOk(d) \/ SendErr(d)
                               \/ Wake(d) \/ Cancel(d)
    BY <1>1, <1>4, Zenon DEF BreakerNext
  <1> QED
    BY <1>2, <1>3, <1>4, Zenon DEF Next

\* The deliverer refines the circuit breaker (deliver's use of try_acquire,
\* Permit::success, Permit::failure and Permit::drop).
THEOREM BreakerRefined == Spec => ImplementsBreaker
  <1>1. Init => BreakerInit
    BY Zenon DEF Init
  <1> QED
    BY <1>1, StepOfBreaker, PTL DEF Spec, ImplementsBreaker, BreakerSafety

-----------------------------------------------------------------------------
most == IF max_retries = 0 THEN 1 ELSE max_retries

\* How far the loop has got, by the place a delivery is at.
Progress(p, a, s, o) ==
  /\ s <= most
  /\ p # "returned" => a = s /\ o = "none"
  /\ p = "ready" => s < most
  /\ p = "sending" => s # 0
  /\ p = "backoff" => s < max_retries
  /\ o = "MaxRetriesExceeded" => s = most
  /\ s = IF o = "CircuitOpen" THEN a - 1 ELSE a

LoopInv ==
  /\ TypeOK
  /\ \A d \in Caller : Progress(pc[d], attempt[d], sent[d], outcome[d])

\* The bound is a positive number.
LEMMA MostPositive ==
  /\ most \in Nat \ {0}
  /\ max_retries = 0 => most = 1
  /\ max_retries # 0 => most = max_retries
  BY DelivererAssumption DEF most

\* A step of one delivery leaves the others where they were.
LEMMA OthersUnchanged ==
  ASSUME TypeOK, NEW d \in Caller,
         Attempt(d) \/ SendOk(d) \/ SendErr(d) \/ Wake(d) \/ Cancel(d)
  PROVE  \A e \in Caller : e # d =>
           /\ pc'[e] = pc[e] /\ attempt'[e] = attempt[e]
           /\ sent'[e] = sent[e] /\ outcome'[e] = outcome[e]
           /\ permit'[e] = permit[e]
  BY DEF TypeOK, BreakerTypeOK, Attempt, SendOk, SendErr, Wake, Cancel, Return,
     Acquire, try_acquire, Success, Failure, Drop, breaker

\* A step of one delivery keeps the types of the delivery's variables.
LEMMA DeliveryTypes ==
  ASSUME TypeOK, NEW d \in Caller,
         Attempt(d) \/ SendOk(d) \/ SendErr(d) \/ Wake(d) \/ Cancel(d)
  PROVE  /\ pc' \in [Caller -> {"ready", "sending", "backoff", "returned"}]
         /\ attempt' \in [Caller -> Nat]
         /\ sent' \in [Caller -> Nat]
         /\ outcome' \in [Caller -> {"none", "delivered", "CircuitOpen",
                                     "MaxRetriesExceeded", "cancelled"}]
  <1>1. CASE Attempt(d)
    BY <1>1 DEF TypeOK, Attempt, Return
  <1>2. CASE SendOk(d)
    BY <1>2, Zenon DEF TypeOK, SendOk, Return
  <1>3. CASE SendErr(d)
    BY <1>3, Zenon DEF TypeOK, SendErr, Return
  <1>4. CASE Wake(d)
    BY <1>4, Zenon DEF TypeOK, Wake
  <1>5. CASE Cancel(d)
    BY <1>5, Zenon DEF TypeOK, Cancel, Return
  <1> QED
    BY <1>1, <1>2, <1>3, <1>4, <1>5, Zenon

\* A step of one delivery takes and gives back its permit with its request.
LEMMA PermitFollowsRequest ==
  ASSUME TypeOK, NEW d \in Tracked,
         Attempt(d) \/ SendOk(d) \/ SendErr(d) \/ Wake(d) \/ Cancel(d)
  PROVE  permit'[d] # "none" <=> pc'[d] = "sending"
  <1>0. /\ d \in Caller
        /\ permit[d] # "none" <=> pc[d] = "sending"
        /\ pc \in [Caller -> {"ready", "sending", "backoff", "returned"}]
        /\ permit \in [Caller -> {"none", "call", "probe"}]
    BY DelivererAssumption, Zenon DEF TypeOK, BreakerTypeOK, InFlight
  <1>1. CASE Attempt(d)
    BY <1>0, <1>1, Zenon DEF Attempt, Return, Acquire, try_acquire, breaker
  <1>2. CASE SendOk(d)
    BY <1>0, <1>2, Zenon DEF SendOk, Return, Success
  <1>3. CASE SendErr(d)
    BY <1>0, <1>3, Zenon DEF SendErr, Return, Failure
  <1>4. CASE Wake(d)
    BY <1>0, <1>4, Zenon DEF Wake, breaker
  <1>5. CASE Cancel(d)
    BY <1>0, <1>5, Zenon DEF Cancel, Return, Drop, breaker
  <1> QED
    BY <1>1, <1>2, <1>3, <1>4, <1>5, Zenon

\* A step of one delivery keeps its progress within the bound.
LEMMA ProgressKept ==
  ASSUME LoopInv, NEW d \in Caller,
         Attempt(d) \/ SendOk(d) \/ SendErr(d) \/ Wake(d) \/ Cancel(d)
  PROVE  Progress(pc'[d], attempt'[d], sent'[d], outcome'[d])
  <1>0. /\ pc \in [Caller -> {"ready", "sending", "backoff", "returned"}]
        /\ attempt \in [Caller -> Nat] /\ sent \in [Caller -> Nat]
        /\ outcome \in [Caller -> {"none", "delivered", "CircuitOpen",
                                   "MaxRetriesExceeded", "cancelled"}]
        /\ Progress(pc[d], attempt[d], sent[d], outcome[d])
        /\ max_retries \in Nat
    BY DelivererAssumption, Zenon DEF LoopInv, TypeOK
  <1>1. CASE Attempt(d)
    BY <1>0, <1>1, MostPositive DEF Attempt, Return, Progress
  <1>2. CASE SendOk(d)
    BY <1>0, <1>2, MostPositive, Zenon DEF SendOk, Return, Progress
  <1>3. CASE SendErr(d)
    <2>1. /\ sent[d] = attempt[d] /\ sent[d] <= most /\ sent[d] # 0
          /\ outcome[d] = "none"
      BY <1>0, <1>3, Zenon DEF SendErr, Progress
    <2> QED
      BY <1>0, <1>3, <2>1, MostPositive DEF SendErr, Return, Progress, should_retry
  <1>4. CASE Wake(d)
    BY <1>0, <1>4, MostPositive DEF Wake, Progress
  <1>5. CASE Cancel(d)
    BY <1>0, <1>5, MostPositive, Zenon DEF Cancel, Return, Progress
  <1> QED
    BY <1>1, <1>2, <1>3, <1>4, <1>5, Zenon

\* Every step of the deliverer keeps the loop invariant.
LEMMA LoopKept ==
  ASSUME LoopInv, BreakerInv', [Next]_vars
  PROVE  LoopInv'
  <1>1. ASSUME NEW d \in Caller,
               Attempt(d) \/ SendOk(d) \/ SendErr(d) \/ Wake(d) \/ Cancel(d)
        PROVE  LoopInv'
    <2>1. TypeOK
      BY Zenon DEF LoopInv
    <2>2. \A e \in Tracked : permit'[e] # "none" <=> pc'[e] = "sending"
      <3> TAKE e \in Tracked
      <3>1. CASE e = d
        BY <1>1, <2>1, <3>1, PermitFollowsRequest, Zenon
      <3>2. CASE e # d
        BY <1>1, <2>1, <3>2, OthersUnchanged, DelivererAssumption, Zenon DEF TypeOK, InFlight
      <3> QED
        BY <3>1, <3>2, Zenon
    <2>3. TypeOK'
      BY <1>1, <2>1, <2>2, DeliveryTypes, Zenon DEF TypeOK, BreakerInv, InFlight
    <2>4. \A e \in Caller : Progress(pc'[e], attempt'[e], sent'[e], outcome'[e])
      <3> TAKE e \in Caller
      <3>1. CASE e = d
        BY <1>1, <3>1, ProgressKept, Zenon
      <3>2. CASE e # d
        BY <1>1, <2>1, <3>2, OthersUnchanged, Zenon DEF LoopInv
      <3> QED
        BY <3>1, <3>2, Zenon
    <2> QED
      BY <2>3, <2>4, Zenon DEF LoopInv, Progress, most
  <1>2. CASE UNCHANGED delivery /\ UNCHANGED permit
    BY <1>2, Zenon DEF LoopInv, TypeOK, BreakerInv, InFlight, delivery, Progress, most
  <1> QED
    BY <1>1, <1>2, Zenon DEF Next, DelivererTick, Tick, vars, breaker

\* The loop invariant holds in every reachable state.
THEOREM LoopInvariant == Spec => []LoopInv
  <1>1. Init => LoopInv
    BY BreakerAssumption, DelivererAssumption, MostPositive DEF Init, BreakerInit, new,
       LoopInv, TypeOK, BreakerTypeOK, InFlight, NotOpened, Progress
  <1>2. Spec => []BreakerInv
    BY BreakerRefined, BreakerInvariant, PTL DEF ImplementsBreaker
  <1> QED
    BY <1>1, <1>2, LoopKept, PTL DEF Spec

\* Types of the deliverer; a permit is held exactly while a request is out
\* (deliver).
THEOREM DelivererTypeCorrect == Spec => []TypeOK
  <1>1. LoopInv => TypeOK
    BY Zenon DEF LoopInv
  <1> QED
    BY <1>1, LoopInvariant, PTL

\* No delivery puts more requests on the network than max_retries allows,
\* and each reports MaxRetriesExceeded only after all of them (deliver,
\* should_retry).
THEOREM RequestsCorrect == Spec => []RequestsBounded
  <1>1. LoopInv => RequestsBounded
    BY Zenon DEF LoopInv, RequestsBounded, Progress, most
  <1> QED
    BY <1>1, LoopInvariant, PTL

-----------------------------------------------------------------------------

\* What the processor's properties need: unless a key is excused, at most one call
\* has entered for it, and that call is still busy or has left a record.
OneEntered(k) ==
  k \notin excused =>
    /\ \A c, d \in entered[k] : c = d
    /\ entered[k] # {} => Recorded(k) \/ Busy(k)

ProcessorInv ==
  /\ stage \in [Caller -> {"new", "delivering", "recording", "done"}]
  /\ DOMAIN reply = Caller
  /\ entered \in [Key -> SUBSET Caller]
  /\ \A k \in Key : OneEntered(k)
  /\ DuplicatesAgree

\* What record does to the table.
LEMMA RecordSpec ==
  ASSUME NEW k, NEW response
  PROVE  /\ DOMAIN record(k, response) = DOMAIN table \cup {k}
         /\ \A j \in DOMAIN table : record(k, response)[j] = table[j]
  BY Zenon DEF record, Recorded

\* A reply that is no duplicate asks nothing of the table, which may grow.
LEMMA OtherReplyKeeps ==
  ASSUME ProcessorInv, NEW c \in Caller, NEW r, Reply(c, r), r.duplicate = FALSE,
         DOMAIN table \subseteq DOMAIN table',
         \A j \in DOMAIN table : table'[j] = table[j],
         cleaned' = cleaned
  PROVE  /\ stage' \in [Caller -> {"new", "delivering", "recording", "done"}]
         /\ \A d \in Caller : stage'[d] = IF d = c THEN "done" ELSE stage[d]
         /\ DOMAIN reply' = Caller /\ DuplicatesAgree'
  <1>0. key_of \in [Caller -> Key]
    BY ProcessorAssumption, Zenon
  <1>1. /\ stage' \in [Caller -> {"new", "delivering", "recording", "done"}]
        /\ \A d \in Caller : stage'[d] = IF d = c THEN "done" ELSE stage[d]
    BY Zenon DEF ProcessorInv, Reply
  <1>2. DOMAIN reply' = Caller /\ \A d \in Caller : reply'[d] = IF d = c THEN r ELSE reply[d]
    BY Zenon DEF ProcessorInv, Reply
  <1>3. DuplicatesAgree'
    <2> SUFFICES ASSUME NEW d \in Caller, reply'[d].duplicate, key_of[d] \notin cleaned
                 PROVE  key_of[d] \in DOMAIN table' /\ reply'[d].response = table'[key_of[d]]
      BY Zenon DEF DuplicatesAgree, Recorded
    <2>1. d # c /\ reply'[d] = reply[d]
      BY <1>2, Zenon
    <2> QED
      BY <2>1, Zenon DEF ProcessorInv, DuplicatesAgree, Recorded
  <1> QED
    BY <1>1, <1>2, <1>3, Zenon

\* A duplicate gets what the table holds.
LEMMA CheckHitKeeps ==
  ASSUME ProcessorInv, NEW c \in Caller, CheckHit(c)
  PROVE  ProcessorInv'
  <1>1. PICK response \in get(key_of[c]) : Reply(c, Duplicate(response))
    BY Zenon DEF CheckHit
  <1>2. Recorded(key_of[c]) /\ response = table[key_of[c]]
    BY <1>1, Zenon DEF get
  <1>3. /\ stage[c] = "new" /\ table' = table /\ entered' = entered
        /\ excused' = excused /\ cleaned' = cleaned
    BY Zenon DEF CheckHit
  <1>4. /\ stage' \in [Caller -> {"new", "delivering", "recording", "done"}]
        /\ \A d \in Caller : stage'[d] = IF d = c THEN "done" ELSE stage[d]
        /\ DOMAIN reply' = Caller
        /\ \A d \in Caller : reply'[d] = IF d = c THEN Duplicate(response) ELSE reply[d]
    BY <1>1, Zenon DEF ProcessorInv, Reply
  <1>5. DuplicatesAgree'
    <2> SUFFICES ASSUME NEW d \in Caller, reply'[d].duplicate, key_of[d] \notin cleaned
                 PROVE  key_of[d] \in DOMAIN table /\ reply'[d].response = table[key_of[d]]
      BY <1>3, Zenon DEF DuplicatesAgree, Recorded
    <2>1. CASE d = c
      BY <1>2, <1>4, <2>1 DEF Duplicate, Recorded
    <2>2. CASE d # c
      BY <1>4, <2>2, Zenon DEF ProcessorInv, DuplicatesAgree, Recorded
    <2> QED
      BY <2>1, <2>2, Zenon
  <1>6. ASSUME NEW k \in Key
        PROVE  OneEntered(k)'
    <2>1. Busy(k) => Busy(k)'
      BY <1>3, <1>4, Zenon DEF Busy
    <2> QED
      BY <1>3, <2>1, Zenon DEF ProcessorInv, OneEntered, Recorded
  <1> QED
    BY <1>3, <1>4, <1>5, <1>6, Zenon DEF ProcessorInv

\* The one way to enter: no record, and a busy call makes the key excused.
LEMMA CheckMissKeeps ==
  ASSUME ProcessorInv, NEW c \in Caller, CheckMiss(c)
  PROVE  ProcessorInv'
  <1>0. key_of[c] \in Key
    BY ProcessorAssumption, Zenon
  <1>1. /\ stage[c] = "new" /\ ~Recorded(key_of[c])
        /\ reply' = reply /\ table' = table /\ cleaned' = cleaned
        /\ excused' = IF Busy(key_of[c]) THEN excused \cup {key_of[c]} ELSE excused
    BY Zenon DEF CheckMiss, get
  <1>2. /\ stage' \in [Caller -> {"new", "delivering", "recording", "done"}]
        /\ \A d \in Caller : stage'[d] = IF d = c THEN "delivering" ELSE stage[d]
    BY Zenon DEF ProcessorInv, CheckMiss
  <1>3. /\ entered' \in [Key -> SUBSET Caller]
        /\ \A k \in Key : entered'[k] = IF k = key_of[c] THEN entered[k] \cup {c} ELSE entered[k]
    BY <1>0, Zenon DEF ProcessorInv, CheckMiss
  <1>4. DuplicatesAgree'
    BY <1>1, Zenon DEF ProcessorInv, DuplicatesAgree, Recorded
  <1>5. ASSUME NEW k \in Key
        PROVE  OneEntered(k)'
    <2>1. CASE k = key_of[c]
      <3>1. Busy(k)'
        BY <1>2, <2>1, Zenon DEF Busy
      <3>2. k \notin excused' => entered[k] = {}
        BY <1>1, <2>1, Zenon DEF ProcessorInv, OneEntered
      <3> QED
        BY <1>3, <2>1, <3>1, <3>2, Zenon DEF OneEntered
    <2>2. CASE k # key_of[c]
      <3>1. Busy(k) => Busy(k)'
        BY <1>1, <1>2, Zenon DEF Busy
      <3>2. k \notin excused' => k \notin excused
        BY <1>1, Zenon
      <3> QED
        BY <1>1, <1>3, <2>2, <3>1, <3>2, Zenon DEF ProcessorInv, OneEntered, Recorded
    <2> QED
      BY <2>1, <2>2, Zenon
  <1> QED
    BY <1>1, <1>2, <1>3, <1>4, <1>5, Zenon DEF ProcessorInv

\* The deliverer's steps: a busy call stays busy.
LEMMA DeliverKeeps ==
  ASSUME ProcessorInv, NEW c \in Caller, Deliver(c)
  PROVE  ProcessorInv'
  <1>1. /\ stage[c] = "delivering" /\ reply' = reply /\ table' = table
        /\ entered' = entered /\ excused' = excused /\ cleaned' = cleaned
        /\ stage' = stage \/ stage' = [stage EXCEPT ![c] = "recording"]
    BY Zenon DEF Deliver
  <1>2. /\ stage' \in [Caller -> {"new", "delivering", "recording", "done"}]
        /\ \A d \in Caller : stage'[d] = stage[d] \/ (d = c /\ stage'[d] = "recording")
    BY <1>1, Zenon DEF ProcessorInv
  <1>3. ASSUME NEW k \in Key
        PROVE  OneEntered(k)'
    <2>1. Busy(k) => Busy(k)'
      BY <1>2, Zenon DEF Busy
    <2> QED
      BY <1>1, <2>1, Zenon DEF ProcessorInv, OneEntered, Recorded
  <1> QED
    BY <1>1, <1>2, <1>3, Zenon DEF ProcessorInv, DuplicatesAgree, Recorded

\* The end of a call: its key has a record afterwards, or it is excused, or the
\* call had not entered.
LEMMA CallEndsKeeps ==
  ASSUME ProcessorInv, NEW c \in Caller,
         CheckFails(c) \/ Record(c) \/ RecordFails(c) \/ AbandonDelivery(c) \/ AbandonRecord(c)
  PROVE  ProcessorInv'
  <1>0. key_of[c] \in Key
    BY ProcessorAssumption, Zenon
  <1>1. PICK r : Reply(c, r) /\ r.duplicate = FALSE
    BY DEF CheckFails, Record, RecordFails, AbandonDelivery, AbandonRecord,
       StorageError, First, Lost
  <1>2. /\ entered' = entered /\ cleaned' = cleaned
        /\ table' = table \/ table' = record(key_of[c], outcome[c])
    BY Zenon DEF CheckFails, Record, RecordFails, AbandonDelivery, AbandonRecord
  <1>3. DOMAIN table \subseteq DOMAIN table' /\ \A j \in DOMAIN table : table'[j] = table[j]
    <2>1. CASE table' = table
      BY <2>1, Zenon
    <2>2. CASE table' = record(key_of[c], outcome[c])
      <3>1. /\ DOMAIN record(key_of[c], outcome[c]) = DOMAIN table \cup {key_of[c]}
            /\ \A j \in DOMAIN table : record(key_of[c], outcome[c])[j] = table[j]
        BY Zenon DEF record, Recorded
      <3> QED
        BY <2>2, <3>1, Zenon
    <2> QED
      BY <1>2, <2>1, <2>2, Zenon
  <1>4. /\ excused \subseteq excused'
        /\ \/ stage[c] = "new"
           \/ key_of[c] \in excused'
           \/ key_of[c] \in DOMAIN table'
    <2>1. CASE Record(c)
      <3>1. DOMAIN record(key_of[c], outcome[c]) = DOMAIN table \cup {key_of[c]}
        BY RecordSpec, Zenon
      <3>2. table' = record(key_of[c], outcome[c]) /\ excused' = excused
        BY <2>1, Zenon DEF Record
      <3> QED
        BY <3>1, <3>2, Zenon
    <2>2. CASE CheckFails(c)
      BY <2>2, Zenon DEF CheckFails
    <2>3. CASE RecordFails(c) \/ AbandonDelivery(c) \/ AbandonRecord(c)
      BY <2>3, Zenon DEF RecordFails, AbandonDelivery, AbandonRecord
    <2> QED
      BY <2>1, <2>2, <2>3, Zenon
  <1>5. /\ stage' \in [Caller -> {"new", "delivering", "recording", "done"}]
        /\ \A d \in Caller : stage'[d] = IF d = c THEN "done" ELSE stage[d]
        /\ DOMAIN reply' = Caller /\ DuplicatesAgree'
    BY <1>1, <1>2, <1>3, OtherReplyKeeps, ZenonT(30)
  <1>6. ASSUME NEW k \in Key, k \notin excused'
        PROVE  OneEntered(k)'
    <2>1. OneEntered(k) /\ k \notin excused
      BY <1>4, <1>6, Zenon DEF ProcessorInv
    <2>2. Recorded(k) => Recorded(k)'
      BY <1>3, Zenon DEF Recorded
    <2>3. Busy(k) => Busy(k)' \/ Recorded(k)'
      <3> SUFFICES ASSUME NEW d \in Caller, key_of[d] = k,
                          stage[d] \in {"delivering", "recording"}
                   PROVE  Busy(k)' \/ Recorded(k)'
        BY Zenon DEF Busy
      <3>1. CASE d = c
        BY <1>4, <1>6, <3>1, Zenon DEF Recorded
      <3>2. CASE d # c
        BY <1>5, <3>2, Zenon DEF Busy
      <3> QED
        BY <3>1, <3>2, Zenon
    <2> QED
      BY <1>2, <2>1, <2>2, <2>3, Zenon DEF OneEntered
  <1>7. \A k \in Key : OneEntered(k)'
    BY <1>6, Zenon DEF OneEntered
  <1> QED
    BY <1>2, <1>5, <1>7, Zenon DEF ProcessorInv

\* A row that is cleaned up makes its key excused and cleaned.
LEMMA CleanupKeeps ==
  ASSUME ProcessorInv, NEW k \in Key, cleanup_old_records(k)
  PROVE  ProcessorInv'
  <1>1. /\ stage' = stage /\ reply' = reply /\ entered' = entered
        /\ excused' = excused \cup {k} /\ cleaned' = cleaned \cup {k}
        /\ DOMAIN table' = DOMAIN table \ {k}
        /\ \A j \in DOMAIN table \ {k} : table'[j] = table[j]
    BY Zenon DEF cleanup_old_records
  <1>2. DuplicatesAgree'
    BY <1>1, Zenon DEF ProcessorInv, DuplicatesAgree, Recorded
  <1>3. ASSUME NEW j \in Key
        PROVE  OneEntered(j)'
    <2>1. CASE j = k
      BY <1>1, <2>1, Zenon DEF OneEntered
    <2>2. CASE j # k
      BY <1>1, <2>2 DEF ProcessorInv, OneEntered, Recorded, Busy
    <2> QED
      BY <2>1, <2>2, Zenon
  <1> QED
    BY <1>1, <1>2, <1>3, Zenon DEF ProcessorInv

\* A crash makes the keys of all running calls excused.
LEMMA CrashKeeps ==
  ASSUME ProcessorInv, Crash
  PROVE  ProcessorInv'
  <1> DEFINE running == {c \in Caller : stage[c] \in {"delivering", "recording"}}
  <1>1. /\ stage' = [c \in Caller |-> IF c \in running THEN "done" ELSE stage[c]]
        /\ reply' = [c \in Caller |-> IF c \in running THEN Lost ELSE reply[c]]
        /\ excused' = excused \cup {key_of[c] : c \in running}
        /\ table' = table /\ entered' = entered /\ cleaned' = cleaned
    BY Zenon DEF Crash
  <1>2. stage' \in [Caller -> {"new", "delivering", "recording", "done"}]
    BY <1>1, Zenon DEF ProcessorInv
  <1>3. DuplicatesAgree'
    <2> SUFFICES ASSUME NEW d \in Caller, reply'[d].duplicate, key_of[d] \notin cleaned
                 PROVE  key_of[d] \in DOMAIN table /\ reply'[d].response = table[key_of[d]]
      BY <1>1, Zenon DEF DuplicatesAgree, Recorded
    <2>1. reply'[d] = reply[d]
      BY <1>1, Zenon DEF Lost
    <2> QED
      BY <2>1, Zenon DEF ProcessorInv, DuplicatesAgree, Recorded
  <1>4. ASSUME NEW k \in Key, k \notin excused'
        PROVE  OneEntered(k)'
    <2>1. ~Busy(k) /\ k \notin excused
      BY <1>1, <1>4, Zenon DEF Busy
    <2> QED
      BY <1>1, <2>1, Zenon DEF ProcessorInv, OneEntered, Recorded
  <1>5. \A k \in Key : OneEntered(k)'
    BY <1>4, Zenon DEF OneEntered
  <1> QED
    BY <1>1, <1>2, <1>3, <1>5, Zenon DEF ProcessorInv

\* The inductive invariant of the processor.
THEOREM ProcessorInvCorrect == ProcessorSpec => []ProcessorInv
  <1>1. ProcessorInit => ProcessorInv
    BY DEF ProcessorInit, ProcessorInv, OneEntered, DuplicatesAgree, NoReply
  <1>2. ProcessorInv /\ [ProcessorNext]_allVars => ProcessorInv'
    <2> SUFFICES ASSUME ProcessorInv, [ProcessorNext]_allVars
                 PROVE  ProcessorInv'
      BY Zenon
    <2>1. CASE ProcessorTick \/ UNCHANGED allVars
      <3>1. UNCHANGED processing
        BY <2>1, Zenon DEF ProcessorTick, allVars
      <3> QED
        BY <3>1 DEF processing, ProcessorInv, OneEntered, DuplicatesAgree, Recorded, Busy
    <2> QED
      BY <2>1, CheckHitKeeps, CheckMissKeeps, DeliverKeeps, CallEndsKeeps, CleanupKeeps,
         CrashKeeps, Zenon DEF ProcessorNext
  <1> QED
    BY <1>1, <1>2, PTL DEF ProcessorSpec

\* The types, and the deliverer's variables being indexed by the calls.
ProcessorTypes == ProcessorTypeOK /\ DOMAIN pc = Caller /\ DOMAIN outcome = Caller

\* What process can reply.
Replies == [duplicate : BOOLEAN, response : Outcome \cup {"none", "lost", "StorageError"}]

\* The replies that a call can get are replies.
LEMMA RepliesTyped ==
  /\ NoReply \in Replies /\ Lost \in Replies /\ StorageError \in Replies
  /\ \A o \in Outcome : First(o) \in Replies /\ Duplicate(o) \in Replies
  BY Zenon DEF Replies, NoReply, Lost, StorageError, First, Duplicate

\* A call that ends with a reply.
LEMMA ReplyTyped ==
  ASSUME ProcessorTypes, NEW c \in Caller, NEW r \in Replies, Reply(c, r)
  PROVE  /\ stage' \in [Caller -> {"new", "delivering", "recording", "done"}]
         /\ reply' \in [Caller -> Replies]
         /\ \A d \in Caller : stage'[d] = "recording" => stage[d] = "recording" /\ d # c
  BY Zenon DEF ProcessorTypes, ProcessorTypeOK, Reply, Replies

\* A step of deliver leaves the results of the other calls as they are.
LEMMA ResultsOfOthers ==
  ASSUME DOMAIN pc = Caller, DOMAIN outcome = Caller, NEW c \in Caller,
         Attempt(c) \/ SendOk(c) \/ SendErr(c) \/ Wake(c) \/ Cancel(c)
  PROVE  /\ DOMAIN pc' = Caller /\ DOMAIN outcome' = Caller
         /\ \A d \in Caller : d # c => outcome'[d] = outcome[d]
  <1>1. CASE Attempt(c)
    BY <1>1, Zenon DEF Attempt, Return
  <1>2. CASE SendOk(c)
    BY <1>2, Zenon DEF SendOk, Return
  <1>3. CASE SendErr(c)
    BY <1>3, Zenon DEF SendErr, Return
  <1>4. CASE Wake(c)
    BY <1>4, Zenon DEF Wake
  <1>5. CASE Cancel(c)
    BY <1>5, Zenon DEF Cancel, Return
  <1> QED
    BY <1>1, <1>2, <1>3, <1>4, <1>5, Zenon

\* The lookup.
LEMMA CheckTypes ==
  ASSUME ProcessorTypes, NEW c \in Caller, CheckHit(c) \/ CheckMiss(c) \/ CheckFails(c)
  PROVE  ProcessorTypes'
  <1>0. key_of[c] \in Key /\ pc' = pc /\ outcome' = outcome
    BY ProcessorAssumption, Zenon DEF CheckHit, CheckMiss, CheckFails, vars, delivery
  <1>1. CASE CheckHit(c)
    <2>1. PICK response \in get(key_of[c]) : Reply(c, Duplicate(response))
      BY <1>1, Zenon DEF CheckHit
    <2>2. response \in Outcome
      BY <2>1 DEF get, Recorded, ProcessorTypes, ProcessorTypeOK
    <2>3. Duplicate(response) \in Replies
      BY <2>2, RepliesTyped, Zenon
    <2>4. PICK r : r = Duplicate(response)
      BY Zenon
    <2>5. /\ stage' \in [Caller -> {"new", "delivering", "recording", "done"}]
          /\ reply' \in [Caller -> Replies]
          /\ \A d \in Caller : stage'[d] = "recording" => stage[d] = "recording" /\ d # c
      BY <2>1, <2>3, <2>4, ReplyTyped, Zenon
    <2> QED
      BY <1>0, <1>1, <2>5, Zenon DEF CheckHit, ProcessorTypes, ProcessorTypeOK, Replies
  <1>2. CASE CheckMiss(c)
    <2>1. /\ stage' \in [Caller -> {"new", "delivering", "recording", "done"}]
          /\ \A d \in Caller : stage'[d] = "recording" => stage[d] = "recording"
          /\ entered' \in [Key -> SUBSET Caller]
      BY <1>0, <1>2, Zenon DEF CheckMiss, ProcessorTypes, ProcessorTypeOK
    <2>2. excused \subseteq excused' /\ excused' \subseteq Key
      BY <1>0, <1>2, Zenon DEF CheckMiss, ProcessorTypes, ProcessorTypeOK
    <2> QED
      BY <1>0, <1>2, <2>1, <2>2, Zenon DEF CheckMiss, ProcessorTypes, ProcessorTypeOK
  <1>3. CASE CheckFails(c)
    <2>1. PICK r \in Replies : r = StorageError
      BY RepliesTyped, Zenon
    <2>2. /\ stage' \in [Caller -> {"new", "delivering", "recording", "done"}]
          /\ reply' \in [Caller -> Replies]
          /\ \A d \in Caller : stage'[d] = "recording" => stage[d] = "recording" /\ d # c
      BY <1>3, <2>1, ReplyTyped, Zenon DEF CheckFails
    <2> QED
      BY <1>0, <1>3, <2>2, Zenon DEF CheckFails, ProcessorTypes, ProcessorTypeOK, Replies
  <1> QED
    BY <1>1, <1>2, <1>3, Zenon

\* A step of the delivery.
LEMMA DeliverTypes ==
  ASSUME ProcessorTypes, NEW c \in Caller, Deliver(c)
  PROVE  ProcessorTypes'
  <1>1. /\ DOMAIN pc' = Caller /\ DOMAIN outcome' = Caller
        /\ \A d \in Caller : d # c => outcome'[d] = outcome[d]
    BY ResultsOfOthers, Zenon DEF ProcessorTypes, Deliver
  <1>2. ASSUME pc'[c] = "returned" PROVE outcome'[c] \in Outcome
    BY <1>2, Zenon DEF Deliver, Attempt, SendOk, SendErr, Wake, Return, Outcome, ProcessorTypes
  <1>3. stage' \in [Caller -> {"new", "delivering", "recording", "done"}]
    BY Zenon DEF Deliver, ProcessorTypes, ProcessorTypeOK
  <1>4. ASSUME NEW d \in Caller, stage'[d] = "recording"
        PROVE  outcome'[d] \in Outcome
    <2>1. CASE d = c
      <3>1. pc'[c] = "returned"
        BY <1>4, <2>1, Zenon DEF Deliver
      <3> QED
        BY <1>2, <2>1, <3>1, Zenon
    <2>2. CASE d # c
      <3>1. stage[d] = "recording"
        BY <1>4, <2>2, Zenon DEF Deliver, ProcessorTypes, ProcessorTypeOK
      <3> QED
        BY <1>1, <2>2, <3>1, Zenon DEF ProcessorTypes, ProcessorTypeOK
    <2> QED
      BY <2>1, <2>2, Zenon
  <1>5. UNCHANGED <<reply, table, entered, excused, cleaned>>
    BY Zenon DEF Deliver
  <1> QED
    BY <1>1, <1>3, <1>4, <1>5, Zenon DEF ProcessorTypes, ProcessorTypeOK

\* A call that ends while it delivers or records.
LEMMA EndTypes ==
  ASSUME ProcessorTypes, NEW c \in Caller,
         Record(c) \/ RecordFails(c) \/ AbandonDelivery(c) \/ AbandonRecord(c)
  PROVE  ProcessorTypes'
  <1>0. key_of[c] \in Key
    BY ProcessorAssumption, Zenon
  <1>1. PICK r \in Replies : Reply(c, r)
    BY RepliesTyped, Zenon DEF Record, RecordFails, AbandonDelivery, AbandonRecord, ProcessorTypes,
       ProcessorTypeOK
  <1>2. /\ stage' \in [Caller -> {"new", "delivering", "recording", "done"}]
        /\ reply' \in [Caller -> Replies]
        /\ \A d \in Caller : stage'[d] = "recording" => stage[d] = "recording" /\ d # c
    BY <1>1, ReplyTyped, Zenon
  <1>3. /\ DOMAIN pc' = Caller /\ DOMAIN outcome' = Caller
        /\ \A d \in Caller : d # c => outcome'[d] = outcome[d]
    <2>1. CASE AbandonDelivery(c)
      BY <2>1, ResultsOfOthers, Zenon DEF AbandonDelivery, ProcessorTypes
    <2>2. CASE Record(c) \/ RecordFails(c) \/ AbandonRecord(c)
      BY <2>2, Zenon DEF Record, RecordFails, AbandonRecord, vars, delivery, ProcessorTypes
    <2> QED
      BY <2>1, <2>2, Zenon
  <1>4. \A d \in Caller : stage'[d] = "recording" => outcome'[d] \in Outcome
    BY <1>2, <1>3, Zenon DEF ProcessorTypes, ProcessorTypeOK
  <1>5. DOMAIN table' \subseteq Key /\ table' \in [DOMAIN table' -> Outcome]
    <2>1. CASE Record(c)
      <3>1. table' = record(key_of[c], outcome[c]) /\ outcome[c] \in Outcome
        BY <2>1, Zenon DEF Record, ProcessorTypes, ProcessorTypeOK
      <3> QED
        BY <1>0, <3>1, Zenon DEF record, Recorded, ProcessorTypes, ProcessorTypeOK
    <2>2. CASE table' = table
      BY <2>2, Zenon DEF ProcessorTypes, ProcessorTypeOK
    <2> QED
      BY <2>1, <2>2, Zenon DEF RecordFails, AbandonDelivery, AbandonRecord
  <1>6. excused \subseteq excused' /\ excused' \subseteq Key /\ UNCHANGED <<entered, cleaned>>
    BY <1>0, Zenon DEF Record, RecordFails, AbandonDelivery, AbandonRecord, ProcessorTypes, ProcessorTypeOK
  <1> QED
    BY <1>2, <1>3, <1>4, <1>5, <1>6, Zenon DEF ProcessorTypes, ProcessorTypeOK, Replies

\* A row is cleaned up, or the service restarts.
LEMMA LossTypes ==
  ASSUME ProcessorTypes, Crash \/ \E k \in Key : cleanup_old_records(k)
  PROVE  ProcessorTypes'
  <1>1. ASSUME NEW k \in Key, cleanup_old_records(k) PROVE ProcessorTypes'
    <2>1. DOMAIN table' \subseteq Key /\ table' \in [DOMAIN table' -> Outcome]
      BY <1>1, Zenon DEF cleanup_old_records, ProcessorTypes, ProcessorTypeOK
    <2> QED
      BY <1>1, <2>1, Zenon DEF cleanup_old_records, vars, delivery, ProcessorTypes, ProcessorTypeOK
  <1>2. CASE Crash
    <2> DEFINE running == {c \in Caller : stage[c] \in {"delivering", "recording"}}
    <2>1. /\ stage' = [c \in Caller |-> IF c \in running THEN "done" ELSE stage[c]]
          /\ reply' = [c \in Caller |-> IF c \in running THEN Lost ELSE reply[c]]
          /\ pc' = [c \in Caller |-> IF c \in running THEN "returned" ELSE pc[c]]
          /\ excused' = excused \cup {key_of[c] : c \in running}
          /\ UNCHANGED <<outcome, table, entered, cleaned>>
      BY <1>2, Zenon DEF Crash
    <2>2. /\ stage' \in [Caller -> {"new", "delivering", "recording", "done"}]
          /\ \A d \in Caller : stage'[d] # "recording"
      BY <2>1, Zenon DEF ProcessorTypes, ProcessorTypeOK
    <2>3. reply' \in [Caller -> Replies]
      BY <2>1, RepliesTyped, Zenon DEF ProcessorTypes, ProcessorTypeOK, Replies
    <2>4. excused' \subseteq Key /\ cleaned' \subseteq excused'
      BY <2>1, ProcessorAssumption DEF ProcessorTypes, ProcessorTypeOK
    <2> QED
      BY <2>1, <2>2, <2>3, <2>4, Zenon DEF ProcessorTypes, ProcessorTypeOK, Replies
  <1> QED
    BY <1>1, <1>2, Zenon

\* A call records only a result that deliver returned, the table never holds
\* anything else, and a key whose row was cleaned up is excused (processor.rs,
\* idempotency.rs).
THEOREM ProcessorTypeCorrect == ProcessorSpec => []ProcessorTypeOK
  <1>1. ProcessorInit => ProcessorTypes
    <2> SUFFICES ASSUME ProcessorInit PROVE ProcessorTypes
      BY Zenon
    <2>1. reply \in [Caller -> Replies]
      BY RepliesTyped, Zenon DEF ProcessorInit
    <2> QED
      BY <2>1, Zenon DEF ProcessorInit, Init, ProcessorTypes, ProcessorTypeOK, Replies
  <1>2. ProcessorTypes /\ [ProcessorNext]_allVars => ProcessorTypes'
    <2> SUFFICES ASSUME ProcessorTypes, [ProcessorNext]_allVars
                 PROVE  ProcessorTypes'
      BY Zenon
    <2>1. CASE ProcessorTick \/ UNCHANGED allVars
      <3>1. UNCHANGED processing /\ UNCHANGED delivery
        BY <2>1, Zenon DEF ProcessorTick, DelivererTick, allVars, vars
      <3> QED
        BY <3>1, Zenon DEF processing, delivery, ProcessorTypes, ProcessorTypeOK
    <2> QED
      BY <2>1, CheckTypes, DeliverTypes, EndTypes, LossTypes, Zenon DEF ProcessorNext
  <1>3. ProcessorTypes => ProcessorTypeOK
    BY Zenon DEF ProcessorTypes
  <1> QED
    BY <1>1, <1>2, <1>3, PTL DEF ProcessorSpec

\* For any number of calls and keys, with crashes, lost calls and clean-ups, a
\* payload is delivered again only for a cause (RepeatHasCause).
THEOREM RepeatCorrect == ProcessorSpec => []RepeatHasCause
  <1>1. ProcessorInv => RepeatHasCause
    <2> SUFFICES ASSUME ProcessorInv, NEW k \in Key, k \notin excused
                 PROVE  ~(Cardinality(entered[k]) > 1)
      BY Zenon DEF RepeatHasCause
    <2>1. \A c, d \in entered[k] : c = d
      BY Zenon DEF ProcessorInv, OneEntered
    <2>2. CASE entered[k] = {}
      BY <2>2, FS_EmptySet
    <2>3. CASE entered[k] # {}
      <3>1. PICK c : entered[k] = {c}
        BY <2>1, <2>3, Zenon
      <3>2. Cardinality(entered[k]) = 1
        BY <3>1, FS_Singleton, Zenon
      <3> QED
        BY <3>2
    <2> QED
      BY <2>2, <2>3, Zenon
  <1> QED
    BY <1>1, ProcessorInvCorrect, PTL

\* Duplicates get the recorded response (DuplicatesAgree), whichever of several
\* overlapping calls recorded first.
THEOREM DuplicatesCorrect == ProcessorSpec => []DuplicatesAgree
  <1>1. ProcessorInv => DuplicatesAgree
    BY Zenon DEF ProcessorInv
  <1> QED
    BY <1>1, ProcessorInvCorrect, PTL

-----------------------------------------------------------------------------
(* The receiver of webhooks.                                               *)

\* A signature under the shared secret belongs to a body that the anchor sent,
\* whatever body it now travels with.
ReceiverInv ==
  /\ ReceiverTypeOK
  /\ acted \subseteq announced
  /\ \A r \in wire : r.header.mac[1] = secret => r.header.mac[2] \in announced

\* Every step keeps the invariant.
LEMMA ReceiverInvKept ==
  ASSUME ReceiverInv, [ReceiverNext]_receiverVars
  PROVE  ReceiverInv'
<1> USE DEF ReceiverInv, ReceiverTypeOK
<1>1. ASSUME NEW s \in Secret, NEW payload \in Notification
      PROVE  /\ [body |-> payload, header |-> compute_signature(s, payload)] \in Request
             /\ compute_signature(s, payload).mac[1] = s
             /\ compute_signature(s, payload).mac[2] = payload
  BY Zenon DEF Request, Header, HeaderText, Hmac, compute_signature
<1>2. ASSUME NEW payload \in Notification, Send(payload)
      PROVE  ReceiverInv'
  BY <1>1, <1>2, ReceiverAssumption DEF Send
<1>3. ASSUME NEW s \in Secret, NEW payload \in Notification, SendOther(s, payload)
      PROVE  ReceiverInv'
  BY <1>1, <1>3 DEF SendOther
<1>4. CASE Transit
  <2>1. PICK r \in wire, payload \in Notification, text \in HeaderText :
          /\ wire' = {[body |-> payload, header |-> [r.header EXCEPT !.text = text]]}
          /\ UNCHANGED <<announced, acted>>
    BY <1>4, Zenon DEF Transit
  <2> DEFINE h == [r.header EXCEPT !.text = text]
  <2>2. h \in Header /\ h.mac = r.header.mac
    BY Zenon DEF Request, Header
  <2>3. wire' = {[body |-> payload, header |-> h]} /\ UNCHANGED <<announced, acted>>
    BY <2>1, Zenon
  <2> HIDE DEF h
  <2>4. [body |-> payload, header |-> h] \in Request
    BY <2>2, Zenon DEF Request
  <2>5. r.header.mac[1] = secret => r.header.mac[2] \in announced
    BY Zenon
  <2>6. QED
    BY <2>2, <2>3, <2>4, <2>5
<1>5. ASSUME NEW r \in wire, Receive(r)
      PROVE  ReceiverInv'
  <2>1. ASSUME verify_optional_header(r.body, r.header) = "Ok"
        PROVE  r.body \in announced /\ r.body \in Notification
    <3>1. r.header.mac = <<secret, r.body>>
      BY <2>1, Zenon DEF verify_optional_header, verify_signature
    <3>2. r.header.mac[1] = secret /\ r.header.mac[2] = r.body
      BY <3>1
    <3>3. QED
      BY <3>2, Zenon
  <2>2. QED
    BY <1>5, <2>1, Zenon DEF Receive
<1>6. CASE UNCHANGED receiverVars
  BY <1>6, Zenon DEF receiverVars
<1>7. QED
  BY <1>2, <1>3, <1>4, <1>5, <1>6, Zenon DEF ReceiverNext

\* The invariant of the receiver holds in every reachable state.
THEOREM ReceiverInvCorrect == ReceiverSpec => []ReceiverInv
<1>1. ReceiverInit => ReceiverInv
  BY Zenon DEF ReceiverInit, ReceiverInv, ReceiverTypeOK
<1>2. ReceiverInv /\ [ReceiverNext]_receiverVars => ReceiverInv'
  BY ReceiverInvKept, Zenon
<1>3. QED
  BY <1>1, <1>2, PTL DEF ReceiverSpec

\* Types of the receiver (verification.rs).
THEOREM ReceiverTypeCorrect == ReceiverSpec => []ReceiverTypeOK
<1>1. ReceiverInv => ReceiverTypeOK
  BY Zenon DEF ReceiverInv
<1>2. QED
  BY <1>1, ReceiverInvCorrect, PTL

\* For all secrets and notifications: a receiver acts only on what the anchor sent,
\* and lets through what still carries the signature of its body (AcceptedWasSent).
THEOREM AcceptedCorrect == ReceiverSpec => []AcceptedWasSent
<1>1. ReceiverInv => AcceptedWasSent
  BY Zenon DEF ReceiverInv, AcceptedWasSent, verify_optional_header, verify_signature
<1>2. QED
  BY <1>1, ReceiverInvCorrect, PTL

-----------------------------------------------------------------------------
(* Log redaction *)

\* What the walk makes of the value at a path.
Expected(path) == IF Hidden(path) THEN REDACTED ELSE body[path]

\* Every path of the body has been copied or lies under a pending call.
Reached ==
  \A q \in DOMAIN body :
    q \in DOMAIN copy \/ \E n \in 0..Len(q) : SubSeq(q, 1, n) \in todo

CopyInv ==
  /\ IsJson(body)
  /\ todo \subseteq DOMAIN body
  /\ DOMAIN copy \subseteq DOMAIN body
  /\ copy = [path \in DOMAIN copy |-> Expected(path)]

WalkStarted == todo # {} \/ DOMAIN copy # {}

RedactionInv ==
  /\ CopyInv
  /\ WalkStarted => redact /\ Reached
  /\ LoggedLeafByLeaf
  /\ headers = [name \in DOMAIN headers |-> headers[name]]

\* What one call writes is what the rules ask for.
LEMMA CallWrites ==
  ASSUME IsJson(body), NEW path \in DOMAIN body
  PROVE  (IF UnderSensitiveKey(path) THEN redact_scalar_or_recurse(body[path])
          ELSE redact_value(body[path])) = Expected(path)
<1> DEFINE v == body[path]
<1>1. v \in Value
  BY Zenon DEF IsJson
<1>2. /\ v.t \in {"object", "array", "null", "number", "string"}
      /\ v \in Node <=> v.t \in {"object", "array"}
  <2>1. CASE v \in String
    BY <2>1 DEF String, Node
  <2>2. CASE v \in Node \cup {[t |-> "null"], [t |-> "number"]}
    BY <2>2 DEF Node
  <2>3. QED
    BY <1>1, <2>1, <2>2, Zenon DEF Value
<1>3. is_jwt_shaped(v) => v.t = "string"
  BY Zenon DEF is_jwt_shaped
<1>4. QED
  BY <1>2, <1>3, Zenon DEF Expected, Hidden, redact_scalar_or_recurse, redact_value

\* A path under the call that returns is its own, or lies under a member's.
LEMMA UnderMember ==
  ASSUME IsJson(body), NEW q \in DOMAIN body, NEW n \in 0..Len(q),
         q # SubSeq(q, 1, n)
  PROVE  LET path == SubSeq(q, 1, n)
         IN  /\ body[path] \in Node
             /\ n + 1 \in 0..Len(q)
             /\ SubSeq(q, 1, n + 1) \in MembersAt(body, path)
<1>1. q \in Seq(JsonKey) /\ Len(q) \in Nat
  BY DEF IsJson
<1>2. SubSeq(q, 1, Len(q)) = q
  BY <1>1
<1>3. n # Len(q)
  BY <1>2, Zenon
<1>4. n \in 0..(Len(q) - 1) /\ n + 1 \in 0..Len(q)
  BY <1>1, <1>3
<1>5. body[SubSeq(q, 1, n)] \in Node
  BY <1>4, Zenon DEF IsJson
<1>6. SubSeq(q, 1, n + 1) \in DOMAIN body
  <2>1. CASE n + 1 = Len(q)
    BY <1>2, <2>1, Zenon
  <2>2. CASE n + 1 # Len(q)
    <3>1. n + 1 \in 0..(Len(q) - 1)
      BY <1>1, <1>4, <2>2
    <3>2. QED
      BY <3>1, Zenon DEF IsJson
  <2>3. QED
    BY <2>1, <2>2, Zenon
<1>7. /\ SubSeq(q, 1, n) \in Seq(JsonKey) /\ Len(SubSeq(q, 1, n)) = n
      /\ SubSeq(q, 1, n + 1) \in Seq(JsonKey) /\ Len(SubSeq(q, 1, n + 1)) = n + 1
  BY <1>1, <1>4
<1>8. SubSeq(SubSeq(q, 1, n + 1), 1, n) = SubSeq(q, 1, n)
  BY <1>1, <1>4, <1>7
<1>9. QED
  BY <1>4, <1>5, <1>6, <1>7, <1>8, ZenonT(30) DEF MembersAt

\* A call of redact_body keeps the invariant.
LEMMA CallKeeps == RedactionInv /\ redact_body => RedactionInv'
<1> SUFFICES ASSUME RedactionInv, redact_body PROVE RedactionInv'
  BY Zenon
<1>1. PICK path : path = CHOOSE q \in todo : TRUE
  BY Zenon
<1>2. path \in todo
  BY <1>1, Zenon DEF redact_body
<1> DEFINE v == body[path]
           out == IF UnderSensitiveKey(path) THEN redact_scalar_or_recurse(v)
                  ELSE redact_value(v)
<1>3. /\ copy' = [q \in DOMAIN copy \cup {path} |-> IF q = path THEN out ELSE copy[q]]
      /\ todo' = (todo \ {path})
                   \cup (IF v \in Node THEN MembersAt(body, path) ELSE {})
      /\ UNCHANGED <<redact, headers, body, line>>
  BY <1>1, Zenon DEF redact_body
<1>4. out = Expected(path)
  BY <1>2, CallWrites, Zenon DEF RedactionInv, CopyInv
<1> HIDE DEF out
<1>5. CopyInv'
  <2>1. IsJson(body) /\ body' = body /\ \A q : Expected(q)' = Expected(q)
    BY <1>3, Zenon DEF RedactionInv, CopyInv, Expected, Hidden
  <2>2. todo' \subseteq DOMAIN body
    BY <1>3, Zenon DEF RedactionInv, CopyInv, MembersAt
  <2>3. DOMAIN copy' \subseteq DOMAIN body
    BY <1>2, <1>3, Zenon DEF RedactionInv, CopyInv
  <2>4. copy' = [q \in DOMAIN copy' |-> Expected(q)]
    <3>1. \A q \in DOMAIN copy : copy[q] = Expected(q)
      BY Zenon DEF RedactionInv, CopyInv
    <3>2. DOMAIN copy' = DOMAIN copy \cup {path}
      BY <1>3, Zenon
    <3>3. \A q \in DOMAIN copy' : copy'[q] = Expected(q)
      BY <1>3, <1>4, <3>1, Zenon
    <3>4. copy' = [q \in DOMAIN copy' |-> copy'[q]]
      BY <1>3, Zenon
    <3>5. QED
      BY <3>3, <3>4, Zenon
  <2>5. QED
    BY <2>1, <2>2, <2>3, <2>4, Zenon DEF CopyInv, IsJson
<1>6. redact /\ Reached
  BY <1>2, Zenon DEF RedactionInv, WalkStarted
<1>7. Reached'
  <2> SUFFICES ASSUME NEW q \in DOMAIN body, q \notin DOMAIN copy'
               PROVE  \E n \in 0..Len(q) : SubSeq(q, 1, n) \in todo'
    BY <1>3, Zenon DEF Reached
  <2>1. q \notin DOMAIN copy /\ q # path
    BY <1>3, Zenon
  <2>2. PICK n \in 0..Len(q) : SubSeq(q, 1, n) \in todo
    BY <1>6, <2>1, Zenon DEF Reached
  <2>3. CASE SubSeq(q, 1, n) # path
    BY <1>3, <2>2, <2>3, Zenon
  <2>4. CASE SubSeq(q, 1, n) = path
    BY <1>3, <2>1, <2>4, UnderMember, ZenonT(30) DEF RedactionInv, CopyInv
  <2>5. QED
    BY <2>3, <2>4, Zenon
<1>8. LoggedLeafByLeaf'
  BY <1>3 DEF RedactionInv, LoggedLeafByLeaf, HiddenHeader, Hidden
<1>9. redact'
  BY <1>3, <1>6, Zenon
<1>10. QED
  BY <1>3, <1>5, <1>7, <1>8, <1>9, Zenon DEF RedactionInv

\* The line is written when the copy is complete.
LEMMA LineKeeps == RedactionInv /\ write_line => RedactionInv'
<1> SUFFICES ASSUME RedactionInv, write_line PROVE RedactionInv'
  BY Zenon
<1>1. /\ todo = {} /\ DOMAIN copy # {}
      /\ line' = [headers |-> redact_headers(headers), body |-> copy]
      /\ UNCHANGED <<redact, headers, body, todo, copy>>
  BY Zenon DEF write_line
<1>2. redact /\ Reached
  BY <1>1, Zenon DEF RedactionInv, WalkStarted
<1>3. DOMAIN copy = DOMAIN body
  BY <1>1, <1>2, Zenon DEF Reached, RedactionInv, CopyInv
<1>4. copy = [path \in DOMAIN body |-> IF redact /\ Hidden(path) THEN REDACTED
                                       ELSE body[path]]
  BY <1>2, <1>3, Zenon DEF RedactionInv, CopyInv, Expected
<1>5. redact_headers(headers) =
        [name \in DOMAIN headers |->
           IF redact /\ HiddenHeader(name) THEN REDACTED ELSE headers[name]]
  BY <1>2, Zenon DEF redact_headers, HiddenHeader
<1>6. LoggedLeafByLeaf'
  BY <1>1, <1>4, <1>5, Zenon DEF LoggedLeafByLeaf, HiddenHeader, Hidden
<1>7. CopyInv' /\ (WalkStarted => redact /\ Reached)'
  BY <1>1, ZenonT(60) DEF RedactionInv, CopyInv, WalkStarted, Reached, Expected, Hidden
<1>8. QED
  BY <1>1, <1>6, <1>7, Zenon DEF RedactionInv

\* Every step keeps the invariant of the walk.
LEMMA RedactionInvKept == RedactionInv /\ [RedactionNext]_redactionVars => RedactionInv'
<1> SUFFICES ASSUME RedactionInv, [RedactionNext]_redactionVars PROVE RedactionInv'
  BY Zenon
<1>1. CASE redact_body
  BY <1>1, CallKeeps, Zenon
<1>2. CASE write_line
  BY <1>2, LineKeeps, Zenon
<1>3. CASE UNCHANGED redactionVars
  BY <1>3 DEF RedactionInv, CopyInv, WalkStarted, Reached, Expected, Hidden,
              LoggedLeafByLeaf, HiddenHeader, redactionVars
<1>4. CASE log_request /\ redact
  <2>1. /\ todo' = {<< >>} /\ UNCHANGED <<redact, headers, body, copy, line>>
        /\ redact
    BY <1>4, Zenon DEF log_request
  <2>2. << >> \in DOMAIN body
    BY Zenon DEF RedactionInv, CopyInv, IsJson
  <2>3. CopyInv'
    BY <2>1, <2>2, ZenonT(60) DEF RedactionInv, CopyInv, Expected, Hidden
  <2>4. Reached'
    <3> SUFFICES ASSUME NEW q \in DOMAIN body
                 PROVE  0 \in 0..Len(q) /\ SubSeq(q, 1, 0) = << >>
      BY <2>1, Zenon DEF Reached
    <3>1. q \in Seq(JsonKey)
      BY Zenon DEF RedactionInv, CopyInv, IsJson
    <3>2. QED
      BY <3>1
  <2>5. LoggedLeafByLeaf' /\ redact'
    BY <2>1, ZenonT(60) DEF RedactionInv, LoggedLeafByLeaf, HiddenHeader, Hidden
  <2>6. QED
    BY <2>1, <2>3, <2>4, <2>5, Zenon DEF RedactionInv
<1>5. CASE log_request /\ ~redact
  <2>1. /\ line' = [headers |-> headers, body |-> body] /\ ~redact
        /\ UNCHANGED <<redact, headers, body, todo, copy>>
    BY <1>5, Zenon DEF log_request
  <2>2. CopyInv' /\ (WalkStarted => redact /\ Reached)'
    BY <2>1, Zenon DEF RedactionInv, CopyInv, WalkStarted, Reached, Expected, Hidden
  <2>3. headers = [name \in DOMAIN headers |-> headers[name]]
    BY Zenon DEF RedactionInv
  <2>4. body = [path \in DOMAIN body |-> body[path]]
    BY Zenon DEF RedactionInv, CopyInv, IsJson
  <2>5. LoggedLeafByLeaf'
    BY <2>1, <2>3, <2>4, Zenon DEF LoggedLeafByLeaf
  <2>6. QED
    BY <2>1, <2>2, <2>5, Zenon DEF RedactionInv
<1>6. QED
  BY <1>1, <1>2, <1>3, <1>4, <1>5, Zenon DEF RedactionNext

\* A logged line shows every leaf and every header that need not be hidden, in
\* its place, and no other, for every body of any depth.
THEOREM LoggedCorrect == RedactionSpec => []LoggedLeafByLeaf
<1>1. RedactionInit => RedactionInv
  <2> SUFFICES ASSUME RedactionInit PROVE RedactionInv
    BY Zenon
  <2>1. IsJson(body)
    BY RedactionAssumption, Zenon DEF RedactionInit
  <2>2. DOMAIN copy = {} /\ copy = [path \in DOMAIN copy |-> Expected(path)]
    BY Zenon DEF RedactionInit
  <2>3. todo = {} /\ line = NotLogged
    BY Zenon DEF RedactionInit
  <2>4. headers = [name \in DOMAIN headers |-> headers[name]]
    BY Zenon DEF RedactionInit
  <2>5. QED
    BY <2>1, <2>2, <2>3, <2>4, Zenon
    DEF RedactionInv, CopyInv, WalkStarted, LoggedLeafByLeaf
<1>2. QED
  BY <1>1, RedactionInvKept, PTL DEF RedactionSpec, RedactionInv

=============================================================================
