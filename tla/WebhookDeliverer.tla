--------------------------- MODULE WebhookDeliverer ---------------------------
(***************************************************************************)
(* WebhookDeliverer::deliver (src/webhook-sdk/src/delivery.rs): concurrent *)
(* deliveries to one destination, each a loop of attempts with backoff,    *)
(* sharing the destination's circuit breaker.  A delivery's future can be  *)
(* dropped at any await.  Backoff and network delays are arbitrary.        *)
(*                                                                         *)
(* A delivery outside Tracked runs without a breaker: none is attached, or *)
(* its URL has no host (circuit_key).                                      *)
(*                                                                         *)
(* A definition whose comment begins "Wrong on purpose" is a plausible     *)
(* mistake in the definition after it; no action uses it.                  *)
(***************************************************************************)
EXTENDS CircuitBreaker

CONSTANTS
  Tracked,     \* the deliveries (callers) that go through the breaker
  max_retries  \* RetryConfig.max_retries

ASSUME DelivererAssumption ==
  /\ Tracked \subseteq Caller
  /\ max_retries \in Nat

VARIABLES
  pc,       \* where each deliver call is
  attempt,  \* delivery.attempt
  sent,     \* how many requests each delivery has put on the network
  outcome   \* what each deliver call returned

delivery == <<pc, attempt, sent, outcome>>
vars == <<breaker, delivery>>

\* Wrong on purpose: one attempt too many.
should_retry_once_more(n) == n <= max_retries

should_retry(n) == n < max_retries

Return(d, result) ==
  /\ pc' = [pc EXCEPT ![d] = "returned"]
  /\ outcome' = [outcome EXCEPT ![d] = result]

\* The head of the loop, up to the await in send.
Attempt(d) ==
  /\ pc[d] = "ready"
  /\ attempt' = [attempt EXCEPT ![d] = @ + 1]
  /\ \/ /\ d \in Tracked /\ refuses
        /\ Return(d, "CircuitOpen")
        /\ UNCHANGED <<breaker, sent>>
     \/ /\ IF d \in Tracked THEN Acquire(d) ELSE UNCHANGED breaker
        /\ pc' = [pc EXCEPT ![d] = "sending"]
        /\ sent' = [sent EXCEPT ![d] = @ + 1]
        /\ UNCHANGED outcome

\* Wrong on purpose: the permit outlives the answer.
SendOkKeepingPermit(d) ==
  /\ pc[d] = "sending"
  /\ IF d \in Tracked THEN record_success(permit[d] = "probe") ELSE UNCHANGED inner
  /\ Return(d, "delivered")
  /\ UNCHANGED <<permit, attempt, sent>>

\* A 2xx answer.
SendOk(d) ==
  /\ pc[d] = "sending"
  /\ IF d \in Tracked THEN Success(d) ELSE UNCHANGED breaker
  /\ Return(d, "delivered")
  /\ UNCHANGED <<attempt, sent>>

\* Any other answer, or none.
SendErr(d) ==
  /\ pc[d] = "sending"
  /\ IF d \in Tracked THEN Failure(d) ELSE UNCHANGED breaker
  /\ IF should_retry(attempt[d])
     THEN pc' = [pc EXCEPT ![d] = "backoff"] /\ UNCHANGED outcome
     ELSE Return(d, "MaxRetriesExceeded")
  /\ UNCHANGED <<attempt, sent>>

\* Wrong on purpose: a delivery waits for the circuit to close.
WakeIfClosed(d) ==
  /\ pc[d] = "backoff" /\ state = "Closed"
  /\ pc' = [pc EXCEPT ![d] = "ready"]
  /\ UNCHANGED <<breaker, attempt, sent, outcome>>

Wake(d) ==
  /\ pc[d] = "backoff"
  /\ pc' = [pc EXCEPT ![d] = "ready"]
  /\ UNCHANGED <<breaker, attempt, sent, outcome>>

\* Wrong on purpose: the dropped permit reports nothing.
CancelSilently(d) ==
  /\ pc[d] \in {"sending", "backoff"}
  /\ IF d \in Tracked /\ pc[d] = "sending" THEN DropSilently(d) ELSE UNCHANGED breaker
  /\ Return(d, "cancelled")
  /\ UNCHANGED <<attempt, sent>>

\* The caller drops the future at one of its awaits.
Cancel(d) ==
  /\ pc[d] \in {"sending", "backoff"}
  /\ IF d \in Tracked /\ pc[d] = "sending" THEN Drop(d) ELSE UNCHANGED breaker
  /\ Return(d, "cancelled")
  /\ UNCHANGED <<attempt, sent>>

DelivererTick == Tick /\ UNCHANGED delivery

RequestEnds(d) ==
  SendOk(d) \/ SendErr(d) \/ (pc[d] = "sending" /\ Cancel(d))

Init ==
  /\ BreakerInit
  /\ pc = [d \in Caller |-> "ready"]
  /\ attempt = [d \in Caller |-> 0]
  /\ sent = [d \in Caller |-> 0]
  /\ outcome = [d \in Caller |-> "none"]

Next ==
  \/ \E d \in Caller : \/ Attempt(d) \/ SendOk(d) \/ SendErr(d)
                       \/ Wake(d) \/ Cancel(d)
  \/ DelivererTick

\* The runtime polls every task that can run, timers fire, and a request
\* ends by an answer, an error or the caller giving up (the client sets no
\* timeout of its own).
Spec ==
  /\ Init /\ [][Next]_vars
  /\ WF_vars(DelivererTick)
  /\ \A d \in Caller :
       WF_vars(Attempt(d)) /\ WF_vars(RequestEnds(d)) /\ WF_vars(Wake(d))

-----------------------------------------------------------------------------
\* Type correctness; a permit is held exactly while a request is out.
TypeOK ==
  /\ BreakerTypeOK
  /\ pc \in [Caller -> {"ready", "sending", "backoff", "returned"}]
  /\ attempt \in [Caller -> Nat]
  /\ sent \in [Caller -> Nat]
  /\ outcome \in [Caller -> {"none", "delivered", "CircuitOpen",
                             "MaxRetriesExceeded", "cancelled"}]
  /\ \A d \in Tracked : InFlight(d) <=> pc[d] = "sending"

\* However deliveries interleave, none puts more than max_retries requests
\* on the network (one when max_retries is 0), a delivery reports
\* MaxRetriesExceeded only after exactly that many, and one that the breaker
\* refused sent one request fewer than it counted attempts (deliver
\* increments delivery.attempt before it asks the breaker).
RequestsBounded ==
  LET most == IF max_retries = 0 THEN 1 ELSE max_retries
  IN  \A d \in Caller :
        /\ sent[d] <= most
        /\ outcome[d] = "MaxRetriesExceeded" => sent[d] = most
        /\ sent[d] = IF outcome[d] = "CircuitOpen" THEN attempt[d] - 1 ELSE attempt[d]

\* Every deliver call returns.
EveryDeliveryReturns == \A d \in Caller : <>(pc[d] = "returned")

\* Through deliver the breaker only moves as CircuitBreaker says it may.
ImplementsBreaker == BreakerSafety

=============================================================================
