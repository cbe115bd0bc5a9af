---------------------------- MODULE CircuitBreaker ----------------------------
(***************************************************************************)
(* The circuit breaker of one destination host and the callers that hold   *)
(* its permits (src/webhook-sdk/src/circuit_breaker.rs).  Every operation   *)
(* runs under the breaker's mutex, so it is one step; between acquiring a   *)
(* permit and reporting its outcome any number of other steps happen.       *)
(*                                                                         *)
(* Time is kept as the age of opened_at, up to the cooldown: elapsed() is   *)
(* only ever compared with the cooldown.  In the same way                   *)
(* consecutive_failures stops counting at the threshold it is compared      *)
(* with.                                                                   *)
(*                                                                         *)
(* A definition whose comment begins "Wrong on purpose" is a plausible      *)
(* mistake in the definition after it; no action uses it.                   *)
(***************************************************************************)
EXTENDS Integers, FiniteSets

CONSTANTS
  Caller,             \* the concurrent callers of one destination
  failure_threshold,
  cooldown            \* in ticks

ASSUME BreakerAssumption ==
  /\ failure_threshold \in Nat \ {0}
  /\ cooldown \in Nat \ {0}

VARIABLES
  state,                 \* Inner.state
  consecutive_failures,  \* Inner.consecutive_failures
  opened_for,            \* age of Inner.opened_at, or NotOpened
  permit                 \* the permit each caller holds

inner == <<state, consecutive_failures, opened_for>>
breaker == <<state, consecutive_failures, opened_for, permit>>

NotOpened == -1

-----------------------------------------------------------------------------
(* Inner, under the mutex *)

new ==
  /\ state = "Closed"
  /\ consecutive_failures = 0
  /\ opened_for = NotOpened

trip ==
  /\ state' = "Open"
  /\ opened_for' = 0

\* Closes the circuit whoever reports: is_probe is ignored.
record_success(is_probe) ==
  /\ state' = "Closed"
  /\ consecutive_failures' = 0
  /\ opened_for' = NotOpened

\* Wrong on purpose: the circuit opens without noting when.
record_failure_untimed(is_probe) ==
  /\ state' = "Open"
  /\ opened_for' = NotOpened
  /\ UNCHANGED consecutive_failures

record_failure(is_probe) ==
  \/ /\ is_probe
     /\ trip
     /\ UNCHANGED consecutive_failures
  \/ /\ ~is_probe
     /\ consecutive_failures' = IF consecutive_failures < failure_threshold
                                THEN consecutive_failures + 1
                                ELSE failure_threshold
     /\ IF consecutive_failures' >= failure_threshold
        THEN trip
        ELSE UNCHANGED <<state, opened_for>>

cooldown_elapsed == opened_for # NotOpened /\ opened_for >= cooldown

refuses == state = "HalfOpen" \/ (state = "Open" /\ ~cooldown_elapsed)

\* try_acquire when it grants a permit; `refuses' says when it does not.
try_acquire(c) ==
  \/ /\ state = "Closed"
     /\ permit' = [permit EXCEPT ![c] = "call"]
     /\ UNCHANGED inner
  \/ /\ state = "Open" /\ cooldown_elapsed
     /\ state' = "HalfOpen"
     /\ permit' = [permit EXCEPT ![c] = "probe"]
     /\ UNCHANGED <<consecutive_failures, opened_for>>

-----------------------------------------------------------------------------
(* The callers *)

InFlight(c) == permit[c] # "none"

Acquire(c) ==
  /\ ~InFlight(c)
  /\ try_acquire(c)

Success(c) ==
  /\ InFlight(c)
  /\ record_success(permit[c] = "probe")
  /\ permit' = [permit EXCEPT ![c] = "none"]

Failure(c) ==
  /\ InFlight(c)
  /\ record_failure(permit[c] = "probe")
  /\ permit' = [permit EXCEPT ![c] = "none"]

\* Wrong on purpose: a permit that is dropped reports nothing.
DropSilently(c) ==
  /\ InFlight(c)
  /\ permit' = [permit EXCEPT ![c] = "none"]
  /\ UNCHANGED inner

\* Permit::drop of an unresolved permit: a panic, an early return or a
\* cancelled future counts as a failure.
Drop(c) ==
  /\ InFlight(c)
  /\ record_failure(permit[c] = "probe")
  /\ permit' = [permit EXCEPT ![c] = "none"]

Tick ==
  /\ opened_for \in 0..(cooldown - 1)
  /\ opened_for' = opened_for + 1
  /\ UNCHANGED <<state, consecutive_failures, permit>>

BreakerInit ==
  /\ new
  /\ permit = [c \in Caller |-> "none"]

Resolve(c) == Success(c) \/ Failure(c) \/ Drop(c)

BreakerNext ==
  \/ \E c \in Caller : Acquire(c) \/ Success(c) \/ Failure(c) \/ Drop(c)
  \/ Tick

BreakerSafety == BreakerInit /\ [][BreakerNext]_breaker

\* Time passes, and every call that was let through ends: the destination
\* answers, the connection breaks, or the caller gives up and drops the
\* permit.  Nobody is obliged to make a call.
BreakerSpec ==
  /\ BreakerSafety
  /\ WF_breaker(Tick)
  /\ \A c \in Caller : WF_breaker(Resolve(c))

-----------------------------------------------------------------------------
\* Type correctness.
BreakerTypeOK ==
  /\ state \in {"Closed", "Open", "HalfOpen"}
  /\ consecutive_failures \in 0..failure_threshold
  /\ opened_for \in {NotOpened} \cup 0..cooldown
  /\ permit \in [Caller -> {"none", "call", "probe"}]

\* Whatever late outcomes arrive, a closed circuit has seen fewer than
\* failure_threshold failures since the last success, and a circuit that is
\* not closed knows when it opened (try_acquire could otherwise never grant
\* a probe).
CircuitConsistent ==
  /\ state = "Closed" =>
       consecutive_failures < failure_threshold /\ opened_for = NotOpened
  /\ state # "Closed" => opened_for # NotOpened

\* Permit: a caller that bails out "can never leave the breaker stuck
\* thinking a probe is still in flight".  While the circuit is half-open
\* and refuses everybody, some probe really is in flight.
HalfOpenHasProbe ==
  state = "HalfOpen" => \E c \in Caller : permit[c] = "probe"

\* The half-open state ends.
HalfOpenEnds == state = "HalfOpen" ~> state # "HalfOpen"

\* An open circuit becomes ready for a probe: late failures restart the
\* cooldown (record_failure), but only as often as calls were in flight.
OpenBecomesReady == state = "Open" ~> (state # "Open" \/ cooldown_elapsed)

-----------------------------------------------------------------------------
(* What a comment says, and the code does not do. *)

\* circuit_breaker.rs: "After the cooldown, exactly one probe call is let
\* through (the half-open state)".
OneProbe == Cardinality({c \in Caller : permit[c] = "probe"}) <= 1

=============================================================================
