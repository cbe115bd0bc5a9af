-------------------------- MODULE TransactionWatch --------------------------
(***************************************************************************)
(* `anchorkit watch` (cli/src/watch.rs): one blocking loop that asks the   *)
(* anchor for a transaction, by long-poll until the anchor answers 404 or  *)
(* 405, then by polling, until the status is final or                      *)
(* MAX_RECONNECT_ATTEMPTS requests in a row have failed.                   *)
(*                                                                         *)
(* A status is a number: the anchor moves it up to FinalWatched, the only  *)
(* terminal one.  recent is a history variable: the outcomes of the last   *)
(* MAX_RECONNECT_ATTEMPTS requests, the latest last.                       *)
(***************************************************************************)
EXTENDS Integers, Sequences

CONSTANTS MAX_RECONNECT_ATTEMPTS, FinalWatched

ASSUME WatchAssumption ==
    /\ MAX_RECONNECT_ATTEMPTS \in Nat \ {0}
    /\ FinalWatched \in Nat

VARIABLES transport, consecutive_errors, at, anchorStatus, printed, recent

watchVars == <<transport, consecutive_errors, at, anchorStatus, printed, recent>>

Outcomes == {"unsupported", "error", "update", "none"}

WatchTypeOK ==
    /\ transport \in {"LongPoll", "Polling"}
    /\ consecutive_errors \in 0..MAX_RECONNECT_ATTEMPTS
    /\ at \in {"start", "no_client", "request", "backoff", "sleep", "ok", "gave_up"}
    /\ anchorStatus \in 0..FinalWatched
    /\ printed \in -1..FinalWatched
    /\ \E n \in 0..MAX_RECONNECT_ATTEMPTS : recent \in [1..n -> Outcomes]

is_terminal(s) == s = FinalWatched

WatchInit ==
    /\ transport = "LongPoll"
    /\ consecutive_errors = 0
    /\ at = "start"
    /\ anchorStatus = 0
    /\ printed = -1
    /\ recent = << >>

\* run builds the HTTP client, and returns an error when it cannot.
buildClient ==
    /\ at = "start"
    /\ at' \in {"request", "no_client"}
    /\ UNCHANGED <<transport, consecutive_errors, anchorStatus, printed, recent>>

Remember(outcome) ==
    LET all == Append(recent, outcome)
    IN  recent' = IF Len(all) > MAX_RECONNECT_ATTEMPTS THEN Tail(all) ELSE all

\* The arm of run's match for CliError::LongPollUnsupported.
unsupported ==
    /\ transport' = "Polling"
    /\ consecutive_errors' = 0
    /\ Remember("unsupported")
    /\ UNCHANGED <<at, anchorStatus, printed>>

\* The arm for every other error.
requestFailed ==
    /\ consecutive_errors' = consecutive_errors + 1
    /\ at' = IF consecutive_errors' >= MAX_RECONNECT_ATTEMPTS
             THEN "gave_up" ELSE "backoff"
    /\ Remember("error")
    /\ UNCHANGED <<transport, anchorStatus, printed>>

\* Wrong on purpose: the loop goes on after a terminal status.
updateReceivedEndless ==
    /\ consecutive_errors' = 0
    /\ printed' = anchorStatus
    /\ at' = IF transport = "Polling" THEN "sleep" ELSE "request"
    /\ Remember("update")
    /\ UNCHANGED <<transport, anchorStatus>>

\* The arm for a transaction.
updateReceived ==
    /\ consecutive_errors' = 0
    /\ printed' = anchorStatus
    /\ at' = IF is_terminal(anchorStatus) THEN "ok"
             ELSE IF transport = "Polling" THEN "sleep" ELSE "request"
    /\ Remember("update")
    /\ UNCHANGED <<transport, anchorStatus>>

\* Wrong on purpose: an empty answer leaves the error count as it is.
nothingNewKeepsCount ==
    /\ Remember("none")
    /\ UNCHANGED <<transport, consecutive_errors, at, anchorStatus, printed>>

\* The arm for an empty list.
nothingNew ==
    /\ consecutive_errors' = 0
    /\ Remember("none")
    /\ UNCHANGED <<transport, at, anchorStatus, printed>>

\* The answers to a long-poll that carry no transaction: 404 or 405; no answer,
\* another status or a body that does not parse; an empty list.
long_poll_once ==
    /\ at = "request"
    /\ transport = "LongPoll"
    /\ unsupported \/ requestFailed \/ nothingNew

\* Every failure of a poll, a 404 included, is an error like any other.
poll_once ==
    /\ at = "request"
    /\ transport = "Polling"
    /\ requestFailed

\* Either request answered with the transaction.
Answered ==
    /\ at = "request"
    /\ updateReceived

\* thread::sleep, after an error and between two polls.
sleepEnds ==
    /\ at \in {"backoff", "sleep"}
    /\ at' = "request"
    /\ UNCHANGED <<transport, consecutive_errors, anchorStatus, printed, recent>>

\* External: the anchor moves the transaction on.
AnchorProgress ==
    /\ anchorStatus < FinalWatched
    /\ anchorStatus' = anchorStatus + 1
    /\ UNCHANGED <<transport, consecutive_errors, at, printed, recent>>

WatchNext ==
    \/ buildClient \/ long_poll_once \/ poll_once \/ Answered \/ sleepEnds
    \/ AnchorProgress

\* Every request returns (the client has a timeout) and every sleep ends; the
\* anchor finishes the transaction, and does not withhold it from every one of
\* infinitely many requests.
WatchFairness ==
    /\ WF_watchVars(buildClient \/ sleepEnds)
    /\ WF_watchVars(AnchorProgress)
    /\ SF_watchVars(Answered)

WatchSpec == WatchInit /\ [][WatchNext]_watchVars /\ WatchFairness

-----------------------------------------------------------------------------

\* run gives up exactly when the last MAX_RECONNECT_ATTEMPTS requests all
\* failed: an answer of any other kind in between, an empty list or the switch
\* to polling included, starts the count again (watch.rs:140-182).
GivesUpAfterErrorsInARow ==
    (at = "gave_up") <=> /\ Len(recent) = MAX_RECONNECT_ATTEMPTS
                         /\ \A i \in DOMAIN recent : recent[i] = "error"

\* Success is reported for the final status only, after printing it
\* (watch.rs:164-167).
OkMeansFinal == at = "ok" => printed = FinalWatched /\ anchorStatus = FinalWatched

\* What the end of the command tells.
WatchOutcome == GivesUpAfterErrorsInARow /\ OkMeansFinal

\* Once the anchor has refused long-poll, run never goes back to it, whatever
\* the polls answer (watch.rs:136-142).
TransportOnlyFallsBack ==
    [][transport = "Polling" => transport' = "Polling"]_watchVars

\* The command ends: with the final status, by giving up (watch.rs:100-101), or
\* for want of an HTTP client.
WatchEnds == <>(at \in {"ok", "gave_up", "no_client"})
=============================================================================
