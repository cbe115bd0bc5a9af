--------------------------- MODULE TransactionStream ---------------------------
(***************************************************************************)
(* TransactionStream (src/sdk/src/services/sep6Stream.ts): one stream of   *)
(* status updates of one SEP-6 transaction, over server-sent events,       *)
(* long-poll or polling.  A step runs from one event (a call, a timer, a   *)
(* message, a settled promise) to the next await or return.                *)
(*                                                                         *)
(* The anchor's record of the transaction is its version, which grows to   *)
(* FinalVersion, the only one with a terminal status.  Handlers may call   *)
(* stop().  Delays are arbitrary.                                          *)
(*                                                                         *)
(* A definition whose comment begins "Wrong on purpose" is a plausible     *)
(* mistake in the definition after it; no action uses it.                  *)
(***************************************************************************)
EXTENDS Integers, Sequences

CONSTANTS
  maxReconnectAttempts,
  FinalVersion,         \* the version with the terminal status
  PreferredModes        \* values of config.preferredMode

ASSUME StreamAssumption ==
  /\ maxReconnectAttempts \in Nat
  /\ FinalVersion \in Nat \ {0}
  /\ PreferredModes \subseteq {"sse", "long-poll", "polling"}

VARIABLES
  preferredMode,
  currentMode, sseSupported, longPollSupported,
  running, stopped, reconnectAttempts,
  lastEventId,           \* id of the last event received, or NoVersion
  lastKnownTransaction,  \* version of the last update, or NoVersion
  activity,              \* what the stream waits for
  received,              \* what the response holds whose json() is awaited
  version,               \* the anchor's version of the transaction
  cursor,                \* last event sent on the open EventSource
  closes,                \* the close events emitted
  late,                  \* a callback fired after stop() had returned
  drops                  \* failures since the anchor last answered

modes == <<currentMode, sseSupported, longPollSupported>>
anchor == <<version, cursor>>
streamVars ==
  <<preferredMode, currentMode, sseSupported, longPollSupported, running,
    stopped, reconnectAttempts, lastEventId, lastKnownTransaction, activity,
    received, version, cursor, closes, late, drops>>

NoVersion == -1
Version == 0..FinalVersion
BodyKind == {"unparseable", "null", "empty", "update"}
NoBody == [kind |-> "empty", tx |-> NoVersion]

isTerminalStatus(tx) == tx = FinalVersion

-----------------------------------------------------------------------------
(* Callbacks.  `quits' says that a handler calls stop(). *)

\* stop() called by the handlers of an event, unless already stopped.
closedByHandler(quits) ==
  IF quits /\ ~stopped THEN <<"closed_by_caller">> ELSE <<>>

\* emitError, and nothing else: what follows it looks at stopped'.
emitError(quits) ==
  /\ late' = (late \/ stopped)
  /\ drops' = IF drops > maxReconnectAttempts THEN drops ELSE drops + 1

-----------------------------------------------------------------------------
(* The loop *)

\* Wrong on purpose: the reconnect does not say what was received.
openSseAfresh ==
  /\ activity' = "sse"
  /\ cursor' = version - 1

\* The EventSource asks for what follows lastEventId; without one the
\* anchor starts with the current version.
openSse ==
  /\ activity' = "sse"
  /\ cursor' = IF lastEventId = NoVersion THEN version - 1 ELSE lastEventId

\* runLoop with runSse; without EventSource the next mode is used for good.
runLoop ==
  \/ /\ sseSupported /\ currentMode = "sse"
     /\ \/ openSse /\ UNCHANGED modes
        \/ /\ sseSupported' = FALSE
           /\ currentMode' = IF longPollSupported THEN "long-poll" ELSE "polling"
           /\ activity' = "fetch"
           /\ UNCHANGED <<longPollSupported, cursor>>
  \/ /\ ~(sseSupported /\ currentMode = "sse")
     /\ currentMode' = IF longPollSupported /\ currentMode # "polling"
                       THEN "long-poll" ELSE "polling"
     /\ activity' = "fetch"
     /\ UNCHANGED <<sseSupported, longPollSupported, cursor>>

\* Wrong on purpose: the last failure is not followed by a close event.
failSilently(quits) ==
  /\ emitError(quits)
  /\ closes' = closes \o closedByHandler(quits)
  /\ stopped' = (stopped \/ quits \/ reconnectAttempts >= maxReconnectAttempts)
  /\ reconnectAttempts' = IF stopped' THEN reconnectAttempts ELSE reconnectAttempts + 1
  /\ activity' = IF stopped' THEN "none" ELSE "reconnect timer"

\* emitError followed by scheduleReconnect.
fail(quits) ==
  LET halted == stopped \/ quits
      exhausted == ~halted /\ reconnectAttempts >= maxReconnectAttempts
  IN  /\ emitError(quits)
      /\ closes' = closes \o closedByHandler(quits)
                          \o (IF exhausted THEN <<"max_reconnect_attempts">> ELSE <<>>)
      /\ stopped' = (halted \/ exhausted)
      /\ reconnectAttempts' = IF stopped' THEN reconnectAttempts ELSE reconnectAttempts + 1
      /\ activity' = IF stopped' THEN "none" ELSE "reconnect timer"

\* Wrong on purpose: a terminal update leaves the stream open.
processTransactionOnly(tx, quits) ==
  /\ lastKnownTransaction' = tx
  /\ closes' = closes \o closedByHandler(quits)
  /\ stopped' = (stopped \/ quits)
  /\ late' = (late \/ stopped)
  /\ drops' = 0

\* Records tx, emits the update and, for a terminal status, the close event,
\* whether or not the stream was stopped before or by a handler.
processTransaction(tx, quits) ==
  /\ lastKnownTransaction' = tx
  /\ closes' = closes \o closedByHandler(quits)
                      \o (IF isTerminalStatus(tx) THEN <<"terminal_status">> ELSE <<>>)
  /\ stopped' = (stopped \/ quits \/ isTerminalStatus(tx))
  /\ late' = (late \/ stopped \/ (quits /\ isTerminalStatus(tx)))
  /\ drops' = 0

Halted == running' = (running /\ ~stopped')

-----------------------------------------------------------------------------
(* Calls *)

start ==
  /\ ~running /\ ~stopped
  /\ running' = TRUE
  /\ reconnectAttempts' = 0
  /\ runLoop
  /\ UNCHANGED <<preferredMode, stopped, lastEventId, lastKnownTransaction,
                 received, version, closes, late, drops>>

\* Wrong on purpose: the connection and the timers are left alone.
stopOnly ==
  /\ ~stopped
  /\ stopped' = TRUE /\ running' = FALSE
  /\ closes' = Append(closes, "closed_by_caller")
  /\ UNCHANGED <<preferredMode, modes, reconnectAttempts, lastEventId, activity,
                 lastKnownTransaction, received, anchor, late, drops>>

\* Connections and timers end at once; what was awaited of a request still
\* settles.
cancelActive ==
  activity' = IF activity \in {"fetch", "json"} THEN activity ELSE "none"

stop ==
  /\ ~stopped
  /\ stopped' = TRUE /\ running' = FALSE
  /\ cancelActive
  /\ closes' = Append(closes, "closed_by_caller")
  /\ UNCHANGED <<preferredMode, modes, reconnectAttempts, lastEventId,
                 lastKnownTransaction, received, anchor, late, drops>>

-----------------------------------------------------------------------------
(* Server-sent events *)

\* onmessage with a transaction.
SseUpdate(quits) ==
  /\ activity = "sse" /\ cursor < version
  /\ cursor' = cursor + 1
  /\ lastEventId' = cursor + 1
  /\ processTransaction(cursor + 1, quits)
  /\ activity' = IF stopped' THEN "none" ELSE "sse"
  /\ Halted
  /\ UNCHANGED <<preferredMode, modes, reconnectAttempts, received, version>>

\* onmessage with data that is not JSON: the id is noted all the same.
SseGarbled(quits) ==
  /\ activity = "sse" /\ cursor < version
  /\ cursor' = cursor + 1
  /\ lastEventId' = cursor + 1
  /\ emitError(quits)
  /\ closes' = closes \o closedByHandler(quits)
  /\ stopped' = (stopped \/ quits)
  /\ activity' = IF stopped' THEN "none" ELSE "sse"
  /\ Halted
  /\ UNCHANGED <<preferredMode, modes, reconnectAttempts,
                 lastKnownTransaction, received, version>>

\* onmessage with the JSON value null: reading its status throws, after the
\* record was overwritten.
SseNull ==
  /\ activity = "sse" /\ cursor < version
  /\ cursor' = cursor + 1
  /\ lastEventId' = cursor + 1
  /\ lastKnownTransaction' = NoVersion
  /\ UNCHANGED <<preferredMode, modes, running, stopped, reconnectAttempts,
                 activity, received, version, closes, late, drops>>

SseDrops(quits) ==
  /\ activity = "sse"
  /\ fail(quits)
  /\ Halted
  /\ UNCHANGED <<preferredMode, modes, lastEventId, lastKnownTransaction,
                 received, anchor>>

-----------------------------------------------------------------------------
(* Long-poll and polling *)

\* The fetch settles after the stream was stopped.
FetchIgnored ==
  /\ activity = "fetch" /\ stopped
  /\ activity' = "none"
  /\ UNCHANGED <<preferredMode, modes, running, stopped, reconnectAttempts,
                 lastEventId, lastKnownTransaction, received, anchor, closes, late, drops>>

\* The fetch fails, though not with an AbortError, or the answer is an error
\* (404 and 405 only when polling).
FetchFails(quits) ==
  /\ activity = "fetch" /\ ~stopped
  /\ fail(quits)
  /\ Halted
  /\ UNCHANGED <<preferredMode, modes, lastEventId, lastKnownTransaction,
                 received, anchor>>

\* The fetch is rejected with an AbortError that stop() did not cause (by a
\* timeout of the caller's fetch, say): the loop returns without an error, a
\* reconnect or a close event.
FetchAborted ==
  /\ activity = "fetch" /\ ~stopped
  /\ activity' = "aborted"
  /\ UNCHANGED <<preferredMode, modes, running, stopped, reconnectAttempts,
                 lastEventId, lastKnownTransaction, received, anchor, closes, late, drops>>

\* Long-poll is answered by 404 or 405: polling from now on.
LongPollUnsupported ==
  /\ activity = "fetch" /\ ~stopped /\ currentMode = "long-poll"
  /\ longPollSupported' = FALSE
  /\ currentMode' = "polling"
  /\ UNCHANGED <<preferredMode, sseSupported, running, stopped, reconnectAttempts,
                 lastEventId, lastKnownTransaction, activity, received, anchor,
                 closes, late, drops>>

\* The headers of a 2xx answer are there; json() is awaited.
FetchAnswers(kind) ==
  /\ activity = "fetch" /\ ~stopped
  /\ activity' = "json"
  /\ received' = [kind |-> kind, tx |-> IF kind = "update" THEN version ELSE NoVersion]
  /\ UNCHANGED <<preferredMode, modes, running, stopped, reconnectAttempts,
                 lastEventId, lastKnownTransaction, anchor, closes, late, drops>>

\* What follows a good answer: the next long-poll at once, or the next poll
\* after the interval.
continue ==
  /\ reconnectAttempts' = IF stopped' THEN reconnectAttempts ELSE 0
  /\ activity' = IF stopped' THEN "none"
                 ELSE IF currentMode = "long-poll" THEN "fetch" ELSE "poll timer"

\* json() settles; stopped is not looked at before the body is used.
JsonUnparseable(quits) ==
  /\ activity = "json" /\ received.kind = "unparseable"
  /\ fail(quits)
  /\ Halted
  /\ UNCHANGED <<preferredMode, modes, lastEventId, lastKnownTransaction,
                 received, anchor>>

\* body.transactions of null throws: the promise of the loop is rejected.
JsonNull ==
  /\ activity = "json" /\ received.kind = "null"
  /\ activity' = IF stopped THEN "none" ELSE "crashed"
  /\ UNCHANGED <<preferredMode, modes, running, stopped, reconnectAttempts,
                 lastEventId, lastKnownTransaction, received, anchor, closes, late, drops>>

JsonEmpty ==
  /\ activity = "json" /\ received.kind = "empty"
  /\ UNCHANGED stopped
  /\ continue
  /\ drops' = 0
  /\ UNCHANGED <<preferredMode, modes, running, lastEventId,
                 lastKnownTransaction, received, anchor, closes, late>>

JsonUpdate(quits) ==
  /\ activity = "json" /\ received.kind = "update"
  /\ processTransaction(received.tx, quits)
  /\ continue
  /\ Halted
  /\ UNCHANGED <<preferredMode, modes, lastEventId, received, anchor>>

PollTimer ==
  /\ activity = "poll timer"
  /\ activity' = "fetch"
  /\ UNCHANGED <<preferredMode, modes, running, stopped, reconnectAttempts,
                 lastEventId, lastKnownTransaction, received, anchor, closes, late, drops>>

ReconnectTimer ==
  /\ activity = "reconnect timer"
  /\ runLoop
  /\ UNCHANGED <<preferredMode, running, stopped, reconnectAttempts, lastEventId,
                 lastKnownTransaction, received, version, closes, late, drops>>

\* The anchor moves the transaction on.
AnchorMoves ==
  /\ version < FinalVersion
  /\ version' = version + 1
  /\ UNCHANGED <<preferredMode, modes, running, stopped, reconnectAttempts,
                 lastEventId, lastKnownTransaction, activity, received, cursor,
                 closes, late, drops>>

-----------------------------------------------------------------------------
StreamInit ==
  /\ preferredMode \in PreferredModes
  /\ currentMode = preferredMode
  /\ sseSupported = (preferredMode = "sse")
  /\ longPollSupported = (preferredMode # "polling")
  /\ running = FALSE /\ stopped = FALSE /\ reconnectAttempts = 0
  /\ lastEventId = NoVersion /\ lastKnownTransaction = NoVersion
  /\ activity = "none" /\ received = NoBody
  /\ version = 0 /\ cursor = NoVersion
  /\ closes = <<>> /\ late = FALSE /\ drops = 0

Timers == PollTimer \/ ReconnectTimer

GoodAnswer == FetchAnswers("update")

Settles ==
  \/ FetchIgnored \/ FetchAborted \/ LongPollUnsupported \/ JsonNull \/ JsonEmpty
  \/ \E kind \in BodyKind : FetchAnswers(kind)
  \/ \E quits \in BOOLEAN :
       FetchFails(quits) \/ JsonUnparseable(quits) \/ JsonUpdate(quits)

\* What has been sent arrives, legible or not, or the connection breaks first.
SseProgress ==
  /\ cursor < version
  /\ SseNull \/ \E quits \in BOOLEAN :
                   SseUpdate(quits) \/ SseGarbled(quits) \/ SseDrops(quits)

StreamNext ==
  \/ start \/ stop
  \/ \E quits \in BOOLEAN :
       \/ SseUpdate(quits) \/ SseGarbled(quits) \/ SseDrops(quits)
       \/ FetchFails(quits) \/ JsonUnparseable(quits) \/ JsonUpdate(quits)
  \/ SseNull \/ FetchIgnored \/ FetchAborted \/ LongPollUnsupported
  \/ \E kind \in BodyKind : FetchAnswers(kind)
  \/ JsonNull \/ JsonEmpty
  \/ PollTimer \/ ReconnectTimer
  \/ AnchorMoves

\* Timers fire, requests settle (long-polls are held for a limited time), the
\* anchor finishes the transaction, and an anchor that is asked again and again
\* sometimes answers with it.  An event that the anchor has sent on an open
\* EventSource arrives, unless the connection breaks first; nothing makes an
\* EventSource with nothing to deliver break or speak: runSse sets no timeout.
StreamFairness ==
  /\ WF_streamVars(Timers)
  /\ WF_streamVars(Settles)
  /\ WF_streamVars(SseProgress)
  /\ WF_streamVars(AnchorMoves)
  /\ SF_streamVars(GoodAnswer)

StreamSpec == StreamInit /\ [][StreamNext]_streamVars /\ StreamFairness

-----------------------------------------------------------------------------
\* Type correctness.
StreamTypeOK ==
  /\ preferredMode \in PreferredModes
  /\ currentMode \in {"sse", "long-poll", "polling"}
  /\ {sseSupported, longPollSupported, running, stopped, late} \subseteq BOOLEAN
  /\ reconnectAttempts \in 0..maxReconnectAttempts
  /\ lastEventId \in Version \cup {NoVersion}
  /\ lastKnownTransaction \in Version \cup {NoVersion}
  /\ activity \in {"none", "sse", "fetch", "json", "poll timer",
                   "reconnect timer", "crashed", "aborted"}
  /\ received \in [kind : BodyKind, tx : Version \cup {NoVersion}]
  /\ version \in Version /\ cursor \in Version \cup {NoVersion}
  /\ drops \in 0..(maxReconnectAttempts + 1)

\* What a stream holds can be accounted for, whichever way it got there.  A
\* stopped stream has no connection and no timer left, though giving up does not
\* call cancelActive; all that may still settle is the request it gave up on.  A
\* stream that was started and is not stopped counts as running and waits for
\* something, or its loop was lost in one of two ways, to a body that is null
\* (sep6Stream.ts:315, 385) or to an AbortError of its own (284, 362): then
\* start() does nothing and only stop() is left.
LoopAccounted ==
  /\ running <=> (~stopped /\ activity # "none")
  /\ stopped => activity \in {"none", "fetch", "json"}
  /\ activity = "crashed" => received.kind = "null"

\* The close events: none before the stream has ended, then one; a second
\* one only when stop() is overtaken by a terminal update, from an answer
\* that was being read or by a handler of that update.
CloseEvents ==
  /\ stopped <=> closes # <<>>
  /\ Len(closes) <= 2
  /\ Len(closes) = 2 => closes = <<"closed_by_caller", "terminal_status">> /\ late

\* A stream that never used server-sent events gives up only after
\* maxReconnectAttempts + 1 failures in a row, with no answer in between.
GivesUpAfterFailuresInARow ==
  preferredMode # "sse" /\ closes = <<"max_reconnect_attempts">> =>
    drops > maxReconnectAttempts

\* How a stream ends, as its close events tell it (sep6Stream.ts:181-187,
\* 435-481).
EndsAsReported == CloseEvents /\ GivesUpAfterFailuresInARow

\* "Downgrades permanently when a mode proves unsupported": the transport
\* only moves from server-sent events to long-poll to polling.
ModeOnlyDowngrades ==
  [][<<currentMode, currentMode'>> \notin
       {<<"long-poll", "sse">>, <<"polling", "sse">>, <<"polling", "long-poll">>}]_streamVars

\* Updates are delivered in the anchor's order across reconnects and changes
\* of transport, and over server-sent events none is skipped between two
\* reconnects.
UpdatesInOrder ==
  [][/\ lastKnownTransaction' # NoVersion => lastKnownTransaction' >= lastKnownTransaction
     /\ lastEventId' \in {lastEventId, lastEventId + 1} \/ lastEventId = NoVersion]_streamVars

\* The loop is over, and nobody is told: nothing is awaited and no timer is set.
LoopLost == activity \in {"crashed", "aborted"}

\* An EventSource over which everything was sent while the final status was not
\* among what could be read: the event was garbled or null (sep6Stream.ts:422-424,
\* 437).
WaitsForEver ==
  activity = "sse" /\ cursor = FinalVersion /\ lastKnownTransaction # FinalVersion

\* A started stream ends, with the terminal status, by giving up or by stop(),
\* in all but the three cases in which nothing is left that could end it: its
\* loop is lost to a null body or an AbortError, or it keeps an EventSource open
\* whose final event it could not read.
StreamEnds == running ~> (stopped \/ LoopLost \/ WaitsForEver)

-----------------------------------------------------------------------------
(* What a comment says, and the code does not do. *)

\* sep6Stream.ts: "After `stop()`, no further callbacks fire".
SilentAfterStop == ~late

=============================================================================
