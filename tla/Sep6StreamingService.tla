------------------------- MODULE Sep6StreamingService -------------------------
(***************************************************************************)
(* Sep6StreamingService (src/sdk/src/services/sep6Streaming.ts): watchers  *)
(* of SEP-6 transactions, each with an EventSource of its own or all of    *)
(* them served by one poll loop.  A step runs from one event (a call, a    *)
(* timer, a message, a settled promise) to the next await or return; the   *)
(* order in which waiting continuations run is left open.                  *)
(*                                                                         *)
(* The status of a transaction at the anchor is a number that grows to     *)
(* FinalStatus, the terminal one.  A handler's own calls to the service    *)
(* take effect right after its step.  `throws' says that a handler throws. *)
(*                                                                         *)
(* A definition whose comment begins "Wrong on purpose" is a plausible     *)
(* mistake in the definition after it; no action uses it.                  *)
(***************************************************************************)
EXTENDS Integers, FiniteSets

CONSTANTS
  TransactionId,
  maxWatched,
  FinalStatus,  \* the terminal status
  MaxWatches    \* bound on the calls of watch

ASSUME StreamingAssumption ==
  /\ TransactionId # {}
  /\ maxWatched \in Nat \ {0}
  /\ FinalStatus \in Nat \ {0}
  /\ MaxWatches \in Nat

Watcher == 1..MaxWatches
Cycle == 1..MaxWatches

VARIABLES
  supportsSSE,      \* what detectCapabilities finds, or preferSse says
  watch_count,      \* how many watchers were created
  watcherState,     \* of each watcher, with its connection
  watchers,         \* the Map: the watcher of each id, or Nobody
  pollTimer,        \* a poll cycle is scheduled
  pollLoopRunning,
  cycles,           \* the poll cycles that await their requests
  polls,            \* the requests of the cycles, as asked or answered
  aborted,          \* globalSignal.aborted
  destroyed,        \* destroy was called
  threw,            \* watchers one of whose handlers threw
  status            \* the anchor's status of each transaction

streamingVars ==
  <<supportsSSE, watch_count, watcherState, watchers, pollTimer, pollLoopRunning,
    cycles, polls, aborted, destroyed, threw, status>>

Nobody == 0
NoStatus == -1
NoCursor == -1
Unanswered == -1

Unborn == [id |-> CHOOSE t \in TransactionId : TRUE, active |-> FALSE, phase |-> "unborn",
           lastStatus |-> NoStatus, cursor |-> NoCursor, sent |-> 0]

Watched == {watchers[t] : t \in TransactionId} \ {Nobody}
activeWatchers == {w \in Watched : watcherState[w].active}

-----------------------------------------------------------------------------
(* Shared helpers *)

\* Takes the id's current watcher out of the map, whoever asked.
removed(st, t) == IF watchers[t] = Nobody THEN st ELSE [st EXCEPT ![watchers[t]].active = FALSE]

_removeWatcher(st, t) ==
  /\ watcherState' = removed(st, t)
  /\ watchers' = [watchers EXCEPT ![t] = Nobody]

\* started_at does not change in the life of a transaction; completed_at is
\* there when it is terminal.
timestamp(s) == IF s = FinalStatus THEN s ELSE 0

\* Wrong on purpose: the terminal status does not unsubscribe.
_dispatchUpdateOnly(st, w, s, throws) ==
  /\ watcherState' = [st EXCEPT ![w].cursor = timestamp(s), ![w].lastStatus = s]
  /\ UNCHANGED <<threw, watchers>>

\* An active watcher is told of a changed status; a terminal one takes the
\* id's watcher out of the map, unless the handler threw.
_dispatchUpdate(st, w, s, throws) ==
  LET noted == [st EXCEPT ![w].cursor = timestamp(s), ![w].lastStatus = s]
      tells == st[w].lastStatus # s
  IN  /\ threw' = IF tells /\ throws THEN threw \cup {w} ELSE threw
      /\ IF tells /\ ~throws /\ s = FinalStatus
         THEN _removeWatcher(noted, st[w].id)
         ELSE watcherState' = noted /\ UNCHANGED watchers

\* Wrong on purpose: the loop is marked as running but not scheduled.
_ensurePollLoopUnscheduled ==
  /\ pollTimer' = pollTimer
  /\ pollLoopRunning' = TRUE

_ensurePollLoop ==
  /\ pollTimer' = (pollTimer \/ ~pollLoopRunning)
  /\ pollLoopRunning' = TRUE

-----------------------------------------------------------------------------
(* Calls *)

\* watch, up to the await of detectCapabilities; it throws when the map is
\* full, even for an id that is in it.
watch(t) ==
  /\ watch_count < MaxWatches
  /\ Cardinality(Watched) < maxWatched
  /\ watch_count' = watch_count + 1
  /\ watchers' = [watchers EXCEPT ![t] = watch_count']
  /\ watcherState' = [watcherState EXCEPT ![watch_count'] =
                 [Unborn EXCEPT !.id = t, !.active = TRUE, !.phase = "detecting"]]
  /\ UNCHANGED <<supportsSSE, pollTimer, pollLoopRunning, cycles, polls, aborted,
                 destroyed, threw, status>>

\* The unsubscribe of the handle that watch returned for w.
unsubscribe(w) ==
  /\ watcherState[w].phase # "unborn"
  /\ _removeWatcher(watcherState, watcherState[w].id)
  /\ UNCHANGED <<supportsSSE, watch_count, pollTimer, pollLoopRunning, cycles, polls,
                 aborted, destroyed, threw, status>>

allRemoved == [w \in Watcher |-> IF w \in Watched THEN [watcherState[w] EXCEPT !.active = FALSE]
                                                  ELSE watcherState[w]]

destroy ==
  /\ watcherState' = allRemoved
  /\ watchers' = [t \in TransactionId |-> Nobody]
  /\ pollTimer' = FALSE /\ pollLoopRunning' = FALSE
  /\ destroyed' = TRUE
  /\ UNCHANGED <<supportsSSE, watch_count, cycles, polls, aborted, threw, status>>

\* The signal fires: destroy, and every open EventSource is closed.
abort ==
  /\ ~aborted
  /\ aborted' = TRUE
  /\ watcherState' = [w \in Watcher |-> IF allRemoved[w].phase = "open"
                                 THEN [allRemoved[w] EXCEPT !.phase = "ended"]
                                 ELSE allRemoved[w]]
  /\ watchers' = [t \in TransactionId |-> Nobody]
  /\ pollTimer' = FALSE /\ pollLoopRunning' = FALSE
  /\ destroyed' = TRUE
  /\ UNCHANGED <<supportsSSE, watch_count, cycles, polls, threw, status>>

-----------------------------------------------------------------------------
(* Transports *)

\* The anchor is asked for what is newer than the cursor; without one it
\* starts with the current status.
_openSseConnection(w) ==
  IF ~watcherState[w].active
  THEN watcherState' = [watcherState EXCEPT ![w].phase = "ended"]
  ELSE watcherState' = [watcherState EXCEPT ![w].phase = "open",
                              ![w].sent = IF watcherState[w].cursor = NoCursor
                                          THEN status[watcherState[w].id] - 1
                                          ELSE watcherState[w].cursor]

\* _startWatcher, after detectCapabilities.
_startWatcher(w) ==
  /\ watcherState[w].phase = "detecting"
  /\ \/ /\ ~watcherState[w].active \/ supportsSSE
        /\ _openSseConnection(w)
        /\ UNCHANGED <<pollTimer, pollLoopRunning>>
     \/ /\ watcherState[w].active /\ ~supportsSSE
        /\ watcherState' = [watcherState EXCEPT ![w].phase = "polled"]
        /\ _ensurePollLoop
  /\ UNCHANGED <<supportsSSE, watch_count, watchers, cycles, polls, aborted,
                 destroyed, threw, status>>

SseTimer(w) ==
  /\ watcherState[w].phase = "reconnecting"
  /\ _openSseConnection(w)
  /\ UNCHANGED <<supportsSSE, watch_count, watchers, pollTimer, pollLoopRunning,
                 cycles, polls, aborted, destroyed, threw, status>>

\* A frame: the watcher may have gone, the data may be unparseable.
_handleSseMessage(w, parsed, throws) ==
  LET st == [watcherState EXCEPT ![w].sent = @ + 1]
  IN  /\ watcherState[w].phase = "open" /\ watcherState[w].sent < status[watcherState[w].id]
      /\ IF watcherState[w].active /\ parsed
         THEN _dispatchUpdate(st, w, st[w].sent, throws)
         ELSE watcherState' = st /\ UNCHANGED <<threw, watchers>>
      /\ UNCHANGED <<supportsSSE, watch_count, pollTimer, pollLoopRunning, cycles,
                     polls, aborted, destroyed, status>>

\* The connection breaks: closed, and reopened after the back-off unless the
\* service was aborted, the watcher has gone or onError throws.
SseError(w, throws) ==
  LET reconnects == ~aborted /\ watcherState[w].active
  IN  /\ watcherState[w].phase = "open"
      /\ threw' = IF reconnects /\ throws THEN threw \cup {w} ELSE threw
      /\ watcherState' = [watcherState EXCEPT ![w].phase =
                     IF reconnects /\ ~throws THEN "reconnecting" ELSE "ended"]
      /\ UNCHANGED <<supportsSSE, watch_count, watchers, pollTimer, pollLoopRunning,
                     cycles, polls, aborted, destroyed, status>>

\* _runPollCycle up to the await of its requests.
_runPollCycle ==
  /\ pollTimer
  /\ pollTimer' = FALSE
  /\ IF aborted \/ activeWatchers = {}
     THEN pollLoopRunning' = FALSE /\ UNCHANGED <<cycles, polls>>
     ELSE \E c \in Cycle \ cycles :
            /\ \A d \in Cycle \ cycles : c <= d
            /\ cycles' = cycles \cup {c}
            /\ polls' = polls \cup
                 {[cycle |-> c, watcher |-> w, answer |-> Unanswered] : w \in activeWatchers}
            /\ UNCHANGED pollLoopRunning
  /\ UNCHANGED <<supportsSSE, watch_count, watcherState, watchers, aborted, destroyed,
                 threw, status>>

\* The anchor answers a request; the answer is not yet read.
PollAnswered(p) ==
  /\ p.answer = Unanswered
  /\ polls' = (polls \ {p}) \cup {[p EXCEPT !.answer = status[watcherState[p.watcher].id]]}
  /\ UNCHANGED <<supportsSSE, watch_count, watcherState, watchers, pollTimer, pollLoopRunning,
                 cycles, aborted, destroyed, threw, status>>

\* _pollOne with the answer.
_pollOne(p, throws) ==
  /\ p.answer # Unanswered
  /\ polls' = polls \ {p}
  /\ IF watcherState[p.watcher].active
     THEN _dispatchUpdate(watcherState, p.watcher, p.answer, throws)
     ELSE UNCHANGED <<watcherState, watchers, threw>>
  /\ UNCHANGED <<supportsSSE, watch_count, pollTimer, pollLoopRunning, cycles,
                 aborted, destroyed, status>>

\* The request fails, or the transaction is not found.
PollFails(p) ==
  /\ p.answer = Unanswered
  /\ polls' = polls \ {p}
  /\ UNCHANGED <<supportsSSE, watch_count, watcherState, watchers, pollTimer, pollLoopRunning,
                 cycles, aborted, destroyed, threw, status>>

\* The rest of _runPollCycle, when all requests have settled.
CycleEnds(c) ==
  /\ c \in cycles
  /\ \A p \in polls : p.cycle # c
  /\ cycles' = cycles \ {c}
  /\ IF activeWatchers # {} /\ ~aborted
     THEN pollTimer' = TRUE /\ UNCHANGED pollLoopRunning
     ELSE pollLoopRunning' = FALSE /\ UNCHANGED pollTimer
  /\ UNCHANGED <<supportsSSE, watch_count, watcherState, watchers, polls, aborted,
                 destroyed, threw, status>>

StatusMoves(t) ==
  /\ status[t] < FinalStatus
  /\ status' = [status EXCEPT ![t] = @ + 1]
  /\ UNCHANGED <<supportsSSE, watch_count, watcherState, watchers, pollTimer, pollLoopRunning,
                 cycles, polls, aborted, destroyed, threw>>

-----------------------------------------------------------------------------
\* What preferSse says, no EventSource, or what the probe finds: asked once.
detectCapabilities == supportsSSE \in BOOLEAN

StreamingInit ==
  /\ detectCapabilities
  /\ watch_count = 0
  /\ watcherState = [w \in Watcher |-> Unborn]
  /\ watchers = [t \in TransactionId |-> Nobody]
  /\ pollTimer = FALSE /\ pollLoopRunning = FALSE
  /\ cycles = {} /\ polls = {}
  /\ aborted = FALSE /\ destroyed = FALSE /\ threw = {}
  /\ status = [t \in TransactionId |-> 0]

StreamingNext ==
  \/ \E t \in TransactionId : watch(t) \/ StatusMoves(t)
  \/ \E w \in Watcher : \/ unsubscribe(w) \/ _startWatcher(w) \/ SseTimer(w)
                        \/ \E throws \in BOOLEAN : SseError(w, throws)
                        \/ \E parsed, throws \in BOOLEAN : _handleSseMessage(w, parsed, throws)
  \/ destroy \/ abort
  \/ _runPollCycle
  \/ \E p \in polls : \/ PollAnswered(p) \/ PollFails(p)
                      \/ \E throws \in BOOLEAN : _pollOne(p, throws)
  \/ \E c \in Cycle : CycleEnds(c)

\* Continuations and timers run, requests settle, and the anchor finishes
\* every transaction and answers some request of a cycle that is repeated.
StreamingFairness ==
  /\ \A w \in Watcher : WF_streamingVars(_startWatcher(w))
  /\ WF_streamingVars(_runPollCycle)
  /\ \A c \in Cycle :
       /\ WF_streamingVars(CycleEnds(c))
       /\ WF_streamingVars(\E p \in polls : p.cycle = c /\
                             (PollAnswered(p) \/ PollFails(p) \/ _pollOne(p, FALSE)))
  /\ \A w \in Watcher :
       SF_streamingVars(\E p \in polls : p.watcher = w /\ PollAnswered(p))
  /\ \A t \in TransactionId : WF_streamingVars(StatusMoves(t))

StreamingSpec == StreamingInit /\ [][StreamingNext]_streamingVars /\ StreamingFairness

-----------------------------------------------------------------------------
\* Type correctness.
StreamingTypeOK ==
  /\ {supportsSSE, pollTimer, pollLoopRunning, aborted, destroyed} \subseteq BOOLEAN
  /\ watch_count \in 0..MaxWatches
  /\ watcherState \in [Watcher ->
       [id : TransactionId, active : BOOLEAN,
        phase : {"unborn", "detecting", "polled", "open", "reconnecting", "ended"},
        lastStatus : NoStatus..FinalStatus, cursor : NoCursor..FinalStatus,
        sent : -1..FinalStatus]]
  /\ watchers \in [TransactionId -> {Nobody} \cup Watcher]
  /\ cycles \subseteq Cycle /\ threw \subseteq Watcher
  /\ \A p \in polls : /\ p.cycle \in cycles /\ p.watcher \in Watcher
                        /\ p.answer \in Unanswered..status[watcherState[p.watcher].id]
  /\ status \in [TransactionId -> 0..FinalStatus]

\* The map and the watchers agree, through terminal statuses, unsubscribes of
\* any handle and destroy: the map holds at most maxWatched watchers, each
\* active and under its own id.
MapHoldsActiveWatchers ==
  /\ Cardinality(Watched) <= maxWatched
  /\ \A t \in TransactionId :
       watchers[t] # Nobody => watcherState[watchers[t]].active /\ watcherState[watchers[t]].id = t

\* Nobody is forgotten: as long as the service is not aborted, a watcher that
\* is in the map and past detection has its EventSource (open or about to be
\* reopened, unless its onError threw), or the poll loop has a cycle
\* scheduled or in flight, whatever was added, removed or destroyed meanwhile.
EveryWatcherServed ==
  \A w \in Watched :
    /\ watcherState[w].phase = "polled" /\ ~aborted => pollTimer \/ cycles # {}
    /\ watcherState[w].phase = "ended" /\ ~aborted => w \in threw

\* "All watchers in long-poll mode share one loop": cycles overlap, or a
\* cycle is scheduled while one is in flight, only once destroy has been
\* called in the middle of a cycle.
OneLoop ==
  Cardinality(cycles) + (IF pollTimer THEN 1 ELSE 0) > 1 => destroyed

\* The map, the watchers and the poll loop agree, whatever is added, replaced,
\* removed or destroyed while a cycle awaits (sep6Streaming.ts:99-140, 307-342).
WatchersServed == MapHoldsActiveWatchers /\ EveryWatcherServed /\ OneLoop

\* A polled watcher gets to the end: it is told of the terminal status, or it
\* is removed or replaced, unless its handler throws.
PolledWatcherEnds ==
  \A w \in Watcher :
    (w \in Watched /\ watcherState[w].phase = "polled" /\ ~aborted)
      ~> (w \notin Watched \/ w \in threw \/ aborted)

-----------------------------------------------------------------------------
(* What a comment says, and the code does not do. *)

\* sep6Streaming.ts: "Tracks the last-seen `updated_at` cursor per
\* transaction so reconnected streams never miss or duplicate a status change."
NoStatusRepeated ==
  [][\A w \in Watcher : watcherState'[w].lastStatus >= watcherState[w].lastStatus]_streamingVars

=============================================================================
