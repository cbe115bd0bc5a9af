---------------------------- MODULE ConfigManager ----------------------------
(***************************************************************************)
(* Hot reload of the SDK's configuration (sdk/src/config/index.ts).        *)
(* reload() validates, swaps, and then calls the listeners one by one,     *)
(* walking the live array.  A listener is user code: while it runs it may  *)
(* call reload(), onChange() and unsubscribe, so reloads nest.  calls is   *)
(* the stack of notification loops, innermost first; in each, the listener *)
(* at position is running.                                                 *)
(*                                                                         *)
(* History: swaps counts the configs put in place; seen[l] is the one l    *)
(* saw last (when it registered, or in its last call); jumped tells that a *)
(* listener at or before a running one was unsubscribed, which moves the   *)
(* rest of the array under the loop.                                       *)
(***************************************************************************)
EXTENDS Integers, Sequences, SequencesExt

CONSTANTS Listener, MaxReloads, MaxListeners, MaxRegistrations

ASSUME ConfigAssumption ==
    /\ MaxReloads \in Nat
    /\ MaxListeners \in Nat
    /\ MaxRegistrations \in Nat

VARIABLES _current, _listeners, calls, swaps, seen, jumped, registrations

configVars == <<_current, _listeners, calls, swaps, seen, jumped, registrations>>

\* anchorUrl: no text at all, not a URL, another scheme, http or https; limit
\* stands for the five numeric fields: absent, a positive finite number, whole or
\* not (index.ts:146; the comment at 103-104 asks for integers), or neither.
Candidate == [anchorUrl : {"blank", "unparseable", "ftp", "https"},
              limit : {"undefined", "positive", "zero", "NaN"}]

Loop == [previous : 0..MaxReloads, position : 1..MaxListeners]

ConfigTypeOK ==
    /\ _current \in Candidate
    /\ \E n \in 0..MaxListeners : _listeners \in [1..n -> Listener]
    /\ \E n \in 0..MaxReloads : calls \in [1..n -> Loop]
    /\ swaps \in 0..MaxReloads
    /\ seen \in [Listener -> 0..MaxReloads]
    /\ jumped \in BOOLEAN
    /\ registrations \in 0..MaxRegistrations

\* The code of the first failing rule, or "valid".
validateAnchorConfig(candidate) ==
    CASE candidate.anchorUrl = "blank" -> "MISSING_ANCHOR_URL"
      [] candidate.anchorUrl = "unparseable" -> "INVALID_ANCHOR_URL"
      [] candidate.anchorUrl = "ftp" -> "INVALID_ANCHOR_URL_SCHEME"
      [] OTHER -> IF candidate.limit \in {"zero", "NaN"}
                  THEN "INVALID_FIELD_VALUE" ELSE "valid"

\* The constructor refuses an initial config that does not validate.
ConfigInit ==
    /\ _current \in {c \in Candidate : validateAnchorConfig(c) = "valid"}
    /\ _listeners = << >>
    /\ calls = << >>
    /\ swaps = 0
    /\ seen = [l \in Listener |-> 0]
    /\ jumped = FALSE
    /\ registrations = 0

\* A loop goes on to position i of the array as it is now: it calls the listener
\* there with this._current, or is over and returns to the loops around it.
notify(i, previous, around, ver) ==
    IF i <= Len(_listeners)
    THEN /\ calls' = <<[previous |-> previous, position |-> i]>> \o around
         /\ seen' = [seen EXCEPT ![_listeners[i]] = ver]
    ELSE /\ calls' = around
         /\ UNCHANGED seen

\* reload() from outside, or from the listener that is running.  A candidate
\* that does not validate makes it throw before anything is assigned.
reload(candidate) ==
    /\ swaps < MaxReloads
    /\ validateAnchorConfig(candidate) = "valid"
    /\ _current' = candidate
    /\ swaps' = swaps + 1
    /\ notify(1, swaps, calls, swaps + 1)
    /\ jumped' = (jumped /\ calls # << >>)
    /\ UNCHANGED <<_listeners, registrations>>

\* Wrong on purpose: the loop passes on the config of its own reload() call.
listenerReturnsOwn ==
    /\ calls # << >>
    /\ notify(Head(calls).position + 1, Head(calls).previous, Tail(calls),
              Head(calls).previous + 1)
    /\ UNCHANGED <<_current, _listeners, swaps, jumped, registrations>>

\* The running listener returns, or throws, which the loop catches.
listenerReturns ==
    /\ calls # << >>
    /\ notify(Head(calls).position + 1, Head(calls).previous, Tail(calls), swaps)
    /\ UNCHANGED <<_current, _listeners, swaps, jumped, registrations>>

onChange(l) ==
    /\ Len(_listeners) < MaxListeners
    /\ registrations < MaxRegistrations
    /\ registrations' = registrations + 1
    /\ _listeners' = Append(_listeners, l)
    /\ seen' = [seen EXCEPT ![l] = IF Contains(_listeners, l) THEN @ ELSE swaps]
    /\ UNCHANGED <<_current, calls, swaps, jumped>>

\* indexOf finds the first registration of l, splice closes the gap.
unsubscribeListener(l) ==
    /\ Contains(_listeners, l)
    /\ LET idx == SelectInSeq(_listeners, LAMBDA x : x = l)
       IN  /\ _listeners' = RemoveAt(_listeners, idx)
           /\ jumped' = (jumped \/ \E k \in DOMAIN calls : idx <= calls[k].position)
    /\ UNCHANGED <<_current, calls, swaps, seen, registrations>>

ConfigNext ==
    \/ \E c \in Candidate : reload(c)
    \/ listenerReturns
    \/ \E l \in Listener : onChange(l) \/ unsubscribeListener(l)

ConfigSpec == ConfigInit /\ [][ConfigNext]_configVars

-----------------------------------------------------------------------------

\* When no loop is running any more, every registered listener has last seen
\* the config that is current, however reloads nested and listeners came and
\* went; while loops run, so have those that the innermost one has reached.
\* (index.ts:264-273.)  The exception is a listener unsubscribed under a running
\* loop: splice then moves the next one to a position the loop has passed.
ListenersUpToDate ==
    ~jumped => \A i \in DOMAIN _listeners :
        (calls = << >> \/ i <= Head(calls).position) => seen[_listeners[i]] = swaps

\* A listener is never shown an older config after a newer one, although an
\* outer loop goes on after an inner one has announced a later config
\* (index.ts:269 reads this._current in every call).
NeverShownOlder ==
    [][\A l \in Listener : seen'[l] >= seen[l]]_configVars
=============================================================================
