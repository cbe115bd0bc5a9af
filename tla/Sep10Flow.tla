------------------------------ MODULE Sep10Flow ------------------------------
(***************************************************************************)
(* The SEP-10 authentication component (sdk/src/components/Sep10Flow) on   *)
(* its service (sdk/src/services/sep10.ts).  A click runs a callback that  *)
(* holds the service of the config it was rendered with, and awaits one    *)
(* request; the parent may pass another config at any time, which makes a  *)
(* new service.  A request is awaited in two parts, the headers (under the *)
(* service's timeout) and the body (after clearTimeout).                   *)
(*                                                                         *)
(* A challenge and a token are told apart by the anchor that issued them;  *)
(* Nothing stands for null and for a field the answer lacks.  switched is  *)
(* a history variable: the config changed while a signature was awaited.   *)
(***************************************************************************)
EXTENDS Naturals

CONSTANTS Anchor, Nothing, MaxSwitches

ASSUME FlowAssumption ==
    /\ Nothing \notin Anchor
    /\ MaxSwitches \in Nat

VARIABLES stage, challenge, flowError, isAuthenticated, sessionToken,
          config, pending, switched, switches

flowVars == <<stage, challenge, flowError, isAuthenticated, sessionToken,
              config, pending, switched, switches>>

Stage == {"idle", "requesting", "awaiting_signature", "verifying", "done", "error"}

\* The awaited request: what it asks, whom, for which challenge, how far it is.
Request == [kind : {"challenge", "token"}, service : Anchor,
            of : Anchor \cup {Nothing}, part : {"headers", "body"}]

NoRequest == [kind |-> "none"]

FlowTypeOK ==
    /\ stage \in Stage
    /\ challenge \in Anchor \cup {Nothing}
    /\ flowError \in BOOLEAN
    /\ isAuthenticated \in BOOLEAN
    /\ sessionToken \in [from : Anchor, of : Anchor] \cup {Nothing}
    /\ config \in Anchor
    /\ pending \in Request \cup {NoRequest}
    /\ switched \in BOOLEAN
    /\ switches \in 0..MaxSwitches

FlowInit ==
    /\ stage = "idle"
    /\ challenge = Nothing
    /\ flowError = FALSE
    /\ isAuthenticated = FALSE
    /\ sessionToken = Nothing
    /\ config \in Anchor
    /\ pending = NoRequest
    /\ switched = FALSE
    /\ switches = 0

requestChallenge ==
    /\ stage = "idle"
    /\ stage' = "requesting"
    /\ flowError' = FALSE
    /\ pending' = [kind |-> "challenge", service |-> config, of |-> Nothing,
                   part |-> "headers"]
    /\ switched' = FALSE
    /\ UNCHANGED <<challenge, isAuthenticated, sessionToken, config, switches>>

\* The answer of GET /auth, its transaction or none.
challengeArrives(tx) ==
    /\ pending.kind = "challenge"
    /\ pending.part = "body"
    /\ tx \in {pending.service, Nothing}
    /\ stage' = "awaiting_signature"
    /\ challenge' = tx
    /\ pending' = NoRequest
    /\ UNCHANGED <<flowError, isAuthenticated, sessionToken, config, switched, switches>>

\* Wrong on purpose: the callback keeps the service of one config for good.
submitToFixedService ==
    /\ stage = "awaiting_signature"
    /\ challenge # Nothing
    /\ stage' = "verifying"
    /\ flowError' = FALSE
    /\ pending' = [kind |-> "token", service |-> CHOOSE a \in Anchor : TRUE,
                   of |-> challenge, part |-> "headers"]
    /\ UNCHANGED <<challenge, isAuthenticated, sessionToken, config, switched, switches>>

\* Submit: without a challenge the flow fails at once.
submitSignedChallenge ==
    /\ stage = "awaiting_signature"
    /\ IF challenge = Nothing
       THEN /\ stage' = "error"
            /\ flowError' = TRUE
            /\ UNCHANGED pending
       ELSE /\ stage' = "verifying"
            /\ flowError' = FALSE
            /\ pending' = [kind |-> "token", service |-> config, of |-> challenge,
                           part |-> "headers"]
    /\ UNCHANGED <<challenge, isAuthenticated, sessionToken, config, switched, switches>>

\* The answer of POST /auth.  onAuthenticated is called inside the try: when it
\* throws, the stage is set to error on top of the new session.
tokenArrives(present, handlerThrows) ==
    /\ pending.kind = "token"
    /\ pending.part = "body"
    /\ stage' = IF handlerThrows THEN "error" ELSE "done"
    /\ flowError' = (flowError \/ handlerThrows)
    /\ sessionToken' = IF present THEN [from |-> pending.service, of |-> pending.of]
                                  ELSE Nothing
    /\ isAuthenticated' = TRUE
    /\ pending' = NoRequest
    /\ UNCHANGED <<challenge, config, switched, switches>>

\* The catch blocks: no answer, a refusal, or a body that does not parse.
requestFails ==
    /\ pending # NoRequest
    /\ stage' = "error"
    /\ flowError' = TRUE
    /\ pending' = NoRequest
    /\ UNCHANGED <<challenge, isAuthenticated, sessionToken, config, switched, switches>>

\* fetch resolves with the headers of a success; clearTimeout follows.
headersArrive ==
    /\ pending # NoRequest
    /\ pending.part = "headers"
    /\ pending' = [pending EXCEPT !.part = "body"]
    /\ UNCHANGED <<stage, challenge, flowError, isAuthenticated, sessionToken,
                   config, switched, switches>>

\* Wrong on purpose: the abort is not armed for a challenge request.
fetchWithTimeoutUnarmed ==
    /\ pending # NoRequest
    /\ pending.part = "headers"
    /\ pending.kind = "token"
    /\ requestFails

\* controller.abort(): armed until the headers are there.
fetchWithTimeout ==
    /\ pending # NoRequest
    /\ pending.part = "headers"
    /\ requestFails

\* Cancel, Try Again and Start New Session.
retry ==
    /\ stage \in {"awaiting_signature", "error", "done"}
    /\ stage' = "idle"
    /\ challenge' = Nothing
    /\ flowError' = FALSE
    /\ sessionToken' = Nothing
    /\ UNCHANGED <<isAuthenticated, config, pending, switched, switches>>

\* The parent renders the component with another config: useMemo makes a new
\* service, and the state is kept.
ConfigChanges(c) ==
    /\ c # config
    /\ switches < MaxSwitches
    /\ switches' = switches + 1
    /\ config' = c
    /\ switched' = (switched \/ stage \in {"requesting", "awaiting_signature"})
    /\ UNCHANGED <<stage, challenge, flowError, isAuthenticated, sessionToken, pending>>

FlowNext ==
    \/ requestChallenge
    \/ \E tx \in Anchor \cup {Nothing} : challengeArrives(tx)
    \/ submitSignedChallenge
    \/ \E present, throws \in BOOLEAN : tokenArrives(present, throws)
    \/ requestFails
    \/ headersArrive
    \/ fetchWithTimeout
    \/ retry
    \/ \E c \in Anchor : ConfigChanges(c)

\* setTimeout fires.
FlowFairness == WF_flowVars(fetchWithTimeout)

FlowSpec == FlowInit /\ [][FlowNext]_flowVars /\ FlowFairness

-----------------------------------------------------------------------------

\* The buttons are gated by the stage, and the stage says exactly whether a
\* request is awaited: so no answer ever arrives in a session that did not ask
\* for it (Sep10Flow.tsx:47-117, 192-240).
OneRequestAtATime ==
    /\ (pending # NoRequest) <=> (stage \in {"requesting", "verifying"})
    /\ stage = "requesting" => pending.kind = "challenge"
    /\ stage = "verifying" => pending.kind = "token" /\ pending.of = challenge

\* Back at idle nothing of an earlier session is left to be shown or submitted
\* (Sep10Flow.tsx:109-117).
IdleIsClean ==
    stage \in {"idle", "requesting"} =>
        challenge = Nothing /\ sessionToken = Nothing /\ ~flowError

\* A session token was issued by the anchor whose challenge was signed, unless
\* the config changed between the two clicks (Sep10Flow.tsx:32, 51, 82).
TokenFromChallenger ==
    (sessionToken # Nothing /\ ~switched) =>
        sessionToken.from = sessionToken.of /\ isAuthenticated

\* The stage, the request and the token tell one story.
FlowConsistent == OneRequestAtATime /\ IdleIsClean /\ TokenFromChallenger

\* A request is given up unless its headers arrive; what follows the headers
\* has no timeout (sep10.ts:117-132).
HeadersOrTimeout ==
    stage \in {"requesting", "verifying"} ~>
        (stage \notin {"requesting", "verifying"} \/ pending.part = "body")
=============================================================================
