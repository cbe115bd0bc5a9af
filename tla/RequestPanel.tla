---------------------------- MODULE RequestPanel ----------------------------
(***************************************************************************)
(* The developer panel (dev-panel/src): AnchorRequestPanel sends one SEP   *)
(* request at a time through AnchorRequestBuilder and shows the logs of    *)
(* the successful ones, newest first.  A handler is a closure over the     *)
(* logs of the render it was clicked in, and it is these it puts the new   *)
(* log in front of when the answer comes.  Logs are numbered.              *)
(***************************************************************************)
EXTENDS Naturals, Sequences

CONSTANT MaxRequests

ASSUME PanelAssumption == MaxRequests \in Nat

VARIABLES logs, loading, panelError, requests, builderLogs, lastId

panelVars == <<logs, loading, panelError, requests, builderLogs, lastId>>

Kind == {"sep10_challenge", "sep6_deposit", "sep6_withdraw"}

PanelTypeOK ==
    /\ \E n \in 0..MaxRequests : logs \in [1..n -> 1..MaxRequests]
    /\ loading \in BOOLEAN
    /\ panelError \in BOOLEAN
    /\ \A r \in requests : r.id \in 1..MaxRequests /\ r.kind \in Kind
    /\ lastId \in 0..MaxRequests

PanelInit ==
    /\ logs = << >>
    /\ loading = FALSE
    /\ panelError = FALSE
    /\ requests = {}
    /\ builderLogs = << >>
    /\ lastId = 0

\* A handler up to its await.  The button is disabled while loading and while
\* the field is empty; a blank field gets the message.
click(kind, blank) ==
    /\ ~loading
    /\ lastId < MaxRequests
    /\ panelError' = blank
    /\ loading' = ~blank
    /\ IF blank THEN UNCHANGED <<requests, lastId>>
       ELSE /\ lastId' = lastId + 1
            /\ requests' = requests \cup
                   {[kind |-> kind, id |-> lastId + 1, captured |-> logs]}
    /\ UNCHANGED <<logs, builderLogs>>

\* Wrong on purpose: the button is not disabled while a challenge is awaited.
handleSep10ChallengeAgain(blank) ==
    /\ lastId < MaxRequests
    /\ loading' = FALSE
    /\ lastId' = lastId + 1
    /\ requests' = requests \cup
           {[kind |-> "sep10_challenge", id |-> lastId + 1, captured |-> logs]}
    /\ UNCHANGED <<logs, panelError, builderLogs>>

handleSep10Challenge(blank) == click("sep10_challenge", blank)

handleSep6Deposit(blank) == click("sep6_deposit", blank)

\* Asset and destination: blank if either is.
handleSep6Withdraw(blank) == click("sep6_withdraw", blank)

\* The builder logs the request once, a success before it returns and a failure
\* (no answer, not JSON, not ok) in its catch block; the handler goes on.
answered(kind, ok) ==
    \E r \in requests :
        /\ r.kind = kind
        /\ requests' = requests \ {r}
        /\ builderLogs' = Append(builderLogs, [id |-> r.id, ok |-> ok])
        /\ logs' = IF ok THEN <<r.id>> \o r.captured ELSE logs
        /\ panelError' = (panelError \/ ~ok)
        /\ loading' = FALSE
        /\ UNCHANGED lastId

sep10Challenge(ok) == answered("sep10_challenge", ok)

sep6Deposit(ok) == answered("sep6_deposit", ok)

sep6Withdraw(ok) == answered("sep6_withdraw", ok)

\* The clear button, there whenever logs are, a request awaited or not.
onClearLogs ==
    /\ logs # << >>
    /\ logs' = << >>
    /\ UNCHANGED <<loading, panelError, requests, builderLogs, lastId>>

PanelNext ==
    \/ \E blank \in BOOLEAN : \/ handleSep10Challenge(blank)
                              \/ handleSep6Deposit(blank)
                              \/ handleSep6Withdraw(blank)
    \/ \E ok \in BOOLEAN : sep10Challenge(ok) \/ sep6Deposit(ok) \/ sep6Withdraw(ok)
    \/ onClearLogs

PanelSpec == PanelInit /\ [][PanelNext]_panelVars

-----------------------------------------------------------------------------

succeeded == {builderLogs[n].id : n \in {m \in DOMAIN builderLogs : builderLogs[m].ok}}

\* Requests are numbered in the order they were sent.
LatestSuccesses(shownLogs) ==
    /\ \A i \in DOMAIN shownLogs : shownLogs[i] \in succeeded
    /\ \A i, j \in DOMAIN shownLogs : i < j => shownLogs[i] > shownLogs[j]
    /\ \A i \in DOMAIN shownLogs : \A id \in succeeded :
          id > shownLogs[i] => \E j \in DOMAIN shownLogs : shownLogs[j] = id

\* The panel shows the latest successful requests, newest first and without a
\* gap: the logs a handler closed over are never too old, because no other
\* request is answered in between.  (A clear in between is undone.)
\* (AnchorRequestPanel.tsx:56-74, 211-213.)
ShowsLatestSuccesses == LatestSuccesses(logs)
=============================================================================
