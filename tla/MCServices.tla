------------------------------ MODULE MCServices ------------------------------
(***************************************************************************)
(* The parts of the system about which only safety is asked, for model     *)
(* checking: the webhook processor (over the deliverer and the breaker),   *)
(* the receiver of webhooks, the dead-letter queue, the log redaction, the *)
(* domain validator, the signer governance, the configuration manager, the *)
(* rate limiter, the streaming service and the developer panel.  They do   *)
(* not act on each other: component says which one a behaviour is about,   *)
(* and the others keep their initial state.                                *)
(***************************************************************************)
EXTENDS WebhookProcessor, DeadLetterQueue, Redaction, DomainValidator,
        MultiSigGovernance, ConfigManager, RateLimiter, RequestPanel,
        Sep6StreamingService, WebhookReceiver

VARIABLE component

MCKeyOf == [c \in Caller |-> CHOOSE k \in Key : TRUE]

MCText == {<<"other">>, <<"word", "word", "word">>, <<"word", "other", "word">>}

MCLeaves == {[t |-> "null"], [t |-> "number"]} \cup String

\* An object or array with the given members, a function from keys to values.
MCNode(t, at) ==
    LET paths == UNION {{<<k>> \o q : q \in DOMAIN at[k]} : k \in DOMAIN at}
    IN  [q \in paths \cup {<< >>} |->
            IF q = << >> THEN [t |-> t] ELSE at[q[1]][Tail(q)]]

MCNodes(t, keys, members) ==
    {MCNode(t, at) : at \in UNION {[ks -> members] : ks \in SUBSET keys}}

\* Every value of depth two over a sensitive key, another key and one position.
MCFlat == {[q \in {<< >>} |-> leaf] : leaf \in MCLeaves}
MCShallow == MCFlat \cup MCNodes("object", {"token", "id"}, MCFlat)
                    \cup MCNodes("array", {"0"}, MCFlat)
MCBodies == MCShallow \cup MCNodes("object", {"token", "id"}, MCShallow)
                      \cup MCNodes("array", {"0"}, MCShallow)

\* Every text of up to five bytes, and one that is only too long.
MCDomains == UNION {[1..n -> Byte] : n \in 0..5} \cup {<<"a", ".", "a", ".", "a", "a">>}

\* Every list of up to two addresses, and two of three.
MCLists == UNION {[1..n -> Address] : n \in 0..2}
           \cup {<<"p", "q", "r">>, <<"q", "r", "q">>}

\* What does not run starts in one of its initial states.
ServicesInit ==
    /\ component \in {"processor", "queue", "redaction", "domain", "governance",
                      "config", "limiter", "streaming", "panel", "receiver"}
    /\ ProcessorInit
    /\ QueueInit
    /\ component = "redaction" \/ (redact = TRUE /\ body = [q \in {<< >>} |-> [t |-> "null"]])
    /\ RedactionInit
    /\ DOMAIN headers = {} \/ (component = "redaction" /\ body \in MCFlat)
    /\ component = "domain" \/ domain = << >>
    /\ DomainInit
    /\ GovernanceInit
    /\ ConfigInit
    /\ component # "config" => _current = [anchorUrl |-> "https", limit |-> "undefined"]
    /\ LimiterInit
    /\ StreamingInit
    /\ component # "streaming" => supportsSSE
    /\ PanelInit
    /\ ReceiverInit

servicesVars ==
    <<component, allVars, queueVars, redactionVars, domainVars, governanceVars,
      configVars, limiterVars, streamingVars, panelVars, receiverVars>>

ServicesNext ==
    /\ UNCHANGED component
    /\ \/ /\ component = "processor" /\ ProcessorNext
          /\ UNCHANGED <<queueVars, redactionVars, domainVars, governanceVars,
                         configVars, limiterVars, streamingVars, panelVars, receiverVars>>
       \/ /\ component = "queue" /\ QueueNext
          /\ UNCHANGED <<allVars, redactionVars, domainVars, governanceVars,
                         configVars, limiterVars, streamingVars, panelVars, receiverVars>>
       \/ /\ component = "redaction" /\ RedactionNext
          /\ UNCHANGED <<allVars, queueVars, domainVars, governanceVars,
                         configVars, limiterVars, streamingVars, panelVars, receiverVars>>
       \/ /\ component = "domain" /\ DomainNext
          /\ UNCHANGED <<allVars, queueVars, redactionVars, governanceVars,
                         configVars, limiterVars, streamingVars, panelVars, receiverVars>>
       \/ /\ component = "governance" /\ GovernanceNext
          /\ UNCHANGED <<allVars, queueVars, redactionVars, domainVars,
                         configVars, limiterVars, streamingVars, panelVars, receiverVars>>
       \/ /\ component = "config" /\ ConfigNext
          /\ UNCHANGED <<allVars, queueVars, redactionVars, domainVars,
                         governanceVars, limiterVars, streamingVars, panelVars, receiverVars>>
       \/ /\ component = "limiter" /\ LimiterNext
          /\ UNCHANGED <<allVars, queueVars, redactionVars, domainVars,
                         governanceVars, configVars, streamingVars, panelVars, receiverVars>>
       \/ /\ component = "streaming" /\ StreamingNext
          /\ UNCHANGED <<allVars, queueVars, redactionVars, domainVars,
                         governanceVars, configVars, limiterVars, panelVars, receiverVars>>
       \/ /\ component = "panel" /\ PanelNext
          /\ UNCHANGED <<allVars, queueVars, redactionVars, domainVars,
                         governanceVars, configVars, limiterVars, streamingVars, receiverVars>>
       \/ /\ component = "receiver" /\ ReceiverNext
          /\ UNCHANGED <<allVars, queueVars, redactionVars, domainVars,
                         governanceVars, configVars, limiterVars, streamingVars,
                         panelVars>>

ServicesSpec == ServicesInit /\ [][ServicesNext]_servicesVars

\* Type correctness of all of them; in particular a counter of the limiter never
\* exceeds its limit, even when the clock steps back.
ServicesTypeOK ==
    /\ ProcessorTypeOK /\ QueueTypeOK /\ DomainTypeOK /\ GovernanceTypeOK
    /\ ConfigTypeOK /\ LimiterTypeOK /\ StreamingTypeOK /\ PanelTypeOK
    /\ ReceiverTypeOK
=============================================================================
