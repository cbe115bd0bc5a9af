------------------------------- MODULE MCStreams -------------------------------
(***************************************************************************)
(* The parts of the system that have to come to an end, for model          *)
(* checking: webhook deliveries and their circuit breaker, the two SEP-6   *)
(* streams of the SDK, the command line and the SEP-10 flow.  They do not  *)
(* act on each other, except that deliver runs the breaker: component says *)
(* which one a behaviour is about, and the others keep their initial       *)
(* state.                                                                  *)
(***************************************************************************)
EXTENDS WebhookDeliverer, TransactionStream, Sep6StreamingService,
        AnchorKitCli, Sep10Flow

VARIABLE component

MCRest == {<< >>, <<"word">>, <<"account">>, <<"contract", "word">>, <<"word", "account">>,
           <<"account", "word", "other">>}

StreamsInit ==
    /\ component \in {"breaker", "deliverer", "stream", "streaming", "cli", "flow"}
    /\ Init
    /\ StreamInit
    /\ component # "stream" => preferredMode = "polling"
    /\ StreamingInit
    /\ component # "streaming" => supportsSSE
    /\ CliInit
    /\ component # "cli" => command = "Watch"
    /\ command # "Discover" =>
          offered = [toml |-> {}, info |-> [sep \in TransferSep |-> NoInfo]]
    /\ FlowInit
    /\ component # "flow" => config = CHOOSE a \in Anchor : TRUE

\* A step of one component, of which the others see nothing.
Breaker(A) == component = "breaker" /\ A
              /\ UNCHANGED <<component, delivery, streamVars, streamingVars, cliVars, flowVars>>
Deliverer(A) == component = "deliverer" /\ A
                /\ UNCHANGED <<component, streamVars, streamingVars, cliVars, flowVars>>
Stream(A) == component = "stream" /\ A
             /\ UNCHANGED <<component, vars, streamingVars, cliVars, flowVars>>
Streaming(A) == component = "streaming" /\ A
                /\ UNCHANGED <<component, vars, streamVars, cliVars, flowVars>>
Cli(A) == component = "cli" /\ A
          /\ UNCHANGED <<component, vars, streamVars, streamingVars, flowVars>>
Flow(A) == component = "flow" /\ A
           /\ UNCHANGED <<component, vars, streamVars, streamingVars, cliVars>>

StreamsNext ==
    \/ Breaker(BreakerNext)
    \/ Deliverer(Next)
    \/ Stream(StreamNext)
    \/ Streaming(StreamingNext)
    \/ Cli(CliNext)
    \/ Flow(FlowNext)

streamsVars == <<component, vars, streamVars, streamingVars, cliVars, flowVars>>

\* The fairness each module states, for the behaviours that are about it; one
\* condition for several components, as only one of them runs.
StreamsSpec ==
    /\ StreamsInit /\ [][StreamsNext]_streamsVars
    /\ WF_streamsVars(\/ Breaker(Tick) \/ Deliverer(DelivererTick) \/ Stream(Timers)
                      \/ Streaming(_runPollCycle)
                      \/ Cli(RunWatch(buildClient \/ sleepEnds) \/ RunDiscover(DiscoveryStep)
                             \/ RunPlayground(Call))
                      \/ Flow(fetchWithTimeout))
    /\ WF_streamsVars(\/ Stream(AnchorMoves) \/ Cli(RunWatch(AnchorProgress))
                      \/ \E t \in TransactionId : Streaming(StatusMoves(t)))
    /\ WF_streamsVars(Stream(Settles))
    /\ WF_streamsVars(Stream(SseProgress))
    /\ SF_streamsVars(Stream(GoodAnswer) \/ Cli(RunWatch(Answered)))
    /\ \A d \in Caller :
          /\ WF_streamsVars(Breaker(Resolve(d)) \/ Deliverer(RequestEnds(d)))
          /\ WF_streamsVars(Deliverer(Attempt(d) \/ Wake(d)))
    /\ \A w \in Watcher :
          /\ WF_streamsVars(Streaming(_startWatcher(w)))
          /\ WF_streamsVars(Streaming(CycleEnds(w)))
          /\ WF_streamsVars(Streaming(\E p \in polls : p.cycle = w /\
                              (PollAnswered(p) \/ PollFails(p) \/ _pollOne(p, FALSE))))
          /\ SF_streamsVars(Streaming(\E p \in polls : p.watcher = w /\ PollAnswered(p)))

\* Type correctness of all of them.
StreamsTypeOK ==
    /\ BreakerTypeOK
    /\ component # "breaker" => TypeOK
    /\ StreamTypeOK /\ StreamingTypeOK /\ CliTypeOK /\ FlowTypeOK

\* Every deliver call returns.
DeliveriesReturn == component = "deliverer" => EveryDeliveryReturns

\* A tripped breaker lets requests through again: an open circuit becomes ready
\* to probe, and a probe ends.
BreakerRecovers == HalfOpenEnds /\ OpenBecomesReady

\* Both streams of the SDK end: the one that runs on its own, apart from the
\* ends nobody hears of and the event source that stays silent for ever that
\* StreamEnds names, and each watcher of the service that polls for many.
StreamsEnd == StreamEnds /\ PolledWatcherEnds

\* watch and discover end, and every line of a playground session is answered.
CommandEnds == component = "cli" => CliAnswers
=============================================================================
