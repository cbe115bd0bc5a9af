# A TLA+ model of AnchorKit

AnchorKit anchors off-chain attestations on the Stellar network. The repository
holds a Soroban contract (`src/src`), a webhook delivery library
(`src/webhook-sdk`), a command line tool (`src/cli`), a TypeScript SDK
(`src/sdk`) and a developer panel (`src/dev-panel`). This directory models the
contract and the rent of its storage, the webhook library, the command line, and
the parts of the SDK and the panel that keep state while something is awaited.
TLC checks the models on small instances, and TLAPS proves every safety property
that a run checks, the type invariants part by part, for all values of the
constants.

Some files of the modelled commit would not compile as they stand:
`migrations.rs` uses `?` on an `Option`, `multisig.rs` builds its message hash
from values of the wrong type, and `delivery.rs` uses `self.logging` and
`BTreeMap` without declaring them. In the two that are modelled these lines have
no effect on control: the hash is compared with nothing, and logging returns
nothing.

## The parts and their modules

| Part | Source | Modules |
| --- | --- | --- |
| Attestation contract | `src/src/contract.rs`, `storage.rs`, `events.rs`, `types.rs` | `AnchorKitContract`, abstract `AttestationRegistry` and `ReferenceModel`, proofs `AnchorKitContractProofs`, `AnchorKitContractSteps` |
| Storage rent | `src/src/storage.rs`, `contract.rs` | `StorageRent`, proofs `ComponentProofs` |
| Signer governance | `src/src/multisig.rs`, `contract.rs` | `MultiSigGovernance`, proofs `CountingProofs` |
| Domain validation | `src/src/domain_validator.rs` | `DomainValidator`, proofs `ComponentProofs` |
| Circuit breaker | `src/webhook-sdk/src/circuit_breaker.rs` | `CircuitBreaker`, proofs `WebhookProofs` |
| Deliverer | `src/webhook-sdk/src/delivery.rs`, `retry.rs` | `WebhookDeliverer`, proofs `WebhookProofs` |
| Idempotent processor | `src/webhook-sdk/src/processor.rs`, `idempotency.rs` | `WebhookProcessor`, proofs `WebhookProofs` |
| Dead letters | `src/webhook-sdk/src/dead_letter.rs`, `monitor.rs` | `DeadLetterQueue`, proofs `OperatorProofs` |
| Signature verification | `src/webhook-sdk/src/verification.rs` | `WebhookReceiver`, proofs `WebhookProofs` |
| Log redaction | `src/webhook-sdk/src/logging.rs` | `Redaction`, proofs `WebhookProofs` |
| Transaction stream | `src/sdk/src/services/sep6Stream.ts` | `TransactionStream`, proofs `ComponentProofs` |
| Streaming service | `src/sdk/src/services/sep6Streaming.ts` | `Sep6StreamingService`, proofs `CountingProofs` |
| Rate limiter | `src/sdk/src/services/rateLimiter.ts` | `RateLimiter`, proofs `RateLimiterProofs` |
| Configuration | `src/sdk/src/config/index.ts` | `ConfigManager`, proofs `SdkProofs` |
| SEP-10 flow | `src/sdk/src/components/Sep10Flow`, `services/sep10.ts` | `Sep10Flow`, proofs `SdkProofs` |
| Command line | `src/cli/src/main.rs` | `AnchorKitCli`, proofs `OperatorProofs` |
| `watch` | `src/cli/src/watch.rs` | `TransactionWatch`, proofs `OperatorProofs` |
| `discover` | `src/cli/src/discovery` | `Discovery`, proofs `OperatorProofs` |
| `playground` | `src/cli/src/repl.rs`, `rpc.rs`, `args.rs`, `error.rs` | `Playground`, proofs `OperatorProofs` |
| Developer panel | `src/dev-panel/src` | `RequestPanel`, proofs `ComponentProofs` |

The processor runs the deliverer, which runs the breaker, and their modules
extend each other in this order. `AnchorKitCli` runs one of its three subcommands.
The other parts share no state: the contract is only simulated, by `playground`,
and the SDK, the tool and the panel each talk to an anchor on their own. `MCAnchorKitContract` and `MCWebhookProcessor`
define values of constants. `MCStreams` and `MCServices` put several parts into
one specification: a variable `component`, which never changes, says which part
a behaviour is about, and the others keep their initial state. Such a behaviour is
one of the part alone, so an invariant of the part is checked as if it had a
specification of its own.

### AnchorKitContract

The host runs one invocation at a time and throws away the writes of an
invocation that returns an error. So an action is an invocation that succeeds,
and one that fails changes nothing. What a method returns, error by error in the
order of the code, is in the `*_result` operators, which guard the actions.
`attest_batch` is the exception: it runs as several steps (`AttestBatch`,
`BatchRecord`, `BatchAbort`) on a working copy `work` of the attestation data,
which the host commits at the end or discards. That shows states in the middle of
a batch, which the all-or-nothing property is about.

A `store` is the record of the Attestation, AttestationSeq, AttestationHistory
and AttestationCount keys. Its field `seen`, and the variable `observed`, are what
a consumer who folds the published events knows. `require_auth` is the
membership of the caller in `admin`, or the choice of the attestor itself.
Payload hashes and addresses are model values, and an attestation type is a name
with a length. Timestamps are bounded by `U64Max`, and addition saturates there as
in the code. `renew_attestation` and `renew_attestor` write back the same content
and are left to `StorageRent`.

Two abstract specifications say what the contract promises. `AttestationRegistry`
is a log per pair of which the stored attestation is the last record.
`ReferenceModel` is the model that the repository's differential test
(`attestation_model_proptest.rs`) runs beside the contract: a pause flag and, per
pair, attestor, expiry and a revoked flag. The test compares the two on random
sequences of up to twenty calls. `ImplementsReference` compares them on all of
them, and takes batches in as well, which the test leaves out.

### StorageRent

The same storage seen by its rent. For one attestor and one pair the model keeps
the last ledger at which each entry is live. `set` and `extend_ttl` are the
host's: a new entry gets the network's minimum, and an extension does nothing while
more than its threshold is left and never passes the ceiling. An archived entry
can be used only after a restore. The operator either renews every `RenewEvery`
ledgers or never; the variable `renews` is chosen at the start. `CloseLedger` does
not overtake an operator whose renewal is due (`RenewalDue`).

### CircuitBreaker, WebhookDeliverer, WebhookProcessor

Each breaker operation runs under a mutex and is one step. Between acquiring a
permit and reporting its outcome anything may happen. Time is the age of
`opened_at`, counted up to the cooldown, which is all that `try_acquire` compares
it with. `consecutive_failures` likewise stops at the threshold. The registry
maps hosts to independent breakers, so one breaker is modelled.

`WebhookDeliverer` extends the breaker with the loop of `deliver`: `Attempt` up to
the await in `send`, `SendOk`, `SendErr`, `Wake` after the backoff, and `Cancel`
when the future is dropped at an await. Deliveries outside `Tracked` have no
breaker. Backoff lengths are left open, so a retry may come at any time.

`WebhookProcessor` extends the deliverer with `process`: look the key up, deliver,
record. Lookup and record may fail, calls may be dropped, rows may be cleaned up,
and the service may crash, which loses the breaker and the running calls and keeps
the table. `entered`, `excused` and `cleaned` are history variables for the
properties.

### MultiSigGovernance, DomainValidator

`MultiSigGovernance` has the signer list, its threshold and its nonce through
`initialize`, `initialize_multisig` and `rotate_signers`. Lists are sequences, as
in the code. `rotate_signers` counts the positions of the passed list that hold a
current signer; `verify_multisig`, which nothing calls yet, also wants the list
free of duplicates. `VerifyAddsToCount` says that the second is the first and the
checks it leaves out. The history variables `rotations` and `lastSignedBy` are
never reset, and keep what the properties need of earlier sets.

Two sentences of the repository do not describe this code. `contract.rs:430` says of
`initialize_multisig` "Only callable once per contract instance", but the guard at 436
is that `initialize` has not run, so until then it replaces the signers again and
starts the nonce at 0. `MULTISIG_IMPLEMENTATION.md:195` and 245 speak of duplicate
prevention, which `contract.rs:464-473` does not have for the approvers of a
rotation: a signer who is listed twice counts twice. The model does what the code
does, and `SignersInControl` claims what remains true.

`DomainValidator` runs the scanner byte by byte and compares its verdict with
`Hostname`, which speaks of the whole text.

### DeadLetterQueue, Redaction, WebhookReceiver

Letters are stored by any number of writers, with times that need not be in order,
while a report counts and then lists, and while a reader pages through the queue.
The rows are in the order of their insertion, and `place` is the offset at which
`ORDER BY dead_lettered_at DESC` lists one.

In `Redaction` a JSON value of any depth is a function from paths to what is there.
`redact_body`, which is recursive in the code, is a walk with a set of pending
paths: one step is one call, and the calls for the members follow. A string is its
dot-separated segments, which is all that the test for a token looks at.

In `WebhookReceiver` an HMAC is the pair of the secret and the body it was computed
from. Requests come from the anchor or from a sender with another secret. On the
way they may be repeated, lose or garble their header, or change their body. The
receiver acts on those that `verify_optional_header` lets through.

### TransactionStream, Sep6StreamingService

`TransactionStream` has one `activity` at a time, the thing the loop waits for: an
open event source, a fetch, its body, or a timer. Every await of the code is a
place where other actions may come first, `stop()` among them, and every callback
may call `stop()` itself (`quits`). `closes` records the close events, `drops` the
failures in a row, `late` a callback after `stop()`. A loop can be lost without an
event while the stream still counts as running: on a body that is JSON null
(`crashed`), and on an AbortError that `stop()` did not cause, after which the loop
returns (`FetchAborted`, `sep6Stream.ts:284` and 362). The anchor moves the
transaction through numbered versions, and an event source that is re-opened gets
what follows the event id it asks for.

`Sep6StreamingService` has the watchers, the map of them by transaction, the
shared poll timer, the cycles in flight and the polls of each cycle. `watch()` may
replace a watcher, `destroy()` may come in the middle of a cycle, and the loop may
be started again after it. Handlers may throw.

### Sep10Flow, ConfigManager, RateLimiter, RequestPanel

`Sep10Flow` has the stages of the component and one request, awaited first for
its headers, under a timeout, and then for its body, without one. The parent may
pass another configuration at any time. `ConfigManager` keeps the stack of nested
notification loops. Its validator takes any positive finite number for a limit
(`index.ts:146`), although the comment at 103-104 asks for integers. `RateLimiter` keeps, beside the code's counters, the log of
granted requests and the counters as they would be without `prune()`. Estimates
are multiplied by the window, so that they are integers. A sum over the attestors
is the number of elements of a set with one element per unit (`units`). In
`RequestPanel` a handler holds the logs of the render in which it was clicked.

### AnchorKitCli: TransactionWatch, Discovery, Playground

`TransactionWatch` is the blocking loop of `anchorkit watch`, one action per answer
and sleep, after the HTTP client has been built or could not be (`buildClient`). `recent` holds the outcomes of the last requests, which is what
"consecutive" is about.

`Discovery` is `anchorkit discover`: stellar.toml, then the `/info` of one of the
transfer servers it names, then the report. A stellar.toml is the set of its
fields. The anchor may be reconfigured between the two requests; `throughout` is
what it has supported all along.

`Playground` is a session of `anchorkit playground`: lines, the simulated calls they
name, and replies that come late, in part or not at all. The contract is changed
by others meanwhile. A value is the number of the contract's state it was computed
from, and `since` is the state when the line was entered.

`AnchorKitCli` runs one of the three, and `exit_status` is what `main` makes of its
result.

Definitions that are marked as wrong on purpose are plausible mistakes, kept to
show that each property notices one of them. No action uses them.

## What the runs check

Passing runs:

| Run | Configuration | Shows |
| --- | --- | --- |
| `contract_config` | `MCContractConfig.cfg` | every method: new entries are justified by the configuration they were made under; revocations follow what they revoke; times never wrap; validity returns only by a fresh attest; events tell the state; pages cover the history; every call does what `ReferenceModel` predicts (`ImplementsReference`) |
| `contract_batch` | `MCContractBatch.cfg` | batches are written as a whole, in order, or not at all; the history ends in the current attestation and only grows; the contract implements `AttestationRegistry` |
| `rent` | `MCStorageRent.cfg` | under an operator who renews in time nothing valid or registered is archived; with either kind of operator a history entry covers its lifetime or reaches the ceiling |
| `streams` | `MCStreams.cfg` | the parts that have to come to an end |
| `services` | `MCServices.cfg` | the safety of the other parts |

In `streams`:

- Breaker and deliverer: half-open ends and open becomes ready
  (`BreakerRecovers`), requests are bounded (`RequestsBounded`), every delivery
  returns (`DeliveriesReturn`), and the deliverer implements the breaker's
  specification (`ImplementsBreaker`).
- Transaction stream: a stream that counts as running waits for something, or has
  lost its loop in one of the two ways above, and a stopped one holds no event
  source and no timer (`LoopAccounted`); it reports its end once, a second time only when a final
  status overtakes `stop()`, and without server-sent events it gives up only after
  too many failures in a row (`EndsAsReported`); updates come in order across
  transports (`UpdatesInOrder`).
- `StreamsEnd`: a started transaction stream stops, unless its loop was lost or it
  waits on an event source that has nothing more to send, the final status having
  been lost in a message it could not read (`WaitsForEver`; `runSse` sets no
  timeout). A polled watcher of the streaming service gets to its end, with another
  watcher coming and going.
- Command line (`CliOutcome`): `watch` gives up exactly after a run of errors and
  reports success for the final status only. `discover` reports every SEP that the
  anchor supported all along, and none that it does not support unless it was
  reconfigured or the `/info` of SEP-6 was not asked for. A value that `playground`
  prints is no older than the line that asked for it, and only well-typed lines send
  a request. The exit status tells the outcome. `watch` and `discover` end and every
  line is answered (`CommandEnds`).
- SEP-10 flow (`FlowConsistent`): one request at a time, nothing of an earlier
  session at idle (`isAuthenticated` is the one field that `retry` leaves set), and a
  token of the anchor whose challenge was signed unless the configuration changed.
  `HeadersOrTimeout` is the timeout up to the headers.

In `services`:

- Processor: a payload is delivered again only for a cause (`RepeatHasCause`), and
  duplicates get one response (`DuplicatesAgree`).
- Dead letters (`ReadersMissNothing`): a report agrees with itself although it is
  two queries, and paging misses nothing.
- Receiver (`AcceptedWasSent`): it acts only on what the anchor sent, and lets
  through a request with the signature of its body.
- Redaction (`LoggedLeafByLeaf`) and domains (`VerdictIsRight`): the algorithm
  against a definition of its result.
- Governance (`SignersInControl`): once the contract is complete only a rotation
  changes the signers, and the nonce never goes back. Every rotation has an approver
  among the signers it replaces, and a threshold of them if its list repeats nobody.
- Configuration: listeners end up to date (`ListenersUpToDate`). The exception
  `jumped` is real: a listener that unsubscribes inside a callback moves the array
  under the loop, which then skips the next one.
- Rate limiter (`CountersExact`): pruning changes no decision, the global counter
  is the sum of the others, and `remaining` is what the next call meets. No window
  of any position holds twice the limit (`NoDoubleBurst`). After a backward step of
  the clock only the bounds of the counters are claimed, in the type invariant.
- Streaming service (`WatchersServed`): map and watchers agree, nobody is forgotten,
  and there is one loop as long as `destroy()` is not called in the middle of a
  cycle.
- Panel: it shows the latest successes without a gap (`ShowsLatestSuccesses`).

Some definitions are in no run because a theorem states them for all constants:
the type invariants and `CountIsAttestations` of the contract, `HalfWindow`,
`CircuitConsistent`, `HalfOpenHasProbe`, `ModeOnlyDowngrades`,
`TransportOnlyFallsBack`, `ValuesInOrder`, `SignersCanAct`, `VerifyAddsToCount` and
`NeverShownOlder`.

Runs that TLC is expected to refute, each a sentence of a comment or a document:

| Run | The text | What the code does |
| --- | --- | --- |
| `contract_precheck` | `docs/pre-audit-security-checklist.md:249-253` | the cap is checked in the writing loop; the host's rollback keeps the batch atomic |
| `rent_reattest` | `docs/storage-rent-cost-analysis.md:92-93` | a re-attest above the threshold buys no rent, whatever its new expiry |
| `rent_cadence` | `src/contract.rs:129-131` | a renewal with more than 90 days left does nothing, so the period must not exceed the threshold |
| `breaker_one_probe` | `circuit_breaker.rs:7-8` | a late ordinary failure re-opens a half-open circuit, and a second probe follows |
| `processor_once` | `processor.rs:17-21` | overlapping calls with one payload both deliver |
| `streaming_cursor` | `sep6Streaming.ts:11-12` | the cursor is the start or completion time, so a re-opened event stream reports a status again |
| `stream_silent` | `sep6Stream.ts:178-179` | an answer whose body was being read at `stop()` still reaches the callbacks |

### Bounds

- Contract: two addresses are an administrator and somebody else, or an attestor
  and somebody else. `SeqBound` = 3 history entries give attest, revoke, attest
  again. `U64Max` of 2 or 3 makes the clock and the expiry saturate. Caps of 1, 2
  and TTLs of 0 to 3 fall on both sides of every comparison. Batches of three over
  two pairs repeat a pair.
- Rent: a ledger is two seconds, so that lifetimes fall between ledgers. The
  lifetimes lie below the minimum window, between it and the ceiling, and beyond
  the ceiling. `LedgerBound` lets every window run out.
- Webhooks: three callers and threshold 2 leave a late outcome after the circuit
  has opened. Three calls on one key are a race of two and a duplicate. Two
  attempts are one retry. One delivery has no breaker.
- Streams: two reconnects and versions 0 to 2 let a stream change transport
  between two updates. In `streams` one transaction is watched twice, so that a
  watcher is replaced; in `services` two transactions share the poll loop. Three
  errors in a row, rather than ten, are enough for every order of resets.
- SEP-10: two anchors and two changes, there and back.
- Dead letters: three letters at two times, reports of two and pages of one, so
  that a stored letter moves every later page.
- Redaction: values of depth two, with a key of each kind at both levels. Headers,
  one of each kind, vary together with flat bodies, as the two do not meet.
- Receiver: two secrets, two bodies.
- Command line: three of the seven fields of stellar.toml, which are both transfer
  servers and one other, one asset and one reconfiguration; two lines on a contract
  that changes twice, with too few, too many and ill-typed arguments.
- Domains: all texts up to five bytes over one letter, hyphen, dot and another
  byte; the limits are 3, 5 and 2 for 3, 255 and 63.
- Governance: lists of up to three of three addresses, with duplicates; a nonce
  that saturates at 2 and three rotations.
- Configuration: three listeners, two nested reloads, four registrations.
- Rate limiter: two windows of two ticks and part of a third, limits 2 and 3.

Deadlock checking is off for `streams`, `services`, `processor_once`,
`streaming_cursor` and `stream_silent`, whose parts stop for good once their
calls, streams or bounded inputs are over.

### Fairness

Only parts in `streams` assume fairness, each what its module states.

- Breaker and deliverer, all weak: time passes, the runtime polls tasks that can
  run and timers fire, and a request that was sent ends. It ends by an answer, an
  error, or the caller dropping the future; the HTTP client sets no timeout of its
  own, so this is an assumption about the network and the callers.
- Transaction stream, streaming service and watch command: timers fire, sleeps
  end, continuations run, requests settle (weak, from the event loop, the client's
  timeout or the limit of a long-poll), an open event source that has something to
  send sends it or breaks (weak; an idle one may stay open for ever), and the anchor finishes the transaction (weak). The one strong
  condition is about the anchor: one that is asked infinitely often answers
  infinitely often. Without it the parts that never count empty answers as
  failures need not end.
- Discover and playground: a request ends (weak), since the clients have timeouts of
  10 and 20 seconds.
- SEP-10 flow: `setTimeout` fires (weak).

Nobody is obliged to make a call.

## What is proved

TLAPS checks the following for all values of the constants that satisfy the
named assumptions of the modules.

- Contract (`ConstantsAssumption`). The inductive invariant `IInv` (`SpecInv`)
  says of both the committed and the working data that the history of a pair has
  no gaps and ends in the stored attestation, that the count is the number of
  Active entries, that revocations follow what they revoke, that times are in
  order, and that the events tell the content. In addition the working copy
  extends the committed data only by entries of the running batch, and those were
  allowed when the batch started. The last two are needed because the properties
  speak of the committed data only, and the commit copies the working data.
  `TypeCorrect`, `TailCorrect`, `CountCorrect`, `RevocationsCorrect`,
  `ChronologyCorrect` and `EventsCorrect` follow. `AppendOnlyCorrect`,
  `JustifiedCorrect`, `FreshCorrect` and `PauseFreezes` are action properties.
  `BatchCorrect` adds the invariant of the second loop of `attest_batch`
  (`LoopInv`): the working copy holds exactly the entries before the next one, each
  at the place that its position among the entries for its pair gives it.
  `PagesCorrect` computes what a page holds in either direction (lemmas on
  `PageKeys` and `Found`) and that the pages of a walk follow on each other.
  `RefinementCorrect` and `ReferenceCorrect` are the implementations of the two
  abstract specifications. The second one needs that nothing is recorded before
  there is an administrator (`Untouched`), since the test starts from an
  initialized contract and the model does not.
- Rent (`RentAssumption`). `HalfWindowCorrect` needs no assumption on the
  operator. `RenewedAttestationCorrect` assumes a renewal period of at most half
  the minimum window, `RenewedAttestorCorrect` one of at most the threshold. Both
  combine a lower bound on the rent left at the last write with the fact that the
  operator is punctual. `HistoryCorrect` assumes that the network's minimum is at
  most half the minimum window; otherwise the first extension may do nothing.
  Under the same assumption `FirstWindowCorrect` proves what `rent_reattest`
  refutes of the code as a whole, for attestations that were written once. For all
  others, and without an assumption, `HalfLifetimeCorrect` gives half of the latest
  record's lifetime, or half of the ceiling: an extension that does nothing leaves
  at least half of what was asked for.
- Breaker (`BreakerAssumption`). `ConsistentCorrect` and `HalfOpenCorrect`, from
  their conjunction with the type invariant. `OneProbeWithoutLateCalls` proves the
  single probe that `breaker_one_probe` refutes, for behaviours in which no ordinary
  call is in flight while the circuit is half-open (`NoLateCalls`): a second probe
  needs a late call that changes the state under the first.
- Deliverer (`DelivererAssumption`). `BreakerRefined`: each step of `deliver` is a
  step of the breaker or leaves it alone. `RequestsCorrect`: the bound on requests,
  from an invariant that ties the number of requests to the place in the loop.
- Processor. `RepeatCorrect` and `DuplicatesCorrect` rest on an invariant about
  every key that has not been excused: at most one call has entered a delivery for
  it, and that call is still busy or has left a row (`OneEntered`). So the lookup of
  a second call finds the row, or the calls overlap, which is an excuse.
- Dead letters. `ReadersCorrect`, from `QueueInv`: ids are unique, and every known
  letter whose place is below the walker's offset has been found. A stored letter
  moves the places of others up by at most one and never down, which is a lemma
  about the number of rows ahead of a row.
- Redaction (`RedactionAssumption`). `LoggedCorrect` holds for bodies of any depth.
  `RedactionInv` says that every path of the body has been copied, as the rules
  ask, or has a prefix that is pending.
- Receiver (`ReceiverAssumption`). `AcceptedCorrect`: what is on the wire under the
  shared secret carries the signature of an announced body.
- Domains and signers. `VerdictCorrect` is the loop invariant
  of the scanner (`ScanInv`): while the scan goes on, what has been read has only
  permitted bytes, alphanumerics around every dot and no label beyond the limit, and
  `label_len` and `has_dot` describe it. `SignersInControlCorrect` needs that the threshold
  is at least one and at most the number of signers (`SignersCanAct`), and two
  lemmas on the positions that `rotate_signers` counts: some position counted gives
  an approver, and positions without repeats are as many as their approvers.
  `VerifyCorrect` holds for every signer set and every list.
- Transaction stream (`StreamAssumption`). `StreamInvCorrect` is the inductive
  invariant: the type invariant, and what each activity implies about the mode,
  the flags and the events already reported. The order of updates needs that a
  body in flight is no older than the last update, and giving up needs that
  `reconnectAttempts` is at most the failures in a row of a stream without
  server-sent events. `LoopAccountedCorrect`, `EndsCorrect`, `ModeCorrect` and
  `OrderCorrect` follow. Of the silence that `stream_silent` refutes, `StopCorrect`
  keeps that a stopped stream starts nothing and that only the answer whose body was
  being read is still heard, and `SilentUnlessStopped` that this happens after a
  `stop()` of the caller and in no other way.
- Streaming service (`StreamingAssumption`). `WatchersServedCorrect`. Its invariant
  adds that a loop marked as running has a timer or a cycle, and that before
  `destroy()` there is at most one of them and it is marked; `_ensurePollLoop`,
  which looks at the mark alone, depends on both. `StatusesInOrder` proves the order
  that `streaming_cursor` refutes, for behaviours in which no broken event stream is
  opened again, and with polling until `destroy()`. It rests on `OrderInv`: a service
  polls or listens, never both; an open stream has still to send only what is newer
  than what was told; a watcher has one request at a time, whose answer is not older
  than what it was told. The last part is lost after `destroy()`, when a new loop may
  run beside the cycle of the old one.
- Rate limiter (`LimiterAssumption`). `CountersCorrect` and `NoDoubleBurstCorrect`
  assume `KeepsTwoWindows`: idle counters are kept for two windows. That is the
  default; the option `idleRetentionMs` can be set to less, and then a pruned
  counter may still have counted. `LimiterInv` holds as long as the clock has not
  stepped back. It says that pruned and unpruned counters agree once they are
  rolled to the present, that the units of the global counter are those of the
  attestors, and that the requests granted in the current and in the previous window
  are what the counters say. The bound on a burst then follows from the weight that
  the estimate gives the previous window.
- Command line. `CliOutcomeCorrect`, from one invariant per
  subcommand and the fact that only the one that was asked for runs. `watch` needs
  that the counter is the number of errors at the end of the outcomes, `discover`
  that the stellar.toml it has read named every SEP supported throughout,
  `playground` that nothing is left of a call once it is over.
- Panel. `PanelCorrect`: while a request is on its way, what its handler captured
  is still the latest, because nothing else is answered.
- SEP-10 flow, configuration. `FlowCorrect`: the challenge and the
  requests in flight are of the configured anchor, as long as the configuration has
  not changed (`SameAnchor`). `ListenersCorrect`: no nested loop is past the end of
  the list, and nobody has seen a configuration newer than the current one.
  `NeverOlderCorrect` is an action property of the same loops. `TransportCorrect` and `ValuesCorrect`
  are the action properties of `watch` and of `playground`.
- Types. Every type invariant has a theorem `...TypeCorrect`; some need an argument of their
  own. `ProcessorTypeCorrect`: only what `deliver` returned is ever recorded, so the
  stage in which a call records must follow the deliverer's return.
  `QueueTypeCorrect` (`QueueAssumption`): a reader asks for another page only while
  its offset lies within the table, because a full page ends within it, and the
  table has at most as many rows as there are ids. `LimiterTypeCorrect` holds for
  every retention and every step of the clock, unlike `CountersCorrect`.
  `StreamingTypeCorrect` bounds the statuses, polls and flags of every watcher,
  `CliTypeCorrect` the counters of the three subcommands, `ConfigTypeCorrect` the
  nesting of reloads, and `PanelTypeCorrect` the logs of the panel.

Only model-checked:

- the liveness properties, which are beyond this prover (`BreakerRecovers`,
  `DeliveriesReturn`, `StreamsEnd`, `CommandEnds`, `HeadersOrTimeout`);
- `StreamsTypeOK` and `ServicesTypeOK` as they stand, over the composed
  specifications. Each of their conjuncts is proved for the specification of its
  own part; that the parts of a composed specification leave each other's variables
  alone is all that the runs add.

## What is not modelled

`PROJECT.json` lists every part of the system, with the reason for those that
have no module, and the hazards that no property covers.

- Schema migrations: no method of the contract calls `run_pending_migrations`.
- Hashing: a library call. The `message_hash` of a rotation is likewise left out,
  since nothing compares it.
- `increment_nonce`, which nothing calls.
- Backoff delays, of the deliverer, the streams and the watch command: they decide
  when a retry comes, and the models let it come at any time. That the delay of an
  event stream is never reset, although the header of `sep6Streaming.ts` says so,
  is therefore outside the models.
- HTTP redirects. The comment at `discovery/stellar_toml.rs:33-34` says that
  redirects to another origin are not followed; the client is built without a
  redirect policy of its own, so the library's default applies.
- Redaction in the panel, option parsing and the printing of values: formatting
  and input and output, without state.
