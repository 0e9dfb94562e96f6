# TLA+ models of the Blueprint SDK

Models, model-checking configurations and proofs for the parts of this repository
in which several actors, failures and retries decide whether the program is
correct:

* **aggregation of signatures** over the aggregation service
  (`crates/tangle-aggregation-svc`, `AggregatingConsumer` of `crates/tangle-extra`) and
  over gossip (`crates/networking/extensions/agg-sig-gossip`);
* the **runner** with the Tangle producer and consumers (`crates/runner`,
  `crates/tangle-extra`): from a log of the chain to a submitted result;
* **binary upgrades** in the manager (`crates/manager`: `upgrade`, `event_handler.rs`);
* **paid requests** (`crates/x402`): from a payment to a job.

* [The system](#the-system) – inventory
* [Modules](#modules) – what models what
* [Runs](#runs) – what TLC checks, the bounds and the fairness
* [Proofs](#proofs)
* [What the checks say about the code](#what-the-checks-say-about-the-code)
* [What is left out](#what-is-left-out)
* [Plan](#plan)

## The system

A *blueprint* is a program run by a set of operators. A *manager* starts one
process per service; in it a *runner* takes job calls from *producers*, routes them
to job functions and hands the results to *consumers*, which put them on chain.
When a blueprint asks for aggregation, operators sign the result and one transaction
carries the aggregate of a quorum.

| Component | State | Operations | Interacts with | Hard |
|---|---|---|---|---|
| Aggregation service (`tangle-aggregation-svc`: `state.rs`, `service.rs`, `persistence.rs`, `api.rs`) | task map in memory, its copy in a backend, configuration | `init_task`, `submit_signature`, `mark_submitted`, `remove_task`, cleanups (worker and manual), restart; readers `get_status`, `get_aggregated_result` | HTTP requests of operators; the backend | failing backend calls half way, crashes, readers between the steps of a mutation, TTL against retention |
| Aggregating consumer (`tangle-extra/aggregating_consumer.rs`, client in `tangle-aggregation-svc/client.rs`) | buffer of results, one submission under way | prepare task, init and submit at each service, fetch or poll, submit to chain, mark | services, contract, caches of the chain's configuration | several operators race, lost messages, timeouts, several services |
| Aggregation strategies (`tangle-extra/strategy.rs`) | – | `aggregate` over HTTP or gossip | service client, gossip protocol | conversions between thresholds and weights |
| Gossip aggregation (`networking/extensions/agg-sig-gossip`) | shares seen, malicious set, round | handle share, handle completion, threshold check, aggregate | all participants | lost and reordered messages, equivocation |
| Runner (`runner/src/lib.rs`) | pending jobs, background services, shutdown channel | poll producers, dispatch, collect, send to consumers, stop | producers, router, consumers | bounded job pool, errors of any part, shutdown |
| Manager (`manager/src`: event handler, `upgrade`, sources, `rt`, `executor`, bridge) | active services, running binaries, pending swaps, the operator's pins and skips | reconcile, fetch, start, stop, swap | chain events, service processes, the operator | dropped signals, two tasks waiting for each other, stale reads before a swap |
| Payment gateway (`x402/src`: gateway, `mpp`, producer, quote registry) | verified payers, nonces, quotes, channel to the producer | challenge, verify, settle, check the policy, create and consume a quote, send | clients, facilitator, contract, runner | shared cache entries, lost answers after settling, expiry |
| Tangle producer, consumer, caches (`tangle-extra`) | cursor, buffers, cached configuration | poll blocks, send results | chain, runner | ranges and cursor at their boundaries, retries |
| Tangle client (`clients/tangle`) | – | contract calls: estimate, send, receipt | chain | estimate and receipt see different states |
| Networking (`networking/src`) | peers, handshakes, bans | discovery, handshake, gossip and request/response | libp2p | disconnects, bans |
| Auth, pricing engine, QoS, TEE, remote providers, FaaS, webhooks, local database, keystore, crypto, CLI, macros … | see `PROJECT.json` | | | mostly I/O, arithmetic or front ends |

What makes these parts correct, and is hard to test. Aggregation:

* *Durability.* What a caller was told with Ok survives failing backend calls, crashes
  and restarts; what failed leaves no trace; memory and store never drift apart.
* *Agreement.* Only a result that a quorum computed reaches the chain, also when
  operators disagree, services forget or messages are lost.
* *Finality.* A submitted task never hands out an aggregate again, stays observable for
  its retention period, and is forgotten afterwards.
* *Completion.* An operator that reports Ok leaves a completed call behind, and with one
  working service the result reaches the chain.
* *Thresholds.* Basis points, counts and weights mean the same to the operator that
  derives a threshold and to the service that evaluates it.
* *No service needed.* Over gossip a result is backed by a quorum and agrees with everybody
  else's although participants equivocate; one that follows the protocol is held to be malicious
  only when a faulty one framed it.

The others:

* *Runner.* Each job call is taken once and each of its results reaches every consumer,
  whatever the order in which jobs end and although the pool fills up.
* *Upgrades.* Handler and watcher never block each other for ever; only what chain or operator
  consented to is drained, and past the attestation gate only what was acknowledged; an outdated
  service is found although notifications are dropped, unless all those queued were about others.
* *Payments.* One job per settled payment, run for a caller that paid or signed; a nonce cannot
  be used again before the second in which its signature expires; a paid request ends.

`PROJECT.json` lists the hazards behind these, line by line.

## Modules

| Module | Models | |
|---|---|---|
| `Threshold` | `ThresholdType`, `signed_stake_bps`, `threshold_met` (`state.rs`) | pure |
| `AggregationService` | `state.rs`, `service.rs`, `persistence.rs`, `api.rs` | one service |
| `AtomicTasks` | what the service promises | abstract specification |
| `AggregatingOperators` | `submit_aggregated_result` and all it calls, for several operators and services and a contract | composition |
| `QuorumRules` | `prepare_aggregation_task`, `calculate_required_signers` against `threshold_met` | pure, with the signatures arriving one by one |
| `AggSigGossip` | `protocol.rs` of `agg-sig-gossip`, run as `strategy.rs` runs it | one instance per participant, and the network |
| `TangleProducer` | `producer.rs` of `tangle-extra` | with the chain |
| `BlueprintRunner` | `runner/src/lib.rs`, the Sinks of `consumer.rs` and `aggregating_consumer.rs` | extends `TangleProducer` |
| `UpgradePipeline` | `manager/src/upgrade`, `event_handler.rs` | two tasks, the chain and the operator |
| `PaymentGateway` | `x402/src` | concurrent requests of both protocols, and what they share |
| `AggregationServiceProofs`, `AggregatingOperatorsProofs`, `QuorumRulesProofs`, `AggSigGossipProofs`, `BlueprintRunnerProofs`, `UpgradePipelineProofs`, `PaymentGatewayProofs` | | theorems |
| `SumProofs` | sums over finite sets, for `QuorumRulesProofs` and `AggSigGossipProofs` | lemmas |
| `MC*` | | instances for TLC |

A definition whose name ends in a described mistake (`Room_off_by_one`, `Drain_keeps`) is a
plausible bug in the definition next to it, used to see that a property notices it.

### AggregationService

`tasks` is `AggregationState.tasks`, `store` what the backend would load after a
restart, `op` the program counter and the locals of the mutation that holds
`mutation_lock`. All mutations take that lock before their first read and keep it
until they return, so there is at most one `op`; readers take only the `RwLock` of the
map and are therefore state predicates evaluated in *every* state, also between the
steps of a mutation. A mutation of the code is a path through these steps:

| step (`op.pc`) | code | actions |
|---|---|---|
| begin | guards, change of memory, `before = snapshot()` | `InitTask`, `SubmitSignature`, `MarkSubmitted`, `RemoveTask`, `CleanupWorker`, `CleanupCall` |
| `save` | `persist_task`: `save_task` | `Save`, `SaveFails` |
| `delete` | `delete_task`, once per removed task | `Delete`, `DeleteFails` |
| `flush` | `flush`, return Ok | `Flush`, `FlushFails` |
| `undo` | `restore_persisted_task(s)` | `Undo`, `UndoFails` (only logged) |
| `rollback` | `restore_snapshot`, return the error | `Rollback` |

A failing backend call may or may not have reached the storage (`MayReach`). `Crash`
can happen between any two steps; `Restart` is `with_persistence`. `promised` and
`unrepaired` are history variables: the state a caller was last told of with Ok, and the
tasks whose undo failed, which the code can only log. A task's *context* stands for all
that `init_task` fixes and compares (output, message, scheme, operator count, threshold,
stakes); a signature is the message it signs. `expires_at` and `submitted_at` are kept;
`created_at` is never read. The bitmap keeps its width (`BitmapBits`), as do u64 stakes
(`U64`).

Library calls use `default_task_ttl`; the HTTP handler passes none (`Ttl`).

`AtomicTasks` has only the settled map, the target of the mutation under way and what
readers see: a mutation commits or aborts as a whole, a crash settles each task at its
old or its new value. `MutationsAreAtomic` is the refinement, with `Settled` and
`Target` as its mapping.

### AggregatingOperators

Each operator has a program counter through `submit_aggregated_result`:
`init → submit` at each service in turn, then `Decision` (the code's `any_success`,
`submit_to_chain`, `last_response`, `wait_for_threshold`), then either `fetch` and
`fetch_status` (`try_submit_aggregated_to_chain`) or `poll`, `poll_status`, `Timeout` and
`final_status` (`wait_for_threshold_any_service`), then `estimate`, `mine` and `mark`,
which goes through all services from the first (`GotoFirst`).
Every HTTP request is a step of its own, so the answers to two requests can
contradict each other. The services are what `AggregationService` was shown to be: maps
with atomic mutations. Faults: a lost request or answer, a timeout of the wait, a
transport error of the chain client (with or without the transaction being mined), a crash of
the operator, and a service that restarts without a backend (`NoPersistence` is the default) and
has forgotten its tasks. A service also forgets submitted tasks after their retention.
The contract is external: it accepts one aggregate with a quorum per call.

### QuorumRules

The initial states are all small services with their weights, some missing, and
configurations; the only action is the arrival of a signature. Rounding up
(`count_based`), rounding down (`signed_stake_bps`) and the fallbacks for missing and
zero weights are the code's; the properties compare them with exact fractions. The sort of
`calculate_required_signers` is some rearrangement in descending order (`Sorted`), its loop a
fold over the sorted stakes (`accumulated`, `greedy`).

### AggSigGossip

The variables are `AggregationState`, per participant: `signatures_by_message` holds who is
recorded for a message, `seen_signatures` the signature last recorded for them,
`malicious` and `regossiped` what the code calls so. `sent` is everything broadcast; a
participant receives any element of it at any time, again, or never, which is loss,
duplication and reordering. A signature is what it verifies for, an aggregate verifies when its
signatures are one of each contributor on the message (`Verifies`).

| code | action |
|---|---|
| `run`: sign, record and broadcast one's own share | `Start` |
| `handle_signature_share`: ignored, refused (sender is marked), accepted (and passed on once per message) | `Receive` with `IgnoreShare`, `RejectShare`, `AcceptShare` |
| `handle_malicious_report`, `handle_protocol_complete` | `Receive` |
| the loop over waiting messages, then `build_result` | `Drained` |
| the ticks and the timeout of the select | `CheckTick`, `CompletionTick`, `Timeout` |
| – (a faulty participant) | `FaultySend` |

A faulty participant sends any message for which it has the signatures: its own, invalid ones,
and those of others that were broadcast (`Known`, `SignaturesIn`). Shares can name another signer, and another sender,
because the sender that `handle_message` is given is the routing header's; reports can accuse anyone of
anything, and completions claim any result. `Framed` says what makes an
honest participant suspect: an invalid share in its name as a sender, or a report whose
evidence `verify_malicious_evidence` accepts although the accused never made it.

### TangleProducer and BlueprintRunner

`TangleProducer` has the cursor (`last_block`, `last_log_index`), the buffer and the poll in
flight: `StartPoll`, `ReadBlockNumber`, then `PollSucceeds` (range, filter, `Advance`) or
`PollFails`, which leaves the cursor and is retried. `first` records the block that a
producer with `from_block` 0 really starts from: it begins with the last
`MAX_LOG_RANGE_BLOCKS` blocks of the chain as its first successful poll finds it.

`BlueprintRunner` is `FinalizedBlueprintRunner::run`. `phase` tells the states of the loop
apart: in `"select"` producers, jobs and background services race, in `"sending"` only the
consumers run, because the loop awaits `send_all` to every consumer. With
`MAX_CONCURRENT_JOBS` jobs under way the loop no longer polls producers. Each way to end has its
action (`SetupFails`, `ProducerFails`, `JobFails`, `JobPanics`, `SubmissionFails`,
`BackgroundEnds`, `SenderDropped`); `End` drops what `run` drops when it returns. `TakeNext`,
`Submit`, `Flush` and `SubmissionFails` are the Sink of a consumer.

### UpgradePipeline

Two tasks of the manager. `handler` is where `handle_event` is: start and stop the services
of a block, record them, notify the watcher (`Notify`), drain the queued swaps
(`DrainService`, `RecordSwap`). `watcher` is where `reconcile` is: take a signal, and for each
tracked service read policy, target and running binary, decide, download, send the swap,
give up the pin. Each contract call and each access to shared state is a step of its own, so
that the chain, the operator (`OperatorStep`, the HTTP routes) and the other task can act in
between. The channels keep their capacities: `notify_block` drops a signal that does not
fit, a full swap channel makes the watcher wait (`Room`). After the logs of a block come the
notification and the drain (`AfterLogs`); a signal is about the blueprints it names, the empty
one about all (`Covers`, `Concerned`).
`consented` is a history variable: everything chain or operator allowed at some time, for
the service and version in question; `pins` counts pins set and not used; `missed` holds the
blueprints whose last version event met a channel full of signals about others.

### PaymentGateway

Each request has a program counter through the route that serves it. MPP: `IssueChallenge`,
`Post` (credential checked against the route), `Verify`, `Settle` (the payer is put
into `verified_payers`), `Drain` (taken out again). x402: `Post`, `Verify` and `Settle` by
the middleware. Then both: `CheckPolicy`, `reserve` (the nonce of a delegated call),
`Permitted` (the contract's `isPermittedCaller`), `insert_dynamic` and `consume` (the quote),
`Send` into the channel. Every await is a boundary
between steps. A failing step ends the request with an error; the client may hang up at
any time (`Disconnect`), also after the payment was settled. The answer of the facilitator may be
lost after it settled (`SettleFails`). `Yield` and `RunnerEnds` are the producer's side
of the channel; `gc` and `run_payer_cache_gc` clean up beside the requests. Time is in seconds, as in the code's comparisons; `Fractions` tells apart
quotes made within one second.

## Runs

| Run | Question | Bounds |
|---|---|---|
| `mutations` | Do memory, store and promises agree after every failure? Is every mutation atomic? | 2 tasks (symmetric), 2 operators, threshold 1, 2 faults, clock to 4, TTL 1, retention 2; 1 300 000 states |
| `contexts` | Conflicting contexts, counts and stakes, wrong messages; does a context survive undo, crash and restart? Is every task that can end forgotten? | 1 task, 3 contexts, 3 operator indices, both routes, 3 faults; 107 000 states |
| `operators` | Agreement, completion, redundancy | 2 operators, 2 services, 2 outputs, threshold 2, any 2 faults; 117 000 states |
| `thresholds` | Do both sides mean the same threshold? | up to 3 operators, weights 0, 1, 2, 5, basis points around 0, 1/3, 1/2, 2/3 and 1; 22 000 states |
| `gossip` | Quorum, agreement, and who can get whom accused | 3 participants with weights 2, 1, 1 and threshold 7500 bps, one of them faulty with any 2 of 49 messages of all three kinds; outputs split or the same; one aggregator for the one message, two for the other; 838 000 states |
| `runner` | Is each job call taken once, each result delivered, each call answered? | ranges of 3 blocks, 4 blocks with 6 logs, pool of 2 jobs, 2 consumers, 1 background service, up to 2 results per job, every failure; 238 000 states |
| `upgrade` | Deadlock, consent, the attestation gate, pins, and finding outdated services | 2 services of two blueprints, 2 versions (one attested), 1 signal and 2 swaps fit; the scenarios `Crowded`, `Consents`, `Failing`; 1 039 000 states |
| `payments` | One job per payment, callers, nonces, the end of a request | 3 requests, 2 jobs, TTLs of 1 and 2 seconds, clock to 2; the scenarios `SameJob`, `Retries`, `SameNonce`, `Elsewhere`, `WrongRoute`; 253 000 states |
| `gossip_relay`, `upgrade_respawn`, `upgrade_attestation`, `payments_payer` | four of the disagreements below; each violates its one property | as small as the case needs |

The bounds: two tasks are needed for a cleanup that deletes one and fails at the next, two
faults for a failing mutation whose undo fails or that crashes in its undo. The clock
covers creation, expiry, a submission whose retention outlives the TTL, and the end of retention; `InHorizon` lets a mutation
start a deadline only if the clock can still pass it. In `contexts` the stake-weighted
context is met by one operator, the counted ones by two, and index 2 is out of bounds. No
context has more operators than the bitmap has bits, so the runs do not meet the 256-bit limit. Two operators and
services are the least in which outputs disagree, answers differ between services and a race has a
loser; two faults can take away a service and a message.

In `gossip` the weights are such that the heavy participant needs one of the light ones and the
light ones do not reach the threshold without it (`QuorumsOverlap`, without which two
quorums could be formed by equivocation alone; TLC evaluates it, and the condition on weights
that implies it, `FaultyMinority`). Two faulty messages are enough to
equivocate, to frame one participant by an invalid share or by a report, or to do one and claim completion. In `runner` the chain is longer
than a range and a block can hold a foreign log and a job call, so that the cursor stops
inside and between ranges; three calls can be there for a pool of two. In `upgrade` one
signal is enough to fill the channel while a reconcile is under way, and with two blueprints it can be about
the other one; two swaps are what the two services
ask for in one reconcile. In `payments` all quotes and challenges of one second collide
(one `Fraction`), which is the case the caches must survive, and expiry falls between any
two steps.

Deadlock is checked in the operators' runs (they end in `Done`). It is off for the service,
where clock and faults are bounded and a service with nothing to do may stop, and
for `QuorumRules`, `AggSigGossip` and `PaymentGateway`, where everybody is done in the end. In
`runner` and `upgrade` it is on: a state in which nothing more may happen is `Done`, or `Quiet`.

**Fairness.** In `AggregationService` a mutation is synchronous code holding a lock and
never waits (weak fairness of `Progress`); a dead process is restarted and time passes; the
cleanup worker ticks on an interval and competes for a `parking_lot` mutex, which is
eventually fair, so requests do not starve it (strong fairness of `CleanupWorker`). In
`AggregatingOperators` each operator's future is polled until it returns and its requests
are answered or fail (weak fairness per operator). Nothing is assumed about messages:
losing them is an alternative of the step. The operators' timeout is a fault, not a
fair action: `ResultReachesChain` speaks of behaviours with less lost messages than services
and no other fault.

In `BlueprintRunner` the branches of one `select!` compete: tokio polls every woken task and
`select!` starts at a random branch, so none is passed over for ever (strong fairness of the
producer's steps, `Dispatch` and the end of jobs; weak fairness of what runs alone: `Setup`,
the consumers' `Flush`, `AllSent`). That a poll of the chain and a submission eventually succeed
or end the runner is part of it. `JobsAreAnswered` claims nothing once the runner has ended. In `UpgradePipeline` both
tasks are polled by the runtime (weak fairness of `HandlerStep` and `WatcherStep`); chain,
operator and failures owe nothing. In `PaymentGateway` the runtime polls each handler
(weak fairness of `Handle`) and the runner its producers (`Yield`). The facilitator's client
has a timeout of 15 seconds; the `eth_call` for the permission has none and is assumed to be
answered. For `AggSigGossip` only safety is claimed: it terminates by its timeout.

## Proofs

All theorems hold for every value of the constants the assumptions allow: every number of
tasks, operators, participants, services, requests and faults, every threshold, weight and
capacity, every setting of the flags and every scenario.

*AggregationServiceProofs.* `TypeCorrect`; `StoreAlwaysMatchesMemory`;
`AckedAlwaysSurvives`. Neither invariant is inductive: both speak of the time between
mutations or of the store alone. `DurabilityInv` (theorem `Durability`) adds, per step
of a mutation,

* `OpInv`: what `op` can be, and that memory differs from `before` only at the tasks the
  mutation changes;
* `StoreInv`: which tasks the store already holds in their new state and which still in
  their old one (`delete`: those in `todo` are old, the others gone; `undo`: those not in
  `undo` are old again);
* `PromiseInv`: memory, the copies in `before` and the store each hold at least what was
  promised, so whichever of them survives keeps the promise.

There is a lemma for each family of steps (`BeginWrite`, `BeginRemoval`, `ForwardStep`,
`FailureStep`, `UndoStep`, `EndStep`, `CrashRestartStep`), combined in `DurabilityStep`.

On top of it:

* `ServiceIsAtomic`, the refinement: with `Settled` and `Target` for the variables of
  `AtomicTasks`, each step of the service is a begin, a commit, an abort, a failed undo (`Suspect`), a
  crash, a restart or a stutter of the abstract one. A crash in the middle of an undo is the case that needs an
  invariant of its own, `UndoInv`: the store then holds the old or the new state of each task,
  never something else.
* `BitmapAlwaysMatches` and `AggregateAlwaysVerifies`, under `BitmapCovers` (no context has more
  operators than the bitmap has bits). A rollback or a restart makes an old copy the
  current one, so a statement about the current tasks alone is not inductive: `CopiesInv` says
  `SoundCopy` of every copy there is, in memory, in the store, in `before` and in what callers
  were told (`CopiesAreSound`). Without `BitmapCovers` the theorem would be false: see the
  observation on the bitmap's 256 bits below.
* `SubmittedIsAlwaysFinal`, from `FinalInv`: each copy that can become the current one has at
  least the finality that was promised. `SubmittedAlwaysObservable` follows from it under
  `CleanupsKeepSubmitted` (`auto_cleanup_submitted` on, no `cleanup_expired`), the condition
  the comment in `service.rs` leaves out.
* `ContextIsAlwaysStable`, from `ContextInv`: memory, store, snapshot and promise of a task that
  have a copy have the same context. The promise is what carries the statement over a crash,
  which leaves the memory empty, to the restart that fills it from the store.

*AggregatingOperatorsProofs.* `TypeCorrect`; `ChainResultAlwaysAgreed`, from
`AgreementInv` (every task, every fetched aggregate and the chain hold only signatures
of operators that computed that output, and fetched aggregates have a quorum);
`OkAlwaysMeansCompleted`, from `CompletionInv` (whoever acts on the call being
completed – a task marked submitted, an estimate that saw it, an operator marking – does
so after the contract accepted a result), for every service the winner marks, from the first.

*QuorumRulesProofs.* `ThresholdIsAlwaysExact`, `EveryoneIsAlwaysEnough`,
`RequiredIsAlwaysLeast`, `MetStaysMet`. The states are simple (`TypeInv`); the work is in the
operators:

* a quotient rounded down reaches a bound exactly when the dividend does, one rounded up is
  reached exactly when the exact one is (`QuotientReaches`, `CeilingReached`), so rounding
  never decides;
* u64 arithmetic does not wrap (`StakeSumSmall`), by `NoWrapAssumption`: weights are u16
  (`OperatorWeights`, `cache.rs:74`) and operators are counted in u32, so that a sum of weights times
  10000 stays below 2^64. Stakes in wei, which the service also accepts over HTTP, are outside
  of it;
* the order of the sort exists (`DescentExists`), of a falling sequence no k elements weigh
  more than the first k (`LargestFirst`), the loop's total is the sum the service evaluates
  (`FoldIsSum`), hence the loop stops at the size of the smallest set that reaches the
  required stake (`GreedyIsLeast`); both kinds of threshold ask for such a stake
  (`MetByStake`).

*SumProofs.* The library defines a sum by a recursive function that takes the elements in an
order given by `CHOOSE`. That this function exists, that the order does not matter, and the usual
laws (`SumUnion`, `SumMonotone`, `SumAtMost`, `SumRename` …) are proved by induction over finite
sets. The induction theorems of the library take an operator as a parameter, which
the provers cannot instantiate; the proofs use a *smallest counterexample* instead: the set of
subsets for which the claim fails, if not empty, has a minimal element (`SmallestSubset`, from
the well-foundedness of strict inclusion), and removing one element from it contradicts its minimality.

*AggSigGossipProofs.* `OnlyTheFaultyFrame`, `ResultsAreBacked`, and `ResultsAgree` under
`QuorumsOverlap`. What is sent decides what is recorded, so the invariant (`Invariance`)
speaks of messages first: signatures in `sent` are of their owner (`SharesAreGenuine`), what an
honest participant sends verifies (`HonestSharesVerify`) and is on one message only
(`HonestSignOnce`), and a report that convicts an honest participant goes back to a faulty one
(`ReportsAreJust`). From
these follow the records (`RecordsAreGenuine`), the accusations and the results. Agreement is then
a fact about sets: two quorums share an honest participant, which signed one message.
`HeavyQuorumsOverlap` gives a condition for it in numbers: two quorums of weight at least w
overlap in at least 2w minus the weight of all, which is more than what the faulty participants
weigh (`FaultyMinority`). `HeavyResultsAgree` is agreement under that condition.

*BlueprintRunnerProofs.* `CursorIsExact`: the job calls given out, together with those in the
buffer, are exactly those between the first block and the cursor (`EveryJobOnce`); it needs that the poll in
flight continues from the cursor (`PollFollowsCursor`) and that neither is ahead of the
chain. `ResultsReachConsumers`: each result is at each consumer, held or submitted
(`NoResultLost`); it needs that consumers are empty whenever the loop is not sending
(`SinksAreFlushed`) and that every dispatched call is pending, ignored or has results (`Accounted`).

*UpgradePipelineProofs.* `NoDeadlock`: with no more services than the swap channel has room
for, the handler never waits for room for a signal while the watcher waits for room for a swap. The
argument is one of capacity: the handler empties the swap channel after every block, so when
the signals are full again the watcher is still in the reconcile it was in then, and swaps
queued and services to look at are together no more than all services (`OneReconcile`). `OnlyConsentedSwaps`: consent follows a swap from
the read that found it to the drain (`ConsentInv`, `WatcherHolds`, `HandlerHolds`).
`UnackedSwapsAlwaysGated`: so does the passed gate, for the policies Auto and Manual.
`PinsAreOneShot`: a pin that was used has been set (`PinsAreCounted`).

*PaymentGatewayProofs.* `EveryJobIsPaid` (different accepted requests have different, settled
payments), `EveryCallerHasPaid`, `CacheIsDrained`, `NoncesAreReserved`. Payments are settled
once, so the invariant says where a payment's payer is: with one request or in one entry of the cache
(`OnePlace`), never both; and that the payment is of this request or of one that shares its challenge
id (`OwnerInv`), which is all the key of the cache gives; `ChannelInv` carries this through the channel to the
producer, and `NonceInv` says that a reserved nonce stays in `seen_nonces` until its signature
expires, whoever sweeps.

The assumptions are the `ASSUME`s of the modules: numbers are natural, flags Boolean,
operator counts fit the indices, weights are too small to wrap (`QuorumRules`), and the sentinels (`NoTask`, `NoSig`, `Never`,
`NoResult`, `NoItem`, `None`, `Nobody`) differ from what they stand in for. TLC evaluates them in every run.

Only model-checked: the liveness properties (`TasksEventuallyForgotten`,
`ResultReachesChain`, `JobsAreAnswered`, `OutdatedWasMissed`, `PaidRequestsEnd`), because the
prover covers neither fairness nor `ENABLED`. Every invariant and every action property of the
passing runs is a theorem, `SubmittedStaysObservable`, `BitmapMatchesSignatures`,
`AggregateVerifies` and `Agreement` under the conditions named above.

## What the checks say about the code

The passing runs confirm the persistence protocol of `service.rs`: no combination of
failing save, delete, flush and undo with crashes loses acknowledged state or makes
memory and store differ, as long as the undo itself works; the agreement of
operators, services and chain, and of gossiping participants; the producer's cursor and the
delivery of results; consent and the absence of deadlock in upgrades; and that a settled payment
buys one job. Some statements of the repository do not hold. Four have a run:

* `gossip_relay`: a share is verified for its signer and recorded for its sender
  (`agg-sig-gossip/src/protocol.rs:249`). If a relayed copy arrives first, signatures are
  recorded for the wrong participants and the aggregate of a met threshold does not verify, with
  nobody at fault.
* `upgrade_respawn`: `apply_swap` drains a service and records the new version as running;
  nothing starts it again (`event_handler.rs:1172`), although the comments say that the next
  reconcile does. `OutdatedWasMissed` therefore ends with the drain.
* `upgrade_attestation`: under policy Approve an acknowledged version is downloaded and swapped
  in without the attestation gate (`watcher.rs:336-348`). `swap.rs:3-14` says the sequence, with
  step 4 "Verify attestation", is identical for AUTO and APPROVE, `watcher.rs:95-97` that the
  gate has passed for every `SwapRequest`. What the code does guarantee is
  `UnackedSwapsAreGated`.
* `payments_payer`: a challenge id derives from the request and the expiry second, so the
  challenges two clients get for one job within a second are the same, although
  `mpp/state.rs:28` calls the key "unique per challenge issuance". The second settled payer
  replaces the first in the cache, and the request that drains first runs as the other client's
  payer (`mpp/routes.rs:323`), with that client's permissions; the other one, if nothing is left,
  is answered with 500 after paying. What holds is `CallersHavePaid`: the caller settled a payment
  under the same challenge id, for one job at most.

Three have none, each the failing side of a condition that a passing run states:

* Default TTL (`service.rs:47`): tasks created over HTTP have none (`api.rs:59`,
  `..Default::default()`), so one that never reaches its threshold is kept for ever.
  `TasksEventuallyForgotten` is about the tasks that `Ends` names; without that condition
  `contexts` finds a counterexample.
* Redundancy (`aggregating_consumer.rs:166`, `tests/integration.rs:819`): with several services and
  without `wait_for_threshold`, only the answer of the last service decides whether an operator
  submits (`aggregating_consumer.rs:1011`); one lost message there and nobody does. Leaving
  `WaitForThreshold` out of `ResultReachesChain` and switching it off gives that behaviour.
* "Dropped notifications are fine ... eventual consistency holds" (`watcher.rs:126-128`): true
  for one blueprint. With two, a `Reconcile` for the one is dropped while the channel is full of
  signals for the other, `reconcile` skips the first (`watcher.rs:173`), and its service stays at the
  old version until some later event of its blueprint. `OutdatedWasMissed` allows this case and no other
  (`missed`); without it the scenario `Crowded` is a counterexample.

Observations without a run.

*Aggregation.*
* The bitmap has 256 bits: an operator with a larger index is counted and has no bit (`state.rs:208`).
* An operator whose transaction reverts because another was faster is recognised as a loser
  only if its gas *estimate* already failed (`clients/tangle/src/client.rs:120-146`); one that
  signs after the submission gets an error from every service and fails its job
  (`aggregating_consumer.rs:995`).
* `cleanup_expired` looks only at the TTL, so an embedding program that calls it (or a
  worker with `auto_cleanup_submitted` off) drops submitted tasks before their retention
  ends, which is why `mutations` leaves it out; an operator that initialises a call first
  with a diverging output keeps the others out of that service; an operator that
  recognises a lost race does not mark the services.

*Gossip.* `strategy.rs` takes keys and bitmap from all of `result.contributors`, those marked
malicious included, and keeps its own output although an aggregator may return the result of
another message. `sorted_peers` has the order of a `HashMap`. The evidence that
`check_for_equivocation` returns is not used. `verify_malicious_evidence` takes any bytes that do not
verify as evidence against the operator named, from anyone (`malicious.rs:73-80`), and the sender of a
share is taken from the routing header: one faulty participant can get any other excluded, whose
signature is then missing from the aggregate. `AccusedWereFramed` says that nothing less does.

*Runner.*
* `heartbeat_service` drops its sender, so that the runner ends with an error at once; errors of
  background services are taken for success (`lib.rs:1063`), contrary to the documentation at
  130; `shutdown_tx.closed()` never fires.
* `run` returns an error without waiting for the shutdown handler, and jobs under way are
  detached.
* The cursor is not persisted: a restart with `from_block` 0 reads the last ten blocks again.
  A node that lags behind the one that answered `eth_blockNumber` can make logs be skipped. A
  range of one block would never advance.
* While results are sent nothing else runs: a slow consumer stops producers, jobs and other
  consumers. `poll_close` is never called.

*Upgrades.*
* With more than 32 services in one reconcile handler and watcher can block each other
  (`watcher.rs:495`); the theorem's condition is that they fit.
* A service is tracked before its running version is recorded; `record_pending` after
  `clear_running` leaves a stale entry; `LocalAuthzStore` writes its file after releasing
  the lock, so two files can be written out of order.
* `set_pin` triggers no reconcile and nobody calls `notify_reconcile_all` at start-up; a
  pin stays when the attestation fails.
* An error of stopping or resolving a service ends the manager; one of `get_service`
  skips a termination silently.

*Payments.*
* x402 settles before the policy is checked, so that requests for disabled jobs are charged;
  MPP looks first. A settled payment whose later check fails, whose answer is lost or whose
  client hangs up buys no job. A nonce stays taken when the permission is refused.
* In the very second a signature expires it still verifies and its nonce is no longer held
  (`> now` against `now > expiry`), which `NoncesStayTaken` leaves out. Quotes of the
  same nanosecond overwrite each other. The end of the runner drops queued, paid jobs.

## What is left out

* BLS arithmetic, serialisation and the signing message's layout: a signature is what it
  signs, and verification compares that.
* Time in milliseconds and the conversion between wall clock and `Instant`; one clock ticks
  for all, and it never steps back.
* Power loss: `FilePersistence` renames without `fsync` and reads an empty file as an empty
  store. The model's crash is that of the process.
* A snapshot that cannot be serialised, and files of older versions (`submitted` without
  `submitted_at_ms`).
* In the operators' model: `dry_run`, direct (unaggregated) submission, errors before the
  first request (no operators registered, signing fails), `poll_close` of the Sink and
  discovery of services.
* Gossip: the network below it; more than two messages of a faulty participant (model checking
  only, the proofs have no bound).
* Runner: builder and configuration, what a job function does, decoding of logs, reorganisations
  of the chain.
* Upgrades: the files of `LocalAuthzStore`, history and cached policies; the loss of
  `UpgradeState` in a restart; duplicate requests for the same swap are taken as discarded; reading
  the effective version and recording it are one step of `RecordStarted`; registration
  mode and `OperatorPreRegistered`.
* Payments: amounts, tokens and networks, malformed headers, and the routes that change
  nothing; the header the x402 middleware adds is external.
* The components marked `not_modelled` in `PROJECT.json`, with the reasons there. They are most
  of the repository's lines: the command line, cloud providers, function services and their
  HTTP clients, the pricing arithmetic, cryptography, process and container runtimes, macros,
  templates and tests are sequential code or I/O with next to no state of their own. A model
  of them would restate the code, so the models cover a small share of the lines and
  those in which concurrency and failure decide.

## Plan

Done: `Threshold`, `AggregationService` with `AtomicTasks`, `AggregatingOperators`,
`QuorumRules`, `AggSigGossip`, `TangleProducer`, `BlueprintRunner`, `UpgradePipeline`,
`PaymentGateway`, their runs, and the theorems above. Left, in this order:

1. Proofs: that the services of `AggregatingOperators` are what `AggregationService`
   refines to; a bound on the number of swaps queued when more services are tracked than the
   channel has room for.
2. TEE key exchange sessions: expiry, single use and the session table at its limit.
3. Handshake and bans of peers in `crates/networking`.
4. Access tokens of `crates/auth` and the quotes of the pricing engine, as far as they keep state.
